---------------------------- MODULE YjsRoomProofs ----------------------------
(***************************************************************************)
(* The documents of a room, proved for any number of sockets, handlers,    *)
(* edits and documents, and for every choice of what may go wrong.         *)
(***************************************************************************)
EXTENDS YjsRoom, FiniteSetTheorems, TLAPS

\* There is one creator at a time, and only while there is no entry.
LockInv ==
    \A d \in Docs :
      /\ \A c, e \in creators[d] : c = e
      /\ creators[d] # {} => roomOf[d] = NoEntry
      /\ \A c \in creators[d] : ChannelOf[c] = d

\* Every creation under way has a Y.Doc left.
BudgetInv ==
    made + Cardinality(creators["collab"])
         + Cardinality(creators["whiteboard"]) <= MaxObjects

\* Nothing of the document is on its way to the store.
Idle(n) == inflight[n] = {} /\ ~TimerPending(n)

\* Entries are of the document they are published for, and only a published
\* document, or one whose room was collected in use, has a timer or a write in
\* flight.
EntryInv ==
    /\ \A d \in Docs : roomOf[d] # NoEntry =>
         roomOf[d] <= made /\ y[roomOf[d]].kind = d
    /\ \A n \in Objects : n > made => Idle(n)
    /\ \A n \in Objects : Live(n) \/ y[n].kind \in cut \/ Idle(n)

\* Whoever holds an entry, a socket that the server has lost included, holds
\* the published one, or is a handler from whom it was collected; a socket is
\* counted in it.
WiredInv ==
    \A c \in Callers :
      /\ pc[c] \in {"on", "flush"} => wired[c] # NoEntry
      /\ wired[c] # NoEntry =>
           /\ wired[c] <= made
           /\ y[wired[c]].kind = ChannelOf[c]
           /\ c \in Clients \/ ChannelOf[c] \notin cut =>
                wired[c] = roomOf[ChannelOf[c]]
           /\ c \in Clients => c \in y[wired[c]].clients

\* RoomExtendsStore, for the writes of the published document alone.
ExtendsInv ==
    \A d \in Docs \ (faulted \cup cut) : roomOf[d] # NoEntry =>
      /\ stored[d] \subseteq y[roomOf[d]].content
      /\ \A w \in inflight[roomOf[d]] : w \subseteq y[roomOf[d]].content

RoomInv == TypeOK /\ LockInv /\ BudgetInv /\ EntryInv /\ WiredInv /\ ExtendsInv

LEMMA BlankEntry ==
  /\ Blank \in Entry /\ Blank.persistTimer = 0 /\ Blank.content = {}
  /\ Blank.clients = {} /\ Blank.kind = "collab"
  BY RoomAssumption DEF Blank, Entry, Docs

LEMMA RoomStarts == Init => RoomInv
<1> SUFFICES ASSUME Init PROVE RoomInv
  OBVIOUS
<1> USE RoomAssumption DEF Init
<1>1. TypeOK
  BY BlankEntry DEF TypeOK, NoEntry, Docs, Callers
<1>2. LockInv /\ WiredInv /\ ExtendsInv
  BY DEF LockInv, WiredInv, ExtendsInv, NoEntry
<1>3. EntryInv
  <2>1. \A n \in Objects : Idle(n)
    BY BlankEntry DEF Idle, TimerPending, Objects
  <2> QED BY <2>1 DEF EntryInv, NoEntry
<1>4. BudgetInv
  BY FS_EmptySet DEF BudgetInv, Docs
<1> QED BY <1>1, <1>2, <1>3, <1>4 DEF RoomInv

LEMMA Ranges ==
  ASSUME RoomInv
  PROVE  /\ \A d \in Docs : roomOf[d] # NoEntry => roomOf[d] \in Objects
         /\ \A o \in Objects :
              /\ y[o] \in Entry /\ y[o].kind \in Docs
              /\ y[o].content \in SUBSET Updates
              /\ y[o].persistTimer # 0 => y[o].persistTimer \in Objects
              /\ o # NoEntry /\ o \in Nat
              /\ inflight[o] \in SUBSET SUBSET Updates
         /\ made \in Nat /\ MaxObjects \in Nat
         /\ y \in [Objects -> Entry]
  BY RoomAssumption DEF RoomInv, TypeOK, Entry, Objects, NoEntry

LEMMA Published ==
  ASSUME RoomInv, NEW c \in Callers, wired[c] # NoEntry
  PROVE  /\ wired[c] \in Objects /\ wired[c] <= made
         /\ ChannelOf[c] \in Docs
         /\ y[wired[c]] \in Entry
         /\ y[wired[c]].kind = ChannelOf[c]
         /\ c \in Clients \/ ChannelOf[c] \notin cut =>
              wired[c] = roomOf[ChannelOf[c]] /\ Live(wired[c])
  BY RoomAssumption DEF RoomInv, TypeOK, WiredInv, NoEntry, Objects, Live

\* What is being written of a document that was never collected in use is of
\* its published Y.Doc.
LEMMA LiveWrites ==
  ASSUME RoomInv, NEW d \in Docs, d \notin cut
  PROVE  /\ roomOf[d] # NoEntry => Writes(d) = inflight[roomOf[d]]
         /\ roomOf[d] = NoEntry => Writes(d) = {}
<1>1. ASSUME NEW n \in Objects, y[n].kind = d, n # roomOf[d]
      PROVE  inflight[n] = {}
  BY <1>1 DEF RoomInv, EntryInv, Live, Idle
<1>2. roomOf[d] # NoEntry => roomOf[d] \in Objects /\ y[roomOf[d]].kind = d
  BY Ranges DEF RoomInv, EntryInv
<1>3. ASSUME NEW w \in Writes(d)
      PROVE  roomOf[d] # NoEntry /\ w \in inflight[roomOf[d]]
  <2>1. \E n \in Objects : y[n].kind = d /\ w \in inflight[n]
    BY <1>3 DEF Writes
  <2>2. PICK n \in Objects : y[n].kind = d /\ w \in inflight[n]
    BY <2>1
  <2> QED BY <1>1, <2>2, Ranges
<1>4. roomOf[d] # NoEntry => inflight[roomOf[d]] \subseteq Writes(d)
  BY <1>2 DEF Writes
<1> QED BY <1>3, <1>4

LEMMA ExtendsStore == RoomInv => RoomExtendsStore
  BY LiveWrites DEF RoomInv, ExtendsInv, RoomExtendsStore
-----------------------------------------------------------------------------
\* Entries that differ from the present ones in what document n holds.
Widened(entries, n) ==
    /\ entries \in [Objects -> Entry]
    /\ \A o \in Objects :
         /\ entries[o].kind = y[o].kind
         /\ entries[o].clients = y[o].clients
         /\ entries[o].gcTimer = y[o].gcTimer
         /\ y[o].content \subseteq entries[o].content
         /\ o # n => entries[o].content = y[o].content
         /\ entries[o].persistTimer = y[o].persistTimer

\* What an edit of document n leaves of the entries: their kinds, clients and
\* collection timers, all contents but n's, which grows, and every persist
\* timer that is not n's now.
Grown(n) ==
    /\ y' \in [Objects -> Entry]
    /\ \A o \in Objects :
         /\ y'[o].kind = y[o].kind
         /\ y'[o].clients = y[o].clients
         /\ y'[o].gcTimer = y[o].gcTimer
         /\ y[o].content \subseteq y'[o].content
         /\ o # n => y'[o].content = y[o].content
         /\ y'[o].persistTimer \in {y[o].persistTimer, n}

LEMMA ClientWidens ==
  ASSUME TypeOK, NEW n \in Objects, NEW updates \in SUBSET Updates
  PROVE  Widened([y EXCEPT ![n].content = @ \cup updates], n)
<1>1. y \in [Objects -> Entry]
  BY DEF TypeOK
<1> QED BY <1>1 DEF Widened, Entry

LEMMA IntegrateWidens ==
  ASSUME TypeOK, NEW n \in Objects, NEW updates \in SUBSET Updates, NEW origin
  PROVE  Widened([y EXCEPT ![n].content = @ \cup updates,
                           ![n].touched = Touched(n, origin)], n)
<1>1. y \in [Objects -> Entry] /\ y[n] \in Entry
  BY DEF TypeOK
<1>2. Touched(n, origin) \in BOOLEAN
  BY <1>1 DEF Touched, Entry
<1> QED BY <1>1, <1>2 DEF Widened, Entry

LEMMA WidenedGrows ==
  ASSUME NEW n \in Objects, NEW entries, Widened(entries, n), y' = entries
  PROVE  Grown(n)
  BY DEF Widened, Grown

LEMMA EditGrows ==
  ASSUME TypeOK, NEW n \in Objects, NEW grown, Widened(grown, n),
         y' = SchedulePersist(grown, n)
  PROVE  Grown(n)
<1>1. y \in [Objects -> Entry] /\ TimerOwner \in 0 .. MaxObjects
  BY RoomAssumption DEF TypeOK, TimerOwner, Docs
<1>2. CASE TimerOwner = NoEntry
  BY <1>2, WidenedGrows DEF SchedulePersist
<1>3. CASE TimerOwner # NoEntry
  <2>1. TimerOwner \in Objects /\ n \in 0 .. MaxObjects
    BY <1>1, <1>3, RoomAssumption DEF NoEntry, Objects
  <2>2. y' = [grown EXCEPT ![TimerOwner].persistTimer = n]
        /\ grown \in [Objects -> Entry]
    BY <1>3 DEF SchedulePersist, Widened
  <2>3. \A o \in Objects :
          /\ o # TimerOwner => y'[o] = grown[o]
          /\ o = TimerOwner => y'[o] = [grown[o] EXCEPT !.persistTimer = n]
    BY <2>1, <2>2
  <2>4. ASSUME NEW o \in Objects
        PROVE  /\ y'[o] \in Entry
               /\ y'[o].kind = grown[o].kind /\ y'[o].clients = grown[o].clients
               /\ y'[o].gcTimer = grown[o].gcTimer
               /\ y'[o].content = grown[o].content
               /\ y'[o].persistTimer \in {grown[o].persistTimer, n}
    <3>1. grown[o] \in Entry
      BY <2>2
    <3>2. CASE o = TimerOwner
      BY <2>1, <2>3, <3>1, <3>2, ZenonT(30) DEF Entry
    <3>3. CASE o # TimerOwner
      BY <2>3, <3>1, <3>3
    <3> QED BY <3>2, <3>3
  <2>5. y' \in [Objects -> Entry]
    BY <2>2, <2>4
  <2> QED BY <2>4, <2>5 DEF Grown, Widened
<1> QED BY <1>2, <1>3

\* An edit of a document keeps the invariant of the room, whoever makes it.
LEMMA EditKeeps ==
  ASSUME RoomInv, NEW n \in Objects, Grown(n), n <= made,
         Live(n) \/ y[n].kind \in cut,
         UNCHANGED <<storage, roomOf, creators, made, faulted, cut>>,
         TypeOK',
         \A c \in Callers :
           /\ wired'[c] = wired[c]
           /\ pc'[c] \in {"on", "flush"} => pc[c] \in {"on", "flush"}
  PROVE  RoomInv'
<1>1. LockInv' /\ BudgetInv'
  BY DEF RoomInv, LockInv, BudgetInv
<1>2. \A o \in Objects : o # n /\ Idle(o) => Idle(o)'
  BY DEF Idle, TimerPending, Grown, storage
<1>3. EntryInv'
  <2>1. \A o \in Objects : Live(o)' = Live(o)
    BY DEF Live, Grown
  <2>2. \A o \in Objects : o > made => o # n
    BY Ranges
  <2> QED BY <1>2, <2>1, <2>2, Ranges DEF RoomInv, EntryInv, Grown
<1>4. WiredInv'
  BY Published DEF RoomInv, WiredInv, Grown
<1>5. ExtendsInv'
  BY Ranges DEF RoomInv, ExtendsInv, Grown, storage
<1> QED BY <1>1, <1>3, <1>4, <1>5 DEF RoomInv
-----------------------------------------------------------------------------
LEMMA JoinedEntry ==
  ASSUME NEW entry \in Entry, NEW callers
  PROVE  LET e == Joined(entry, callers)
         IN  /\ e \in Entry
             /\ e.kind = entry.kind /\ e.content = entry.content
             /\ e.persistTimer = entry.persistTimer
             /\ e.clients = entry.clients \cup (callers \cap Clients)
             /\ e.gcTimer = (entry.gcTimer /\ callers \cap Clients = {})
  BY DEF Joined, Entry

\* Steps that leave kinds, contents and persist timers of the entries alone,
\* take no client out of them, and no document from its room.
LEMMA EntriesKeep ==
  ASSUME RoomInv, UNCHANGED <<inflight, roomOf, made, cut, stored, faulted>>,
         \A o \in Objects :
           /\ y'[o].kind = y[o].kind /\ y'[o].content = y[o].content
           /\ y'[o].persistTimer = y[o].persistTimer
  PROVE  EntryInv' /\ ExtendsInv'
<1>1. \A o \in Objects : Live(o)' = Live(o) /\ Idle(o)' = Idle(o)
  BY DEF Live, Idle, TimerPending
<1> QED BY <1>1, Ranges DEF RoomInv, EntryInv, ExtendsInv

LEMMA GetOrCreateStep ==
  ASSUME RoomInv, NEW c \in Callers, GetOrCreate(c)
  PROVE  RoomInv'
<1> DEFINE d == ChannelOf[c]
<1>0. /\ d \in Docs /\ roomOf[d] \in 0 .. MaxObjects /\ MaxObjects \in Nat
      /\ pc[c] = "off"
      /\ UNCHANGED <<stored, inflight, roomOf, made, replica, used, faulted, cut>>
      /\ asking' \in [Clients -> BOOLEAN]
  BY RoomAssumption DEF GetOrCreate, RoomInv, TypeOK
<1>1. CASE roomOf[d] # NoEntry
  <2> DEFINE n == roomOf[d]
  <2>1. /\ y' = [y EXCEPT ![n] = Joined(y[n], {c})]
        /\ wired' = [wired EXCEPT ![c] = n]
        /\ pc' = [pc EXCEPT ![c] = "on"]
        /\ answering' \in [Clients -> BOOLEAN]
        /\ UNCHANGED creators
    BY <1>1 DEF GetOrCreate, RoomInv, TypeOK
  <2>2. n \in Objects /\ y \in [Objects -> Entry] /\ y[n] \in Entry
    BY <1>0, <1>1 DEF RoomInv, TypeOK, NoEntry, Objects
  <2>3. LET e == y'[n]
        IN  /\ e \in Entry /\ e.kind = y[n].kind /\ e.content = y[n].content
            /\ e.persistTimer = y[n].persistTimer
            /\ e.clients = y[n].clients \cup ({c} \cap Clients)
    BY <2>1, <2>2, JoinedEntry
  <2>4. y' \in [Objects -> Entry] /\ \A o \in Objects \ {n} : y'[o] = y[o]
    BY <2>1, <2>2, <2>3
  <2>5. TypeOK'
    BY <1>0, <2>1, <2>4 DEF RoomInv, TypeOK
  <2>6. \A o \in Objects :
          /\ y'[o].kind = y[o].kind /\ y'[o].content = y[o].content
          /\ y'[o].persistTimer = y[o].persistTimer
          /\ y[o].clients \subseteq y'[o].clients
    BY <2>3, <2>4
  <2>7. LockInv' /\ BudgetInv'
    BY <1>0, <2>1 DEF RoomInv, LockInv, BudgetInv
  <2>8. EntryInv' /\ ExtendsInv'
    BY <1>0, <2>6, EntriesKeep
  <2>9. WiredInv'
    <3>1. wired' \in [Callers -> 0 .. MaxObjects] /\ wired \in [Callers -> 0 .. MaxObjects]
          /\ pc \in [Callers -> {"off", "getting", "lost", "on", "flush"}]
      BY <2>5 DEF RoomInv, TypeOK
    <3>2. ASSUME NEW x \in Callers, x # c, wired'[x] # NoEntry
          PROVE  /\ wired'[x] <= made' /\ y'[wired'[x]].kind = ChannelOf[x]
                 /\ x \in Clients \/ ChannelOf[x] \notin cut' =>
                      wired'[x] = roomOf'[ChannelOf[x]]
                 /\ x \in Clients => x \in y'[wired'[x]].clients
      <4>1. wired'[x] = wired[x] /\ wired[x] \in Objects
        BY <2>1, <3>1, <3>2, Published
      <4>2. x \in Clients => x \in y[wired[x]].clients
        BY <4>1, <3>2 DEF RoomInv, WiredInv
      <4> QED BY <1>0, <2>6, <3>2, <4>1, <4>2, Published
    <3>3. /\ wired'[c] = n /\ n <= made' /\ y'[n].kind = d
          /\ c \in Clients => c \in y'[n].clients
      BY <1>0, <1>1, <2>1, <2>3, <3>1 DEF RoomInv, EntryInv
    <3>4. \A x \in Callers : x # c => pc'[x] = pc[x] /\ wired'[x] = wired[x]
      BY <2>1, <3>1
    <3> QED BY <1>0, <1>1, <3>2, <3>3, <3>4 DEF RoomInv, WiredInv
  <2> QED BY <2>5, <2>7, <2>8, <2>9 DEF RoomInv
<1>2. CASE roomOf[d] = NoEntry
  <2>1. /\ pc' = [pc EXCEPT ![c] = "getting"]
        /\ creators' = IF MustCreate(d) THEN [creators EXCEPT ![d] = @ \cup {c}]
                       ELSE creators
        /\ BudgetInv'
        /\ UNCHANGED <<y, wired, answering>>
    BY <1>0, <1>2 DEF GetOrCreate, BudgetInv
  <2>2. TypeOK'
    BY <1>0, <2>1 DEF RoomInv, TypeOK
  <2>3. LockInv'
    BY <1>0, <1>2, <2>1 DEF RoomInv, TypeOK, LockInv, MustCreate
  <2>4. EntryInv' /\ ExtendsInv'
    BY <1>0, <2>1, EntriesKeep
  <2>5. WiredInv'
    BY <1>0, <2>1 DEF RoomInv, TypeOK, WiredInv
  <2> QED BY <2>1, <2>2, <2>3, <2>4, <2>5 DEF RoomInv
<1> QED BY <1>1, <1>2

\* The creation of document d's entry: nobody is on d before, and the entry
\* comes with no timer and no write.
LEMMA FinishCreateStep ==
  ASSUME RoomInv, NEW c \in Callers, NEW loaded, FinishCreate(c, loaded)
  PROVE  RoomInv'
<1> DEFINE d == ChannelOf[c]
           n == made + 1
           callers == Waiting(d) \cup {c}
           opened == [Blank EXCEPT !.kind = d, !.content = Initial(d, n, loaded)]
<1>0. /\ d \in Docs /\ MaxObjects \in Nat /\ made \in 0 .. MaxObjects
      /\ c \in creators[d] /\ roomOf[d] = NoEntry
      /\ creators[d] = {c}
      /\ UNCHANGED <<stored, inflight, replica, asking, used, cut>>
  BY RoomAssumption DEF FinishCreate, RoomInv, TypeOK, LockInv
<1>1. /\ made' = n
      /\ roomOf' = [roomOf EXCEPT ![d] = n]
      /\ creators' = [creators EXCEPT ![d] = {}]
      /\ y' = [y EXCEPT ![n] = Joined(opened, callers)]
      /\ Wire(callers, n)
      /\ faulted' = IF loaded = stored[d] THEN faulted ELSE faulted \cup {d}
      /\ loaded = stored[d] \/ loaded = {}
  <2>1. creators[d] \ {c} = {}
    BY <1>0
  <2> QED BY <2>1 DEF FinishCreate
<1>2. BudgetInv' /\ n \in Objects
  <2>1. Cardinality(creators[d]) = 1 /\ Cardinality(creators'[d]) = 0
    BY <1>0, <1>1, FS_EmptySet, FS_Singleton DEF RoomInv, TypeOK
  <2>2. \A x \in Docs : Cardinality(creators[x]) \in Nat
    <3>1. ASSUME NEW x \in Docs PROVE Cardinality(creators[x]) \in Nat
      <4>1. CASE creators[x] = {}
        BY <4>1, FS_EmptySet
      <4>2. CASE creators[x] # {}
        <5>1. PICK e \in creators[x] : TRUE
          BY <4>2
        <5>2. creators[x] = {e}
          BY <5>1 DEF RoomInv, LockInv
        <5> QED BY <5>2, FS_Singleton
      <4> QED BY <4>1, <4>2
    <3> QED BY <3>1
  <2>3. \A x \in Docs : x # d => creators'[x] = creators[x]
    BY <1>0, <1>1 DEF RoomInv, TypeOK
  <2>4. CASE d = "collab"
    <3>1. made + 1 + Cardinality(creators["whiteboard"]) <= MaxObjects
      BY <1>0, <2>1, <2>2, <2>4 DEF RoomInv, BudgetInv, Docs
    <3> QED BY <1>0, <1>1, <2>1, <2>2, <2>3, <2>4, <3>1 DEF BudgetInv, Docs, Objects
  <2>5. CASE d = "whiteboard"
    <3>0. /\ Cardinality(creators["whiteboard"]) = 1
          /\ Cardinality(creators["collab"]) \in Nat
      BY <2>1, <2>2, <2>5 DEF Docs
    <3>1. made + 1 + Cardinality(creators["collab"]) <= MaxObjects
      BY <1>0, <3>0 DEF RoomInv, BudgetInv
    <3> QED BY <1>0, <1>1, <2>1, <2>2, <2>3, <2>5, <3>1 DEF BudgetInv, Docs, Objects
  <2> QED BY <1>0, <2>4, <2>5 DEF Docs
<1>3. /\ opened \in Entry /\ opened.persistTimer = 0 /\ opened.kind = d
      /\ loaded \subseteq opened.content
  <2>1. stored[d] \in SUBSET Updates /\ loaded \in SUBSET Updates
    BY <1>0, <1>1 DEF RoomInv, TypeOK
  <2>2. Initial(d, n, loaded) \in SUBSET Updates
        /\ loaded \subseteq Initial(d, n, loaded)
    BY <1>2, <2>1 DEF Initial, Updates
  <2>3. /\ Blank \in Entry /\ Blank.persistTimer = 0
    BY BlankEntry
  <2> QED BY <1>0, <2>2, <2>3 DEF Entry
<1>4. LET e == y'[n]
      IN  /\ e \in Entry /\ e.kind = d /\ e.content = opened.content
          /\ e.persistTimer = 0
          /\ callers \cap Clients \subseteq e.clients
  <2> HIDE DEF opened, callers, n
  <2> QED BY <1>1, <1>2, <1>3, JoinedEntry DEF RoomInv, TypeOK
<1>5. y' \in [Objects -> Entry] /\ \A o \in Objects \ {n} : y'[o] = y[o]
  <2> HIDE DEF opened, callers, n
  <2> QED BY <1>1, <1>2, <1>4 DEF RoomInv, TypeOK
<1> HIDE DEF opened
<1>6. TypeOK'
  <2>1. callers \subseteq Callers
    BY DEF Waiting
  <2>2. /\ wired' \in [Callers -> 0 .. MaxObjects]
        /\ pc' \in [Callers -> {"off", "getting", "lost", "on", "flush"}]
        /\ answering' \in [Clients -> BOOLEAN]
    BY <1>0, <1>1, <1>2 DEF Wire, RoomInv, TypeOK, Objects, Callers
  <2> QED BY <1>0, <1>1, <1>2, <1>5, <2>2 DEF RoomInv, TypeOK, Objects
<1>7. /\ \A x \in Docs : x # d => roomOf'[x] = roomOf[x]
      /\ roomOf'[d] = n
      /\ \A x \in Docs : roomOf[x] # n
  BY <1>0, <1>1, <1>2 DEF RoomInv, TypeOK, EntryInv, NoEntry
<1>8. LockInv'
  BY <1>0, <1>1, <1>7 DEF RoomInv, TypeOK, LockInv
<1>9. EntryInv'
  <2>1. ASSUME NEW x \in Docs, roomOf'[x] # NoEntry
        PROVE  roomOf'[x] <= made' /\ y'[roomOf'[x]].kind = x
    <3>1. CASE x = d
      BY <1>0, <1>1, <1>4, <1>7, <3>1, SMTT(30)
    <3>2. CASE x # d
      BY <1>0, <1>1, <1>5, <1>7, <2>1, <3>2
         DEF RoomInv, TypeOK, EntryInv, NoEntry, Objects
    <3> QED BY <3>1, <3>2
  <2>2. \A o \in Objects : Idle(o) => Idle(o)'
    <3>1. \A x \in Objects : y'[x].persistTimer = y[x].persistTimer \/ y'[x].persistTimer = 0
      BY <1>4, <1>5
    <3> QED BY <1>0, <3>1, Ranges DEF Idle, TimerPending, NoEntry
  <2>3. ASSUME NEW o \in Objects, o > made' PROVE Idle(o)'
    BY <1>0, <1>1, <2>2, <2>3, Ranges DEF RoomInv, EntryInv
  <2>4. ASSUME NEW o \in Objects PROVE Live(o)' \/ y'[o].kind \in cut' \/ Idle(o)'
    <3>1. CASE o = n
      BY <1>4, <1>7, <3>1 DEF Live
    <3>2. CASE o # n /\ y[o].kind = d
      BY <1>0, <1>5, <2>2, <3>2, Ranges DEF RoomInv, EntryInv, Live
    <3>3. CASE o # n /\ y[o].kind # d
      BY <1>0, <1>5, <1>7, <2>2, <3>3, Ranges DEF RoomInv, EntryInv, Live
    <3> QED BY <3>1, <3>2, <3>3
  <2> QED BY <2>1, <2>3, <2>4 DEF EntryInv
<1>10. WiredInv'
  <2>1. ASSUME NEW x \in Callers, x \in callers
        PROVE  wired'[x] = n /\ ChannelOf[x] = d
               /\ (x \in Clients => x \in y'[n].clients)
    BY <1>0, <1>1, <1>4, <2>1 DEF Wire, Waiting
  <2>2. ASSUME NEW x \in Callers, x \notin callers
        PROVE  wired'[x] = wired[x] /\ pc'[x] = pc[x]
    BY <1>1, <2>2 DEF Wire
  <2>3. ASSUME NEW x \in Callers, wired'[x] # NoEntry
        PROVE  /\ wired'[x] <= made'
               /\ y'[wired'[x]].kind = ChannelOf[x]
               /\ x \in Clients \/ ChannelOf[x] \notin cut' =>
                    wired'[x] = roomOf'[ChannelOf[x]]
               /\ x \in Clients => x \in y'[wired'[x]].clients
    <3>1. CASE x \in callers
      <4>1. n <= made'
        BY <1>0, <1>1
      <4>3. y'[n].kind = d /\ roomOf'[d] = n
        <5> HIDE DEF n, d, callers
        <5> QED BY <1>4, <1>7
      <4>2. wired'[x] = n /\ ChannelOf[x] = d /\ (x \in Clients => x \in y'[n].clients)
        BY <2>1, <3>1
      <4> HIDE DEF n, d, callers
      <4> QED BY <4>1, <4>2, <4>3
    <3>2. CASE x \notin callers
      <4>1. /\ wired'[x] = wired[x] /\ wired[x] # NoEntry
            /\ wired[x] \in Objects /\ wired[x] <= made /\ wired[x] # n
        BY <1>0, <2>2, <2>3, <3>2, Published DEF Objects
      <4>2. /\ y'[wired[x]] = y[wired[x]] /\ wired[x] <= made'
        BY <1>0, <1>1, <1>5, <4>1, Ranges
      <4>3. /\ y[wired[x]].kind = ChannelOf[x]
            /\ x \in Clients => x \in y[wired[x]].clients
            /\ x \in Clients \/ ChannelOf[x] \notin cut =>
                 wired[x] = roomOf[ChannelOf[x]]
            /\ ChannelOf[x] \in Docs
        BY <4>1, Published DEF RoomInv, WiredInv
      <4>4. ChannelOf[x] = d => ~(x \in Clients \/ ChannelOf[x] \notin cut)
        BY <1>0, <4>1, <4>3
      <4> QED BY <1>0, <1>7, <4>1, <4>2, <4>3, <4>4
    <3> QED BY <3>1, <3>2
  <2>4. ASSUME NEW x \in Callers, pc'[x] \in {"on", "flush"}
        PROVE  wired'[x] # NoEntry
    BY <1>2, <2>1, <2>2, <2>4 DEF RoomInv, WiredInv, Objects, NoEntry
  <2> QED BY <2>3, <2>4 DEF WiredInv
<1>11. ExtendsInv'
  <2>1. ASSUME NEW x \in Docs \ (faulted' \cup cut'), roomOf'[x] # NoEntry
        PROVE  /\ stored'[x] \subseteq y'[roomOf'[x]].content
               /\ \A w \in inflight'[roomOf'[x]] : w \subseteq y'[roomOf'[x]].content
    <3>1. CASE x = d
      <4>1. inflight[n] = {}
        BY <1>0, <1>2, Ranges DEF RoomInv, EntryInv, Idle
      <4>2. stored[d] \subseteq opened.content
        BY <1>1, <1>3, <2>1, <3>1
      <4> QED BY <1>0, <1>4, <1>7, <3>1, <4>1, <4>2
    <3>2. CASE x # d
      <4>1. roomOf'[x] = roomOf[x] /\ roomOf[x] # n /\ roomOf[x] \in Objects
            /\ x \notin faulted \cup cut
        BY <1>0, <1>1, <1>7, <2>1, <3>2, Ranges
      <4> QED BY <1>0, <1>5, <2>1, <4>1 DEF RoomInv, ExtendsInv
    <3> QED BY <3>1, <3>2
  <2> QED BY <2>1 DEF ExtendsInv
<1> QED BY <1>2, <1>6, <1>8, <1>9, <1>10, <1>11 DEF RoomInv
-----------------------------------------------------------------------------
LEMMA ClientEditStep ==
  ASSUME RoomInv, NEW c \in Clients, NEW e \in Edits, ClientEdit(c, e)
  PROVE  RoomInv'
<1>0. c \in Callers /\ e \in Updates
  BY DEF Callers, Updates
<1>1. CASE Open(c)
  <2> DEFINE n == wired[c]
             grown == [y EXCEPT ![n].content = @ \cup {e}]
  <2>1. n \in Objects /\ n <= made /\ Live(n)
    BY <1>0, <1>1, Published DEF RoomInv, WiredInv, Open
  <2>2. y' = SchedulePersist(grown, n)
    BY <1>1 DEF ClientEdit
  <2>3. Grown(n)
    <3>1. Widened(grown, n)
      BY <1>0, <2>1, ClientWidens, ZenonT(30) DEF RoomInv
    <3> HIDE DEF grown, n
    <3> QED BY <2>1, <2>2, <3>1, EditGrows DEF RoomInv
  <2>4. replica' = [x \in Clients |-> IF x = c \/ x \in Recipients(n, c)
                                     THEN replica[x] \cup {e} ELSE replica[x]]
    BY <1>1 DEF ClientEdit
  <2>5. replica' \in [Clients -> SUBSET Updates]
    BY <1>0, <2>4 DEF RoomInv, TypeOK
  <2>6. y' \in [Objects -> Entry] /\ used' = used \cup {e}
        /\ UNCHANGED <<stored, inflight, roomOf, creators, made, pc, wired,
                       asking, answering, faulted, cut>>
    BY <2>3 DEF Grown, ClientEdit
  <2>7. TypeOK'
    BY <2>5, <2>6 DEF RoomInv, TypeOK
  <2> QED BY <2>1, <2>3, <2>6, <2>7, EditKeeps DEF storage
<1>2. CASE ~Open(c)
  <2>1. UNCHANGED <<stored, inflight, roomOf, creators, y, made, pc, wired,
                    asking, answering, faulted, cut>>
    BY <1>2 DEF ClientEdit
  <2>2. TypeOK'
    BY <1>0, <1>2, <2>1 DEF ClientEdit, RoomInv, TypeOK
  <2>3. EntryInv' /\ ExtendsInv'
    BY <2>1, EntriesKeep
  <2> QED BY <2>1, <2>2, <2>3 DEF RoomInv, LockInv, BudgetInv, WiredInv
<1> QED BY <1>1, <1>2

\* Integrate, called by a socket's message or by a handler, whose document may
\* have been collected.
LEMMA IntegrateKeeps ==
  ASSUME RoomInv, NEW n \in Objects, NEW updates \in SUBSET Updates, NEW origin,
         Integrate(n, updates, origin), n <= made, Live(n) \/ y[n].kind \in cut,
         UNCHANGED <<storage, roomOf, creators, made, wired, asking, faulted, cut>>,
         pc' \in [Callers -> {"off", "getting", "lost", "on", "flush"}],
         answering' \in [Clients -> BOOLEAN], used' \in SUBSET Edits,
         \A c \in Callers :
           pc'[c] \in {"on", "flush"} => pc[c] \in {"on", "flush"}
  PROVE  RoomInv'
<1>1. CASE updates \ y[n].content = {}
  <2>1. UNCHANGED <<y, replica>>
    BY <1>1 DEF Integrate
  <2>2. TypeOK'
    BY <2>1 DEF RoomInv, TypeOK, storage
  <2>3. EntryInv' /\ ExtendsInv'
    BY <2>1, EntriesKeep DEF storage
  <2> QED BY <2>1, <2>2, <2>3 DEF RoomInv, LockInv, BudgetInv, WiredInv
<1>2. CASE updates \ y[n].content # {}
  <2> DEFINE fresh == updates \ y[n].content
             grown == [y EXCEPT ![n].content = @ \cup fresh,
                                ![n].touched = Touched(n, origin)]
  <2>1. y' = (IF Live(n) THEN SchedulePersist(grown, n) ELSE grown)
        /\ replica' = [c \in Clients |-> IF c \in Recipients(n, origin)
                                         THEN replica[c] \cup fresh
                                         ELSE replica[c]]
    BY <1>2 DEF Integrate
  <2>2. Grown(n)
    <3>1. Widened(grown, n)
      BY IntegrateWidens DEF RoomInv
    <3> HIDE DEF grown
    <3> QED BY <2>1, <3>1, EditGrows, WidenedGrows DEF RoomInv
  <2>3. TypeOK'
    BY <2>1, <2>2 DEF Grown, RoomInv, TypeOK, storage
  <2> QED BY <2>2, <2>3, EditKeeps
<1> QED BY <1>1, <1>2

LEMMA ReceiveStep2Step ==
  ASSUME RoomInv, NEW c \in Clients, ReceiveStep2(c)
  PROVE  RoomInv'
<1>1. c \in Callers /\ wired[c] # NoEntry
  BY DEF ReceiveStep2, Open, RoomInv, WiredInv, Callers
<1>2. wired[c] \in Objects /\ wired[c] <= made /\ Live(wired[c])
  BY <1>1, Published
<1>3. replica[c] \in SUBSET Updates /\ answering' \in [Clients -> BOOLEAN]
      /\ pc' \in [Callers -> {"off", "getting", "lost", "on", "flush"}]
      /\ used' \in SUBSET Edits
  BY DEF ReceiveStep2, RoomInv, TypeOK
<1> QED BY <1>2, <1>3, IntegrateKeeps DEF ReceiveStep2, storage

LEMMA HandlerEditStep ==
  ASSUME RoomInv, NEW h \in Handlers, NEW e \in Edits, HandlerEdit(h, e)
  PROVE  RoomInv'
<1>1. h \in Callers /\ wired[h] # NoEntry /\ pc[h] = "on"
  BY DEF HandlerEdit, Open, RoomInv, WiredInv, Callers
<1>2. /\ wired[h] \in Objects /\ wired[h] <= made
      /\ Live(wired[h]) \/ y[wired[h]].kind \in cut
  BY <1>1, Published
<1>3. /\ {e} \in SUBSET Updates /\ used' \in SUBSET Edits
      /\ answering' \in [Clients -> BOOLEAN]
      /\ pc' \in [Callers -> {"off", "getting", "lost", "on", "flush"}]
      /\ \A x \in Callers :
           pc'[x] \in {"on", "flush"} => pc[x] \in {"on", "flush"}
  BY <1>1 DEF HandlerEdit, RoomInv, TypeOK, Updates
<1> QED BY <1>2, <1>3, IntegrateKeeps DEF HandlerEdit, storage
-----------------------------------------------------------------------------
\* Steps that change no entry and no document: a socket that closes early, a
\* first step, a handler that gives up.
LEMMA CallerKeeps ==
  ASSUME RoomInv, TypeOK',
         UNCHANGED <<stored, inflight, roomOf, creators, y, made, faulted, cut>>,
         \A c \in Callers :
           /\ wired'[c] \in {wired[c], NoEntry}
           /\ pc'[c] \in {"on", "flush"} =>
                wired'[c] = wired[c] /\ pc[c] \in {"on", "flush"}
  PROVE  RoomInv'
<1>1. EntryInv' /\ ExtendsInv'
  BY EntriesKeep
<1>2. WiredInv'
  BY DEF RoomInv, WiredInv
<1> QED BY <1>1, <1>2 DEF RoomInv, LockInv, BudgetInv

LEMMA DropEarlyStep ==
  ASSUME RoomInv, NEW c \in Clients, DropEarly(c) PROVE RoomInv'
<1>1. TypeOK'
  BY DEF DropEarly, RoomInv, TypeOK
<1>2. \A x \in Callers : /\ wired'[x] = wired[x]
                         /\ pc'[x] \in {"on", "flush"} => pc[x] = pc'[x]
  BY DEF DropEarly, RoomInv, TypeOK
<1> QED BY <1>1, <1>2, CallerKeeps DEF DropEarly

LEMMA ReceiveStep1Step ==
  ASSUME RoomInv, NEW c \in Clients, ReceiveStep1(c) PROVE RoomInv'
<1>0. c \in Callers
  BY DEF Callers
<1>1. Open(c) => y[wired[c]].content \in SUBSET Updates
  BY <1>0, Published DEF Open, RoomInv, WiredInv, Entry
<1>2. TypeOK'
  BY <1>1 DEF ReceiveStep1, RoomInv, TypeOK
<1> QED BY <1>2, CallerKeeps DEF ReceiveStep1

\* A handler lets go of its document.
LEMMA LetsGo ==
  ASSUME RoomInv, NEW h \in Handlers,
         pc' = [pc EXCEPT ![h] = "off"], wired' = [wired EXCEPT ![h] = NoEntry]
  PROVE  /\ pc' \in [Callers -> {"off", "getting", "lost", "on", "flush"}]
         /\ wired' \in [Callers -> 0 .. MaxObjects]
         /\ \A x \in Callers :
              /\ wired'[x] \in {wired[x], NoEntry}
              /\ pc'[x] \in {"on", "flush"} =>
                   wired'[x] = wired[x] /\ pc[x] \in {"on", "flush"}
<1>1. 0 \in 0 .. MaxObjects /\ h \in Callers
  BY RoomAssumption DEF Callers
<1>2. pc \in [Callers -> {"off", "getting", "lost", "on", "flush"}]
      /\ wired \in [Callers -> 0 .. MaxObjects]
  BY DEF RoomInv, TypeOK
<1> QED BY <1>1, <1>2 DEF NoEntry

LEMMA HandlerFailStep ==
  ASSUME RoomInv, NEW h \in Handlers, HandlerFail(h) PROVE RoomInv'
<1>1. UNCHANGED <<stored, inflight, roomOf, creators, y, made, replica,
                  asking, answering, used, faulted, cut>>
  BY DEF HandlerFail, storage, peer
<1>2. TypeOK'
  BY <1>1, LetsGo DEF HandlerFail, RoomInv, TypeOK
<1> QED BY <1>1, <1>2, LetsGo, CallerKeeps DEF HandlerFail

LEMMA CloseStep ==
  ASSUME RoomInv, NEW c \in Clients, Close(c) PROVE RoomInv'
<1> DEFINE n == wired[c]
<1>1. /\ c \in Callers /\ n \in Objects /\ n # NoEntry /\ y[n] \in Entry
      /\ MaxObjects \in Nat
  BY RoomAssumption, Published DEF Close, Open, RoomInv, WiredInv, Callers
<1>2. LET e == Left(y[n], c)
      IN  /\ e \in Entry /\ e.kind = y[n].kind /\ e.content = y[n].content
          /\ e.persistTimer = y[n].persistTimer
          /\ e.clients = y[n].clients \ {c}
  BY <1>1 DEF Left, Entry
<1>3. y' = [y EXCEPT ![n] = Left(y[n], c)]
  BY DEF Close
<1>4. /\ y' \in [Objects -> Entry]
      /\ \A o \in Objects :
           /\ y'[o].kind = y[o].kind /\ y'[o].content = y[o].content
           /\ y'[o].persistTimer = y[o].persistTimer
           /\ y[o].clients \ {c} \subseteq y'[o].clients
  BY <1>1, <1>2, <1>3 DEF RoomInv, TypeOK
<1>5. TypeOK'
  BY <1>1, <1>4 DEF Close, RoomInv, TypeOK, NoEntry
<1>6. LockInv' /\ BudgetInv'
  BY DEF Close, RoomInv, LockInv, BudgetInv
<1>7. EntryInv' /\ ExtendsInv'
  BY <1>4, EntriesKeep DEF Close
<1>8. WiredInv'
  <2>1. ASSUME NEW x \in Callers, x # c
        PROVE  wired'[x] = wired[x] /\ pc'[x] = pc[x]
    BY <2>1 DEF Close, RoomInv, TypeOK
  <2>2. wired'[c] = NoEntry /\ pc'[c] = "off"
    BY <1>1 DEF Close, RoomInv, TypeOK
  <2>3. ASSUME NEW x \in Callers, x # c, wired[x] # NoEntry
        PROVE  /\ x \in Clients => x \in y'[wired[x]].clients
               /\ y'[wired[x]].kind = ChannelOf[x]
    BY <1>4, <2>3, Published DEF RoomInv, WiredInv
  <2> QED BY <2>1, <2>2, <2>3 DEF Close, RoomInv, WiredInv
<1> QED BY <1>5, <1>6, <1>7, <1>8 DEF RoomInv
-----------------------------------------------------------------------------
\* persistRoomDocNow of a published document, or of one that was collected.
LEMMA PersistKeeps ==
  ASSUME RoomInv, NEW n \in Objects, n <= made, Live(n) \/ y[n].kind \in cut,
         PersistRoomDocNow(n), TypeOK', WiredInv',
         UNCHANGED <<stored, roomOf, creators, made, faulted, cut>>,
         \A o \in Objects :
           /\ y'[o].kind = y[o].kind /\ y'[o].content = y[o].content
           /\ y'[o].persistTimer \in {y[o].persistTimer, 0}
  PROVE  RoomInv'
<1>1. LockInv' /\ BudgetInv'
  BY DEF RoomInv, LockInv, BudgetInv
<1>2. /\ inflight'[n] = inflight[n] \cup {y[n].content}
      /\ \A o \in Objects : o # n => inflight'[o] = inflight[o]
  BY DEF PersistRoomDocNow, RoomInv, TypeOK
<1>3. ASSUME NEW o \in Objects, o # n, Idle(o) PROVE Idle(o)'
  BY <1>2, <1>3, Ranges DEF Idle, TimerPending, NoEntry
<1>4. EntryInv'
  <2>1. \A o \in Objects : Live(o)' = Live(o)
    BY DEF Live
  <2>2. \A o \in Objects : o > made => o # n
    BY Ranges
  <2> QED BY <1>3, <2>1, <2>2, Ranges DEF RoomInv, EntryInv
<1>5. ExtendsInv'
  <2>1. ASSUME NEW d \in Docs \ (faulted \cup cut), roomOf[d] # NoEntry
        PROVE  /\ stored[d] \subseteq y'[roomOf[d]].content
               /\ \A w \in inflight'[roomOf[d]] : w \subseteq y'[roomOf[d]].content
    <3>1. /\ roomOf[d] \in Objects /\ stored[d] \subseteq y[roomOf[d]].content
          /\ \A w \in inflight[roomOf[d]] : w \subseteq y[roomOf[d]].content
      BY <2>1, Ranges DEF RoomInv, ExtendsInv
    <3>2. y'[roomOf[d]].content = y[roomOf[d]].content
      BY <3>1
    <3>3. \A w \in inflight'[roomOf[d]] :
            w \in inflight[roomOf[d]] \/ w = y[roomOf[d]].content
      BY <1>2, <3>1
    <3> QED BY <3>1, <3>2, <3>3
  <2> QED BY <2>1 DEF ExtendsInv
<1> QED BY <1>1, <1>4, <1>5 DEF RoomInv

LEMMA PersistTyped ==
  ASSUME RoomInv, NEW n \in Objects, PersistRoomDocNow(n)
  PROVE  inflight' \in [Objects -> SUBSET SUBSET Updates]
  BY Ranges DEF PersistRoomDocNow, RoomInv, TypeOK

LEMMA HandlerFlushStep ==
  ASSUME RoomInv, NEW h \in Handlers, HandlerFlush(h) PROVE RoomInv'
<1> DEFINE n == wired[h]
<1>1. /\ h \in Callers /\ n \in Objects /\ n <= made
      /\ Live(n) \/ y[n].kind \in cut
      /\ PersistRoomDocNow(n)
  BY Published DEF HandlerFlush, RoomInv, WiredInv, Callers
<1>2. /\ y' \in [Objects -> Entry]
      /\ \A o \in Objects :
           /\ y'[o].kind = y[o].kind /\ y'[o].content = y[o].content
           /\ y'[o].persistTimer = y[o].persistTimer
           /\ y'[o].clients = y[o].clients
  <2>1. y' = [y EXCEPT ![n].touched = Touched(n, h)] /\ y \in [Objects -> Entry]
    BY DEF HandlerFlush, RoomInv, TypeOK
  <2>2. Touched(n, h) \in BOOLEAN
    BY <1>1, <2>1 DEF Touched, Entry
  <2> QED BY <1>1, <2>1, <2>2 DEF Entry
<1>3. TypeOK'
  BY <1>1, <1>2, PersistTyped, LetsGo DEF HandlerFlush, RoomInv, TypeOK, peer
<1>4. WiredInv'
  <2>1. ASSUME NEW x \in Callers, wired'[x] # NoEntry
        PROVE  /\ wired'[x] = wired[x] /\ wired[x] # NoEntry
               /\ y'[wired[x]].kind = y[wired[x]].kind
               /\ y'[wired[x]].clients = y[wired[x]].clients
    BY <1>2, <2>1, LetsGo, Published DEF HandlerFlush
  <2>2. \A x \in Callers : pc'[x] \in {"on", "flush"} =>
          wired'[x] = wired[x] /\ pc[x] \in {"on", "flush"}
    BY LetsGo DEF HandlerFlush
  <2>3. UNCHANGED <<roomOf, made, cut>>
    BY DEF HandlerFlush
  <2> QED BY <2>1, <2>2, <2>3 DEF RoomInv, WiredInv
<1> QED BY <1>1, <1>2, <1>3, <1>4, PersistKeeps DEF HandlerFlush

LEMMA TimerFiresStep ==
  ASSUME RoomInv, NEW o \in Objects, TimerFires(o) PROVE RoomInv'
<1> DEFINE n == y[o].persistTimer
<1>1. /\ n \in Objects /\ n <= made /\ PersistRoomDocNow(n)
      /\ Live(n) \/ y[n].kind \in cut
  <2>1. n \in Objects /\ PersistRoomDocNow(n) /\ TimerPending(n)
    BY Ranges DEF TimerFires, TimerPending
  <2> QED BY <2>1, Ranges DEF RoomInv, EntryInv, Idle
<1>2. y' = [y EXCEPT ![o].persistTimer = 0]
  BY DEF TimerFires
<1>3. /\ y' \in [Objects -> Entry]
      /\ \A x \in Objects :
           /\ y'[x].kind = y[x].kind /\ y'[x].content = y[x].content
           /\ y'[x].clients = y[x].clients
           /\ y'[x].persistTimer \in {y[x].persistTimer, 0}
  BY <1>2, RoomAssumption, SMTT(30) DEF RoomInv, TypeOK, Entry
<1>4. TypeOK'
  <2>1. inflight' \in [Objects -> SUBSET SUBSET Updates]
    BY <1>1, PersistTyped
  <2>2. UNCHANGED <<stored, roomOf, creators, made, pc, wired, peer, faulted, cut>>
    BY DEF TimerFires
  <2> QED BY <1>3, <2>1, <2>2 DEF RoomInv, TypeOK, peer
<1>5. WiredInv'
  BY <1>3, Published DEF TimerFires, RoomInv, WiredInv
<1> QED BY <1>1, <1>3, <1>4, <1>5, PersistKeeps DEF TimerFires

\* A write that ends, landed or failed.
LEMMA WriteEnds ==
  ASSUME RoomInv, NEW n \in Objects, NEW w \in inflight[n],
         WriteLands(n, w) \/ WriteFails(n, w)
  PROVE  RoomInv'
<1> DEFINE d == y[n].kind
<1>1. /\ w \in SUBSET Updates /\ d \in Docs
      /\ \/ stored' = [stored EXCEPT ![d] = w] /\ UNCHANGED faulted
         \/ faulted' = faulted \cup {d} /\ UNCHANGED stored
      /\ inflight' = [inflight EXCEPT ![n] = @ \ {w}]
      /\ UNCHANGED <<roomOf, creators, y, made, pc, wired, replica, asking,
                     answering, used, cut>>
  BY Ranges DEF WriteLands, WriteFails, peer
<1>2. /\ inflight'[n] = inflight[n] \ {w}
      /\ \A o \in Objects : o # n => inflight'[o] = inflight[o]
  BY <1>1 DEF RoomInv, TypeOK
<1>3. TypeOK'
  <2>1. inflight' \in [Objects -> SUBSET SUBSET Updates]
    BY <1>1 DEF RoomInv, TypeOK
  <2>2. stored' \in [Docs -> SUBSET Updates] /\ faulted' \in SUBSET Docs
    BY <1>1 DEF RoomInv, TypeOK
  <2> QED BY <1>1, <2>1, <2>2 DEF RoomInv, TypeOK
<1>4. \A o \in Objects : /\ Live(o)' = Live(o)
                         /\ Idle(o) => Idle(o)'
  BY <1>1, <1>2 DEF Live, Idle, TimerPending
<1>5. LockInv' /\ BudgetInv' /\ WiredInv'
  BY <1>1 DEF RoomInv, LockInv, BudgetInv, WiredInv
<1>6. EntryInv'
  BY <1>1, <1>4 DEF RoomInv, EntryInv
<1>7. ExtendsInv'
  <2>1. ASSUME NEW x \in Docs \ (faulted' \cup cut), roomOf[x] # NoEntry
        PROVE  /\ stored'[x] \subseteq y[roomOf[x]].content
               /\ \A v \in inflight'[roomOf[x]] : v \subseteq y[roomOf[x]].content
    <3>1. /\ roomOf[x] \in Objects /\ x \notin faulted \cup cut
          /\ \A v \in inflight[roomOf[x]] : v \subseteq y[roomOf[x]].content
          /\ stored[x] \subseteq y[roomOf[x]].content
      BY <1>1, <2>1, Ranges DEF RoomInv, ExtendsInv
    <3>2. CASE x = d
      <4>1. roomOf[x] = n
        BY <2>1, <3>2 DEF RoomInv, EntryInv, Live, Idle
      <4> QED BY <1>1, <1>2, <3>1, <3>2, <4>1 DEF RoomInv, TypeOK
    <3>3. CASE x # d
      BY <1>1, <1>2, <3>1, <3>3 DEF RoomInv, TypeOK
    <3> QED BY <3>2, <3>3
  <2> QED BY <1>1, <2>1 DEF ExtendsInv
<1> QED BY <1>3, <1>5, <1>6, <1>7 DEF RoomInv

\* No socket holds an entry that is collected.  If a handler does, or a timer
\* or a write of it is under way, the document counts as cut.
LEMMA CollectRoomStep ==
  ASSUME RoomInv, NEW n \in Objects, CollectRoom(n)
  PROVE  RoomInv'
<1> DEFINE d == y[n].kind
<1>1. /\ d \in Docs /\ roomOf[d] = n /\ y[n].clients = {}
      /\ roomOf' = [roomOf EXCEPT ![d] = NoEntry]
      /\ y' = [y EXCEPT ![n].persistTimer = 0, ![n].gcTimer = FALSE,
                        ![n].touched = FALSE]
      /\ cut' = IF InUse(n) THEN cut \cup {d} ELSE cut
      /\ UNCHANGED <<stored, inflight, creators, made, pc, wired, replica,
                     asking, answering, used, faulted>>
  BY Ranges DEF CollectRoom, Live, storage, peer
<1>2. /\ y' \in [Objects -> Entry]
      /\ \A o \in Objects :
           /\ y'[o].kind = y[o].kind /\ y'[o].content = y[o].content
           /\ y'[o].clients = y[o].clients
           /\ y'[o].persistTimer \in {y[o].persistTimer, 0}
  <2>1. y \in [Objects -> Entry]
    BY Ranges
  <2>2. /\ y'[n] = [y[n] EXCEPT !.persistTimer = 0, !.gcTimer = FALSE,
                                !.touched = FALSE]
        /\ DOMAIN y' = Objects
        /\ \A o \in Objects : o # n => y'[o] = y[o]
    BY <1>1, <2>1
  <2>3. /\ y'[n] \in Entry /\ y'[n].kind = y[n].kind
        /\ y'[n].content = y[n].content /\ y'[n].clients = y[n].clients
        /\ y'[n].persistTimer = 0
    <3>1. y[n] \in Entry /\ 0 \in 0 .. MaxObjects
      BY <2>1, RoomAssumption
    <3> HIDE DEF d
    <3> QED BY <2>2, <3>1 DEF Entry
  <2>4. y' \in [Objects -> Entry]
    BY <1>1, <2>1, <2>2, <2>3
  <2> QED BY <2>2, <2>3, <2>4
<1>3. TypeOK'
  BY <1>1, <1>2, RoomAssumption DEF RoomInv, TypeOK, NoEntry
<1>4. /\ roomOf'[d] = NoEntry
      /\ \A x \in Docs : x # d => roomOf'[x] = roomOf[x]
      /\ cut \subseteq cut' /\ (d \notin cut' => ~InUse(n))
  BY <1>1 DEF RoomInv, TypeOK
<1>5. LockInv' /\ BudgetInv'
  BY <1>1, <1>4 DEF RoomInv, LockInv, BudgetInv
<1>6. EntryInv'
  <2>1. \A o \in Objects : Idle(o) => Idle(o)'
    BY <1>1, <1>2, Ranges DEF Idle, TimerPending, NoEntry
  <2>2. ASSUME NEW o \in Objects
        PROVE  Live(o)' \/ y'[o].kind \in cut' \/ Idle(o)'
    <3>1. CASE o = n
      BY <1>2, <1>4, <2>1, <3>1 DEF InUse, Idle
    <3>2. CASE o # n /\ y[o].kind = d
      BY <1>1, <1>2, <1>4, <2>1, <3>2 DEF RoomInv, EntryInv, Live
    <3>3. CASE y[o].kind # d
      BY <1>2, <1>4, <2>1, <3>3, Ranges DEF RoomInv, EntryInv, Live
    <3> QED BY <3>1, <3>2, <3>3
  <2>3. ASSUME NEW x \in Docs, roomOf'[x] # NoEntry
        PROVE  roomOf'[x] <= made' /\ y'[roomOf'[x]].kind = x
    BY <1>1, <1>2, <1>4, <2>3, Ranges DEF RoomInv, EntryInv
  <2> QED BY <1>1, <2>1, <2>2, <2>3 DEF RoomInv, EntryInv
<1>7. WiredInv'
  <2>1. ASSUME NEW x \in Callers, wired[x] # NoEntry
        PROVE  /\ y'[wired[x]].kind = ChannelOf[x]
               /\ x \in Clients \/ ChannelOf[x] \notin cut' =>
                    wired[x] = roomOf'[ChannelOf[x]]
               /\ x \in Clients => x \in y'[wired[x]].clients
    <3>1. /\ wired[x] \in Objects /\ ChannelOf[x] \in Docs
          /\ y[wired[x]].kind = ChannelOf[x]
          /\ x \in Clients \/ ChannelOf[x] \notin cut =>
               wired[x] = roomOf[ChannelOf[x]]
          /\ x \in Clients => x \in y[wired[x]].clients
      BY <2>1, Published DEF RoomInv, WiredInv
    <3>2. x \in Clients => wired[x] # n
      BY <1>1, <3>1
    <3>3. x \in Handlers /\ wired[x] = n => d \in cut'
      BY <1>4 DEF InUse
    <3>4. x \in Clients \/ x \in Handlers
      BY DEF Callers
    <3> QED BY <1>1, <1>2, <1>4, <3>1, <3>2, <3>3, <3>4
  <2> QED BY <1>1, <2>1 DEF RoomInv, WiredInv
<1>8. ExtendsInv'
  <2>1. ASSUME NEW x \in Docs \ (faulted \cup cut'), roomOf'[x] # NoEntry
        PROVE  /\ roomOf'[x] = roomOf[x] /\ roomOf[x] \in Objects
               /\ x \notin faulted \cup cut
               /\ y'[roomOf[x]].content = y[roomOf[x]].content
    BY <1>2, <1>4, <2>1, Ranges
  <2> QED BY <1>1, <2>1, ZenonT(40) DEF RoomInv, ExtendsInv
<1> QED BY <1>3, <1>5, <1>6, <1>7, <1>8 DEF RoomInv

LEMMA CrashStep == ASSUME RoomInv, Crash PROVE RoomInv'
<1>1. PICK landed \in [Docs -> UNION {Writes(d) : d \in Docs}
                              \cup {stored[d] : d \in Docs}] :
        /\ \A d \in Docs : landed[d] \in Writes(d) \cup {stored[d]}
        /\ stored' = landed
  BY DEF Crash
<1>2. stored' \in [Docs -> SUBSET Updates]
  <2>1. ASSUME NEW d \in Docs, NEW w \in Writes(d) PROVE w \in SUBSET Updates
    BY <2>1, Ranges DEF Writes
  <2> QED BY <1>1, <2>1 DEF RoomInv, TypeOK
<1>3. /\ inflight' = [n \in Objects |-> {}]
      /\ roomOf' = [d \in Docs |-> NoEntry]
      /\ creators' = [d \in Docs |-> {}]
      /\ y' = [n \in Objects |-> Blank]
      /\ pc' = [c \in Callers |-> "off"]
      /\ wired' = [c \in Callers |-> NoEntry]
      /\ asking' = [c \in Clients |-> FALSE]
      /\ answering' = [c \in Clients |-> FALSE]
      /\ faulted' = {} /\ cut' = {}
      /\ UNCHANGED <<made, replica, used>>
  BY DEF Crash
<1>4. TypeOK'
  BY <1>2, <1>3, BlankEntry, RoomAssumption DEF RoomInv, TypeOK, NoEntry
<1>5. BudgetInv'
  BY <1>3, FS_EmptySet, RoomAssumption DEF RoomInv, TypeOK, BudgetInv, Docs
<1>6. \A n \in Objects : Idle(n)'
  BY <1>3, BlankEntry DEF Idle, TimerPending, Objects
<1>7. LockInv' /\ EntryInv' /\ WiredInv' /\ ExtendsInv'
  BY <1>3, <1>6 DEF LockInv, EntryInv, WiredInv, ExtendsInv, NoEntry
<1> QED BY <1>4, <1>5, <1>7 DEF RoomInv

LEMMA RoomStep == RoomInv /\ [Next]_vars => RoomInv'
<1> SUFFICES ASSUME RoomInv, [Next]_vars PROVE RoomInv'
  OBVIOUS
<1>1. CASE \E c \in Callers : GetOrCreate(c)
  BY <1>1, GetOrCreateStep
<1>2. ASSUME NEW c \in Clients, ClientStep(c) PROVE RoomInv'
  BY <1>2, DropEarlyStep, ClientEditStep, ReceiveStep1Step, ReceiveStep2Step,
     CloseStep DEF ClientStep
<1>3. ASSUME NEW h \in Handlers, HandlerStep(h) PROVE RoomInv'
  BY <1>3, HandlerEditStep, HandlerFlushStep, HandlerFailStep DEF HandlerStep
<1>4. CASE ServerStep
  BY <1>4, FinishCreateStep, TimerFiresStep, CollectRoomStep, WriteEnds,
     CrashStep DEF ServerStep, Create
<1>5. CASE UNCHANGED vars
  <2>1. EntryInv' /\ ExtendsInv'
    BY <1>5, EntriesKeep DEF vars
  <2> QED BY <1>5, <2>1 DEF vars, RoomInv, TypeOK, LockInv, BudgetInv, WiredInv
<1> QED BY <1>1, <1>2, <1>3, <1>4, <1>5 DEF Next

\* There is one document per room, which every socket on it shares, through
\* lock waits, lost sockets, collection and crashes, and every handler from
\* whom it was not collected; and it has everything that was saved unless a
\* load or a write of it has failed or it was collected in use.
THEOREM RoomsStayWhole == Spec => []RoomsAreWhole
<1>1. RoomInv => RoomsAreWhole
  BY ExtendsStore DEF RoomInv, RoomsAreWhole, WiredInv, SocketsShareTheRoom
<1> QED BY <1>1, RoomStarts, RoomStep, PTL DEF Spec
-----------------------------------------------------------------------------
(***************************************************************************)
(* What is not saved is scheduled, in a room where only one of the two     *)
(* documents is used: with both, they share one timer, and the run         *)
(* RoomSharedTimer shows an edit that is never written.                    *)
(***************************************************************************)
OneChannel == \A c, e \in Callers : ChannelOf[c] = ChannelOf[e]

\* A document that is published is the one that everybody uses, and alone.
SoleInv ==
    \A d \in Docs : roomOf[d] # NoEntry =>
      /\ \A c \in Callers : ChannelOf[c] = d
      /\ \A x \in Docs : roomOf[x] # NoEntry => x = d

EditsOf(n) == y[n].content \ Objects

Spared(n) == y[n].kind \notin faulted \cup cut

\* A published document has its timer, or is in every write of it and, with no
\* write left, in the store.
LiveSaved ==
    \A n \in Objects : Spared(n) /\ Live(n) =>
      \/ TimerPending(n)
      \/ /\ \A w \in inflight[n] : EditsOf(n) \subseteq w
         /\ inflight[n] = {} => EditsOf(n) \subseteq stored[y[n].kind]

\* What a document that was collected held is in the store, and in whatever is
\* being written over it.
DeadSaved ==
    \A n \in Objects : Spared(n) /\ ~Live(n) =>
      /\ EditsOf(n) \subseteq stored[y[n].kind]
      /\ roomOf[y[n].kind] # NoEntry =>
           \A w \in inflight[roomOf[y[n].kind]] : EditsOf(n) \subseteq w

SaveInv == RoomInv /\ SoleInv /\ LiveSaved /\ DeadSaved

LEMMA SavedIsScheduled == SaveInv => UnsavedIsScheduled
<1> SUFFICES ASSUME SaveInv, NEW n \in Objects, y[n].kind \notin faulted \cup cut
             PROVE  \/ TimerPending(n)
                    \/ /\ \A w \in Writes(y[n].kind) : EditsOf(n) \subseteq w
                       /\ Writes(y[n].kind) = {} =>
                            EditsOf(n) \subseteq stored[y[n].kind]
  BY DEF UnsavedIsScheduled, EditsOf
<1>1. /\ y[n].kind \in Docs /\ n # NoEntry
      /\ roomOf[y[n].kind] # NoEntry => Writes(y[n].kind) = inflight[roomOf[y[n].kind]]
      /\ roomOf[y[n].kind] = NoEntry => Writes(y[n].kind) = {}
  BY Ranges, LiveWrites DEF SaveInv
<1>2. CASE Live(n)
  BY <1>1, <1>2 DEF SaveInv, LiveSaved, Spared, Live
<1>3. CASE ~Live(n)
  BY <1>1, <1>3 DEF SaveInv, DeadSaved, Spared
<1> QED BY <1>2, <1>3

LEMMA OwnTimer ==
  ASSUME RoomInv, SoleInv, NEW n \in Objects, Live(n)
  PROVE  TimerOwner = n
<1>1. y[n].kind \in Docs /\ roomOf[y[n].kind] = n /\ n # NoEntry
  BY Ranges DEF Live
<1>2. \A d \in Docs : roomOf[d] # NoEntry => d = y[n].kind
  BY <1>1 DEF SoleInv
<1> QED BY <1>1, <1>2 DEF TimerOwner, Docs

Saved == SoleInv /\ LiveSaved /\ DeadSaved

\* Steps that leave contents, timers and the store alone.
LEMMA SavedStays ==
  ASSUME SaveInv, UNCHANGED <<stored, inflight, roomOf, faulted, cut>>,
         \A o \in Objects : /\ y'[o].content = y[o].content
                            /\ y'[o].kind = y[o].kind
                            /\ y'[o].persistTimer = y[o].persistTimer
  PROVE  Saved'
<1>1. \A o \in Objects :
        /\ Live(o)' = Live(o) /\ Spared(o)' = Spared(o)
        /\ EditsOf(o)' = EditsOf(o) /\ TimerPending(o)' = TimerPending(o)
  BY DEF Live, Spared, EditsOf, TimerPending
<1> QED BY <1>1 DEF SaveInv, Saved, SoleInv, LiveSaved, DeadSaved

\* An edit of a published document sets its timer; one of a document that was
\* collected in use is not answered for.
LEMMA EditSchedules ==
  ASSUME SaveInv, NEW n \in Objects, NEW grown, Widened(grown, n),
         y' = IF Live(n) THEN SchedulePersist(grown, n) ELSE grown,
         Live(n) \/ y[n].kind \in cut,
         UNCHANGED <<stored, inflight, roomOf, faulted, cut>>
  PROVE  Saved'
<1>1. Grown(n)
  BY EditGrows, WidenedGrows DEF SaveInv, RoomInv
<1>2. ASSUME NEW o \in Objects
      PROVE  /\ Live(o)' = Live(o) /\ Spared(o)' = Spared(o)
             /\ o # n => EditsOf(o)' = EditsOf(o)
  BY <1>1 DEF Grown, Live, Spared, EditsOf
<1>3. Live(n) => TimerPending(n)'
  <2> SUFFICES ASSUME Live(n) PROVE y'[n].persistTimer = n
    BY DEF TimerPending
  <2>1. TimerOwner = n /\ n # NoEntry
    BY OwnTimer, Ranges DEF SaveInv
  <2>2. y' = [grown EXCEPT ![n].persistTimer = n]
    BY <2>1 DEF SchedulePersist
  <2>3. DOMAIN grown = Objects /\ grown[n] \in Entry
    BY DEF Widened
  <2>4. y'[n] = [grown[n] EXCEPT !.persistTimer = n]
    BY <2>2, <2>3
  <2> QED BY <2>3, <2>4 DEF Entry
<1>4. ASSUME NEW o \in Objects, o # n, Live(o), Live(n) PROVE FALSE
  <2>1. TimerOwner = n /\ TimerOwner = o
    BY <1>4, OwnTimer DEF SaveInv
  <2> QED BY <1>4, <2>1
<1>5. \A o \in Objects : o # n /\ Spared(o) /\ ~Live(n) /\ TimerPending(o) => TimerPending(o)'
  BY <1>1 DEF TimerPending, Widened
<1>6. LiveSaved'
  <2>1. ASSUME NEW o \in Objects, Spared(o)', Live(o)', ~TimerPending(o)'
        PROVE  /\ \A w \in inflight'[o] : EditsOf(o)' \subseteq w
               /\ inflight'[o] = {} => EditsOf(o)' \subseteq stored'[y'[o].kind]
    <3>1. o # n /\ ~Live(n) /\ Spared(o) /\ Live(o) /\ ~TimerPending(o)
          /\ EditsOf(o)' = EditsOf(o)
      BY <1>2, <1>3, <1>4, <1>5, <2>1 DEF Spared
    <3> QED BY <1>1, <3>1 DEF SaveInv, LiveSaved, Grown
  <2> QED BY <2>1 DEF LiveSaved
<1>7. DeadSaved'
  <2>1. ASSUME NEW o \in Objects, Spared(o)', ~Live(o)'
        PROVE  Spared(o) /\ ~Live(o) /\ EditsOf(o)' = EditsOf(o)
    BY <1>2, <2>1 DEF Spared
  <2> QED BY <1>1, <2>1, ZenonT(40) DEF SaveInv, DeadSaved, Grown
<1> QED BY <1>6, <1>7 DEF SaveInv, Saved, SoleInv

LEMMA IntegrateSchedules ==
  ASSUME SaveInv, NEW n \in Objects, Live(n) \/ y[n].kind \in cut,
         NEW updates \in SUBSET Updates, NEW origin, Integrate(n, updates, origin),
         UNCHANGED <<stored, inflight, roomOf, faulted, cut>>
  PROVE  Saved'
<1>1. CASE updates \ y[n].content = {}
  BY <1>1, SavedStays DEF Integrate
<1>2. CASE updates \ y[n].content # {}
  <2> DEFINE fresh == updates \ y[n].content
             grown == [y EXCEPT ![n].content = @ \cup fresh,
                                ![n].touched = Touched(n, origin)]
  <2>1. y' = (IF Live(n) THEN SchedulePersist(grown, n) ELSE grown)
    BY <1>2 DEF Integrate
  <2>2. Widened(grown, n)
    BY IntegrateWidens DEF SaveInv, RoomInv
  <2> HIDE DEF grown
  <2> QED BY <2>1, <2>2, EditSchedules
<1> QED BY <1>1, <1>2

\* persistRoomDocNow writes all that the document holds.
LEMMA PersistSaves ==
  ASSUME SaveInv, NEW n \in Objects, PersistRoomDocNow(n),
         Live(n) \/ y[n].kind \in cut,
         UNCHANGED <<stored, roomOf, faulted, cut>>,
         \A o \in Objects : y'[o].content = y[o].content /\ y'[o].kind = y[o].kind,
         \/ \A o \in Objects : y'[o].persistTimer = y[o].persistTimer
         \/ /\ Live(n) => \A w \in inflight[n] : w = y[n].content
            /\ \A o \in Objects : y[o].persistTimer # 0 /\ y[o].persistTimer # n
                 => y'[o].persistTimer = y[o].persistTimer
  PROVE  Saved'
<1>1. /\ inflight'[n] = inflight[n] \cup {y[n].content}
      /\ \A o \in Objects : o # n => inflight'[o] = inflight[o]
  BY DEF PersistRoomDocNow, SaveInv, RoomInv, TypeOK
<1>2. \A o \in Objects : /\ Live(o)' = Live(o) /\ Spared(o)' = Spared(o)
                         /\ EditsOf(o)' = EditsOf(o)
  BY DEF Live, Spared, EditsOf
<1>3. LiveSaved'
  <2>1. ASSUME NEW o \in Objects, Spared(o), Live(o), ~TimerPending(o)'
        PROVE  /\ \A w \in inflight'[o] : EditsOf(o) \subseteq w
               /\ inflight'[o] = {} => EditsOf(o) \subseteq stored[y[o].kind]
    <3>1. CASE o = n
      <4>1. \A w \in inflight[n] : EditsOf(n) \subseteq w
        <5>1. CASE \A w \in inflight[n] : w = y[n].content
          BY <5>1 DEF EditsOf
        <5>2. CASE \A x \in Objects : y'[x].persistTimer = y[x].persistTimer
          <6>1. ~TimerPending(n)
            BY <2>1, <3>1, <5>2 DEF TimerPending
          <6> QED BY <2>1, <3>1, <6>1 DEF SaveInv, LiveSaved
        <5> QED BY <2>1, <3>1, <5>1, <5>2
      <4> QED BY <1>1, <3>1, <4>1 DEF EditsOf
    <3>2. CASE o # n
      <4>1. ~TimerPending(o)
        BY <2>1, <3>2, Ranges DEF TimerPending, SaveInv, NoEntry
      <4> QED BY <1>1, <2>1, <3>2, <4>1 DEF SaveInv, LiveSaved
    <3> QED BY <3>1, <3>2
  <2> QED BY <1>2, <2>1 DEF LiveSaved
<1>4. DeadSaved'
  <2>1. ASSUME NEW o \in Objects, Spared(o), ~Live(o), roomOf[y[o].kind] # NoEntry
        PROVE  \A w \in inflight'[roomOf[y[o].kind]] : EditsOf(o) \subseteq w
    <3> DEFINE m == roomOf[y[o].kind]
    <3>1. /\ m \in Objects /\ y[o].kind \in Docs /\ y[m].kind = y[o].kind
          /\ \A w \in inflight[m] : EditsOf(o) \subseteq w
          /\ EditsOf(o) \subseteq stored[y[o].kind]
          /\ stored[y[o].kind] \subseteq y[m].content
      BY <2>1, Ranges DEF SaveInv, RoomInv, EntryInv, ExtendsInv, DeadSaved, Spared
    <3>2. \A w \in inflight'[m] : w \in inflight[m] \/ w = y[m].content
      BY <1>1, <3>1
    <3> QED BY <3>1, <3>2
  <2> QED BY <1>2, <2>1 DEF SaveInv, DeadSaved
<1> QED BY <1>3, <1>4 DEF SaveInv, Saved, SoleInv

LEMMA SaveStarts == Init => SaveInv
<1> SUFFICES ASSUME Init PROVE SaveInv
  OBVIOUS
<1>1. \A n \in Objects : EditsOf(n) = {}
  BY BlankEntry DEF Init, EditsOf
<1>2. LiveSaved /\ DeadSaved
  BY <1>1 DEF Init, LiveSaved, DeadSaved
<1> QED BY <1>2, RoomStarts DEF Init, SaveInv, SoleInv

LEMMA SocketSaves ==
  ASSUME SaveInv, NEW c \in Callers,
         \/ GetOrCreate(c)
         \/ c \in Clients /\ ClientStep(c)
  PROVE  Saved'
<1>0. RoomInv /\ y \in [Objects -> Entry]
  BY DEF SaveInv, RoomInv, TypeOK
<1>1. CASE GetOrCreate(c)
  <2> DEFINE n == roomOf[ChannelOf[c]]
  <2>1. CASE n = NoEntry
    BY <1>1, <2>1, SavedStays DEF GetOrCreate
  <2>2. CASE n # NoEntry
    <3>1. n \in Objects /\ y' = [y EXCEPT ![n] = Joined(y[n], {c})]
      BY <1>0, <1>1, <2>2, Ranges, RoomAssumption DEF GetOrCreate
    <3>2. LET e == Joined(y[n], {c})
          IN  /\ e.content = y[n].content /\ e.kind = y[n].kind
              /\ e.persistTimer = y[n].persistTimer
      BY <1>0, <3>1, JoinedEntry
    <3>3. \A o \in Objects : /\ y'[o].content = y[o].content
                             /\ y'[o].kind = y[o].kind
                             /\ y'[o].persistTimer = y[o].persistTimer
      BY <1>0, <3>1, <3>2
    <3> QED BY <1>1, <3>3, SavedStays DEF GetOrCreate
  <2> QED BY <2>1, <2>2
<1>2. CASE DropEarly(c)
  BY <1>2, SavedStays DEF DropEarly
<1>3. ASSUME NEW e \in Edits, ClientEdit(c, e), c \in Clients
      PROVE  Saved'
  <2>1. CASE Open(c)
    <3> DEFINE n == wired[c]
               grown == [y EXCEPT ![n].content = @ \cup {e}]
    <3>1. n \in Objects /\ Live(n)
      BY <1>0, <1>3, <2>1, Published DEF Open, RoomInv, WiredInv
    <3>2. y' = SchedulePersist(grown, n)
          /\ UNCHANGED <<stored, inflight, roomOf, faulted, cut>>
      BY <1>3, <2>1 DEF ClientEdit
    <3>3. {e} \in SUBSET Updates /\ TypeOK
      BY <1>0 DEF Updates, RoomInv
    <3>4. Widened(grown, n)
      BY <3>1, <3>3, ClientWidens, ZenonT(30)
    <3> HIDE DEF grown, n
    <3> QED BY <3>1, <3>2, <3>4, EditSchedules
  <2>2. CASE ~Open(c)
    BY <1>3, <2>2, SavedStays DEF ClientEdit
  <2> QED BY <2>1, <2>2
<1>4. CASE ReceiveStep1(c)
  BY <1>4, SavedStays DEF ReceiveStep1
<1>5. CASE ReceiveStep2(c) /\ c \in Clients
  <2>1. wired[c] \in Objects /\ Live(wired[c]) /\ replica[c] \in SUBSET Updates
    BY <1>0, <1>5, Published DEF ReceiveStep2, Open, RoomInv, WiredInv, TypeOK
  <2> QED BY <1>5, <2>1, IntegrateSchedules DEF ReceiveStep2
<1>6. CASE Close(c)
  <2>1. wired[c] \in Objects /\ y' = [y EXCEPT ![wired[c]] = Left(y[wired[c]], c)]
    BY <1>0, <1>6, Published DEF Close, Open, RoomInv, WiredInv
  <2>2. LET e == Left(y[wired[c]], c)
        IN  /\ e.content = y[wired[c]].content /\ e.kind = y[wired[c]].kind
            /\ e.persistTimer = y[wired[c]].persistTimer
    BY <1>0, <2>1 DEF Left, Entry
  <2>3. \A o \in Objects : /\ y'[o].content = y[o].content
                           /\ y'[o].kind = y[o].kind
                           /\ y'[o].persistTimer = y[o].persistTimer
    BY <1>0, <2>1, <2>2
  <2> QED BY <1>6, <2>3, SavedStays DEF Close
<1> QED BY <1>1, <1>2, <1>3, <1>4, <1>5, <1>6 DEF ClientStep

LEMMA HandlerSaves ==
  ASSUME SaveInv, NEW h \in Handlers, HandlerStep(h)
  PROVE  Saved'
<1>0. h \in Callers /\ RoomInv /\ y \in [Objects -> Entry]
  BY DEF Callers, SaveInv, RoomInv, TypeOK
<1>1. ASSUME pc[h] \in {"on", "flush"}
      PROVE  wired[h] \in Objects /\ (Live(wired[h]) \/ y[wired[h]].kind \in cut)
  BY <1>0, <1>1, Published DEF RoomInv, WiredInv
<1>2. ASSUME NEW e \in Edits, HandlerEdit(h, e)
      PROVE  Saved'
  <2>1. {e} \in SUBSET Updates
    BY DEF Updates
  <2> QED BY <1>1, <1>2, <2>1, IntegrateSchedules DEF HandlerEdit, Open
<1>3. CASE HandlerFlush(h)
  <2>1. wired[h] \in Objects /\ (Live(wired[h]) \/ y[wired[h]].kind \in cut)
    BY <1>1, <1>3 DEF HandlerFlush
  <2>2. y' = [y EXCEPT ![wired[h]].touched = Touched(wired[h], h)]
    BY <1>3 DEF HandlerFlush
  <2>3. \A o \in Objects : /\ y'[o].content = y[o].content
                           /\ y'[o].kind = y[o].kind
                           /\ y'[o].persistTimer = y[o].persistTimer
    BY <1>0, <2>1, <2>2 DEF Entry
  <2> QED BY <1>3, <2>1, <2>3, PersistSaves DEF HandlerFlush
<1>4. CASE HandlerFail(h)
  BY <1>4, SavedStays DEF HandlerFail, storage
<1> QED BY <1>2, <1>3, <1>4 DEF HandlerStep

\* A published document comes out of the store with all that is in it.
LEMMA CreateSaves ==
  ASSUME SaveInv, OneChannel, NEW c \in Callers, NEW loaded, FinishCreate(c, loaded)
  PROVE  Saved'
<1> DEFINE d == ChannelOf[c]
           n == made + 1
           callers == Waiting(d) \cup {c}
           opened == [Blank EXCEPT !.kind = d, !.content = Initial(d, n, loaded)]
<1>0. RoomInv /\ y \in [Objects -> Entry] /\ RoomInv'
  <2>1. Next
    BY DEF Next, ServerStep, Create, FinishCreate
  <2> QED BY <2>1, FinishCreateStep DEF SaveInv, RoomInv, TypeOK
<1>1. /\ d \in Docs /\ c \in creators[d] /\ roomOf[d] = NoEntry
      /\ roomOf' = [roomOf EXCEPT ![d] = n] /\ made' = n
      /\ y' = [y EXCEPT ![n] = Joined(opened, callers)]
      /\ faulted' = IF loaded = stored[d] THEN faulted ELSE faulted \cup {d}
      /\ UNCHANGED <<stored, inflight, cut>>
  BY <1>0, RoomAssumption DEF FinishCreate, RoomInv, LockInv
<1>2. \A x \in Docs : x # d => roomOf[x] = NoEntry /\ roomOf'[x] = NoEntry
  BY <1>1 DEF SaveInv, SoleInv, RoomInv, TypeOK
<1>3. SoleInv'
  BY <1>1, <1>2 DEF SoleInv, OneChannel
<1>4. roomOf'[d] = n /\ n \in Objects /\ n > made
  <2>1. roomOf'[d] = n /\ made \in Nat /\ made' \in 0 .. MaxObjects
    BY <1>0, <1>1, RoomAssumption DEF RoomInv, TypeOK
  <2> QED BY <1>1, <2>1, RoomAssumption DEF Objects
<1>5. y'[n].content = Initial(d, n, loaded) /\ y'[n].kind = d
      /\ \A o \in Objects : o # n => y'[o] = y[o]
  BY <1>0, <1>1, <1>4 DEF Joined, Blank
<1>6. inflight[n] = {}
  BY <1>0, <1>4 DEF RoomInv, EntryInv, Idle
<1>7. d \notin faulted' => y'[n].content \ Objects \subseteq stored[d]
  <2>1. SUFFICES ASSUME d \notin faulted'
                 PROVE  Initial(d, n, loaded) \ Objects \subseteq stored[d]
    BY <1>5
  <2>2. loaded = stored[d]
    BY <1>1, <2>1
  <2>3. Initial(d, n, loaded) = {n} \/ Initial(d, n, loaded) = loaded
    BY DEF Initial
  <2> QED BY <1>4, <2>2, <2>3
<1> HIDE DEF opened, callers, n
<1>8. ASSUME NEW o \in Objects, o # n, Spared(o)'
      PROVE  ~Live(o) /\ Spared(o) /\ EditsOf(o)' = EditsOf(o)
  <2>1. roomOf[y[o].kind] = NoEntry \/ y[o].kind \notin Docs
    BY <1>1, <1>2
  <2> QED BY <1>0, <1>1, <1>5, <1>8, <2>1, Ranges DEF Live, Spared, EditsOf
<1>9. \A o \in Objects : o = n => Live(o)'
  BY <1>4, <1>5 DEF Live
<1>10. \A o \in Objects : o # n => ~Live(o)'
  <2>1. ASSUME NEW o \in Objects, o # n PROVE roomOf'[y'[o].kind] # o
    <3>1. y'[o].kind \in Docs /\ o # NoEntry
      BY <1>0, <1>5, <2>1, Ranges
    <3> QED BY <1>2, <1>4, <2>1, <3>1
  <2> QED BY <2>1 DEF Live
<1>11. LiveSaved'
  <2>1. ASSUME NEW o \in Objects, o = n, Spared(o)'
        PROVE  EditsOf(o)' \subseteq stored'[y'[o].kind] /\ inflight'[o] = {}
    BY <1>1, <1>5, <1>6, <1>7, <2>1 DEF Spared, EditsOf
  <2> QED BY <1>10, <2>1 DEF LiveSaved
<1>12. DeadSaved'
  <2>1. ASSUME NEW o \in Objects, Spared(o)', ~Live(o)'
        PROVE  /\ EditsOf(o)' \subseteq stored'[y'[o].kind]
               /\ roomOf'[y'[o].kind] # NoEntry =>
                    \A w \in inflight'[roomOf'[y'[o].kind]] : EditsOf(o)' \subseteq w
    <3>1. o # n
      BY <1>9, <2>1
    <3>2. EditsOf(o)' \subseteq stored[y[o].kind] /\ y'[o] = y[o] /\ y[o].kind \in Docs
      BY <1>0, <1>5, <1>8, <2>1, <3>1, Ranges DEF SaveInv, DeadSaved
    <3> QED BY <1>1, <1>2, <1>4, <1>6, <3>2
  <2> QED BY <2>1 DEF DeadSaved
<1> QED BY <1>3, <1>11, <1>12 DEF Saved

\* A write that lands brings all that any document held, one that fails takes
\* its document out of the promise.
LEMMA EndSaves ==
  ASSUME SaveInv, NEW n \in Objects, NEW w \in inflight[n],
         WriteLands(n, w) \/ WriteFails(n, w)
  PROVE  Saved'
<1> DEFINE d == y[n].kind
<1>1. /\ d \in Docs
      /\ \/ stored' = [stored EXCEPT ![d] = w] /\ UNCHANGED faulted
         \/ faulted' = faulted \cup {d} /\ UNCHANGED stored
      /\ inflight' = [inflight EXCEPT ![n] = @ \ {w}]
      /\ UNCHANGED <<roomOf, y, cut>>
  BY Ranges DEF WriteLands, WriteFails, SaveInv
<1>2. /\ inflight'[n] = inflight[n] \ {w}
      /\ \A o \in Objects : o # n => inflight'[o] = inflight[o]
      /\ stored \in [Docs -> SUBSET Updates]
  BY <1>1 DEF SaveInv, RoomInv, TypeOK
<1>3. ASSUME NEW o \in Objects
      PROVE  /\ Live(o)' = Live(o) /\ TimerPending(o)' = TimerPending(o)
             /\ EditsOf(o)' = EditsOf(o)
             /\ Spared(o)' => Spared(o)
             /\ Spared(o)' /\ y[o].kind = d => stored'[d] = w /\ roomOf[d] = n
             /\ y[o].kind \in Docs
             /\ y[o].kind # d => stored'[y[o].kind] = stored[y[o].kind]
  <2>1. Spared(o)' /\ y[o].kind = d => roomOf[d] = n
    BY <1>1 DEF SaveInv, RoomInv, EntryInv, Idle, Live, Spared
  <2>2. /\ Live(o)' = Live(o) /\ TimerPending(o)' = TimerPending(o)
        /\ EditsOf(o)' = EditsOf(o) /\ y[o].kind \in Docs
        /\ Spared(o)' => Spared(o)
    BY <1>1, Ranges DEF Live, TimerPending, EditsOf, Spared, SaveInv
  <2>3. Spared(o)' /\ y[o].kind = d => stored'[d] = w
    BY <1>1, <1>2 DEF Spared
  <2> QED BY <1>1, <1>2, <2>1, <2>2, <2>3
<1>4. LiveSaved'
  <2>1. ASSUME NEW o \in Objects, Spared(o)', Live(o), ~TimerPending(o)
        PROVE  /\ \A v \in inflight'[o] : EditsOf(o) \subseteq v
               /\ inflight'[o] = {} => EditsOf(o) \subseteq stored'[y[o].kind]
    <3>1. /\ \A v \in inflight[o] : EditsOf(o) \subseteq v
          /\ inflight[o] = {} => EditsOf(o) \subseteq stored[y[o].kind]
      BY <1>3, <2>1 DEF SaveInv, LiveSaved
    <3>2. CASE y[o].kind = d
      <4>1. o = n
        BY <1>3, <2>1, <3>2 DEF Live
      <4> QED BY <1>2, <1>3, <2>1, <3>1, <3>2, <4>1
    <3>3. CASE y[o].kind # d
      BY <1>2, <1>3, <3>1, <3>3
    <3> QED BY <3>2, <3>3
  <2> QED BY <1>1, <1>3, <2>1 DEF LiveSaved
<1>5. DeadSaved'
  <2>1. ASSUME NEW o \in Objects, Spared(o)', ~Live(o)
        PROVE  /\ EditsOf(o) \subseteq stored'[y[o].kind]
               /\ roomOf[y[o].kind] # NoEntry =>
                    \A v \in inflight'[roomOf[y[o].kind]] : EditsOf(o) \subseteq v
    <3>1. /\ EditsOf(o) \subseteq stored[y[o].kind]
          /\ roomOf[y[o].kind] # NoEntry =>
               \A v \in inflight[roomOf[y[o].kind]] : EditsOf(o) \subseteq v
      BY <1>3, <2>1 DEF SaveInv, DeadSaved
    <3>2. roomOf[y[o].kind] # NoEntry => roomOf[y[o].kind] \in Objects
      BY <1>3, Ranges DEF SaveInv
    <3>3. CASE y[o].kind = d
      <4>1. roomOf[d] = n /\ stored'[d] = w /\ n # NoEntry
        BY <1>3, <2>1, <3>3, Ranges DEF SaveInv
      <4> QED BY <1>2, <3>1, <3>3, <4>1
    <3>4. CASE y[o].kind # d
      BY <1>2, <1>3, <3>1, <3>2, <3>4
    <3> QED BY <3>3, <3>4
  <2> QED BY <1>1, <1>3, <2>1 DEF DeadSaved
<1>6. SoleInv'
  BY <1>1 DEF SaveInv, SoleInv
<1> QED BY <1>4, <1>5, <1>6 DEF Saved

\* A document that is collected out of use is in the store.
LEMMA CollectSaves ==
  ASSUME SaveInv, NEW n \in Objects, CollectRoom(n)
  PROVE  Saved'
<1> DEFINE d == y[n].kind
<1>1. /\ d \in Docs /\ roomOf[d] = n /\ n # NoEntry
      /\ roomOf' = [roomOf EXCEPT ![d] = NoEntry]
      /\ y' = [y EXCEPT ![n].persistTimer = 0, ![n].gcTimer = FALSE,
                        ![n].touched = FALSE]
      /\ cut' = IF InUse(n) THEN cut \cup {d} ELSE cut
      /\ UNCHANGED <<stored, inflight, faulted>>
  BY Ranges DEF CollectRoom, Live, storage, SaveInv
<1>2. \A o \in Objects : y'[o].kind = y[o].kind /\ y'[o].content = y[o].content
  <2>1. y \in [Objects -> Entry]
    BY Ranges DEF SaveInv
  <2>2. y'[n] = [y[n] EXCEPT !.persistTimer = 0, !.gcTimer = FALSE,
                             !.touched = FALSE]
        /\ \A o \in Objects : o # n => y'[o] = y[o]
    BY <1>1, <2>1
  <2>3. y[n] \in Entry
    BY <2>1
  <2>4. y'[n].kind = y[n].kind /\ y'[n].content = y[n].content
    <3> HIDE DEF d
    <3> QED BY <2>2, <2>3 DEF Entry
  <2> QED BY <2>2, <2>4
<1>3. \A x \in Docs : roomOf'[x] = NoEntry
  BY <1>1 DEF SaveInv, SoleInv, RoomInv, TypeOK
<1>4. ASSUME NEW o \in Objects
      PROVE  /\ ~Live(o)' /\ EditsOf(o)' = EditsOf(o) /\ y[o].kind \in Docs
             /\ Spared(o)' => Spared(o)
             /\ Live(o) => o = n
  <2>1. y[o].kind \in Docs /\ o # NoEntry /\ y'[o].kind = y[o].kind
    BY <1>2, Ranges DEF SaveInv
  <2>2. ~Live(o)' /\ EditsOf(o)' = EditsOf(o)
    BY <1>2, <1>3, <2>1 DEF Live, EditsOf
  <2>3. Spared(o)' => Spared(o)
    BY <1>1, <2>1 DEF Spared
  <2>4. Live(o) => o = n
    BY <1>1, <2>1 DEF SaveInv, SoleInv, Live
  <2> QED BY <2>1, <2>2, <2>3, <2>4
<1>5. ASSUME NEW o \in Objects, Spared(o)'
      PROVE  EditsOf(o) \subseteq stored[y[o].kind]
  <2>1. CASE Live(o)
    <3>1. o = n /\ Spared(o) /\ ~InUse(n)
      BY <1>1, <1>2, <1>4, <1>5, <2>1 DEF Spared
    <3> QED BY <2>1, <3>1 DEF SaveInv, LiveSaved, InUse
  <2>2. CASE ~Live(o)
    BY <1>4, <1>5, <2>2 DEF SaveInv, DeadSaved
  <2> QED BY <2>1, <2>2
<1>6. LiveSaved' /\ DeadSaved'
  BY <1>1, <1>2, <1>3, <1>4, <1>5 DEF LiveSaved, DeadSaved
<1> QED BY <1>3, <1>6 DEF Saved, SoleInv

LEMMA ServerSaves ==
  ASSUME SaveInv, OneChannel, ServerStep
  PROVE  Saved'
<1>0. RoomInv /\ y \in [Objects -> Entry]
  BY DEF SaveInv, RoomInv, TypeOK
<1>1. ASSUME NEW o \in Objects, TimerFires(o) PROVE Saved'
  <2> DEFINE n == y[o].persistTimer
  <2>1. /\ n \in Objects /\ PersistRoomDocNow(n)
        /\ Live(n) => \A w \in inflight[n] : w = y[n].content
        /\ y' = [y EXCEPT ![o].persistTimer = 0]
        /\ UNCHANGED <<stored, roomOf, faulted, cut>>
    BY <1>0, <1>1, Ranges DEF TimerFires
  <2>2. Live(n) \/ y[n].kind \in cut
    BY <1>0, <2>1 DEF RoomInv, EntryInv, Idle, TimerPending
  <2>3. \A x \in Objects : /\ y'[x].content = y[x].content /\ y'[x].kind = y[x].kind
                           /\ x # o => y'[x].persistTimer = y[x].persistTimer
    BY <1>0, <2>1 DEF Entry
  <2> QED BY <2>1, <2>2, <2>3, PersistSaves
<1>2. CASE Crash
  <2>1. /\ y' = [n \in Objects |-> Blank] /\ roomOf' = [d \in Docs |-> NoEntry]
        /\ inflight' = [n \in Objects |-> {}]
    BY <1>2 DEF Crash
  <2>2. \A n \in Objects : EditsOf(n)' = {}
    BY <2>1, BlankEntry DEF EditsOf
  <2>3. \A n \in Objects : y'[n].kind \in Docs
    BY <2>1, BlankEntry DEF Docs
  <2> QED BY <2>1, <2>2, <2>3 DEF Saved, SoleInv, LiveSaved, DeadSaved
<1> QED BY <1>1, <1>2, CreateSaves, CollectSaves, EndSaves DEF ServerStep, Create

\* Whatever a document holds that is not stored will be written, and what a
\* collected one held is stored: a timer is set for it, or every write under
\* way carries all of it, whichever is the last to land, unless a load or a
\* write has failed or the document was collected while in use.
THEOREM UnsavedStaysScheduled ==
  ASSUME OneChannel PROVE Spec => []UnsavedIsScheduled
<1>1. SaveInv /\ [Next]_vars => SaveInv'
  <2> SUFFICES ASSUME SaveInv, [Next]_vars PROVE Saved'
    BY RoomStep DEF SaveInv, Saved
  <2>1. CASE UNCHANGED vars
    BY <2>1, SavedStays DEF vars
  <2> QED BY <2>1, SocketSaves, HandlerSaves, ServerSaves DEF Next, Callers
<1> QED BY <1>1, SavedIsScheduled, SaveStarts, PTL DEF Spec
-----------------------------------------------------------------------------
(***************************************************************************)
(* What nobody uses is due for collection, in a room that only sockets open *)
(* and where no socket closes before it is attached: an entry that a       *)
(* handler creates has no collection timer until a socket leaves it, and   *)
(* a socket that the server never sees closing stays among the clients.    *)
(***************************************************************************)
SocketsOnly == Handlers = {} /\ "drop" \notin Faults

\* The clients of a published document are the open sockets on it, and an
\* empty one has its collection timer.
ClientsInv ==
    /\ \A c \in Callers : pc[c] # "lost"
    /\ \A d \in Docs : roomOf[d] # NoEntry =>
         /\ y[roomOf[d]].clients = {} => y[roomOf[d]].gcTimer
         /\ \A c \in y[roomOf[d]].clients : Open(c) /\ wired[c] = roomOf[d]

UnusedInv == RoomInv /\ ClientsInv

\* Steps that move no caller and leave the clients of the documents alone.
LEMMA UnusedStays ==
  ASSUME UnusedInv, UNCHANGED <<roomOf, pc, wired>>,
         \A o \in Objects : /\ y'[o].clients = y[o].clients
                            /\ y'[o].gcTimer = y[o].gcTimer
  PROVE  ClientsInv'
  BY Ranges DEF UnusedInv, ClientsInv, Open

LEMMA SocketUnused ==
  ASSUME UnusedInv, SocketsOnly, NEW c \in Callers,
         \/ GetOrCreate(c)
         \/ ClientStep(c)
  PROVE  ClientsInv'
<1>0. /\ RoomInv /\ ClientsInv /\ c \in Clients /\ Callers = Clients
      /\ y \in [Objects -> Entry] /\ TypeOK
  BY DEF UnusedInv, RoomInv, TypeOK, SocketsOnly, Callers
<1>1. CASE GetOrCreate(c)
  <2> DEFINE d == ChannelOf[c]
             n == roomOf[d]
  <2>0. pc[c] = "off" /\ UNCHANGED roomOf /\ d \in Docs
    BY <1>1, RoomAssumption DEF GetOrCreate
  <2>1. CASE n = NoEntry
    <3>1. pc' = [pc EXCEPT ![c] = "getting"] /\ UNCHANGED <<y, wired>>
      BY <1>1, <2>1 DEF GetOrCreate
    <3> QED BY <1>0, <2>0, <3>1 DEF ClientsInv, Open, TypeOK
  <2>2. CASE n # NoEntry
    <3>1. /\ n \in Objects /\ y' = [y EXCEPT ![n] = Joined(y[n], {c})]
          /\ wired' = [wired EXCEPT ![c] = n] /\ pc' = [pc EXCEPT ![c] = "on"]
      BY <1>0, <1>1, <2>0, <2>2, Ranges DEF GetOrCreate
    <3>2. /\ Joined(y[n], {c}).clients = y[n].clients \cup {c}
      BY <1>0, <3>1, JoinedEntry
    <3>3. ASSUME NEW x \in Docs, roomOf[x] # NoEntry
          PROVE  /\ y'[roomOf[x]].clients = {} => y'[roomOf[x]].gcTimer
                 /\ \A e \in y'[roomOf[x]].clients : Open(e)' /\ wired'[e] = roomOf[x]
      <4>1. CASE x = d
        <5>1. y'[n].clients = y[n].clients \cup {c} /\ y[n].clients \subseteq Callers
          BY <1>0, <3>1, <3>2 DEF Entry
        <5>2. \A e \in y[n].clients : Open(e) /\ wired[e] = n
          BY <1>0, <2>0, <2>2 DEF ClientsInv
        <5>3. \A e \in Callers : /\ pc'[e] = IF e = c THEN "on" ELSE pc[e]
                                 /\ wired'[e] = IF e = c THEN n ELSE wired[e]
          BY <1>0, <3>1 DEF TypeOK
        <5>4. \A e \in y'[n].clients : Open(e)' /\ wired'[e] = n
          BY <5>1, <5>2, <5>3 DEF Open
        <5> QED BY <2>2, <4>1, <5>1, <5>4
      <4>2. CASE x # d
        <5>1. roomOf[x] # n /\ roomOf[x] \in Objects
          BY <1>0, <2>0, <2>2, <3>3, <4>2, Ranges DEF RoomInv, EntryInv
        <5> QED BY <1>0, <2>0, <3>1, <3>3, <5>1 DEF ClientsInv, Open, TypeOK
      <4> QED BY <4>1, <4>2
    <3>4. \A x \in Callers : pc'[x] # "lost"
      BY <1>0, <3>1 DEF ClientsInv, TypeOK
    <3> QED BY <2>0, <3>3, <3>4 DEF ClientsInv
  <2> QED BY <2>1, <2>2
<1>2. CASE DropEarly(c)
  BY <1>2 DEF DropEarly, SocketsOnly
<1>3. ASSUME NEW e \in Edits, ClientEdit(c, e) PROVE ClientsInv'
  <2>1. CASE Open(c)
    <3> DEFINE n == wired[c]
               grown == [y EXCEPT ![n].content = @ \cup {e}]
    <3>1. n \in Objects /\ {e} \in SUBSET Updates
      BY <1>0, <2>1, Published DEF Open, RoomInv, WiredInv, Updates
    <3>2. Grown(n)
      <4>1. y' = SchedulePersist(grown, n)
        BY <1>3, <2>1 DEF ClientEdit
      <4>2. Widened(grown, n)
        BY <1>0, <3>1, ClientWidens, ZenonT(30)
      <4> HIDE DEF grown, n
      <4> QED BY <1>0, <3>1, <4>1, <4>2, EditGrows
    <3> QED BY <1>3, <3>2, UnusedStays DEF Grown, ClientEdit
  <2>2. CASE ~Open(c)
    BY <1>3, <2>2, UnusedStays DEF ClientEdit
  <2> QED BY <2>1, <2>2
<1>4. CASE ReceiveStep1(c)
  BY <1>4, UnusedStays DEF ReceiveStep1
<1>5. CASE ReceiveStep2(c)
  <2>1. wired[c] \in Objects /\ replica[c] \in SUBSET Updates
    BY <1>0, <1>5, Published DEF ReceiveStep2, Open, RoomInv, WiredInv, TypeOK
  <2>2. CASE replica[c] \ y[wired[c]].content = {}
    BY <1>5, <2>2, UnusedStays DEF ReceiveStep2, Integrate
  <2>3. CASE replica[c] \ y[wired[c]].content # {}
    <3>1. Grown(wired[c])
      <4> DEFINE n == wired[c]
                 grown == [y EXCEPT ![n].content = @ \cup (replica[c] \ y[n].content),
                                    ![n].touched = Touched(n, c)]
      <4>1. y' = IF Live(n) THEN SchedulePersist(grown, n) ELSE grown
        BY <1>5, <2>3 DEF ReceiveStep2, Integrate
      <4>2. Widened(grown, n)
        BY <1>0, <2>1, IntegrateWidens
      <4> HIDE DEF grown
      <4> QED BY <1>0, <2>1, <4>1, <4>2, EditGrows, WidenedGrows
    <3> QED BY <1>5, <3>1, UnusedStays DEF Grown, ReceiveStep2
  <2> QED BY <2>2, <2>3
<1>6. CASE Close(c)
  <2> DEFINE n == wired[c]
  <2>1. /\ n \in Objects /\ n = roomOf[ChannelOf[c]] /\ ChannelOf[c] \in Docs
        /\ y' = [y EXCEPT ![n] = Left(y[n], c)]
        /\ pc' = [pc EXCEPT ![c] = "off"] /\ wired' = [wired EXCEPT ![c] = NoEntry]
        /\ UNCHANGED roomOf
    BY <1>0, <1>6, Published DEF Close, Open, RoomInv, WiredInv
  <2>2. y'[n] = Left(y[n], c) /\ y[n] \in Entry
    BY <1>0, <2>1
  <2>3. /\ y'[n].clients = y[n].clients \ {c}
        /\ y'[n].clients = {} => y'[n].gcTimer
    BY <2>2, ZenonT(40) DEF Left, Entry
  <2>4. ASSUME NEW x \in Docs, roomOf[x] # NoEntry
        PROVE  /\ y'[roomOf[x]].clients = {} => y'[roomOf[x]].gcTimer
               /\ \A e \in y'[roomOf[x]].clients : Open(e)' /\ wired'[e] = roomOf[x]
    <3>0. roomOf[x] \in Objects /\ y[roomOf[x]].clients \subseteq Callers
      BY <1>0, <2>4, Ranges DEF Entry
    <3>1. CASE roomOf[x] = n
      BY <1>0, <2>1, <2>3, <2>4, <3>0, <3>1 DEF ClientsInv, Open, TypeOK
    <3>2. CASE roomOf[x] # n
      BY <1>0, <2>1, <2>4, <3>0, <3>2 DEF ClientsInv, Open, TypeOK
    <3> QED BY <3>1, <3>2
  <2>5. \A x \in Callers : pc'[x] # "lost"
    BY <1>0, <2>1 DEF ClientsInv, TypeOK
  <2> QED BY <2>1, <2>4, <2>5 DEF ClientsInv
<1> QED BY <1>1, <1>2, <1>3, <1>4, <1>5, <1>6 DEF ClientStep

LEMMA ServerUnused ==
  ASSUME UnusedInv, SocketsOnly, ServerStep
  PROVE  ClientsInv'
<1>0. /\ RoomInv /\ ClientsInv /\ Callers = Clients
      /\ y \in [Objects -> Entry] /\ TypeOK /\ RoomInv'
  BY RoomStep DEF UnusedInv, RoomInv, TypeOK, SocketsOnly, Callers, Next
<1>1. ASSUME NEW c \in Callers, NEW loaded, FinishCreate(c, loaded)
      PROVE  ClientsInv'
  <2> DEFINE d == ChannelOf[c]
             n == made + 1
             callers == Waiting(d) \cup {c}
             opened == [Blank EXCEPT !.kind = d, !.content = Initial(d, n, loaded)]
  <2>1. /\ d \in Docs /\ roomOf[d] = NoEntry /\ c \in creators[d]
        /\ roomOf' = [roomOf EXCEPT ![d] = n] /\ made' = n
        /\ y' = [y EXCEPT ![n] = Joined(opened, callers)]
        /\ Wire(callers, n)
    BY <1>0, <1>1, RoomAssumption DEF FinishCreate, RoomInv, LockInv
  <2>2. roomOf'[d] = n /\ n \in Objects /\ (\A x \in Docs : x # d => roomOf'[x] = roomOf[x])
        /\ (\A x \in Docs : roomOf[x] # n)
    <3>1. made \in Nat /\ made + 1 <= MaxObjects /\ MaxObjects \in Nat
      BY <1>0, <2>1, RoomAssumption DEF RoomInv, TypeOK
    <3>2. n \in Objects
      BY <3>1 DEF Objects
    <3>3. roomOf'[d] = n /\ \A x \in Docs : x # d => roomOf'[x] = roomOf[x]
      BY <1>0, <2>1 DEF TypeOK
    <3>4. ASSUME NEW x \in Docs PROVE roomOf[x] # n
      <4>1. CASE roomOf[x] = NoEntry
        BY <3>1, <4>1 DEF NoEntry
      <4>2. CASE roomOf[x] # NoEntry
        BY <1>0, <3>1, <4>2, Ranges DEF RoomInv, EntryInv, Objects
      <4> QED BY <4>1, <4>2
    <3> QED BY <3>2, <3>3, <3>4
  <2>3. callers \subseteq Callers /\ c \in callers
    BY DEF Waiting
  <2>4. y'[n].clients = callers
    <3>1. y'[n] = Joined(opened, callers) /\ opened.clients = {}
      BY <1>0, <2>1, <2>2 DEF Blank
    <3>2. Joined(opened, callers).clients = opened.clients \cup (callers \cap Clients)
      BY DEF Joined, Blank
    <3> HIDE DEF callers, opened
    <3> QED BY <1>0, <2>3, <3>1, <3>2
  <2>5. ASSUME NEW e \in callers PROVE wired[e] = NoEntry
    <3>1. CASE e \in Waiting(d)
      BY <3>1 DEF Waiting
    <3>2. CASE e = c
      BY <1>0, <2>1, <3>2 DEF RoomInv, WiredInv
    <3> QED BY <3>1, <3>2
  <2>6. ASSUME NEW x \in Docs, roomOf'[x] # NoEntry
        PROVE  /\ y'[roomOf'[x]].clients = {} => y'[roomOf'[x]].gcTimer
               /\ \A e \in y'[roomOf'[x]].clients : Open(e)' /\ wired'[e] = roomOf'[x]
    <3>1. CASE x = d
      <4>1. y'[roomOf'[x]].clients = callers
        BY <2>2, <2>4, <3>1
      <4>2. ASSUME NEW e \in callers PROVE Open(e)' /\ wired'[e] = n
        <5>1. e \in Callers /\ pc[e] # "lost"
          BY <1>0, <2>3 DEF ClientsInv
        <5> HIDE DEF callers, n
        <5> QED BY <2>1, <4>2, <5>1 DEF Wire, Open
      <4> QED BY <2>2, <2>3, <3>1, <4>1, <4>2
    <3>2. CASE x # d
      <4>1. /\ roomOf'[x] = roomOf[x] /\ roomOf[x] # NoEntry /\ roomOf[x] # n
            /\ roomOf[x] \in Objects /\ y[roomOf[x]].clients \subseteq Callers
        BY <1>0, <2>2, <2>6, <3>2, Ranges DEF Entry
      <4>2. y'[roomOf[x]] = y[roomOf[x]]
        BY <1>0, <2>1, <2>2, <4>1
      <4>3. ASSUME NEW e \in y[roomOf[x]].clients
            PROVE  Open(e)' /\ wired'[e] = roomOf[x]
        <5>1. e \in Callers /\ Open(e) /\ wired[e] = roomOf[x] /\ e \notin callers
          BY <1>0, <2>5, <4>1 DEF ClientsInv
        <5> HIDE DEF callers
        <5> QED BY <2>1, <5>1 DEF Wire, Open
      <4> QED BY <1>0, <4>1, <4>2, <4>3 DEF ClientsInv
    <3> QED BY <3>1, <3>2
  <2>7. \A x \in Callers : pc'[x] # "lost"
    <3> HIDE DEF callers
    <3> QED BY <1>0, <2>1 DEF ClientsInv, Wire
  <2> QED BY <2>6, <2>7 DEF ClientsInv
<1>2. ASSUME NEW o \in Objects, TimerFires(o) PROVE ClientsInv'
  <2>1. \A x \in Objects : y'[x].clients = y[x].clients /\ y'[x].gcTimer = y[x].gcTimer
    BY <1>0, <1>2 DEF TimerFires, Entry
  <2> QED BY <1>2, <2>1, UnusedStays DEF TimerFires
<1>3. ASSUME NEW n \in Objects, CollectRoom(n) PROVE ClientsInv'
  <2>1. /\ roomOf[y[n].kind] = n /\ roomOf' = [roomOf EXCEPT ![y[n].kind] = NoEntry]
        /\ y[n].kind \in Docs /\ n # NoEntry
        /\ y' = [y EXCEPT ![n].persistTimer = 0, ![n].gcTimer = FALSE,
                          ![n].touched = FALSE]
        /\ UNCHANGED <<pc, wired>>
    BY <1>0, <1>3, Ranges DEF CollectRoom, Live
  <2>2. ASSUME NEW x \in Docs, roomOf'[x] # NoEntry
        PROVE  /\ roomOf'[x] = roomOf[x] /\ roomOf[x] \in Objects
               /\ roomOf[x] # n
    BY <1>0, <2>1, <2>2, Ranges DEF RoomInv, EntryInv, TypeOK
  <2>3. \A o \in Objects : o # n => y'[o] = y[o]
    BY <1>0, <2>1
  <2> QED BY <1>0, <2>1, <2>2, <2>3 DEF ClientsInv, Open
<1>4. ASSUME NEW n \in Objects, NEW w \in inflight[n], WriteLands(n, w) \/ WriteFails(n, w)
      PROVE  ClientsInv'
  BY <1>4, UnusedStays DEF WriteLands, WriteFails
<1>5. CASE Crash
  BY <1>5 DEF Crash, ClientsInv
<1> QED BY <1>1, <1>2, <1>3, <1>4, <1>5 DEF ServerStep, Create

\* A document that no open socket is on has its collection timer set, and no
\* stale entry among its clients keeps that timer from collecting it.
THEOREM UnusedStaysScheduled ==
  ASSUME SocketsOnly PROVE Spec => []UnusedRoomIsScheduled
<1>1. Init => UnusedInv
  BY RoomStarts DEF Init, UnusedInv, ClientsInv
<1>2. UnusedInv /\ [Next]_vars => UnusedInv'
  <2> SUFFICES ASSUME UnusedInv, [Next]_vars PROVE ClientsInv'
    BY RoomStep DEF UnusedInv
  <2>1. CASE UNCHANGED vars
    BY <2>1, UnusedStays DEF vars
  <2> QED BY <2>1, SocketUnused, ServerUnused DEF Next, Callers, SocketsOnly
<1>3. UnusedInv => UnusedRoomIsScheduled
  BY Ranges DEF UnusedInv, ClientsInv, UnusedRoomIsScheduled, Entry
<1> QED BY <1>1, <1>2, <1>3, PTL DEF Spec
=============================================================================
