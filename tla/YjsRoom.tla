------------------------------ MODULE YjsRoom ------------------------------
(***************************************************************************)
(* The collaborative documents of one interview room: the code workspace   *)
(* ("collab") and the whiteboard.  Each is a Y.Doc in the memory of the    *)
(* server (yjsCoordinator.js), wired to the WebSocket clients that edit it *)
(* (yjsWebSocket.js) and to the REST handlers that do (coding.controller,  *)
(* whiteboard.controller, checkpointService), and written to MongoDB by a  *)
(* debounce timer or by a handler's flush.                                 *)
(*                                                                         *)
(* A Y.Doc is a CRDT: it is modelled as the set of updates it has          *)
(* integrated, and merging is union.  A client is the Yjs provider on the  *)
(* other end: it keeps its replica when it disconnects, asks for the       *)
(* document when its socket opens (sync step 1) and answers the server's   *)
(* own step 1 with everything it has.                                      *)
(***************************************************************************)
EXTENDS Naturals, FiniteSets

CONSTANTS
    Clients,        \* WebSocket clients
    Handlers,       \* REST requests that edit a document
    ChannelOf,      \* the document each of them edits
    Edits,          \* the edits they make
    MaxObjects,     \* bound on the number of Y.Docs ever created
    Faults          \* what may go wrong: "crash", "drop", "load", "write"

Docs == {"collab", "whiteboard"}
Callers == Clients \cup Handlers
Objects == 1 .. MaxObjects

ASSUME RoomAssumption ==
    /\ MaxObjects \in Nat
    /\ Clients \cap Handlers = {}
    /\ ChannelOf \in [Callers -> Docs]
    /\ Edits \cap Nat = {}
    /\ Faults \subseteq {"crash", "drop", "load", "write"}

\* The default file that object n is seeded with is the update n.
Updates == Edits \cup Objects

VARIABLES
    stored,     \* per document: the state in MongoDB (yjsState, ...)
    inflight,   \* per entry: the states of it being written to MongoDB
    roomOf,     \* roomDocs and whiteboardDocs: the entry of each, 0 for none
    creators,   \* per document: the callers creating it, under its lock
    y,          \* the entries: document, clients, timers
    made,       \* the number of Y.Docs created so far
    pc,         \* per caller: where its handler is
    wired,      \* per caller: the entry it holds
    replica,    \* per client: its own copy of the document
    asking,     \* per client: its sync step 1 is on its way
    answering,  \* per client: its answer to the server's step 1 is due
    used,       \* the edits made so far
    faulted,    \* history: the documents a failed load or write has hit
    cut         \* history: the documents collected while still in use

storage == <<stored, inflight>>
peer == <<replica, asking, answering, used>>
vars == <<stored, inflight, roomOf, creators, y, made, pc, wired,
          replica, asking, answering, used, faulted, cut>>
-----------------------------------------------------------------------------
NoEntry == 0
Entry == [kind : Docs, content : SUBSET Updates, clients : SUBSET Clients,
          persistTimer : 0 .. MaxObjects, gcTimer : BOOLEAN,
          touched : BOOLEAN]
Blank == [kind |-> "collab", content |-> {}, clients |-> {},
          persistTimer |-> 0, gcTimer |-> FALSE, touched |-> FALSE]

Init ==
    /\ stored = [d \in Docs |-> {}]
    /\ inflight = [n \in Objects |-> {}]
    /\ roomOf = [d \in Docs |-> NoEntry]
    /\ creators = [d \in Docs |-> {}]
    /\ y = [n \in Objects |-> Blank]
    /\ made = 0
    /\ pc = [c \in Callers |-> "off"]
    /\ wired = [c \in Callers |-> NoEntry]
    /\ replica = [c \in Clients |-> {}]
    /\ asking = [c \in Clients |-> FALSE]
    /\ answering = [c \in Clients |-> FALSE]
    /\ used = {}
    /\ faulted = {}
    /\ cut = {}

Open(c) == pc[c] = "on"

Live(n) == roomOf[y[n].kind] = n

TimerPending(n) == \E o \in Objects : y[o].persistTimer = n

\* The states of a document that are being written.
Writes(d) == UNION {inflight[n] : n \in {o \in Objects : y[o].kind = d}}

\* Mutant: only the whiteboard map is searched for the timer's entry.
TimerOwnerWhiteboard == roomOf["whiteboard"]

\* schedulePersist: the timer lives in the entry that roomDocs has under the
\* room key or else whiteboardDocs, and a timer already there is cancelled.
TimerOwner ==
    IF roomOf["collab"] # NoEntry THEN roomOf["collab"] ELSE roomOf["whiteboard"]

\* Mutant: edits of a room without sockets are not scheduled.
SchedulePersistOccupied(entries, n) ==
    IF TimerOwner = NoEntry \/ entries[TimerOwner].clients = {} THEN entries
    ELSE [entries EXCEPT ![TimerOwner].persistTimer = n]

SchedulePersist(entries, n) ==
    IF TimerOwner = NoEntry THEN entries
    ELSE [entries EXCEPT ![TimerOwner].persistTimer = n]

\* Each client's update handler ignores the updates of its own socket and
\* sends the others to every client but its own.
Recipients(n, origin) ==
    {c \in y[n].clients : Open(c) /\ y[n].clients \ {origin, c} # {}}

\* A handler has edited or saved the document of an empty room, since its
\* collection timer was armed.
Touched(n, origin) == y[n].touched \/ (origin \in Handlers /\ y[n].gcTimer)

\* Integrating updates fires the document's "update" event if any is new; a
\* document that has been destroyed has no listener left and no client.
Integrate(n, updates, origin) ==
    LET fresh == updates \ y[n].content
        grown == [y EXCEPT ![n].content = @ \cup fresh,
                           ![n].touched = Touched(n, origin)]
    IN  IF fresh = {} THEN UNCHANGED <<y, replica>>
        ELSE /\ y' = IF Live(n) THEN SchedulePersist(grown, n) ELSE grown
             /\ replica' = [c \in Clients |->
                              IF c \in Recipients(n, origin)
                              THEN replica[c] \cup fresh ELSE replica[c]]

\* persistRoomDocNow encodes the whole document and then awaits the write.
PersistRoomDocNow(n) ==
    inflight' = [inflight EXCEPT ![n] = @ \cup {y[n].content}]

\* connectClientToRoom after its await: callers that are clients join the
\* entry, even those whose socket closed meanwhile, and cancel its gcTimer.
Joined(entry, callers) ==
    LET joining == callers \cap Clients
    IN  [entry EXCEPT !.clients = @ \cup joining,
                      !.gcTimer = @ /\ joining = {},
                      !.touched = @ /\ joining = {}]

Wire(callers, n) ==
    /\ wired' = [c \in Callers |-> IF c \in callers THEN n ELSE wired[c]]
    /\ pc' = [c \in Callers |-> IF c \notin callers \/ pc[c] = "lost"
                                THEN pc[c] ELSE "on"]
    /\ answering' = [c \in Clients |-> c \in callers \/ answering[c]]
-----------------------------------------------------------------------------
\* Mutant: creation without the lock.
MustCreateUnlocked(d) == roomOf[d] = NoEntry

\* getOrCreateRoomDoc, called by a new socket or by a REST handler: use the
\* entry, wait for its creator, or become its creator.
MustCreate(d) == roomOf[d] = NoEntry /\ creators[d] = {}

GetOrCreate(c) ==
    LET d == ChannelOf[c]
    IN  /\ pc[c] = "off"
        /\ asking' = IF c \in Clients THEN [asking EXCEPT ![c] = TRUE] ELSE asking
        /\ IF roomOf[d] # NoEntry
           THEN /\ y' = [y EXCEPT ![roomOf[d]] = Joined(@, {c})]
                /\ wired' = [wired EXCEPT ![c] = roomOf[d]]
                /\ pc' = [pc EXCEPT ![c] = "on"]
                /\ answering' = IF c \in Clients
                                THEN [answering EXCEPT ![c] = TRUE] ELSE answering
                /\ UNCHANGED creators
           ELSE /\ pc' = [pc EXCEPT ![c] = "getting"]
                /\ creators' = IF MustCreate(d)
                               THEN [creators EXCEPT ![d] = @ \cup {c}]
                               ELSE creators
                /\ made + Cardinality(creators'["collab"])
                        + Cardinality(creators'["whiteboard"]) <= MaxObjects
                /\ UNCHANGED <<y, wired, answering>>
        /\ UNCHANGED <<stored, inflight, roomOf, made, replica, used, faulted, cut>>

\* The peer closes its socket while the handler awaits the document: no
\* "close" listener is attached yet, so the server never learns of it.
DropEarly(c) ==
    /\ "drop" \in Faults
    /\ c \in Clients
    /\ pc[c] = "getting"
    /\ pc' = [pc EXCEPT ![c] = "lost"]
    /\ asking' = [asking EXCEPT ![c] = FALSE]
    /\ UNCHANGED <<stored, inflight, roomOf, creators, y, made, wired,
                   replica, answering, used, faulted, cut>>

\* Mutant: the persisted state is not loaded.
InitialUnloaded(d, n, loaded) == IF d = "collab" THEN {n} ELSE {}

\* loadPersistedState swallows its errors, leaving the document empty, and an
\* empty workspace is seeded with the default file.
Initial(d, n, loaded) ==
    IF loaded = {} /\ d = "collab" THEN {n} ELSE loaded

Waiting(d) ==
    {c \in Callers : /\ ChannelOf[c] = d /\ c \notin creators[d]
                     /\ pc[c] \in {"getting", "lost"} /\ wired[c] = NoEntry}

\* The creator's load returns: it publishes the entry and releases the lock,
\* and every caller that waited for it goes on with that entry.
FinishCreate(c, loaded) ==
    LET d == ChannelOf[c]
        n == made + 1
        callers == Waiting(d) \cup {c}
    IN  /\ c \in creators[d]
        /\ loaded = stored[d] \/ ("load" \in Faults /\ loaded = {})
        /\ made' = n
        /\ roomOf' = [roomOf EXCEPT ![d] = n]
        /\ creators' = [creators EXCEPT ![d] = @ \ {c}]
        /\ y' = [y EXCEPT ![n] = Joined([Blank EXCEPT !.kind = d,
                                           !.content = Initial(d, n, loaded)],
                                        callers)]
        /\ Wire(callers, n)
        /\ faulted' = IF loaded = stored[d] THEN faulted ELSE faulted \cup {d}
        /\ UNCHANGED <<stored, inflight, replica, asking, used, cut>>

\* A client edits its replica, connected or not.  The server integrates the
\* edit if its message listener is attached; otherwise the message is lost,
\* and the edit waits for the next answer to a step 1.
ClientEdit(c, e) ==
    /\ e \notin used
    /\ pc[c] # "lost"
    /\ used' = used \cup {e}
    /\ IF Open(c)
       THEN LET n == wired[c]
            IN  /\ y' = SchedulePersist([y EXCEPT ![n].content = @ \cup {e}], n)
                /\ replica' = [x \in Clients |->
                                 IF x = c \/ x \in Recipients(n, c)
                                 THEN replica[x] \cup {e} ELSE replica[x]]
       ELSE /\ replica' = [replica EXCEPT ![c] = @ \cup {e}]
            /\ UNCHANGED y
    /\ UNCHANGED <<stored, inflight, roomOf, creators, made, pc, wired,
                   asking, answering, faulted, cut>>

\* The client's step 1 reaches the server, which replies with the document,
\* or reaches it before the listener is attached and is dropped.
ReceiveStep1(c) ==
    /\ asking[c]
    /\ asking' = [asking EXCEPT ![c] = FALSE]
    /\ replica' = IF Open(c)
                  THEN [replica EXCEPT ![c] = @ \cup y[wired[c]].content]
                  ELSE replica
    /\ UNCHANGED <<stored, inflight, roomOf, creators, y, made, pc, wired,
                   answering, used, faulted, cut>>

\* The client's answer to the server's step 1 brings what the server lacks.
ReceiveStep2(c) ==
    /\ Open(c)
    /\ answering[c]
    /\ answering' = [answering EXCEPT ![c] = FALSE]
    /\ Integrate(wired[c], replica[c], c)
    /\ UNCHANGED <<stored, inflight, roomOf, creators, made, pc, wired,
                   asking, used, faulted, cut>>

\* Mutant: leaving an empty room does not schedule its collection.
LeftUnscheduled(entry, c) == [entry EXCEPT !.clients = @ \ {c}]

\* The "close" listener: leave the room, and arm its GC when it is empty.
Left(entry, c) ==
    [entry EXCEPT !.clients = @ \ {c},
                  !.gcTimer = @ \/ entry.clients \subseteq {c}]

Close(c) ==
    /\ c \in Clients
    /\ Open(c)
    /\ y' = [y EXCEPT ![wired[c]] = Left(@, c)]
    /\ pc' = [pc EXCEPT ![c] = "off"]
    /\ wired' = [wired EXCEPT ![c] = NoEntry]
    /\ asking' = [asking EXCEPT ![c] = FALSE]
    /\ answering' = [answering EXCEPT ![c] = FALSE]
    /\ UNCHANGED <<stored, inflight, roomOf, creators, made, replica, used,
                   faulted, cut>>
-----------------------------------------------------------------------------
\* A REST handler (create, delete or rename a file, restore a checkpoint or a
\* snapshot) edits the document in one transaction ...
HandlerEdit(h, e) ==
    /\ h \in Handlers
    /\ Open(h)
    /\ e \notin used
    /\ used' = used \cup {e}
    /\ Integrate(wired[h], {e}, h)
    /\ pc' = [pc EXCEPT ![h] = "flush"]
    /\ UNCHANGED <<stored, inflight, roomOf, creators, made, wired, asking,
                   answering, faulted, cut>>

\* ... and, after storing a timeline event, flushes it: the document it holds,
\* whether that is still the published one or not.
HandlerFlush(h) ==
    /\ pc[h] = "flush"
    /\ PersistRoomDocNow(wired[h])
    /\ y' = [y EXCEPT ![wired[h]].touched = Touched(wired[h], h)]
    /\ pc' = [pc EXCEPT ![h] = "off"]
    /\ wired' = [wired EXCEPT ![h] = NoEntry]
    /\ UNCHANGED <<stored, roomOf, creators, made, peer, faulted, cut>>

\* A refused request, or a timeline event that cannot be stored.
HandlerFail(h) ==
    /\ h \in Handlers
    /\ pc[h] \in {"on", "flush"}
    /\ pc' = [pc EXCEPT ![h] = "off"]
    /\ wired' = [wired EXCEPT ![h] = NoEntry]
    /\ UNCHANGED <<storage, roomOf, creators, y, made, peer, faulted, cut>>

\* The debounce timer of entry o fires: 3 s passed since it was set.  Writes
\* take less, so one of a published document still in flight was issued since
\* then and, the document having been quiet, writes the same state.
TimerFires(o) ==
    LET n == y[o].persistTimer
    IN  /\ n # 0
        /\ Live(n) => \A w \in inflight[n] : w = y[n].content
        /\ PersistRoomDocNow(n)
        /\ y' = [y EXCEPT ![o].persistTimer = 0]
        /\ UNCHANGED <<stored, roomOf, creators, made, pc, wired, peer,
                       faulted, cut>>

\* MongoDB applies a write; concurrent ones take effect in any order.
WriteLands(n, w) ==
    /\ w \in inflight[n]
    /\ stored' = [stored EXCEPT ![y[n].kind] = w]
    /\ inflight' = [inflight EXCEPT ![n] = @ \ {w}]
    /\ UNCHANGED <<roomOf, creators, y, made, pc, wired, peer, faulted, cut>>

\* persistRoomDocNow logs a failed write and does not retry it.
WriteFails(n, w) ==
    /\ "write" \in Faults
    /\ w \in inflight[n]
    /\ inflight' = [inflight EXCEPT ![n] = @ \ {w}]
    /\ faulted' = faulted \cup {y[n].kind}
    /\ UNCHANGED <<stored, roomOf, creators, y, made, pc, wired, peer, cut>>

\* A handler has the document, or an edit of it is not written yet.
InUse(n) ==
    \/ \E h \in Handlers : wired[h] = n
    \/ TimerPending(n)
    \/ inflight[n] # {}

\* The GC timer fires 30 minutes after the last socket left the room, and asks
\* for nothing but that no socket has come since: a handler may be at work on
\* the document, and the persist timer it has set is cancelled.  Only what was
\* set or sent before the room became empty, a 3 s timer or a write, is over
\* by then: if a timer or a write is pending, a handler has touched the
\* document since.  The entry's timer may be the other document's.  The Y.Doc
\* itself lives on, without listeners, for a handler that holds it.
CollectRoom(n) ==
    /\ Live(n)
    /\ y[n].gcTimer
    /\ y[n].clients = {}
    /\ y[n].touched \/ ~(TimerPending(n) \/ inflight[n] # {})
    /\ roomOf' = [roomOf EXCEPT ![y[n].kind] = NoEntry]
    /\ y' = [y EXCEPT ![n].persistTimer = 0, ![n].gcTimer = FALSE,
                       ![n].touched = FALSE]
    /\ cut' = IF InUse(n) THEN cut \cup {y[n].kind} ELSE cut
    /\ UNCHANGED <<storage, creators, made, pc, wired, peer, faulted>>

\* The server stops without flushing and starts again; MongoDB may or may not
\* have applied what was in flight.  Clients keep their replicas.
Crash ==
    /\ "crash" \in Faults
    /\ \E landed \in [Docs -> UNION {Writes(d) : d \in Docs}
                              \cup {stored[d] : d \in Docs}] :
         /\ \A d \in Docs : landed[d] \in Writes(d) \cup {stored[d]}
         /\ stored' = landed
    /\ inflight' = [n \in Objects |-> {}]
    /\ roomOf' = [d \in Docs |-> NoEntry]
    /\ creators' = [d \in Docs |-> {}]
    /\ y' = [n \in Objects |-> Blank]
    /\ pc' = [c \in Callers |-> "off"]
    /\ wired' = [c \in Callers |-> NoEntry]
    /\ asking' = [c \in Clients |-> FALSE]
    /\ answering' = [c \in Clients |-> FALSE]
    /\ faulted' = {}
    /\ cut' = {}
    /\ UNCHANGED <<made, replica, used>>

-----------------------------------------------------------------------------
ClientStep(c) ==
    \/ DropEarly(c)
    \/ \E e \in Edits : ClientEdit(c, e)
    \/ ReceiveStep1(c)
    \/ ReceiveStep2(c)
    \/ Close(c)

HandlerStep(h) ==
    \/ \E e \in Edits : HandlerEdit(h, e)
    \/ HandlerFlush(h)
    \/ HandlerFail(h)

Create(c) == \E loaded \in {{}, stored[ChannelOf[c]]} : FinishCreate(c, loaded)

ServerStep ==
    \/ \E c \in Callers : Create(c)
    \/ \E n \in Objects : TimerFires(n)
    \/ \E n \in Objects : CollectRoom(n)
    \/ \E n \in Objects : \E w \in inflight[n] : WriteLands(n, w)
    \/ \E n \in Objects : \E w \in inflight[n] : WriteFails(n, w)
    \/ Crash

Next ==
    \/ \E c \in Callers : GetOrCreate(c)
    \/ \E c \in Clients : ClientStep(c)
    \/ \E h \in Handlers : HandlerStep(h)
    \/ ServerStep

Spec == Init /\ [][Next]_vars

\* Timers fire, awaited calls return, and an open socket delivers what was
\* sent on it.  Nobody has to edit, connect, leave or be collected.
Fairness ==
    /\ \A c \in Callers : WF_vars(Create(c))
    /\ \A n \in Objects : WF_vars(TimerFires(n))
    /\ \A n \in Objects : WF_vars(\E w \in inflight[n] : WriteLands(n, w))
    /\ \A c \in Clients : WF_vars(ReceiveStep1(c)) /\ WF_vars(ReceiveStep2(c))

LiveSpec == Spec /\ Fairness
-----------------------------------------------------------------------------
TypeOK ==
    /\ stored \in [Docs -> SUBSET Updates]
    /\ inflight \in [Objects -> SUBSET SUBSET Updates]
    /\ roomOf \in [Docs -> 0 .. MaxObjects]
    /\ creators \in [Docs -> SUBSET Callers]
    /\ y \in [Objects -> Entry]
    /\ made \in 0 .. MaxObjects
    /\ pc \in [Callers -> {"off", "getting", "lost", "on", "flush"}]
    /\ wired \in [Callers -> 0 .. MaxObjects]
    /\ replica \in [Clients -> SUBSET Updates]
    /\ asking \in [Clients -> BOOLEAN]
    /\ answering \in [Clients -> BOOLEAN]
    /\ used \in SUBSET Edits
    /\ faulted \in SUBSET Docs
    /\ cut \in SUBSET Docs

\* getOrCreateRoomDoc "serialize[s] creation per roomKey to prevent duplicate
\* docs": everybody who edits a document edits the one the server has
\* published, through lock waits, garbage collection and restarts, and the
\* server counts every open socket among the room's clients.  A handler may
\* hold another only once a collection has taken the document from its users.
SocketsShareTheRoom ==
    \A c \in Callers : pc[c] \in {"on", "flush"} =>
      /\ wired[c] # NoEntry
      /\ c \in Clients \/ ChannelOf[c] \notin cut => wired[c] = roomOf[ChannelOf[c]]
      /\ c \in Clients => c \in y[wired[c]].clients

\* "Persist on every Yjs update": what a document holds beyond the stored state
\* (the default file aside) will be written, and what a collected document
\* held has been.  Unless a load or a write failed or the document was
\* collected while in use, a persist timer is pending for it, or every write
\* in flight carries all of it, so that no order of the writes loses an edit.
UnsavedIsScheduled ==
    \A n \in Objects : y[n].kind \notin faulted \cup cut =>
      LET d == y[n].kind
          edits == y[n].content \ Objects
      IN  \/ TimerPending(n)
          \/ /\ \A w \in Writes(d) : edits \subseteq w
             /\ Writes(d) = {} => edits \subseteq stored[d]

\* A live document contains what MongoDB has, and what is being written, unless
\* a load or a write of it failed, or it was collected while in use: writing
\* it back never erases saved work.
RoomExtendsStore ==
    \A d \in Docs \ (faulted \cup cut) : roomOf[d] # NoEntry =>
      /\ stored[d] \subseteq y[roomOf[d]].content
      /\ \A w \in Writes(d) : w \subseteq y[roomOf[d]].content

\* There is one document per room, and it has everything that was saved.
RoomsAreWhole == SocketsShareTheRoom /\ RoomExtendsStore

\* A document without an open socket is due for collection: scheduleRoomGC has
\* armed its timer, and no socket keeps it from firing.
UnusedRoomIsScheduled ==
    \A d \in Docs :
      /\ roomOf[d] # NoEntry
      /\ \A c \in Clients : ~(Open(c) /\ wired[c] = roomOf[d])
      => y[roomOf[d]].gcTimer /\ y[roomOf[d]].clients = {}

\* Whatever happens to the server's memory, an edit that a client has in its
\* replica reaches MongoDB if the client stays connected: the server asks for
\* it on connecting and persists what it got.
EditsReachStore ==
    \A c \in Clients : \A e \in Edits :
      (Open(c) /\ e \in replica[c])
        ~> (e \in stored[ChannelOf[c]] \/ ~Open(c))

\* "broadcast to other clients": an update that the server integrates reaches
\* every other socket of the room.
UpdateReachesOthers ==
    [][\A n \in Objects : \A e \in Edits :
         /\ n = roomOf[y[n].kind] /\ n = roomOf'[y[n].kind]
         /\ e \in y'[n].content \ y[n].content
         => \A c \in Clients : Open(c) /\ wired[c] = n => e \in replica'[c]]_vars
=============================================================================
