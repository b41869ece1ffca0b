------------------------ MODULE SessionRecordsProofs ------------------------
(***************************************************************************)
(* The numbers of SessionRecords, proved for any number of requests and    *)
(* records: what holds of the three ways to take a number, and that an     *)
(* event never announces a record that is not there.                       *)
(***************************************************************************)
EXTENDS SessionRecords, WellFoundedInduction, TLAPS

Pending(r, pc, kind) == req[r].pc = pc /\ req[r].kind = kind

\* What a record or an event is stored under is a positive number.
NumbersTaken == \A r \in Requests : req[r].pc \in {"creating", "saving"}
                                      => req[r].number \in Number

\* Every snapshot number, stored or taken, has been counted, and each of the
\* taken ones is in nobody else's hands.
SnapshotInv ==
    /\ SnapshotNumbersUnique
    /\ \A i \in DOMAIN snapshots : snapshots[i] <= whiteboardSequence
    /\ \A r \in Requests : Pending(r, "creating", "snapshot") =>
         /\ req[r].number <= whiteboardSequence
         /\ \A i \in DOMAIN snapshots : snapshots[i] # req[r].number
         /\ \A o \in Requests \ {r} :
              Pending(o, "creating", "snapshot")
                => req[o].number # req[r].number

\* Until two overlap there is one number in creation, above all stored.
CheckpointInv ==
    overlapped \/
      /\ IsInjective(checkpoints)
      /\ \A r \in Requests : Pending(r, "creating", "checkpoint") =>
           /\ \A i \in DOMAIN checkpoints : checkpoints[i] < req[r].number
           /\ \A o \in Requests \ {r} : ~Pending(o, "creating", "checkpoint")

\* Until Redis is lost every number of an event, saved or not, comes from its
\* counter, and each of the unsaved ones is in nobody else's hands.
EventInv ==
    dropped \/
      /\ ready
      /\ \A i, j \in DOMAIN events :
           events[i].number = events[j].number => i = j
      /\ \A i \in DOMAIN events : events[i].number <= counter
      /\ \A r \in Requests : req[r].pc = "saving" =>
           /\ req[r].number <= counter
           /\ \A i \in DOMAIN events : events[i].number # req[r].number
           /\ \A o \in Requests \ {r} :
                req[o].pc = "saving" => req[o].number # req[r].number

\* A request that goes on to its event has stored what the event announces.
HasRecord(r) ==
    /\ req[r].kind = "checkpoint" => req[r].ref \in Range(checkpoints)
    /\ req[r].kind = "snapshot" => req[r].ref \in Range(snapshots)

RecordInv ==
    /\ EventsHaveRecords
    /\ \A r \in Requests : req[r].pc \in {"recording", "saving"}
                             => HasRecord(r)

IInv == TypeOK /\ NumbersTaken
-----------------------------------------------------------------------------
\* A nonempty set of naturals has a smallest element.
LEMMA Smallest ==
    ASSUME NEW T, T \subseteq Nat, T # {}
    PROVE  \E m \in T : \A k \in T : m <= k
<1>1. PICK m \in T : \A k \in T : ~(<<k, m>> \in OpToRel(<, Nat))
  BY WFMin, NatLessThanWellFounded, Zenon
<1>2. \A k \in T : ~(k < m)
  BY <1>1, Zenon DEF OpToRel
<1>3. m \in Nat /\ \A k \in T : k \in Nat
  OBVIOUS
<1>4. \A k \in T : m <= k
  BY <1>2, <1>3
<1> QED BY <1>4

\* A prefix of a sequence of naturals has an upper bound, and so has all of it.
LEMMA Bounded ==
    ASSUME NEW s \in Seq(Nat)
    PROVE  \E n \in Nat : \A i \in DOMAIN s : s[i] <= n
<1> DEFINE B(k) == \E n \in Nat : \A i \in 1 .. k : s[i] <= n
           T == {k \in 0 .. Len(s) : ~B(k)}
<1>1. Len(s) \in Nat /\ DOMAIN s = 1 .. Len(s) /\ \A i \in 1 .. Len(s) : s[i] \in Nat
  OBVIOUS
<1>2. SUFFICES ASSUME T # {} PROVE FALSE
  <2>1. B(Len(s)) \/ Len(s) \in T
    BY <1>1
  <2> QED BY <1>1, <2>1
<1>3. PICK k \in T : \A j \in T : k <= j
  <2>1. T \subseteq Nat
    BY <1>1
  <2> HIDE DEF T
  <2> QED BY <1>2, <2>1, Smallest
<1>4. k \in 0 .. Len(s) /\ ~B(k)
  OBVIOUS
<1>5. k # 0
  <2>1. B(0)
    <3>1. \A i \in 1 .. 0 : s[i] <= 0
      OBVIOUS
    <3> QED BY <3>1
  <2> QED BY <2>1, <1>4
<1>6. k - 1 \in 0 .. Len(s) /\ ~(k <= k - 1) /\ k \in 1 .. Len(s)
  BY <1>1, <1>4, <1>5
<1>7. B(k - 1)
  BY <1>6, <1>3
<1>8. PICK n \in Nat : \A i \in 1 .. (k - 1) : s[i] <= n
  BY <1>7
<1>9. s[k] \in Nat
  BY <1>1, <1>6
<1> DEFINE m == IF n <= s[k] THEN s[k] ELSE n
<1>10. m \in Nat /\ n <= m /\ s[k] <= m
  <2> DEFINE larger(a, b) == IF a <= b THEN b ELSE a
  <2>1. \A a, b \in Nat : larger(a, b) \in Nat /\ a <= larger(a, b) /\ b <= larger(a, b)
    OBVIOUS
  <2>2. m = larger(n, s[k])
    OBVIOUS
  <2> HIDE DEF m, larger, T, B
  <2> QED BY <1>8, <1>9, <2>1, <2>2
<1>11. \A i \in 1 .. k : s[i] <= m
  <2> SUFFICES ASSUME NEW i \in 1 .. k PROVE s[i] <= m
    OBVIOUS
  <2>0. k \in Int /\ i \in Int /\ i <= k /\ 1 <= i /\ k <= Len(s)
    BY <1>1, <1>6
  <2>1. s[i] \in Nat
    <3>1. i \in 1 .. Len(s)
      BY <1>1, <2>0
    <3> QED BY <1>1, <3>1
  <2> HIDE DEF m, T, B
  <2>2. CASE i = k
    BY <2>2, <1>10
  <2>3. CASE i # k
    <3>1. i \in 1 .. (k - 1)
      BY <2>0, <2>3
    <3>2. s[i] <= n
      BY <1>8, <3>1
    <3> QED BY <2>1, <3>2, <1>8, <1>10
  <2> QED BY <2>2, <2>3
<1>12. B(k)
  BY <1>10, <1>11
<1> QED BY <1>4, <1>12

\* sort({ sequenceNumber: -1 }) finds a number that no stored one exceeds.
LEMMA HighestBounds ==
    ASSUME NEW s \in Seq(Nat)
    PROVE  /\ Highest(s) \in Nat
           /\ \A i \in DOMAIN s : s[i] <= Highest(s)
<1> DEFINE S == Range(s) \cup {0}
           U == {n \in Nat : \A x \in S : x <= n}
<1>1. S \subseteq Nat
  BY DEF Range
<1>2. U # {}
  <2>1. PICK n \in Nat : \A i \in DOMAIN s : s[i] <= n
    BY Bounded
  <2>2. n \in U
    BY <2>1 DEF Range
  <2> QED BY <2>2
<1>3. PICK m \in U : \A j \in U : m <= j
  <2>1. U \subseteq Nat
    OBVIOUS
  <2> HIDE DEF U
  <2> QED BY <1>2, <2>1, Smallest
<1>4. m \in S
  <2>1. SUFFICES ASSUME m \notin S PROVE FALSE
    OBVIOUS
  <2>2. m \in Nat \ {0} /\ \A x \in S : x <= m
    BY <2>1
  <2>3. m - 1 \in Nat /\ ~(m <= m - 1)
    BY <2>2
  <2>4. \A x \in S : x <= m - 1
    BY <1>1, <2>1, <2>2
  <2>5. m - 1 \in U
    BY <2>3, <2>4
  <2> QED BY <1>3, <2>3, <2>5
<1>5. \A y \in S : m >= y
  BY <1>1
<1>6. Highest(s) \in S /\ \A y \in S : Highest(s) >= y
  <2> HIDE DEF S
  <2>1. Max(S) \in S /\ \A y \in S : Max(S) >= y
    BY <1>4, <1>5 DEF Max
  <2> QED BY <2>1 DEF Highest, S
<1> QED BY <1>1, <1>6 DEF Range
-----------------------------------------------------------------------------
Request == [pc : {"idle", "creating", "recording", "saving"},
            kind : Kinds, number : Nat, ref : Nat]
Event == [number : Number, kind : Kinds, ref : Nat]

\* Positive numbers are naturals, one by one and in a sequence.
LEMMA PositiveIsNatural ==
    ASSUME NEW s \in Seq(Number)
    PROVE  s \in Seq(Nat)
<1>1. Len(s) \in Nat /\ s \in [1 .. Len(s) -> Number]
  OBVIOUS
<1>2. s \in [1 .. Len(s) -> Nat]
  BY <1>1 DEF Number
<1> QED BY <1>1, <1>2

\* The numbers of the stored events are a sequence of positive numbers.
LEMMA EventNumbersTyped ==
    TypeOK => EventNumbers \in Seq(Number)
<1>1. SUFFICES ASSUME events \in Seq(Event) PROVE EventNumbers \in Seq(Number)
  BY DEF TypeOK, Event
<1>2. Len(events) \in Nat /\ events \in [1 .. Len(events) -> Event]
  BY <1>1
<1>3. \A e \in Event : e.number \in Number
  BY DEF Event
<1>4. EventNumbers \in [1 .. Len(events) -> Number]
  BY <1>2, <1>3 DEF EventNumbers
<1> QED BY <1>2, <1>4

\* The number that the hook of a timeline event may take.
LEMMA EventNumberTyped ==
    ASSUME TypeOK,
           NEW number \in IF UsesRedis THEN {counter + 1}
                          ELSE {Highest(EventNumbers) + 1, 1}
    PROVE  number \in Number
<1>1. EventNumbers \in Seq(Nat)
  BY EventNumbersTyped, PositiveIsNatural
<1>2. Highest(EventNumbers) \in Nat
  BY <1>1, HighestBounds
<1> HIDE DEF EventNumbers, Highest
<1> QED BY <1>2 DEF TypeOK, Number

\* A handler that goes on as a typed request, under a number where it has one.
LEMMA RequestTyped ==
    ASSUME IInv, NEW r \in Requests, NEW q \in Request, Proceed(r, q),
           q.pc \in {"creating", "saving"} => q.number \in Number
    PROVE  req' \in [Requests -> Request] /\ NumbersTaken'
<1>1. req \in [Requests -> Request]
  BY DEF IInv, TypeOK, Request
<1>2. req' = [req EXCEPT ![r] = q]
  BY DEF Proceed
<1>3. req' \in [Requests -> Request]
  BY <1>1, <1>2
<1>4. ASSUME NEW o \in Requests, req'[o].pc \in {"creating", "saving"}
      PROVE  req'[o].number \in Number
  <2>1. CASE o = r
    BY <1>1, <1>2, <1>4, <2>1
  <2>2. CASE o # r
    BY <1>1, <1>2, <1>4, <2>2 DEF IInv, NumbersTaken
  <2> QED BY <2>1, <2>2
<1> QED BY <1>3, <1>4 DEF NumbersTaken

\* Every handler answers in the end, and its slot is free again.
LEMMA ResponseTyped ==
    ASSUME IInv, NEW r \in Requests, Leave(r)
    PROVE  req' \in [Requests -> Request] /\ NumbersTaken'
<1>1. NoRequest \in Request /\ NoRequest.pc = "idle"
  BY DEF NoRequest, Request, Kinds
<1>2. Proceed(r, NoRequest)
  BY DEF Leave, Proceed
<1> QED BY <1>1, <1>2, RequestTyped

LEMMA TypeStep == IInv /\ [Next]_vars => IInv'
<1> SUFFICES ASSUME IInv, [Next]_vars PROVE IInv'
  OBVIOUS
<1> USE DEF IInv
<1>0. req \in [Requests -> Request]
  BY DEF TypeOK, Request
<1>1. ASSUME NEW r \in Requests, BeginEvent(r) PROVE IInv'
  <2> DEFINE q == [NoRequest EXCEPT !.pc = "recording"]
  <2>1. q \in Request /\ q.pc = "recording"
    BY DEF NoRequest, Request, Kinds
  <2>2. Proceed(r, q)
    BY <1>1 DEF BeginEvent
  <2>3. req' \in [Requests -> Request] /\ NumbersTaken'
    BY <2>1, <2>2, RequestTyped
  <2> QED BY <1>1, <2>3
      DEF BeginEvent, stored, counters, history, TypeOK, Request
<1>2. ASSUME NEW r \in Requests, BeginCheckpoint(r) PROVE IInv'
  <2> DEFINE q == [NoRequest EXCEPT !.pc = "creating", !.kind = "checkpoint",
                                    !.number = NextCheckpoint]
  <2>1. NextCheckpoint \in Number
    <3>1. checkpoints \in Seq(Nat)
      BY PositiveIsNatural DEF TypeOK
    <3>2. Highest(checkpoints) \in Nat
      BY <3>1, HighestBounds
    <3> QED BY <3>2 DEF NextCheckpoint, Number
  <2>2. q \in Request /\ q.number = NextCheckpoint
    BY <2>1 DEF NoRequest, Request, Kinds, Number
  <2>3. Proceed(r, q)
    BY <1>2 DEF BeginCheckpoint
  <2>4. req' \in [Requests -> Request] /\ NumbersTaken'
    BY <2>1, <2>2, <2>3, RequestTyped
  <2>5. overlapped' \in BOOLEAN
    BY <1>2 DEF BeginCheckpoint, TypeOK
  <2> QED BY <1>2, <2>4, <2>5
      DEF BeginCheckpoint, stored, counters, TypeOK, Request
<1>3. ASSUME NEW r \in Requests, BeginSnapshot(r) PROVE IInv'
  <2> DEFINE q == [NoRequest EXCEPT !.pc = "creating", !.kind = "snapshot",
                                    !.number = whiteboardSequence + 1]
  <2>1. q \in Request /\ q.number \in Number
    <3>1. whiteboardSequence + 1 \in Number
      BY DEF TypeOK, Number
    <3> QED BY <3>1 DEF NoRequest, Request, Kinds, Number
  <2>2. Proceed(r, q)
    BY <1>3 DEF BeginSnapshot
  <2>3. req' \in [Requests -> Request] /\ NumbersTaken'
    BY <2>1, <2>2, RequestTyped
  <2> QED BY <1>3, <2>3 DEF BeginSnapshot, stored, history, TypeOK, Request
<1>4. ASSUME NEW r \in Requests, Create(r) PROVE IInv'
  <2> DEFINE q == [req[r] EXCEPT !.pc = "recording", !.ref = req[r].number]
  <2>1. q \in Request /\ q.pc = "recording"
    BY <1>0 DEF Request
  <2>2. Proceed(r, q) /\ req[r].number \in Number
    BY <1>4 DEF Create, NumbersTaken
  <2>3. req' \in [Requests -> Request] /\ NumbersTaken'
    BY <2>1, <2>2, RequestTyped
  <2>4. checkpoints' \in Seq(Number) /\ snapshots' \in Seq(Number)
    BY <1>4, <2>2 DEF Create, TypeOK
  <2> QED BY <1>4, <2>3, <2>4 DEF Create, counters, history, TypeOK, Request
<1>5. ASSUME NEW r \in Requests, NumberEvent(r) PROVE IInv'
  <2>1. PICK number \in IF UsesRedis THEN {counter + 1}
                        ELSE {Highest(EventNumbers) + 1, 1} :
          /\ numbered < MaxEvents
          /\ numbered' = numbered + 1
          /\ counter' = IF UsesRedis THEN number ELSE counter
          /\ Proceed(r, [req[r] EXCEPT !.pc = "saving", !.number = number])
          /\ UNCHANGED <<stored, whiteboardSequence, ready, overlapped,
                         dropped>>
    BY <1>5 DEF NumberEvent
  <2> DEFINE q == [req[r] EXCEPT !.pc = "saving", !.number = number]
  <2>2. number \in Number
    BY EventNumberTyped
  <2>3. numbered' \in 0 .. MaxEvents /\ counter' \in Nat
    BY <2>1, <2>2, RecordsAssumption DEF TypeOK, Number
  <2>4. q \in Request /\ q.number = number
    BY <1>0, <2>2 DEF Request, Number
  <2>5. req' \in [Requests -> Request] /\ NumbersTaken'
    BY <2>1, <2>2, <2>4, RequestTyped
  <2> QED BY <2>1, <2>3, <2>5 DEF stored, TypeOK, Request
<1>6. ASSUME NEW r \in Requests, SaveEvent(r) PROVE IInv'
  <2> DEFINE e == [number |-> req[r].number, kind |-> req[r].kind,
                   ref |-> req[r].ref]
  <2>1. e \in Event
    <3>1. req[r].pc = "saving"
      BY <1>6 DEF SaveEvent
    <3>2. req[r].number \in Number
      BY <3>1 DEF NumbersTaken
    <3> QED BY <1>0, <3>2 DEF Event, Request
  <2>2. events' = Append(events, e) /\ Leave(r)
    BY <1>6 DEF SaveEvent
  <2>3. events' \in Seq(Event)
    <3> HIDE DEF e
    <3> QED BY <2>1, <2>2 DEF TypeOK, Event
  <2>4. req' \in [Requests -> Request] /\ NumbersTaken'
    BY <2>2, ResponseTyped
  <2> QED BY <1>6, <2>3, <2>4
      DEF SaveEvent, counters, history, TypeOK, Request, Event
<1>7. ASSUME NEW r \in Requests, FailRequest(r) PROVE IInv'
  <2>1. req' \in [Requests -> Request] /\ NumbersTaken'
    BY <1>7, ResponseTyped DEF FailRequest
  <2> QED BY <1>7, <2>1
      DEF FailRequest, stored, counters, history, TypeOK, Request
<1>8. ASSUME Outage PROVE IInv'
  BY <1>8 DEF Outage, stored, TypeOK, NumbersTaken
<1>9. ASSUME UNCHANGED vars PROVE IInv'
  BY <1>9 DEF vars, stored, counters, history, TypeOK, NumbersTaken
<1> QED
  BY <1>1, <1>2, <1>3, <1>4, <1>5, <1>6, <1>7, <1>8, <1>9 DEF Next

\* A new session has no records, and every slot is free.
LEMMA InitTyped == Init => IInv
<1>1. SUFFICES ASSUME Init PROVE IInv
  OBVIOUS
<1>2. /\ <<>> \in Seq(Number)
      /\ <<>> \in Seq([number : Number, kind : Kinds, ref : Nat])
      /\ 0 \in 0 .. MaxEvents
  BY RecordsAssumption
<1>3. NoRequest \in [pc : {"idle", "creating", "recording", "saving"},
                     kind : Kinds, number : Nat, ref : Nat]
  BY DEF NoRequest, Kinds
<1>4. NumbersTaken
  BY <1>1 DEF Init, NumbersTaken, NoRequest
<1> QED BY <1>1, <1>2, <1>3, <1>4 DEF Init, IInv, TypeOK

\* Every variable keeps its type, whatever the requests do and Redis does.
THEOREM RecordsTyped == Spec => []TypeOK
<1>1. IInv => TypeOK
  BY DEF IInv
<1> QED BY <1>1, InitTyped, TypeStep, PTL DEF Spec
-----------------------------------------------------------------------------
\* A handler changes its own slot.
LEMMA OwnSlot ==
    ASSUME TypeOK, NEW r \in Requests, NEW q, Proceed(r, q)
    PROVE  /\ req'[r] = q
           /\ \A o \in Requests \ {r} : req'[o] = req[o]
BY DEF TypeOK, Proceed

LEMMA OwnSlotFreed ==
    ASSUME TypeOK, NEW r \in Requests, Leave(r)
    PROVE  /\ req'[r].pc = "idle"
           /\ \A o \in Requests \ {r} : req'[o] = req[o]
BY DEF TypeOK, Leave, NoRequest

Others(r) == \A o \in Requests \ {r} : req'[o] = req[o]

\* What each handler leaves in its slot.
LEMMA SlotAfterStep ==
    ASSUME TypeOK, NEW r \in Requests
    PROVE  /\ BeginEvent(r) =>
                Others(r) /\ req'[r].pc = "recording" /\ req'[r].kind = "plain"
           /\ BeginCheckpoint(r) =>
                /\ Others(r)
                /\ req'[r].pc = "creating" /\ req'[r].kind = "checkpoint"
                /\ req'[r].number = NextCheckpoint
           /\ BeginSnapshot(r) =>
                /\ Others(r)
                /\ req'[r].pc = "creating" /\ req'[r].kind = "snapshot"
                /\ req'[r].number = whiteboardSequence + 1
           /\ Create(r) =>
                /\ Others(r)
                /\ req'[r].pc = "recording" /\ req'[r].kind = req[r].kind
                /\ req'[r].ref = req[r].number
           /\ \A number \in Nat :
                Proceed(r, [req[r] EXCEPT !.pc = "saving", !.number = number])
                  => /\ Others(r)
                     /\ req'[r].pc = "saving" /\ req'[r].kind = req[r].kind
                     /\ req'[r].number = number /\ req'[r].ref = req[r].ref
<1>0. /\ req[r] \in Request
      /\ NoRequest \in Request
  BY DEF TypeOK, Request, NoRequest, Kinds
<1>1. ASSUME BeginEvent(r)
      PROVE  Others(r) /\ req'[r].pc = "recording" /\ req'[r].kind = "plain"
  <2> DEFINE q == [NoRequest EXCEPT !.pc = "recording"]
  <2>1. q.pc = "recording" /\ q.kind = "plain"
    BY DEF NoRequest
  <2>2. Proceed(r, q)
    BY <1>1 DEF BeginEvent
  <2> HIDE DEF q
  <2> QED BY <2>1, <2>2, OwnSlot DEF Others
<1>2. ASSUME BeginCheckpoint(r)
      PROVE  /\ Others(r)
             /\ req'[r].pc = "creating" /\ req'[r].kind = "checkpoint"
             /\ req'[r].number = NextCheckpoint
  <2> DEFINE q == [NoRequest EXCEPT !.pc = "creating", !.kind = "checkpoint",
                                    !.number = NextCheckpoint]
  <2>1. q.pc = "creating" /\ q.kind = "checkpoint" /\ q.number = NextCheckpoint
    BY DEF NoRequest
  <2>2. Proceed(r, q)
    BY <1>2 DEF BeginCheckpoint
  <2> HIDE DEF q
  <2> QED BY <2>1, <2>2, OwnSlot DEF Others
<1>3. ASSUME BeginSnapshot(r)
      PROVE  /\ Others(r)
             /\ req'[r].pc = "creating" /\ req'[r].kind = "snapshot"
             /\ req'[r].number = whiteboardSequence + 1
  <2> DEFINE n == whiteboardSequence + 1
             q == [NoRequest EXCEPT !.pc = "creating", !.kind = "snapshot",
                                    !.number = n]
  <2>1. q.pc = "creating" /\ q.kind = "snapshot" /\ q.number = n
    <3> HIDE DEF n
    <3> QED BY DEF NoRequest
  <2>2. Proceed(r, q)
    BY <1>3 DEF BeginSnapshot
  <2> HIDE DEF q
  <2> QED BY <2>1, <2>2, OwnSlot DEF Others
<1>4. ASSUME Create(r)
      PROVE  /\ Others(r)
             /\ req'[r].pc = "recording" /\ req'[r].kind = req[r].kind
             /\ req'[r].ref = req[r].number
  <2> DEFINE q == [req[r] EXCEPT !.pc = "recording", !.ref = req[r].number]
  <2>1. q.pc = "recording" /\ q.kind = req[r].kind /\ q.ref = req[r].number
    BY <1>0 DEF Request
  <2>2. Proceed(r, q)
    BY <1>4 DEF Create
  <2> HIDE DEF q
  <2> QED BY <2>1, <2>2, OwnSlot DEF Others
<1>5. ASSUME NEW number \in Nat,
             Proceed(r, [req[r] EXCEPT !.pc = "saving", !.number = number])
      PROVE  /\ Others(r)
             /\ req'[r].pc = "saving" /\ req'[r].kind = req[r].kind
             /\ req'[r].number = number /\ req'[r].ref = req[r].ref
  <2> DEFINE q == [req[r] EXCEPT !.pc = "saving", !.number = number]
  <2>1. /\ q.pc = "saving" /\ q.kind = req[r].kind
        /\ q.number = number /\ q.ref = req[r].ref
    BY <1>0 DEF Request
  <2>2. Proceed(r, q)
    BY <1>5
  <2> HIDE DEF q
  <2> QED BY <2>1, <2>2, OwnSlot DEF Others
<1> QED BY <1>1, <1>2, <1>3, <1>4, <1>5

\* NumberEvent with the number it takes.
LEMMA NumberTaken ==
    ASSUME TypeOK, NEW r \in Requests, NumberEvent(r)
    PROVE  \E number \in Number :
             /\ ready => number = counter + 1 /\ counter' = number
             /\ Others(r)
             /\ req[r].pc = "recording"
             /\ req'[r].pc = "saving" /\ req'[r].kind = req[r].kind
             /\ req'[r].number = number /\ req'[r].ref = req[r].ref
             /\ UNCHANGED <<stored, whiteboardSequence, ready, overlapped,
                            dropped>>
<1>1. PICK number \in IF UsesRedis THEN {counter + 1}
                      ELSE {Highest(EventNumbers) + 1, 1} :
        /\ req[r].pc = "recording"
        /\ counter' = IF UsesRedis THEN number ELSE counter
        /\ Proceed(r, [req[r] EXCEPT !.pc = "saving", !.number = number])
        /\ UNCHANGED <<stored, whiteboardSequence, ready, overlapped, dropped>>
  BY DEF NumberEvent
<1>2. number \in Number /\ number \in Nat
  BY EventNumberTyped DEF Number
<1>3. /\ Others(r)
      /\ req'[r].pc = "saving" /\ req'[r].kind = req[r].kind
      /\ req'[r].number = number /\ req'[r].ref = req[r].ref
  BY <1>1, <1>2, SlotAfterStep
<1>4. ready => number = counter + 1 /\ counter' = number
  BY <1>1 DEF UsesRedis
<1> QED BY <1>1, <1>2, <1>3, <1>4

\* What a sequence is after a number that is new to it has been appended.
LEMMA AppendNew ==
    ASSUME NEW s \in Seq(Number), NEW n \in Number,
           IsInjective(s), \A i \in DOMAIN s : s[i] # n
    PROVE  /\ IsInjective(Append(s, n))
           /\ \A i \in DOMAIN Append(s, n) :
                \/ i \in DOMAIN s /\ Append(s, n)[i] = s[i]
                \/ Append(s, n)[i] = n
<1>1. /\ Len(s) \in Nat /\ DOMAIN s = 1 .. Len(s)
      /\ DOMAIN Append(s, n) = 1 .. (Len(s) + 1)
  OBVIOUS
<1>2. /\ \A i \in 1 .. Len(s) : Append(s, n)[i] = s[i]
      /\ Append(s, n)[Len(s) + 1] = n
  OBVIOUS
<1>3. \A i \in 1 .. (Len(s) + 1) : i \in 1 .. Len(s) \/ i = Len(s) + 1
  BY <1>1
<1>4. ASSUME NEW i \in DOMAIN Append(s, n), NEW j \in DOMAIN Append(s, n),
             Append(s, n)[i] = Append(s, n)[j]
      PROVE  i = j
  BY <1>1, <1>2, <1>3, <1>4 DEF IsInjective
<1> QED BY <1>1, <1>2, <1>3, <1>4 DEF IsInjective

\* The invariant of the snapshots outlives every step that stores none, counts
\* none, and gives no request a number.
LEMMA SnapshotKept ==
    ASSUME SnapshotInv, UNCHANGED <<snapshots, whiteboardSequence>>,
           \A o \in Requests : Pending(o, "creating", "snapshot")'
             => /\ Pending(o, "creating", "snapshot")
                /\ req'[o].number = req[o].number
    PROVE  SnapshotInv'
BY DEF SnapshotInv, SnapshotNumbersUnique, Pending

LEMMA SnapshotStep == IInv /\ SnapshotInv /\ [Next]_vars => SnapshotInv'
<1> SUFFICES ASSUME IInv, SnapshotInv, [Next]_vars PROVE SnapshotInv'
  OBVIOUS
<1>0. TypeOK
  BY DEF IInv
<1>1. ASSUME NEW r \in Requests, BeginEvent(r) PROVE SnapshotInv'
  BY <1>0, <1>1, SlotAfterStep, SnapshotKept
     DEF BeginEvent, Others, stored, counters, Pending
<1>2. ASSUME NEW r \in Requests, BeginCheckpoint(r) PROVE SnapshotInv'
  BY <1>0, <1>2, SlotAfterStep, SnapshotKept
     DEF BeginCheckpoint, Others, stored, counters, Pending
<1>3. ASSUME NEW r \in Requests, BeginSnapshot(r) PROVE SnapshotInv'
  <2>1. /\ whiteboardSequence' = whiteboardSequence + 1
        /\ snapshots' = snapshots
        /\ whiteboardSequence \in Nat
    BY <1>0, <1>3 DEF BeginSnapshot, stored, TypeOK
  <2>2. /\ req'[r].number = whiteboardSequence + 1
        /\ \A o \in Requests \ {r} : req'[o] = req[o]
    BY <1>0, <1>3, SlotAfterStep DEF Others
  <2>3. \A i \in DOMAIN snapshots : snapshots[i] \in Nat
    BY <1>0 DEF TypeOK, Number
  <2>4. \A o \in Requests : req[o].number \in Nat
    BY <1>0 DEF TypeOK
  <2> QED BY <2>1, <2>2, <2>3, <2>4
      DEF SnapshotInv, SnapshotNumbersUnique, Pending
<1>4. ASSUME NEW r \in Requests, Create(r) PROVE SnapshotInv'
  <2>1. /\ req'[r].pc = "recording"
        /\ \A o \in Requests \ {r} : req'[o] = req[o]
    BY <1>0, <1>4, SlotAfterStep DEF Others
  <2>2. whiteboardSequence' = whiteboardSequence
    BY <1>4 DEF Create, counters
  <2>3. CASE req[r].kind # "snapshot"
    BY <1>4, <2>1, <2>2, <2>3, SnapshotKept DEF Create, Pending
  <2>4. CASE req[r].kind = "snapshot"
    <3>1. snapshots' = Append(snapshots, req[r].number)
      BY <1>4, <2>4 DEF Create
    <3>2. Pending(r, "creating", "snapshot") /\ req[r].number \in Number
      BY <1>4, <2>4 DEF Create, Pending, IInv, NumbersTaken
    <3>3. snapshots \in Seq(Number)
      BY <1>0 DEF TypeOK
    <3>4. /\ IsInjective(snapshots')
          /\ \A i \in DOMAIN snapshots' :
               \/ i \in DOMAIN snapshots /\ snapshots'[i] = snapshots[i]
               \/ snapshots'[i] = req[r].number
      BY <3>1, <3>2, <3>3, AppendNew DEF SnapshotInv, SnapshotNumbersUnique
    <3> QED BY <2>1, <2>2, <3>2, <3>4
        DEF SnapshotInv, SnapshotNumbersUnique, Pending
  <2> QED BY <2>3, <2>4
<1>5. ASSUME NEW r \in Requests, NumberEvent(r) PROVE SnapshotInv'
  <2>1. /\ req'[r].pc = "saving"
        /\ \A o \in Requests \ {r} : req'[o] = req[o]
    BY <1>0, <1>5, NumberTaken DEF Others
  <2> QED BY <1>5, <2>1, SnapshotKept DEF NumberEvent, stored, Pending
<1>6. ASSUME NEW r \in Requests, SaveEvent(r) PROVE SnapshotInv'
  BY <1>0, <1>6, OwnSlotFreed, SnapshotKept DEF SaveEvent, counters, Pending
<1>7. ASSUME NEW r \in Requests, FailRequest(r) PROVE SnapshotInv'
  BY <1>0, <1>7, OwnSlotFreed, SnapshotKept
     DEF FailRequest, stored, counters, Pending
<1>8. ASSUME Outage PROVE SnapshotInv'
  BY <1>8, SnapshotKept DEF Outage, stored, Pending
<1>9. ASSUME UNCHANGED vars PROVE SnapshotInv'
  BY <1>9, SnapshotKept DEF vars, stored, counters, Pending
<1> QED
  BY <1>1, <1>2, <1>3, <1>4, <1>5, <1>6, <1>7, <1>8, <1>9 DEF Next

\* No two whiteboard snapshots of a session share a number, however many
\* requests overlap and fail.
THEOREM SnapshotsUnique == Spec => []SnapshotNumbersUnique
<1>1. Init => IInv
  BY InitTyped
<1>2. Init => SnapshotInv
  BY DEF Init, SnapshotInv, SnapshotNumbersUnique, IsInjective, Pending,
         NoRequest
<1>3. SnapshotInv => SnapshotNumbersUnique
  BY DEF SnapshotInv
<1> QED BY <1>1, <1>2, <1>3, TypeStep, SnapshotStep, PTL DEF Spec
-----------------------------------------------------------------------------
LEMMA CheckpointKept ==
    ASSUME CheckpointInv, UNCHANGED checkpoints, overlapped => overlapped',
           \A o \in Requests : Pending(o, "creating", "checkpoint")'
             => /\ Pending(o, "creating", "checkpoint")
                /\ req'[o].number = req[o].number
    PROVE  CheckpointInv'
BY DEF CheckpointInv, IsInjective, Pending

LEMMA CheckpointStep == IInv /\ CheckpointInv /\ [Next]_vars => CheckpointInv'
<1> SUFFICES ASSUME IInv, CheckpointInv, [Next]_vars PROVE CheckpointInv'
  OBVIOUS
<1>0. TypeOK
  BY DEF IInv
<1>1. ASSUME NEW r \in Requests, BeginEvent(r) PROVE CheckpointInv'
  BY <1>0, <1>1, SlotAfterStep, CheckpointKept
     DEF BeginEvent, Others, stored, history, Pending
<1>2. ASSUME NEW r \in Requests, BeginCheckpoint(r) PROVE CheckpointInv'
  <2>1. /\ checkpoints' = checkpoints
        /\ overlapped' = (overlapped \/ \E o \in Requests :
                                         Pending(o, "creating", "checkpoint"))
    BY <1>2 DEF BeginCheckpoint, stored, Pending
  <2>2. SUFFICES ASSUME ~overlapped,
                        \A o \in Requests : ~Pending(o, "creating", "checkpoint")
                 PROVE  CheckpointInv'
    BY <2>1 DEF CheckpointInv
  <2>3. /\ req'[r].number = NextCheckpoint
        /\ \A o \in Requests \ {r} : req'[o] = req[o]
    BY <1>0, <1>2, SlotAfterStep DEF Others
  <2>4. \A i \in DOMAIN checkpoints : checkpoints[i] < NextCheckpoint
    <3>1. checkpoints \in Seq(Nat)
      BY <1>0, PositiveIsNatural DEF TypeOK
    <3>2. /\ Highest(checkpoints) \in Nat
          /\ \A i \in DOMAIN checkpoints : checkpoints[i] <= Highest(checkpoints)
      BY <3>1, HighestBounds
    <3>3. \A i \in DOMAIN checkpoints : checkpoints[i] \in Nat
      BY <3>1
    <3> QED BY <3>2, <3>3 DEF NextCheckpoint
  <2> HIDE DEF NextCheckpoint
  <2> QED BY <2>1, <2>2, <2>3, <2>4 DEF CheckpointInv, IsInjective, Pending
<1>3. ASSUME NEW r \in Requests, BeginSnapshot(r) PROVE CheckpointInv'
  <2>1. /\ req'[r].kind = "snapshot"
        /\ \A o \in Requests \ {r} : req'[o] = req[o]
    BY <1>0, <1>3, SlotAfterStep DEF Others
  <2> QED BY <1>3, <2>1, CheckpointKept
      DEF BeginSnapshot, stored, history, Pending
<1>4. ASSUME NEW r \in Requests, Create(r) PROVE CheckpointInv'
  <2>1. /\ req'[r].pc = "recording"
        /\ \A o \in Requests \ {r} : req'[o] = req[o]
    BY <1>0, <1>4, SlotAfterStep DEF Others
  <2>2. overlapped' = overlapped
    BY <1>4 DEF Create, history
  <2>3. CASE req[r].kind # "checkpoint"
    BY <1>4, <2>1, <2>2, <2>3, CheckpointKept DEF Create, Pending
  <2>4. CASE req[r].kind = "checkpoint" /\ ~overlapped
    <3>1. checkpoints' = Append(checkpoints, req[r].number)
      BY <1>4, <2>4 DEF Create
    <3>2. Pending(r, "creating", "checkpoint") /\ req[r].number \in Number
      BY <1>4, <2>4 DEF Create, Pending, IInv, NumbersTaken
    <3>3. checkpoints \in Seq(Number)
      BY <1>0 DEF TypeOK
    <3>4. \A i \in DOMAIN checkpoints : checkpoints[i] # req[r].number
      BY <2>4, <3>2, <3>3 DEF CheckpointInv, Number
    <3>5. IsInjective(checkpoints')
      BY <2>4, <3>1, <3>2, <3>3, <3>4, AppendNew DEF CheckpointInv
    <3>6. \A o \in Requests : ~Pending(o, "creating", "checkpoint")'
      BY <2>1, <2>4, <3>2 DEF CheckpointInv, Pending
    <3> QED BY <3>5, <3>6 DEF CheckpointInv
  <2> QED BY <2>2, <2>3, <2>4 DEF CheckpointInv
<1>5. ASSUME NEW r \in Requests, NumberEvent(r) PROVE CheckpointInv'
  <2>1. /\ req'[r].pc = "saving"
        /\ \A o \in Requests \ {r} : req'[o] = req[o]
        /\ UNCHANGED <<checkpoints, overlapped>>
    BY <1>0, <1>5, NumberTaken DEF Others, stored
  <2> QED BY <2>1, CheckpointKept DEF Pending
<1>6. ASSUME NEW r \in Requests, SaveEvent(r) PROVE CheckpointInv'
  BY <1>0, <1>6, OwnSlotFreed, CheckpointKept DEF SaveEvent, history, Pending
<1>7. ASSUME NEW r \in Requests, FailRequest(r) PROVE CheckpointInv'
  BY <1>0, <1>7, OwnSlotFreed, CheckpointKept
     DEF FailRequest, stored, history, Pending
<1>8. ASSUME Outage PROVE CheckpointInv'
  BY <1>8, CheckpointKept DEF Outage, stored, Pending
<1>9. ASSUME UNCHANGED vars PROVE CheckpointInv'
  BY <1>9, CheckpointKept DEF vars, stored, history, Pending
<1> QED
  BY <1>1, <1>2, <1>3, <1>4, <1>5, <1>6, <1>7, <1>8, <1>9 DEF Next

\* Reading the highest number before the insert is enough for checkpoints to
\* have numbers of their own, as long as no two are created at once.
THEOREM CheckpointsUnique == Spec => []CheckpointNumbersUnique
<1>1. Init => CheckpointInv
  BY DEF Init, CheckpointInv, IsInjective, Pending, NoRequest
<1>2. CheckpointInv => CheckpointNumbersUnique
  BY DEF CheckpointInv, CheckpointNumbersUnique
<1> QED BY <1>1, <1>2, InitTyped, TypeStep, CheckpointStep, PTL DEF Spec
-----------------------------------------------------------------------------
LEMMA EventKept ==
    ASSUME EventInv, UNCHANGED <<events, counter, ready, dropped>>,
           \A o \in Requests : req'[o].pc = "saving"
             => req[o].pc = "saving" /\ req'[o].number = req[o].number
    PROVE  EventInv'
BY DEF EventInv

LEMMA EventStep == IInv /\ EventInv /\ [Next]_vars => EventInv'
<1> SUFFICES ASSUME IInv, EventInv, [Next]_vars PROVE EventInv'
  OBVIOUS
<1>0. TypeOK
  BY DEF IInv
<1>1. ASSUME NEW r \in Requests, BeginEvent(r) PROVE EventInv'
  BY <1>0, <1>1, SlotAfterStep, EventKept
     DEF BeginEvent, Others, stored, counters, history
<1>2. ASSUME NEW r \in Requests, BeginCheckpoint(r) PROVE EventInv'
  <2>1. req'[r].pc = "creating" /\ Others(r)
    BY <1>0, <1>2, SlotAfterStep
  <2> QED BY <1>2, <2>1, EventKept
      DEF BeginCheckpoint, Others, stored, counters
<1>3. ASSUME NEW r \in Requests, BeginSnapshot(r) PROVE EventInv'
  <2>1. req'[r].pc = "creating" /\ Others(r)
    BY <1>0, <1>3, SlotAfterStep
  <2> QED BY <1>3, <2>1, EventKept DEF BeginSnapshot, Others, stored, history
<1>4. ASSUME NEW r \in Requests, Create(r) PROVE EventInv'
  BY <1>0, <1>4, SlotAfterStep, EventKept DEF Create, Others, counters, history
<1>5. ASSUME NEW r \in Requests, NumberEvent(r) PROVE EventInv'
  <2>1. PICK number \in Number :
          /\ ready => number = counter + 1 /\ counter' = number
          /\ Others(r)
          /\ req'[r].number = number
          /\ UNCHANGED <<events, ready, dropped>>
    BY <1>0, <1>5, NumberTaken DEF stored
  <2>2. SUFFICES ASSUME ~dropped PROVE EventInv'
    BY <2>1 DEF EventInv
  <2>3. ready /\ number = counter + 1 /\ counter' = counter + 1
    BY <2>1, <2>2 DEF EventInv
  <2>4. /\ counter \in Nat
        /\ \A i \in DOMAIN events : events[i].number \in Nat
        /\ \A o \in Requests : req[o].number \in Nat
    <3>1. EventNumbers \in Seq(Nat)
      BY <1>0, EventNumbersTyped, PositiveIsNatural
    <3>2. \A i \in DOMAIN events : EventNumbers[i] = events[i].number
      BY DEF EventNumbers
    <3>3. DOMAIN EventNumbers = DOMAIN events
      BY DEF EventNumbers
    <3>4. \A i \in DOMAIN EventNumbers : EventNumbers[i] \in Nat
      <4> HIDE DEF EventNumbers
      <4> QED BY <3>1
    <3> QED BY <1>0, <3>2, <3>3, <3>4 DEF TypeOK
  <2> QED BY <2>1, <2>2, <2>3, <2>4 DEF EventInv, Others
<1>6. ASSUME NEW r \in Requests, SaveEvent(r) PROVE EventInv'
  <2> DEFINE e == [number |-> req[r].number, kind |-> req[r].kind,
                   ref |-> req[r].ref]
  <2>1. events' = Append(events, e) /\ req[r].pc = "saving"
    BY <1>6 DEF SaveEvent
  <2>2. UNCHANGED <<counter, ready, dropped>>
    BY <1>6 DEF SaveEvent, counters, history
  <2>3. req'[r].pc = "idle" /\ \A o \in Requests \ {r} : req'[o] = req[o]
    BY <1>0, <1>6, OwnSlotFreed DEF SaveEvent
  <2>4. SUFFICES ASSUME ~dropped PROVE EventInv'
    BY <2>2 DEF EventInv
  <2>5. /\ DOMAIN events = 1 .. Len(events) /\ Len(events) \in Nat
        /\ DOMAIN events' = 1 .. (Len(events) + 1)
        /\ \A i \in 1 .. Len(events) : events'[i] = events[i]
        /\ events'[Len(events) + 1].number = req[r].number
    <3>1. events \in Seq(Event)
      BY <1>0 DEF TypeOK, Event
    <3>2. e.number = req[r].number
      OBVIOUS
    <3> HIDE DEF e
    <3> QED BY <2>1, <3>1, <3>2
  <2>6. \A i \in DOMAIN events' : i \in DOMAIN events \/ i = Len(events) + 1
    BY <2>5
  <2>7. \A i, j \in DOMAIN events' :
          events'[i].number = events'[j].number => i = j
    BY <2>1, <2>4, <2>5, <2>6 DEF EventInv
  <2>8. \A i \in DOMAIN events' : events'[i].number <= counter
    BY <2>1, <2>4, <2>5, <2>6 DEF EventInv
  <2>9. ASSUME NEW o \in Requests, req'[o].pc = "saving"
        PROVE  /\ req'[o].number <= counter
               /\ \A i \in DOMAIN events' : events'[i].number # req'[o].number
               /\ \A p \in Requests \ {o} :
                    req'[p].pc = "saving" => req'[p].number # req'[o].number
    BY <2>1, <2>3, <2>4, <2>5, <2>6, <2>9 DEF EventInv
  <2> QED BY <2>2, <2>4, <2>7, <2>8, <2>9 DEF EventInv
<1>7. ASSUME NEW r \in Requests, FailRequest(r) PROVE EventInv'
  BY <1>0, <1>7, OwnSlotFreed, EventKept
     DEF FailRequest, stored, counters, history
<1>8. ASSUME Outage PROVE EventInv'
  BY <1>8 DEF Outage, EventInv
<1>9. ASSUME UNCHANGED vars PROVE EventInv'
  BY <1>9, EventKept DEF vars, stored, counters, history
<1> QED
  BY <1>1, <1>2, <1>3, <1>4, <1>5, <1>6, <1>7, <1>8, <1>9 DEF Next

\* The counter in Redis gives every event of a session a number of its own,
\* however many are recorded at once, until Redis is lost.
THEOREM EventsUnique == Spec => []EventNumbersUnique
<1>1. Init => EventInv
  BY DEF Init, EventInv, NoRequest
<1>2. EventInv => EventNumbersUnique
  BY DEF EventInv, EventNumbersUnique, EventNumbers, IsInjective
<1> QED BY <1>1, <1>2, InitTyped, TypeStep, EventStep, PTL DEF Spec
-----------------------------------------------------------------------------
\* Nothing stored is removed, so what was announced stays announced.
LEMMA RecordKept ==
    ASSUME RecordInv, UNCHANGED events,
           Range(checkpoints) \subseteq Range(checkpoints'),
           Range(snapshots) \subseteq Range(snapshots'),
           \A o \in Requests : req'[o].pc \in {"recording", "saving"}
             => \/ HasRecord(o)'
                \/ /\ req[o].pc \in {"recording", "saving"}
                   /\ req'[o].kind = req[o].kind
                   /\ req'[o].ref = req[o].ref
    PROVE  RecordInv'
<1> HIDE DEF Range
<1>1. EventsHaveRecords'
  BY DEF RecordInv, EventsHaveRecords
<1>2. ASSUME NEW o \in Requests, req'[o].pc \in {"recording", "saving"}
      PROVE  HasRecord(o)'
  BY <1>2 DEF RecordInv, HasRecord
<1> QED BY <1>1, <1>2 DEF RecordInv

\* Appending keeps the numbers there are and adds one.
LEMMA AppendRange ==
    ASSUME NEW s \in Seq(Number), NEW n \in Number
    PROVE  /\ Range(s) \subseteq Range(Append(s, n))
           /\ n \in Range(Append(s, n))
<1>1. /\ Len(s) \in Nat /\ DOMAIN s = 1 .. Len(s)
      /\ DOMAIN Append(s, n) = 1 .. (Len(s) + 1)
  OBVIOUS
<1>2. /\ \A i \in 1 .. Len(s) : Append(s, n)[i] = s[i]
      /\ Append(s, n)[Len(s) + 1] = n
  OBVIOUS
<1>3. Len(s) + 1 \in 1 .. (Len(s) + 1)
  BY <1>1
<1>4. \A i \in 1 .. Len(s) : i \in 1 .. (Len(s) + 1)
  BY <1>1
<1> QED BY <1>1, <1>2, <1>3, <1>4 DEF Range

LEMMA RecordStep == IInv /\ RecordInv /\ [Next]_vars => RecordInv'
<1> SUFFICES ASSUME IInv, RecordInv, [Next]_vars PROVE RecordInv'
  OBVIOUS
<1> HIDE DEF Range
<1>0. TypeOK
  BY DEF IInv
<1>1. ASSUME NEW r \in Requests, BeginEvent(r) PROVE RecordInv'
  <2>1. Others(r) /\ req'[r].kind = "plain" /\ UNCHANGED stored
    BY <1>0, <1>1, SlotAfterStep DEF BeginEvent
  <2>2. HasRecord(r)'
    BY <2>1 DEF HasRecord
  <2> QED BY <2>1, <2>2, RecordKept DEF Others, stored
<1>2. ASSUME NEW r \in Requests, BeginCheckpoint(r) PROVE RecordInv'
  <2>1. Others(r) /\ req'[r].pc = "creating" /\ UNCHANGED stored
    BY <1>0, <1>2, SlotAfterStep DEF BeginCheckpoint
  <2> QED BY <2>1, RecordKept DEF Others, stored
<1>3. ASSUME NEW r \in Requests, BeginSnapshot(r) PROVE RecordInv'
  <2>1. Others(r) /\ req'[r].pc = "creating" /\ UNCHANGED stored
    BY <1>0, <1>3, SlotAfterStep DEF BeginSnapshot
  <2> QED BY <2>1, RecordKept DEF Others, stored
<1>4. ASSUME NEW r \in Requests, Create(r) PROVE RecordInv'
  <2>1. /\ Others(r)
        /\ req'[r].kind = req[r].kind
        /\ req'[r].ref = req[r].number
    BY <1>0, <1>4, SlotAfterStep
  <2>2. req[r].number \in Number
    BY <1>4 DEF Create, IInv, NumbersTaken
  <2>3. checkpoints \in Seq(Number) /\ snapshots \in Seq(Number)
    BY <1>0 DEF TypeOK
  <2>4. /\ checkpoints' = IF req[r].kind = "checkpoint"
                          THEN Append(checkpoints, req[r].number)
                          ELSE checkpoints
        /\ snapshots' = IF req[r].kind = "snapshot"
                        THEN Append(snapshots, req[r].number) ELSE snapshots
        /\ events' = events
    BY <1>4 DEF Create
  <2>5. /\ Range(checkpoints) \subseteq Range(checkpoints')
        /\ Range(snapshots) \subseteq Range(snapshots')
        /\ req[r].kind = "checkpoint" => req[r].number \in Range(checkpoints')
        /\ req[r].kind = "snapshot" => req[r].number \in Range(snapshots')
    BY <2>2, <2>3, <2>4, AppendRange
  <2>6. HasRecord(r)'
    BY <2>1, <2>5 DEF HasRecord
  <2> QED BY <2>1, <2>4, <2>5, <2>6, RecordKept DEF Others
<1>5. ASSUME NEW r \in Requests, NumberEvent(r) PROVE RecordInv'
  <2>1. /\ Others(r) /\ req[r].pc = "recording"
        /\ req'[r].kind = req[r].kind /\ req'[r].ref = req[r].ref
        /\ UNCHANGED stored
    BY <1>0, <1>5, NumberTaken
  <2> QED BY <2>1, RecordKept DEF Others, stored
<1>6. ASSUME NEW r \in Requests, SaveEvent(r) PROVE RecordInv'
  <2> DEFINE e == [number |-> req[r].number, kind |-> req[r].kind,
                   ref |-> req[r].ref]
  <2>1. /\ events' = Append(events, e) /\ req[r].pc = "saving"
        /\ UNCHANGED <<checkpoints, snapshots>>
    BY <1>6 DEF SaveEvent
  <2>2. req'[r].pc = "idle" /\ \A o \in Requests \ {r} : req'[o] = req[o]
    BY <1>0, <1>6, OwnSlotFreed DEF SaveEvent
  <2>3. HasRecord(r) /\ e.kind = req[r].kind /\ e.ref = req[r].ref
    BY <2>1 DEF RecordInv
  <2>4. \A i \in DOMAIN events' :
          \/ i \in DOMAIN events /\ events'[i] = events[i]
          \/ events'[i] = e
    <3>1. events \in Seq(Event)
      BY <1>0 DEF TypeOK, Event
    <3> HIDE DEF e
    <3> QED BY <2>1, <3>1
  <2>5. EventsHaveRecords'
    <3> HIDE DEF e
    <3> QED BY <2>1, <2>3, <2>4 DEF RecordInv, EventsHaveRecords, HasRecord
  <2>6. \A o \in Requests : req'[o].pc \in {"recording", "saving"}
          => HasRecord(o)'
    BY <2>1, <2>2 DEF RecordInv, HasRecord
  <2> QED BY <2>5, <2>6 DEF RecordInv
<1>7. ASSUME NEW r \in Requests, FailRequest(r) PROVE RecordInv'
  BY <1>0, <1>7, OwnSlotFreed, RecordKept DEF FailRequest, stored
<1>8. ASSUME Outage PROVE RecordInv'
  BY <1>8, RecordKept DEF Outage, stored
<1>9. ASSUME UNCHANGED vars PROVE RecordInv'
  BY <1>9, RecordKept DEF vars, stored
<1> QED
  BY <1>1, <1>2, <1>3, <1>4, <1>5, <1>6, <1>7, <1>8, <1>9 DEF Next

\* A replay that follows an event finds the record it announces, wherever a
\* handler failed and whatever Redis did.
THEOREM RecordsFound == Spec => []EventsHaveRecords
<1>1. Init => RecordInv
  BY DEF Init, RecordInv, EventsHaveRecords, NoRequest
<1>2. RecordInv => EventsHaveRecords
  BY DEF RecordInv
<1> QED BY <1>1, <1>2, InitTyped, TypeStep, RecordStep, PTL DEF Spec

\* Whoever asks, fails or overlaps, and whenever Redis is lost, the numbers of
\* the three kinds of records identify them as far as the code promises.
THEOREM RecordNumbersHold == Spec => []RecordNumbersUnique
  BY SnapshotsUnique, CheckpointsUnique, EventsUnique,
     PTL DEF RecordNumbersUnique
=============================================================================
