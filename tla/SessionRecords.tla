--------------------------- MODULE SessionRecords ---------------------------
(***************************************************************************)
(* The numbered records of one interview session: code checkpoints         *)
(* (checkpointService.js), whiteboard snapshots (whiteboard.controller.js) *)
(* and the events of the unified timeline (TimelineEvent.js), by whose     *)
(* numbers the replay orders them.  Each kind takes its numbers in another *)
(* way: from the highest number stored, from a counter in the session      *)
(* document, and from a counter in Redis with the highest number stored as *)
(* a fallback.  A checkpoint or snapshot also records an event of its own. *)
(***************************************************************************)
EXTENDS Naturals, Sequences, FiniteSets, FiniteSetsExt, Functions

CONSTANTS
    Requests,   \* slots for requests in progress
    MaxRecords, \* bound on the numbers of checkpoints and of snapshots
    MaxEvents   \* bound on the events that are numbered

ASSUME RecordsAssumption == MaxRecords \in Nat /\ MaxEvents \in Nat

VARIABLES
    checkpoints,        \* the numbers of the stored checkpoints, oldest first
    snapshots,          \* those of the stored whiteboard snapshots
    events,             \* the stored events: number, and what they announce
    whiteboardSequence, \* the counter in the session document
    counter,            \* the counter timeline:seq in Redis
    ready,              \* redis.status = "ready"
    req,                \* per slot: where its handler is
    numbered,           \* history: how many events were given a number
    overlapped,         \* history: two checkpoints were created at once
    dropped             \* history: Redis has been unavailable

stored == <<checkpoints, snapshots, events>>
counters == <<whiteboardSequence, counter, ready>>
history == <<numbered, overlapped, dropped>>
vars == <<stored, counters, req, history>>
-----------------------------------------------------------------------------
Kinds == {"plain", "checkpoint", "snapshot"}

NoRequest == [pc |-> "idle", kind |-> "plain", number |-> 0, ref |-> 0]

Init ==
    /\ checkpoints = <<>>
    /\ snapshots = <<>>
    /\ events = <<>>
    /\ whiteboardSequence = 0
    /\ counter = 0
    /\ ready = TRUE
    /\ req = [r \in Requests |-> NoRequest]
    /\ numbered = 0
    /\ overlapped = FALSE
    /\ dropped = FALSE

Free(r) == req[r].pc = "idle"
Leave(r) == req' = [req EXCEPT ![r] = NoRequest]
Proceed(r, q) == req' = [req EXCEPT ![r] = q]

\* sort({ sequenceNumber: -1 }) and the first of it, or 0.
Highest(numbers) == Max(Range(numbers) \cup {0})

EventNumbers == [i \in DOMAIN events |-> events[i].number]

\* Any of the handlers that record an event and nothing else.
BeginEvent(r) ==
    /\ Free(r)
    /\ Proceed(r, [NoRequest EXCEPT !.pc = "recording"])
    /\ UNCHANGED <<stored, counters, history>>

NextCheckpoint == Highest(checkpoints) + 1

\* createCheckpoint reads the highest number ...
BeginCheckpoint(r) ==
    /\ Free(r)
    /\ NextCheckpoint <= MaxRecords
    /\ Proceed(r, [NoRequest EXCEPT !.pc = "creating", !.kind = "checkpoint",
                                    !.number = NextCheckpoint])
    /\ overlapped' = (overlapped \/ \E o \in Requests :
                                      /\ req[o].pc = "creating"
                                      /\ req[o].kind = "checkpoint")
    /\ UNCHANGED <<stored, counters, numbered, dropped>>

\* Mutant: the snapshot's number is read, and the counter stored with it.
BeginSnapshotFromStored(r) ==
    /\ Free(r)
    /\ whiteboardSequence < MaxRecords
    /\ whiteboardSequence' = Highest(snapshots) + 1
    /\ Proceed(r, [NoRequest EXCEPT !.pc = "creating", !.kind = "snapshot",
                                    !.number = Highest(snapshots) + 1])
    /\ UNCHANGED <<stored, counter, ready, history>>

\* ... createSnapshot increments the session's counter and gets its value ...
BeginSnapshot(r) ==
    /\ Free(r)
    /\ whiteboardSequence < MaxRecords
    /\ whiteboardSequence' = whiteboardSequence + 1
    /\ Proceed(r, [NoRequest EXCEPT !.pc = "creating", !.kind = "snapshot",
                                    !.number = whiteboardSequence + 1])
    /\ UNCHANGED <<stored, counter, ready, history>>

\* Mutant: the record is announced first and stored by its event's save.
CreateUnstored(r) ==
    LET q == req[r]
    IN  /\ q.pc = "creating"
        /\ Proceed(r, [q EXCEPT !.pc = "recording", !.ref = q.number])
        /\ UNCHANGED <<stored, counters, history>>

\* ... and the record is stored under it, before its event is recorded.
Create(r) ==
    LET q == req[r]
    IN  /\ q.pc = "creating"
        /\ checkpoints' = IF q.kind = "checkpoint"
                          THEN Append(checkpoints, q.number) ELSE checkpoints
        /\ snapshots' = IF q.kind = "snapshot"
                        THEN Append(snapshots, q.number) ELSE snapshots
        /\ Proceed(r, [q EXCEPT !.pc = "recording", !.ref = q.number])
        /\ UNCHANGED <<events, counters, history>>

UsesRedis == ready

\* The pre("save") hook: INCR while Redis is ready, else one more than the
\* highest stored, and 1 if that cannot be read either.
NumberEvent(r) ==
    \E number \in IF UsesRedis THEN {counter + 1}
                  ELSE {Highest(EventNumbers) + 1, 1} :
        /\ req[r].pc = "recording"
        /\ numbered < MaxEvents
        /\ numbered' = numbered + 1
        /\ counter' = IF UsesRedis THEN number ELSE counter
        /\ Proceed(r, [req[r] EXCEPT !.pc = "saving", !.number = number])
        /\ UNCHANGED <<stored, whiteboardSequence, ready, overlapped, dropped>>

SaveEvent(r) ==
    LET q == req[r]
    IN  /\ q.pc = "saving"
        /\ events' = Append(events, [number |-> q.number, kind |-> q.kind,
                                     ref |-> q.ref])
        /\ Leave(r)
        /\ UNCHANGED <<checkpoints, snapshots, counters, history>>

\* A database call throws or the server stops: what is stored stays.
FailRequest(r) ==
    /\ ~Free(r)
    /\ Leave(r)
    /\ UNCHANGED <<stored, counters, history>>

\* Redis is lost, and found again with the counter it had.
Outage ==
    /\ ready' = ~ready
    /\ dropped' = TRUE
    /\ UNCHANGED <<stored, whiteboardSequence, counter, req, numbered,
                   overlapped>>

Next ==
    \/ \E r \in Requests :
         \/ BeginEvent(r)
         \/ BeginCheckpoint(r)
         \/ BeginSnapshot(r)
         \/ Create(r)
         \/ NumberEvent(r)
         \/ SaveEvent(r)
         \/ FailRequest(r)
    \/ Outage

Spec == Init /\ [][Next]_vars
-----------------------------------------------------------------------------
Number == Nat \ {0}

TypeOK ==
    /\ checkpoints \in Seq(Number)
    /\ snapshots \in Seq(Number)
    /\ events \in Seq([number : Number, kind : Kinds, ref : Nat])
    /\ whiteboardSequence \in Nat
    /\ counter \in Nat
    /\ ready \in BOOLEAN
    /\ req \in [Requests -> [pc : {"idle", "creating", "recording", "saving"},
                             kind : Kinds, number : Nat, ref : Nat]]
    /\ numbered \in 0 .. MaxEvents
    /\ overlapped \in BOOLEAN
    /\ dropped \in BOOLEAN

\* "Atomic monotonic sequence to prevent duplicate numbers under concurrent
\* two-user snapshots": no two whiteboard snapshots share a number.
SnapshotNumbersUnique == IsInjective(snapshots)

\* "Determine monotonic sequence number": no two checkpoints share a number,
\* until two of them are created at once.
CheckpointNumbersUnique == overlapped \/ IsInjective(checkpoints)

\* No two events of a session share a number for as long as Redis is there.
EventNumbersUnique == dropped \/ IsInjective(EventNumbers)

\* Replay orders the records of a session by their numbers: no two of one kind
\* share one, as long as checkpoints are created one after the other and, for
\* the events, Redis is there.
RecordNumbersUnique ==
    SnapshotNumbersUnique /\ CheckpointNumbersUnique /\ EventNumbersUnique

\* Replay and context follow an event to the record it announces: it is there,
\* whatever failed between the calls of the handler.
EventsHaveRecords ==
    \A i \in DOMAIN events :
      /\ events[i].kind = "checkpoint" => events[i].ref \in Range(checkpoints)
      /\ events[i].kind = "snapshot" => events[i].ref \in Range(snapshots)
=============================================================================
