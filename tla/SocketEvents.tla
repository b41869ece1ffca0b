------------------------------ MODULE SocketEvents ------------------------------
(***************************************************************************)
(* The Socket.IO events of an interview room (socketio.js): every handler  *)
(* looks up the session before it tells the room anything, so that events  *)
(* of one socket overlap.  Cursor, whiteboard and terminal events that are *)
(* only relayed have no state here beyond `told'.                          *)
(***************************************************************************)
EXTENDS Requests

CONSTANTS
    Users,        \* whoever is connected, with one socket each
    Candidate,    \* the session's seeker
    Team,         \* its recruiter and additional interviewers
    EventIds,     \* the clientEventIds of focus events
    SignalLimit,  \* SIGNAL_RATE_LIMIT, per socket and window
    SessionLimit, \* SESSION_SIGNAL_LIMIT
    HintLimit     \* COPILOT_RATE_LIMIT, per user and window

ASSUME EventAssumption ==
    /\ Candidate \in Users /\ Team \subseteq Users \ {Candidate}
    /\ {SignalLimit, SessionLimit, HintLimit} \subseteq Nat \ {0}

VARIABLES
    status,       \* the session's status
    rooms,        \* per user: the session's channels his socket is in
    remembered,   \* focusEventDedup: pairs of a user and an event
    recorded,     \* timeline: how often a focus event was recorded
    forgotten,    \* history: how often a focus event was forgotten
    kept,         \* timeline: the final transcript chunks and proctor events
    told,         \* history: what was emitted, [op, by, id]
    signalCount,  \* signalRateMap: per socket, the signals of this window
    sessionCount, \* sessionSignalMap: the signals of the session
    hintCount,    \* copilotRateMap: per user, the requests of this window
    pending,      \* copilotDebounceMap: per user, the request of his timer
    timers,       \* the timers that run: pairs of a user and a request
    superseded    \* history: the requests another one replaced in time

roomState == <<status, rooms>>
focusState == <<remembered, recorded, forgotten>>
limits == <<signalCount, sessionCount, hintCount>>
hintTimers == <<pending, timers, superseded>>
requests == <<request, count>>
socketData == <<roomState, focusState, kept, told, limits, hintTimers>>
socketVars == <<socketData, requests>>
-----------------------------------------------------------------------------
Participants == Team \cup {Candidate}

SocketInit ==
    /\ status \in {"SCHEDULED", "LIVE"}
    /\ rooms = [u \in Users |-> {}]
    /\ remembered = {} /\ told = {} /\ kept = {}
    /\ recorded = [i \in EventIds |-> 0]
    /\ forgotten = [i \in EventIds |-> 0]
    /\ signalCount = [u \in Users |-> 0]
    /\ sessionCount = 0
    /\ hintCount = [u \in Users |-> 0]
    /\ pending = [u \in Users |-> 0]
    /\ timers = {} /\ superseded = {}
    /\ NoRequests

\* Where an event waits for its session.
Lookup(op, u, id) == [op |-> op, pc |-> "lookup", by |-> u, id |-> id]

Tell(s) == told' = told \cup {[op |-> request[s].op, by |-> request[s].by,
                               id |-> request[s].id]}

Keep(s) == kept' = kept \cup {[op |-> request[s].op, id |-> request[s].id]}

\* The status is changed by requests (InterviewSession).
MoveSession ==
    /\ status \in {"SCHEDULED", "LIVE"}
    /\ status' = IF status = "LIVE" THEN "COMPLETED" ELSE "LIVE"
    /\ UNCHANGED <<rooms, focusState, kept, told, limits, hintTimers,
                   requests>>

\* The events that only need a session with the sender among its participants.
Begin(s, op, u) ==
    /\ Accept(s, Lookup(op, u, count + 1))
    /\ UNCHANGED socketData

FinishJoin(s) ==
    LET u == request[s].by
    IN  /\ At(s, "join", "lookup")
        /\ rooms' = [rooms EXCEPT ![u] = @ \cup
                       (IF u \in Participants THEN {"room"} ELSE {}) \cup
                       (IF u \in Team THEN {"interviewers"} ELSE {})]
        /\ IF u \in Participants THEN Tell(s) ELSE UNCHANGED told
        /\ Respond(s)
        /\ UNCHANGED <<status, focusState, kept, limits, hintTimers>>

\* leave_interview leaves the room, but not the channel of the interviewers.
LeaveInterview(u) ==
    /\ Answer
    /\ rooms' = [rooms EXCEPT ![u] = @ \ {"room"}]
    /\ UNCHANGED <<status, focusState, kept, told, limits, hintTimers>>

\* A new socket has a new id: it is in no room and has sent no signals.
Reconnect(u) ==
    /\ Answer
    /\ rooms' = [rooms EXCEPT ![u] = {}]
    /\ signalCount' = [signalCount EXCEPT ![u] = 0]
    /\ UNCHANGED <<status, focusState, kept, told, sessionCount, hintCount,
                   hintTimers>>

Relay(s) ==
    /\ At(s, "relay", "lookup")
    /\ IF request[s].by \in Participants THEN Tell(s) ELSE UNCHANGED told
    /\ Respond(s)
    /\ UNCHANGED <<roomState, focusState, kept, limits, hintTimers>>
-----------------------------------------------------------------------------
\* Mutant: the event is not remembered.
RememberedNot(u, i) == remembered

\* focusEventDedup is set before the first await.
Remembered(u, i) == remembered \cup {<<u, i>>}

BeginFocus(s, u, i) ==
    /\ <<u, i>> \notin remembered
    /\ remembered' = Remembered(u, i)
    /\ Accept(s, Lookup("focus", u, i))
    /\ UNCHANGED <<roomState, recorded, forgotten, kept, told, limits,
                   hintTimers>>

CheckFocus(s) ==
    /\ At(s, "focus", "lookup")
    /\ IF status = "LIVE" /\ request[s].by = Candidate THEN GoTo(s, "create")
                                                      ELSE Respond(s)
    /\ UNCHANGED socketData

RecordFocus(s) ==
    /\ At(s, "focus", "create")
    /\ recorded' = [recorded EXCEPT ![request[s].id] = @ + 1]
    /\ GoTo(s, "emit")
    /\ UNCHANGED <<roomState, remembered, forgotten, kept, told, limits,
                   hintTimers>>

TellFocus(s) ==
    /\ At(s, "focus", "emit")
    /\ Tell(s)
    /\ Respond(s)
    /\ UNCHANGED <<roomState, focusState, kept, limits, hintTimers>>

\* Ten minutes later, whether or not the event was recorded.
ForgetFocus(u, i) ==
    /\ <<u, i>> \in remembered
    /\ remembered' = remembered \ {<<u, i>>}
    /\ forgotten' = [forgotten EXCEPT ![i] = @ + 1]
    /\ UNCHANGED <<roomState, recorded, kept, told, limits, hintTimers,
                   requests>>

CheckProctor(s) ==
    /\ At(s, "proctor", "lookup")
    /\ IF request[s].by = Candidate THEN GoTo(s, "create") ELSE Respond(s)
    /\ UNCHANGED socketData

RecordProctor(s) ==
    /\ At(s, "proctor", "create")
    /\ Keep(s)
    /\ GoTo(s, "emit")
    /\ UNCHANGED <<roomState, focusState, told, limits, hintTimers>>

\* The errors of the lookup and of the record are swallowed, and events that
\* mean little are not recorded: the interviewers are told anyway.
SkipProctor(s) ==
    /\ At(s, "proctor", "lookup") \/ At(s, "proctor", "create")
    /\ GoTo(s, "emit")
    /\ UNCHANGED socketData

TellProctor(s) ==
    /\ At(s, "proctor", "emit")
    /\ Tell(s)
    /\ Respond(s)
    /\ UNCHANGED <<roomState, focusState, kept, limits, hintTimers>>

\* A chunk is broadcast, and a final one is then recorded, for which the
\* session is looked up again.
BroadcastChunk(s) ==
    /\ At(s, "chunk", "lookup")
    /\ IF request[s].by \in Participants
       THEN Tell(s) /\ (GoTo(s, "record") \/ Respond(s))
       ELSE UNCHANGED told /\ Respond(s)
    /\ UNCHANGED <<roomState, focusState, kept, limits, hintTimers>>

RecordChunk(s) ==
    /\ At(s, "chunk", "record")
    /\ Keep(s)
    /\ Respond(s)
    /\ UNCHANGED <<roomState, focusState, told, limits, hintTimers>>
-----------------------------------------------------------------------------
\* A signal is counted for its socket and its session before it is known
\* whether its sender takes part.
BeginSignal(s, u) ==
    /\ signalCount[u] < SignalLimit /\ sessionCount < SessionLimit
    /\ signalCount' = [signalCount EXCEPT ![u] = @ + 1]
    /\ sessionCount' = sessionCount + 1
    /\ Accept(s, Lookup("signal", u, count + 1))
    /\ UNCHANGED <<roomState, focusState, kept, told, hintCount, hintTimers>>

LimitSignal(u) ==
    /\ signalCount[u] < SignalLimit /\ sessionCount >= SessionLimit
    /\ signalCount' = [signalCount EXCEPT ![u] = @ + 1]
    /\ Answer
    /\ UNCHANGED <<roomState, focusState, kept, told, sessionCount, hintCount,
                   hintTimers>>

TellSignal(s) ==
    /\ At(s, "signal", "lookup")
    /\ IF request[s].by \in Participants THEN Tell(s) ELSE UNCHANGED told
    /\ Respond(s)
    /\ UNCHANGED <<roomState, focusState, kept, limits, hintTimers>>

NextSecond(u) ==
    /\ signalCount[u] > 0
    /\ signalCount' = [signalCount EXCEPT ![u] = 0]
    /\ UNCHANGED <<roomState, focusState, kept, told, sessionCount, hintCount,
                   hintTimers, requests>>

\* isCopilotRateLimited counts a user's requests for every room.
NextMinute(u) ==
    /\ hintCount[u] > 0
    /\ hintCount' = [hintCount EXCEPT ![u] = 0]
    /\ UNCHANGED <<roomState, focusState, kept, told, signalCount,
                   sessionCount, hintTimers, requests>>

\* Mutant: the timer of the request before is not cleared.
RunningKept(u) == timers

\* clearTimeout on the timer of the user's last request for this room.
Running(u) == timers \ {<<u, pending[u]>>}

\* copilot_hint_request: 800 ms without another one before it is answered.
RequestHint(u) ==
    /\ hintCount[u] < HintLimit
    /\ Answer
    /\ hintCount' = [hintCount EXCEPT ![u] = @ + 1]
    /\ superseded' = superseded \cup ({pending[u]} \ {0})
    /\ pending' = [pending EXCEPT ![u] = count + 1]
    /\ timers' = Running(u) \cup {<<u, count + 1>>}
    /\ UNCHANGED <<roomState, focusState, kept, told, signalCount,
                   sessionCount>>

FireHint(s, t) ==
    /\ t \in timers /\ request[s] = Idle
    /\ timers' = timers \ {t}
    /\ pending' = [pending EXCEPT ![t[1]] = 0]
    /\ Hold(s, Lookup("hint", t[1], t[2]))
    /\ UNCHANGED <<roomState, focusState, kept, told, limits, superseded>>

TellHint(s) ==
    /\ At(s, "hint", "lookup")
    /\ IF request[s].by \in Team THEN Tell(s) ELSE UNCHANGED told
    /\ Respond(s)
    /\ UNCHANGED <<roomState, focusState, kept, limits, hintTimers>>

\* A database error ends every handler but proctor_event's, which goes on.
FailEvent(s) ==
    /\ request[s] # Idle /\ request[s].op # "proctor"
    /\ Respond(s)
    /\ UNCHANGED socketData

SocketNext ==
    \/ MoveSession
    \/ \E s \in Slots, u \in Users :
         \/ \E op \in {"join", "relay", "proctor", "chunk"} : Begin(s, op, u)
         \/ \E i \in EventIds : BeginFocus(s, u, i)
         \/ BeginSignal(s, u)
    \/ \E u \in Users : LeaveInterview(u) \/ Reconnect(u) \/ NextSecond(u)
                          \/ NextMinute(u) \/ LimitSignal(u) \/ RequestHint(u)
    \/ \E u \in Users, i \in EventIds : ForgetFocus(u, i)
    \/ \E s \in Slots :
         \/ FinishJoin(s) \/ Relay(s) \/ CheckFocus(s) \/ RecordFocus(s)
         \/ TellFocus(s) \/ CheckProctor(s) \/ RecordProctor(s)
         \/ SkipProctor(s) \/ TellProctor(s) \/ BroadcastChunk(s) \/ RecordChunk(s)
         \/ TellSignal(s) \/ TellHint(s) \/ FailEvent(s)
         \/ \E t \in timers : FireHint(s, t)

SocketSpec == SocketInit /\ [][SocketNext]_socketVars
-----------------------------------------------------------------------------
ToldOf(op) == {t.id : t \in {x \in told : x.op = op}}

\* However often a browser sends a focus event again, it is recorded once (once
\* more each time it has been forgotten), and the interviewers are told of
\* nothing the timeline does not have; of the transcript the timeline has
\* nothing the room was not told.
TimelineAgreesWithRoom ==
    /\ \A i \in EventIds : recorded[i] <= forgotten[i] + 1
    /\ \A i \in ToldOf("focus") : recorded[i] > 0
    /\ \A k \in kept : k.op = "chunk" => k.id \in ToldOf("chunk")

\* The assistant answers the latest of a burst of requests: one that another
\* replaced within its 800 ms is never answered, whatever the timers and the
\* lookups do in between.
OnlyTheLatestIsHinted == ToldOf("hint") \cap superseded = {}
=============================================================================
