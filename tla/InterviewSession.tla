-------------------------- MODULE InterviewSession --------------------------
(***************************************************************************)
(* One interview-session document in MongoDB and the HTTP requests that    *)
(* change it.  Every handler of interview.controller.js and                *)
(* evaluation.controller.js is an async function: it loads the document,   *)
(* edits its own copy, and saves it after one or more awaits, so requests  *)
(* interleave between the load and the save.  Mongoose saves only the      *)
(* fields the handler changed and checks no version, so a save merges a    *)
(* possibly stale edit into whatever the document has become.              *)
(*                                                                         *)
(* What a request does after its save (timeline event, checkpoint, replay  *)
(* invalidation, broadcast) is not part of this module.                    *)
(***************************************************************************)
EXTENDS Integers, FiniteSets

CONSTANTS
    Writers,        \* slots for the requests that load, edit and save
    Runs,           \* slots for the requests that execute code
    Endpoints,      \* the endpoints the environment calls
    StageArgs,      \* the stages it asks for
    MaxClock,       \* bound on the wall clock
    MaxExecutions   \* bound on the number of executions

Statuses == {"SCHEDULED", "WAITING_ROOM", "LIVE", "COMPLETED", "CANCELLED"}
Stages == {"WAITING_ROOM", "INTRODUCTION", "CODING", "DEBUGGING",
           "SYSTEM_DESIGN", "DISCUSSION", "QUESTIONS", "FEEDBACK", "COMPLETED"}
Terminal == {"COMPLETED", "CANCELLED"}

ASSUME BoundsAssumption ==
    /\ MaxClock \in Nat \ {0}
    /\ MaxExecutions \in Nat
    /\ StageArgs \subseteq Stages
    /\ Endpoints \subseteq {"status", "stage", "evaluate", "recording"}

VARIABLES
    clock,      \* Date.now(); 0 stands for a date that is not set
    doc,        \* the stored document
    life,       \* per writer: where its handler is, the document it loaded,
                \* and the copy it edited
    exec,       \* per run: the sequence number it holds, 0 when idle
    recorded,   \* history: the executions whose result reached the database
    overlapped  \* history: two writers have been in progress at once

vars == <<clock, doc, life, exec, recorded, overlapped>>
-----------------------------------------------------------------------------
Unset == 0

NewSession ==
    [status |-> "SCHEDULED", stage |-> "WAITING_ROOM",
     actualStart |-> Unset, actualEnd |-> Unset,
     executionSequence |-> 0, lastExecution |-> 0, recording |-> FALSE]

Document ==
    [status : Statuses, stage : Stages, actualStart : Nat, actualEnd : Nat,
     executionSequence : Nat, lastExecution : Nat, recording : BOOLEAN]

NoRequest == [pc |-> "idle", base |-> NewSession, copy |-> NewSession]

Request ==
    [pc : {"idle", "assessing", "uploading", "saving"},
     base : Document, copy : Document]

ValidStatusTransitions ==
    [SCHEDULED    |-> {"WAITING_ROOM", "LIVE", "CANCELLED"},
     WAITING_ROOM |-> {"LIVE", "CANCELLED"},
     LIVE         |-> {"COMPLETED", "CANCELLED"},
     COMPLETED    |-> {},
     CANCELLED    |-> {}]

\* Mutant: the transition table is not consulted.
CanTransitionToStatusUnchecked(d, to) == TRUE

CanTransitionToStatus(d, to) == to \in ValidStatusTransitions[d.status]

\* Mutant: completing leaves the stage where it was.
TransitionStatusKeepingStage(d, to) ==
    [d EXCEPT !.status      = to,
              !.actualStart = IF to = "LIVE" /\ @ = Unset THEN clock ELSE @,
              !.actualEnd   = IF to = "COMPLETED" /\ @ = Unset THEN clock ELSE @]

\* Entering LIVE starts the interview clock once; completing closes it once,
\* and moves the stage only if it was this transition that closed it.
TransitionStatus(d, to) ==
    LET starts == to = "LIVE" /\ d.actualStart = Unset
        ends   == to = "COMPLETED" /\ d.actualEnd = Unset
    IN  [d EXCEPT !.status      = to,
                  !.actualStart = IF starts THEN clock ELSE @,
                  !.actualEnd   = IF ends THEN clock ELSE @,
                  !.stage       = IF ends THEN "COMPLETED" ELSE @]

\* The controller leaves the waiting-room stage when the session goes LIVE.
EditForStatus(d, to) ==
    LET t == TransitionStatus(d, to)
    IN  [t EXCEPT !.stage = IF to = "LIVE" /\ @ = "WAITING_ROOM"
                            THEN "INTRODUCTION" ELSE @]

CanTransitionStage(d, to) == d.status \notin Terminal /\ to \in Stages

\* Mutant: the COMPLETED stage completes the session without an end time.
TransitionStageUndated(d, to) ==
    [d EXCEPT !.stage = to,
              !.status = IF to = "COMPLETED" THEN "COMPLETED" ELSE @]

TransitionStage(d, to) ==
    LET goesLive == to # "WAITING_ROOM"
                    /\ d.status \in {"WAITING_ROOM", "SCHEDULED"}
    IN  [d EXCEPT
           !.stage       = to,
           !.status      = IF to = "COMPLETED" THEN "COMPLETED"
                           ELSE IF goesLive THEN "LIVE" ELSE @,
           !.actualStart = IF goesLive /\ @ = Unset THEN clock ELSE @,
           !.actualEnd   = IF to = "COMPLETED" /\ @ = Unset THEN clock ELSE @]

\* Both evaluation endpoints complete the session with no look at the table.
NeedsCompletion(d) == d.status # "COMPLETED"

CompleteByEvaluation(d) ==
    [d EXCEPT !.status = "COMPLETED", !.stage = "COMPLETED",
              !.actualEnd = clock]

\* Mutant: the save replaces the whole stored document.
MergeWhole(d, r) == r.copy

\* document.save(): the fields in which the copy differs from what was loaded
\* overwrite the stored ones, and the others are left as they are.
Merge(d, r) ==
    LET field(f) == IF r.copy[f] # r.base[f] THEN r.copy[f] ELSE d[f]
    IN  [status            |-> field("status"),
         stage             |-> field("stage"),
         actualStart       |-> field("actualStart"),
         actualEnd         |-> field("actualEnd"),
         executionSequence |-> field("executionSequence"),
         lastExecution     |-> field("lastExecution"),
         recording         |-> field("recording")]
-----------------------------------------------------------------------------
Init ==
    /\ clock = 1
    /\ doc = NewSession
    /\ life = [w \in Writers |-> NoRequest]
    /\ exec = [e \in Runs |-> 0]
    /\ recorded = {}
    /\ overlapped = FALSE

Idle(w) == life[w].pc = "idle"

Respond(w) == life' = [life EXCEPT ![w] = NoRequest]

\* A request has loaded the document and goes on with this copy of it.
Accept(w, at, copied) ==
    /\ Idle(w)
    /\ life' = [life EXCEPT ![w] = [pc |-> at, base |-> doc, copy |-> copied]]
    /\ overlapped' = (overlapped \/ \E v \in Writers : ~Idle(v))
    /\ UNCHANGED <<clock, doc, exec, recorded>>

\* PATCH /:sessionId/status.  A transition the table refuses is answered 400
\* and changes nothing.
UpdateInterviewStatus(w, to) ==
    /\ "status" \in Endpoints
    /\ CanTransitionToStatus(doc, to)
    /\ Accept(w, "saving", EditForStatus(doc, to))

\* PATCH /:sessionId/stage.
UpdateInterviewStage(w, to) ==
    /\ "stage" \in Endpoints
    /\ CanTransitionStage(doc, to)
    /\ Accept(w, "saving", TransitionStage(doc, to))

\* POST /:sessionId/evaluate and POST /api/evaluations/:sessionId load the
\* session, and then wait for the AI assessment or the evidence lookups and
\* for the scorecard to be stored.
BeginEvaluation(w) ==
    /\ "evaluate" \in Endpoints
    /\ Accept(w, "assessing", doc)

\* The scorecard is stored: complete the copy loaded before the wait, unless
\* it was already complete.
FinishEvaluation(w) ==
    /\ life[w].pc = "assessing"
    /\ IF NeedsCompletion(life[w].copy)
       THEN life' = [life EXCEPT ![w].pc = "saving",
                                 ![w].copy = CompleteByEvaluation(@)]
       ELSE Respond(w)
    /\ UNCHANGED <<clock, doc, exec, recorded, overlapped>>

\* POST /:sessionId/recording loads the session and then uploads the file.
BeginRecording(w) ==
    /\ "recording" \in Endpoints
    /\ Accept(w, "uploading", doc)

FinishRecording(w) ==
    /\ life[w].pc = "uploading"
    /\ life' = [life EXCEPT ![w].pc = "saving", ![w].copy.recording = TRUE]
    /\ UNCHANGED <<clock, doc, exec, recorded, overlapped>>

Save(w) ==
    /\ life[w].pc = "saving"
    /\ doc' = Merge(doc, life[w])
    /\ Respond(w)
    /\ UNCHANGED <<clock, exec, recorded, overlapped>>

\* Any awaited call may throw, and the process may stop, before the save.
FailRequest(w) ==
    /\ ~Idle(w)
    /\ Respond(w)
    /\ UNCHANGED <<clock, doc, exec, recorded, overlapped>>

\* POST /:sessionId/execute takes the next sequence number atomically ...
BeginExecution(e) ==
    /\ exec[e] = 0
    /\ doc.executionSequence < MaxExecutions
    /\ doc' = [doc EXCEPT !.executionSequence = @ + 1]
    /\ exec' = [exec EXCEPT ![e] = doc.executionSequence + 1]
    /\ UNCHANGED <<clock, life, recorded, overlapped>>

\* ... even for a caller it then finds not to be a participant.
DenyExecution ==
    /\ doc.executionSequence < MaxExecutions
    /\ doc' = [doc EXCEPT !.executionSequence = @ + 1]
    /\ UNCHANGED <<clock, life, exec, recorded, overlapped>>

\* Mutant: the last answer wins.
SupersedesAlways(n) == TRUE

\* The sandbox answered: keep the result unless a newer one is stored.
Supersedes(n) == doc.lastExecution = 0 \/ doc.lastExecution <= n

RecordExecution(e) ==
    /\ exec[e] # 0
    /\ doc' = IF Supersedes(exec[e])
              THEN [doc EXCEPT !.lastExecution = exec[e]] ELSE doc
    /\ recorded' = recorded \cup {exec[e]}
    /\ exec' = [exec EXCEPT ![e] = 0]
    /\ UNCHANGED <<clock, life, overlapped>>

FailExecution(e) ==
    /\ exec[e] # 0
    /\ exec' = [exec EXCEPT ![e] = 0]
    /\ UNCHANGED <<clock, doc, life, recorded, overlapped>>

Tick ==
    /\ clock < MaxClock
    /\ clock' = clock + 1
    /\ UNCHANGED <<doc, life, exec, recorded, overlapped>>

WriterStep(w) ==
    \/ \E to \in Statuses : UpdateInterviewStatus(w, to)
    \/ \E to \in StageArgs : UpdateInterviewStage(w, to)
    \/ BeginEvaluation(w)
    \/ FinishEvaluation(w)
    \/ BeginRecording(w)
    \/ FinishRecording(w)
    \/ Save(w)
    \/ FailRequest(w)

RunStep(e) == BeginExecution(e) \/ RecordExecution(e) \/ FailExecution(e)

Next ==
    \/ \E w \in Writers : WriterStep(w)
    \/ \E e \in Runs : RunStep(e)
    \/ DenyExecution
    \/ Tick

Spec == Init /\ [][Next]_vars
-----------------------------------------------------------------------------
\* The document and every handler hold values of the schema.
TypeOK ==
    /\ clock \in Nat \ {0}
    /\ doc \in Document
    /\ life \in [Writers -> Request]
    /\ exec \in [Runs -> Nat]
    /\ recorded \subseteq Nat \ {0}
    /\ overlapped \in BOOLEAN

DatedAsStatus(d) ==
    /\ d.status = "LIVE" => d.actualStart # Unset
    /\ d.status = "COMPLETED" => d.actualEnd # Unset

\* However saves interleave, a stored LIVE session has a start time and a
\* stored COMPLETED session an end time: transitionStatus, transitionStage and
\* the evaluation endpoints set status and date on a copy, and the merge of a
\* stale copy never keeps one without the other.
TimestampsFollowStatus == DatedAsStatus(doc)

\* The stored lastExecution is the newest of the executions whose results
\* arrived, in whatever order the sandbox answered them (the conditional
\* update of executeCodeInSession), and no save of another handler undoes it.
LastExecutionIsNewest ==
    /\ doc.lastExecution \in recorded \cup {0}
    /\ \A n \in recorded : n <= doc.lastExecution

\* Two executions never hold the same sequence number, and none holds one
\* that is not below the stored counter ($inc in executeCodeInSession).
SequencesAreUnique ==
    /\ \A e \in Runs : exec[e] <= doc.executionSequence
    /\ \A e \in Runs : exec[e] \notin recorded
    /\ \A e, f \in Runs : e # f /\ exec[e] # 0 => exec[e] # exec[f]

\* The executions in flight, the counter and the stored result behave as an
\* ExecutionLog, however the other requests save the document around them.
Log == INSTANCE ExecutionLog WITH
           issued  <- doc.executionSequence,
           pending <- {exec[e] : e \in Runs} \ {0},
           latest  <- doc.lastExecution

\* Executing code is linearised by its numbers: executeCodeInSession's $inc and
\* conditional update implement the log, each in one step.
ImplementsExecutionLog == Log!Spec

\* Saving a stale copy does not lose what other requests stored meanwhile: a
\* recording stays, and the execution counter and result never go back.
ConcurrentWritesSurvive ==
    [][/\ doc.recording => doc'.recording
       /\ doc'.executionSequence >= doc.executionSequence
       /\ doc'.lastExecution >= doc.lastExecution]_vars

\* canTransitionToStatus and transitionStage do guard the copies: a session
\* leaves a terminal status only when the request that saves had loaded it
\* before it became terminal, or when an evaluation completes a cancelled one.
GuardsHoldOnCopies ==
    [][doc.status \in Terminal /\ doc'.status # doc.status =>
         \E w \in Writers :
           /\ life[w].pc = "saving"
           /\ \/ life[w].base.status \notin Terminal
              \/ /\ life[w].base.status = "CANCELLED"
                 /\ life[w].copy.status = "COMPLETED"]_vars

\* InterviewSession.js calls COMPLETED and CANCELLED terminal: no later
\* request gives the session another status.
TerminalStatusIsFinal ==
    [][doc.status \in Terminal => doc'.status = doc.status]_vars
-----------------------------------------------------------------------------
(***************************************************************************)
(* What the transition methods guarantee for as long as no two writers     *)
(* have overlapped.                                                        *)
(***************************************************************************)

\* The stage is COMPLETED exactly when the status is.
StageAgreesWithStatus ==
    overlapped \/ (doc.stage = "COMPLETED" <=> doc.status = "COMPLETED")

\* The replay's duration actualEnd - actualStart is never negative.
EndsAfterStart ==
    \/ overlapped
    \/ doc.actualStart = Unset
    \/ doc.actualEnd = Unset
    \/ doc.actualStart <= doc.actualEnd

\* The interview clock starts once: every timeline offset is measured from
\* actualStart, so moving it would shift the events already recorded.
StartIsStable ==
    [][~overlapped /\ doc.actualStart # Unset
         => doc'.actualStart = doc.actualStart]_vars

\* Only the evaluation of a cancelled session leaves a terminal status.
FinalUnlessEvaluated ==
    [][~overlapped /\ doc.status \in Terminal /\ doc'.status # doc.status =>
         doc.status = "CANCELLED" /\ doc'.status = "COMPLETED"]_vars
=============================================================================
