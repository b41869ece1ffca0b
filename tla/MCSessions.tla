----------------------------- MODULE MCSessions -----------------------------
(***************************************************************************)
(* InterviewSession in two parts, each within TLC's reach: the requests    *)
(* that change status and stage, and the executions among the saves of     *)
(* stale copies.  The proofs are about both at once.                       *)
(***************************************************************************)
EXTENDS MCInterviewSession
VARIABLE part

RequestStep ==
    /\ part = "requests"
    /\ Tick \/ \E w \in Writers : WriterStep(w)

StaleSave(w) == BeginRecording(w) \/ FinishRecording(w) \/ Save(w)

ExecutionStep ==
    /\ part = "executions"
    /\ \/ \E e \in Runs : RunStep(e)
       \/ DenyExecution
       \/ \E w \in Writers : StaleSave(w) \/ FailRequest(w)

SessionsInit == Init /\ part \in {"requests", "executions"}
SessionsNext == (RequestStep \/ ExecutionStep) /\ UNCHANGED part
SessionsSpec == SessionsInit /\ [][SessionsNext]_<<vars, part>>
=============================================================================
