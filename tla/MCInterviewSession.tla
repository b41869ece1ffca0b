------------------------- MODULE MCInterviewSession -------------------------
(* Instances of InterviewSession for model checking. *)
EXTENDS InterviewSession, TLC

CONSTANTS w1, w2, e1, e2, e3

TwoWriters == {w1, w2}
ThreeRuns == {e1, e2, e3}
NoRuns == {}

\* Requests of one kind are interchangeable.
Slots == Permutations(Writers) \cup Permutations(Runs)

\* One stage of each kind that transitionStage tells apart.
StageKinds == {"WAITING_ROOM", "CODING", "COMPLETED"}

AllEndpoints == {"status", "stage", "evaluate", "recording"}
TransitionEndpoints == {"status", "stage"}
RecordingEndpoint == {"recording"}
=============================================================================
