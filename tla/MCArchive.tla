------------------------------ MODULE MCArchive ------------------------------
(***************************************************************************)
(* What is kept of an interview session: its numbered records, the replay  *)
(* that is computed from them and cached, and the files of the workspace,  *)
(* with their checkpoints.  A behaviour is about one of the three, which   *)
(* part says from the start.                                               *)
(***************************************************************************)
EXTENDS SessionRecords, ReplayCache, Workspace, TLC

CONSTANTS r1, r2
VARIABLE part

TwoRequests == {r1, r2}
TwoKeys == {ManifestOfId, "frame"}
RequestSymmetry == Permutations(TwoRequests)

ArchiveInit ==
    /\ Init /\ ReplayInit /\ WorkspaceInit
    /\ part \in {"records", "replay", "workspace"}

RecordStep ==
    part = "records" /\ Next /\ UNCHANGED <<replayVars, workspaceVars, part>>
ReplayStep ==
    part = "replay" /\ ReplayNext /\ UNCHANGED <<vars, workspaceVars, part>>
FileStep ==
    part = "workspace" /\ WorkspaceNext /\ UNCHANGED <<vars, replayVars, part>>

ArchiveNext == RecordStep \/ ReplayStep \/ FileStep
ArchiveSpec ==
    ArchiveInit /\ [][ArchiveNext]_<<vars, replayVars, workspaceVars, part>>
=============================================================================
