--------------------------- MODULE MCFocusSession ---------------------------
(***************************************************************************)
(* Small instances of FocusSession: sessions that earn 1 and 10 points,    *)
(* and gaps of up to one tick that count as one sitting, three as a lapse. *)
(***************************************************************************)
EXTENDS FocusSession, TLC

CONSTANTS r1, r2, s1, s2

TwoRequests == {r1, r2}
TwoSessions == {s1, s2}
Values == [s \in Sessions |-> IF s = s1 THEN 1 ELSE 10]
RequestSymmetry == Permutations(FocusRequests)
=============================================================================
