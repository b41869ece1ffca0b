----------------------------- MODULE MCYjsRoom -----------------------------
(***************************************************************************)
(* Small instances of YjsRoom: clients a and b of the code workspace, w of *)
(* the whiteboard, and REST handlers h and k of the code workspace.        *)
(***************************************************************************)
EXTENDS YjsRoom, TLC

CONSTANTS a, b, w, h, k, e1, e2

Both == {a, b}
CodeAndBoard == {a, w}
NoHandlers == {}
OneClient == {a}
TwoHandlers == {h, k}
Channels == [c \in Callers |-> IF c = w THEN "whiteboard" ELSE "collab"]
TwoEdits == {e1, e2}
Healthy == {}
Crashes == {"crash"}
EveryFault == {"crash", "drop", "load", "write"}
Slots == Permutations(TwoHandlers) \cup Permutations(TwoEdits)
=============================================================================
