---------------------------- MODULE ExecutionLog ----------------------------
(***************************************************************************)
(* What executing code in a session promises its participants, whoever     *)
(* else writes the session document: executions are numbered in the order  *)
(* they are requested, each number is handed out once, and the result on   *)
(* display is that of the highest number that has answered.                *)
(***************************************************************************)
EXTENDS Naturals

VARIABLES
    issued,     \* the highest number handed out
    pending,    \* the numbers that are still running
    latest      \* the number of the result on display, 0 for none

vars == <<issued, pending, latest>>

Init == issued = 0 /\ pending = {} /\ latest = 0

\* A request takes the next number ...
Take ==
    /\ issued' = issued + 1
    /\ pending' = pending \cup {issued + 1}
    /\ UNCHANGED latest

\* ... or is refused after taking it.
Waste ==
    /\ issued' = issued + 1
    /\ UNCHANGED <<pending, latest>>

Answer(n) ==
    /\ pending' = pending \ {n}
    /\ latest' = IF latest < n THEN n ELSE latest
    /\ UNCHANGED issued

Abandon(n) ==
    /\ pending' = pending \ {n}
    /\ UNCHANGED <<issued, latest>>

Next == Take \/ Waste \/ (\E n \in pending : Answer(n) \/ Abandon(n))

Spec == Init /\ [][Next]_vars
=============================================================================
