------------------------------- MODULE Requests -------------------------------
(***************************************************************************)
(* The HTTP requests of an Express server.  A handler is an async function *)
(* that runs without interruption up to its next await; it is represented  *)
(* by a record of what it has read, kept in a slot until it answers.       *)
(***************************************************************************)
EXTENDS Naturals, Sequences, FiniteSets

CONSTANTS
    Slots,        \* slots for the requests under way
    MaxRequests   \* bound on the requests of a behaviour

ASSUME RequestAssumption == MaxRequests \in Nat

ASSUME SlotsAssumption == IsFiniteSet(Slots)

VARIABLES
    request,      \* per slot: the operation, where it is, and what it has read
    count         \* the number of requests so far

None == "none"
Idle == [op |-> "idle", pc |-> "idle"]

NoRequests ==
    /\ request = [s \in Slots |-> Idle]
    /\ count = 0

At(s, op, pc) == request[s].op = op /\ request[s].pc = pc
GoTo(s, pc) == request' = [request EXCEPT ![s].pc = pc] /\ UNCHANGED count

\* The handler answers, with a result or with an error.
Respond(s) == request' = [request EXCEPT ![s] = Idle] /\ UNCHANGED count

\* The handler stops at its next await with what it has read.
Hold(s, r) == request' = [request EXCEPT ![s] = r] /\ UNCHANGED count

\* A new request, which stops at its first await in the state r.
Accept(s, r) ==
    /\ request[s] = Idle
    /\ count < MaxRequests
    /\ count' = count + 1
    /\ request' = [request EXCEPT ![s] = r]

\* A request that is answered in one step.
Answer == count < MaxRequests /\ count' = count + 1 /\ UNCHANGED request
=============================================================================
