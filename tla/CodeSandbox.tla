---------------------------- MODULE CodeSandbox ----------------------------
(***************************************************************************)
(* Test runs of a candidate's code (runTestsInSession, runTestCases,       *)
(* executeCodeSandbox, runProcess): each test case is compiled and run in  *)
(* a workspace of its own, by child processes whose output, exit, `close'  *)
(* and time limit come in any order.  The command of any language, and its *)
(* compiler, may start processes that share its output (`g++' runs         *)
(* cc1plus, `go run' and tsx run the program), and no kill reaches them.   *)
(***************************************************************************)
EXTENDS Requests

CONSTANTS
    Languages,    \* [compiled]: the kinds of RUNTIMES
    AllowCompiled, \* ENABLE_COMPILED_SANDBOX
    MaxTests,     \* the hard cap on test cases
    TestLists     \* how many test cases are asked for

ASSUME SandboxAssumption ==
    /\ Languages \subseteq [compiled : BOOLEAN]
    /\ MaxTests \in Nat /\ TestLists \subseteq Nat /\ AllowCompiled \in BOOLEAN

VARIABLES
    process,      \* per slot: the child process of its execution
    workspaces,   \* the slots whose temporary directory exists
    outcomes      \* history: the verdicts of the test runs

sandboxData == <<process, workspaces, outcomes>>
sandboxVars == <<sandboxData, request, count>>
-----------------------------------------------------------------------------
NoProcess == [state |-> "none"]
Running(phase) == [state |-> "running", phase |-> phase, output |-> "none",
                   late |-> FALSE, offspring |-> FALSE]

SandboxInit ==
    /\ process = [s \in Slots |-> NoProcess]
    /\ workspaces = {}
    /\ outcomes = {}
    /\ NoRequests

\* The test cases beyond the cap are cut off.
Capped(n) == IF n > MaxTests THEN MaxTests ELSE n

BeginTests(s, lang, blocked, n) ==
    /\ Accept(s, [op |-> "tests", pc |-> "next", lang |-> lang,
                  blocked |-> blocked, left |-> Capped(n), verdicts |-> <<>>])
    /\ UNCHANGED sandboxData

Judge(s, verdict) ==
    Hold(s, [request[s] EXCEPT !.pc = "next", !.left = @ - 1,
                               !.verdicts = Append(@, verdict)])

RunFailed == [passed |-> FALSE, ended |-> "none", output |-> "none"]

\* Code that validateSandboxSecurity refuses, for a pattern it contains, and
\* languages that are switched off.
Refused(r) == r.blocked \/ (r.lang.compiled /\ ~AllowCompiled)

\* Such a test fails without a process.
BlockTest(s) ==
    LET r == request[s]
    IN  /\ At(s, "tests", "next") /\ r.left > 0
        /\ Refused(r)
        /\ Judge(s, RunFailed)
        /\ UNCHANGED sandboxData

StartTest(s) ==
    LET r == request[s]
    IN  /\ At(s, "tests", "next") /\ r.left > 0
        /\ ~Refused(r)
        /\ workspaces' = workspaces \cup {s}
        /\ process' = [process EXCEPT ![s] =
                         Running(IF r.lang.compiled THEN "compile" ELSE "run")]
        /\ GoTo(s, "wait")
        /\ UNCHANGED outcomes

\* The end of an execution: its result is judged and its workspace removed.
EndExecution(s, verdict) ==
    /\ workspaces' = workspaces \ {s}
    /\ process' = [process EXCEPT ![s] = NoProcess]
    /\ Judge(s, verdict)
    /\ UNCHANGED outcomes

\* The command is not installed: `error'.
MissCommand(s) ==
    /\ process[s] \in {Running("compile"), Running("run")}
    /\ EndExecution(s, RunFailed)

\* The command starts a process that has its output, or the last one ends.
Spawn(s) ==
    /\ process[s].state = "running"
    /\ process' = [process EXCEPT ![s].offspring = TRUE]
    /\ UNCHANGED <<workspaces, outcomes, request, count>>

Offspring(s) == process[s] # NoProcess /\ process[s].offspring

EndOffspring(s) ==
    /\ Offspring(s)
    /\ process' = [process EXCEPT ![s].offspring = FALSE]
    /\ UNCHANGED <<workspaces, outcomes, request, count>>

\* What the test case expects, or anything else, at first or afterwards.
PrintOutput(s) ==
    /\ process[s].state = "running" \/ Offspring(s)
    /\ process[s].phase = "run" /\ process[s].output # "other"
    /\ \E o \in (IF process[s].output = "none" THEN {"expected", "other"}
                                               ELSE {"other"}) :
         process' = [process EXCEPT ![s].output = o]
    /\ UNCHANGED <<workspaces, outcomes, request, count>>

\* By itself: with exit code 0, with another, or by a signal but SIGKILL.
Exit(s) ==
    /\ process[s].state = "running"
    /\ \E how \in {"succeeded", "failed", "crashed"} :
         process' = [process EXCEPT ![s].state = how]
    /\ UNCHANGED <<workspaces, outcomes, request, count>>

\* SIGKILL reaches the command, if it still runs, and nothing it has started.
ProcessKilled(s) ==
    [process[s] EXCEPT !.state = IF @ = "running" THEN "killed" ELSE @]

\* More than 500 kB of output.
Overflow(s) ==
    /\ process[s].state = "running" \/ Offspring(s)
    /\ process' = [process EXCEPT ![s] = [ProcessKilled(s) EXCEPT !.output = "other"]]
    /\ UNCHANGED <<workspaces, outcomes, request, count>>

\* Mutant: the time limit is noted, and the process goes on.
ExpireQuietly(s) ==
    /\ process[s] # NoProcess /\ ~process[s].late
    /\ process' = [process EXCEPT ![s].late = TRUE]
    /\ UNCHANGED <<workspaces, outcomes, request, count>>

\* The time limit, which `close' stops, and nothing before it.
Expire(s) ==
    /\ process[s] # NoProcess /\ ~process[s].late
    /\ process' = [process EXCEPT ![s] =
                     [ProcessKilled(s) EXCEPT !.late = TRUE]]
    /\ UNCHANGED <<workspaces, outcomes, request, count>>

\* Mutant: a missing exit code counts as 0.
ExitCodeOfNull(p) == IF p.late \/ p.state = "killed" THEN 124
                     ELSE IF p.state = "failed" THEN 1 ELSE 0

ExitCode(p) == IF p.late \/ p.state = "killed" THEN 124
               ELSE IF p.state = "succeeded" THEN 0 ELSE 1

\* Nobody holds the child's output open: `close' settles runProcess.  After
\* the compiler the program is started with a time limit of its own.
Close(s) ==
    LET p == process[s]
    IN  /\ p.state \notin {"none", "running"} /\ ~p.offspring
        /\ IF p.phase = "compile" /\ ExitCode(p) = 0
           THEN /\ process' = [process EXCEPT ![s] = Running("run")]
                /\ UNCHANGED <<workspaces, outcomes, request, count>>
           ELSE EndExecution(s,
                  [passed |-> ExitCode(p) = 0 /\ p.output = "expected",
                   ended |-> p.state, output |-> p.output])

\* The run is put on the timeline before it is answered; either may fail.
FinishTests(s) ==
    LET r == request[s]
    IN  /\ At(s, "tests", "next") /\ r.left = 0
        /\ outcomes' = outcomes \cup {r.verdicts}
        /\ Respond(s)
        /\ UNCHANGED <<process, workspaces>>

FailTests(s) ==
    /\ At(s, "tests", "next")
    /\ Respond(s)
    /\ UNCHANGED sandboxData

SandboxNext ==
    \/ \E s \in Slots, l \in Languages, b \in BOOLEAN, n \in TestLists :
         BeginTests(s, l, b, n)
    \/ \E s \in Slots :
         \/ BlockTest(s) \/ StartTest(s) \/ MissCommand(s) \/ Spawn(s)
         \/ PrintOutput(s) \/ Exit(s) \/ Overflow(s) \/ Expire(s) \/ EndOffspring(s)
         \/ Close(s) \/ FinishTests(s) \/ FailTests(s)

SandboxSpec == SandboxInit /\ [][SandboxNext]_sandboxVars

\* The server goes on, and its timers fire.  Nothing makes a program
\* end, nor what it has started.
SandboxFairness ==
    \A s \in Slots : /\ WF_sandboxVars(BlockTest(s) \/ StartTest(s) \/ Close(s)
                                         \/ FinishTests(s))
                     /\ WF_sandboxVars(Expire(s))
-----------------------------------------------------------------------------
\* A test passes only if its program, not its compiler, ended by itself with
\* exit code 0 and printed what is expected, in whatever order output, exit,
\* time limit and `close' came; and a program always has its workspace.
TestsTellTheTruth ==
    /\ \A o \in outcomes : \A i \in DOMAIN o :
         o[i].passed => o[i].ended = "succeeded" /\ o[i].output = "expected"
    /\ \A s \in Slots :
         At(s, "tests", "wait") <=> s \in workspaces /\ process[s] # NoProcess

\* A test run ends: the time limit stops a program or a compiler that does not
\* end by itself.  The "bounded worst case" of runTestCases has an exception: a
\* process that the command of whatever language has started keeps the run
\* waiting for `close' for as long as it holds the output, and only then.
TestRunsEnd ==
    \A s \in Slots :
      [](request[s].op = "tests" => <>(request[s] = Idle \/ []Offspring(s)))
=============================================================================
