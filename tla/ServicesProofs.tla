---------------------------- MODULE ServicesProofs ----------------------------
(***************************************************************************)
(* The parts that work with other processes, proved for any number of      *)
(* requests, providers' models, test cases, terminals and polls: how a     *)
(* question to the AI providers ends, what a test run says of a program,   *)
(* and what becomes of the shells and of their output.                     *)
(***************************************************************************)
EXTENDS CodeSandbox, AiCascade, SharedTerminal, SequenceTheorems,
        FiniteSetTheorems, TLAPS

\* Test runs.  A verdict that says passed is right.
Verdict ==
    {v \in [passed : BOOLEAN,
            ended : {"none", "succeeded", "failed", "crashed", "killed"},
            output : {"none", "expected", "other"}] :
       v.passed => v.ended = "succeeded" /\ v.output = "expected"}

TestRun == [op : {"tests"}, pc : {"next", "wait"}, lang : Languages,
            blocked : BOOLEAN, left : Int, verdicts : Seq(Verdict)]

Child ==
    [state : {"running", "succeeded", "failed", "crashed", "killed"},
     phase : {"compile", "run"}, output : {"none", "expected", "other"},
     late : BOOLEAN, offspring : BOOLEAN]

SandboxInv ==
    /\ request \in [Slots -> {Idle} \cup TestRun]
    /\ process \in [Slots -> {NoProcess} \cup Child]
    /\ workspaces = {s \in Slots : process[s] # NoProcess}
    /\ \A s \in Slots : At(s, "tests", "wait") <=> process[s] # NoProcess
    /\ outcomes \subseteq Seq(Verdict)

\* Questions.  A cascade ends with the local rules.
Chain == {c \in Seq(Providers) : Len(c) > 0 /\ c[Len(c)] = Mock}

Question == [op : {"ask"}, pc : {"next", "called"}, chain : Chain,
             tried : Seq({"refused", "failed", "invalid"})]

\* What was tried so far is a part of the cascade, and none of it was accepted.
CascadeInv ==
    /\ request \in [Slots -> {Idle} \cup Question]
    /\ \A s \in Slots : request[s].op = "ask" =>
         /\ Len(request[s].tried) <= Len(request[s].chain)
         /\ request[s].pc = "called" => ~Exhausted(s)
    /\ CascadeIsExhaustive

\* Terminals.  An answer without a terminal carries no output.
ShellEntry == [room : Rooms \cup {None}, alive : BOOLEAN, pending : Seq(Nat),
               produced : Nat, clipped : SUBSET Nat]

PollAnswer == {a \in [gone : BOOLEAN, chunks : Seq(Nat)] : a.gone => a.chunks = <<>>}

Opening == [op : {"open"}, pc : {"posted", "admitted"}, room : Rooms]
Spawned == [op : {"open"}, pc : {"spawned"}, room : Rooms, id : Nat]
Typing == [op : {"input"}, pc : {"found", "posted"}, id : Terminals, input : Nat]

TerminalTyped ==
    /\ request \in [Slots -> {Idle} \cup Opening \cup Spawned \cup Typing]
    /\ shell \in [Terminals -> ShellEntry]
    /\ asked \in [Terminals -> Nat]
    /\ answers \in [Terminals -> SUBSET PollAnswer]
    /\ emitted \in [Terminals -> Seq(Nat)]
    /\ spawned \in Nat /\ count \in Nat
    /\ activeTerminals \subseteq 1 .. spawned

\* Of a terminal to come nothing was asked or said.
FreshHold ==
    /\ \A s \in Slots : At(s, "open", "spawned") => request[s].id \in 1 .. spawned
    /\ \A t \in Terminals : t > spawned =>
         asked[t] = 0 /\ answers[t] = {} /\ emitted[t] = <<>>

\* The runner admits a terminal only below its limit.
Admitted == {s \in Slots : At(s, "open", "admitted")}

ShellsInv ==
    /\ \A t \in Alive \ failed : t \in activeTerminals \cup deleting \/ Creating(t)
    /\ Cardinality(Alive) + Cardinality(Admitted) <= MaxSessions + Cardinality(Slots) - 1

\* An input on its way to the shell has been shown.
InputsHold ==
    /\ typedInput \subseteq shownInput
    /\ \A s \in Slots : At(s, "input", "posted") => request[s].input \in shownInput

Distinct(output) == \A i, j \in DOMAIN output : output[i] = output[j] => i = j

\* A chunk of a shell none of whose calls failed is in one place.
ChunksHold(t) ==
    /\ Chunks(emitted[t]) \cup Chunks(shell[t].pending) \cup InFlight(t)
         \cup shell[t].clipped = 1 .. shell[t].produced
    /\ Distinct(emitted[t]) /\ Distinct(shell[t].pending)
    /\ \A a \in answers[t] : Distinct(a.chunks)
    /\ \A a, b \in answers[t] : a # b => Chunks(a.chunks) \cap Chunks(b.chunks) = {}
    /\ Chunks(emitted[t]) \cap (Chunks(shell[t].pending) \cup InFlight(t)) = {}
    /\ Chunks(shell[t].pending) \cap InFlight(t) = {}

OutputInv == InputsHold /\ \A t \in Alive \ failed : ChunksHold(t)
-----------------------------------------------------------------------------
LEMMA VerdictsAreRight ==
  /\ RunFailed \in Verdict
  /\ \A p \in Child : p.state # "running" =>
       [passed |-> ExitCode(p) = 0 /\ p.output = "expected",
        ended |-> p.state, output |-> p.output] \in Verdict
<1>1. RunFailed \in Verdict
  BY DEF RunFailed, Verdict
<1>2. ASSUME NEW p \in Child, p.state # "running"
      PROVE  [passed |-> ExitCode(p) = 0 /\ p.output = "expected",
              ended |-> p.state, output |-> p.output] \in Verdict
  <2> DEFINE passed == ExitCode(p) = 0 /\ p.output = "expected"
  <2>1. passed \in BOOLEAN /\ (passed => p.state = "succeeded" /\ p.output = "expected")
    BY DEF ExitCode
  <2> HIDE DEF passed
  <2>2. CASE passed
    <3>1. [passed |-> TRUE, ended |-> p.state, output |-> p.output] \in Verdict
      BY <2>1, <2>2 DEF Verdict
    <3>2. passed = TRUE
      BY <2>1, <2>2
    <3> QED BY <3>1, <3>2 DEF passed
  <2>3. CASE ~passed
    <3>1. [passed |-> FALSE, ended |-> p.state, output |-> p.output] \in Verdict
      BY <1>2 DEF Verdict, Child
    <3>2. passed = FALSE
      BY <2>1, <2>3
    <3> QED BY <3>1, <3>2 DEF passed
  <2> QED BY <2>2, <2>3
<1> QED BY <1>1, <1>2

LEMMA SandboxStarts == SandboxInit => SandboxInv
  BY DEF SandboxInit, SandboxInv, NoRequests, Idle, At

\* What a request judges, it appends.
LEMMA Judged ==
  ASSUME NEW r \in TestRun, NEW v \in Verdict
  PROVE  [r EXCEPT !.pc = "next", !.left = @ - 1, !.verdicts = Append(@, v)] \in TestRun
<1>1. Append(r.verdicts, v) \in Seq(Verdict) /\ r.left - 1 \in Int
  BY AppendProperties DEF TestRun
<1> QED BY <1>1 DEF TestRun

\* A step on one slot: its request and its process change together.
LEMMA SandboxSlotStep ==
  ASSUME SandboxInv, NEW s \in Slots, NEW r \in {Idle} \cup TestRun,
         NEW p \in {NoProcess} \cup Child,
         request' = [request EXCEPT ![s] = r], process' = [process EXCEPT ![s] = p],
         workspaces' = IF p = NoProcess THEN workspaces \ {s} ELSE workspaces \cup {s},
         (r.op = "tests" /\ r.pc = "wait") <=> p # NoProcess,
         outcomes' \subseteq Seq(Verdict)
  PROVE  SandboxInv'
<1>1. /\ request' \in [Slots -> {Idle} \cup TestRun]
      /\ process' \in [Slots -> {NoProcess} \cup Child]
  BY DEF SandboxInv
<1>2. \A t \in Slots : /\ request'[t] = IF t = s THEN r ELSE request[t]
                       /\ process'[t] = IF t = s THEN p ELSE process[t]
  BY DEF SandboxInv
<1>3. workspaces' = {t \in Slots : process'[t] # NoProcess}
  BY <1>2 DEF SandboxInv
<1>4. \A t \in Slots : At(t, "tests", "wait")' <=> process'[t] # NoProcess
  BY <1>2 DEF SandboxInv, At
<1> QED BY <1>1, <1>3, <1>4 DEF SandboxInv

\* Only the process of a slot changes, and it goes on.
LEMMA SandboxProcessStep ==
  ASSUME SandboxInv, NEW s \in Slots, process[s] # NoProcess, NEW p \in Child,
         process' = [process EXCEPT ![s] = p],
         UNCHANGED <<workspaces, outcomes, request>>
  PROVE  SandboxInv'
<1>1. p # NoProcess
  BY DEF Child, NoProcess
<1>2. request[s] \in {Idle} \cup TestRun /\ s \in workspaces /\ At(s, "tests", "wait")
  BY DEF SandboxInv
<1>3. request' = [request EXCEPT ![s] = request[s]] /\ outcomes' \subseteq Seq(Verdict)
  BY DEF SandboxInv
<1> QED BY <1>1, <1>2, <1>3, SandboxSlotStep, ZenonT(40) DEF At

LEMMA SandboxStep == ASSUME SandboxInv, [SandboxNext]_sandboxVars PROVE SandboxInv'
<1>0. /\ Idle \in {Idle} \cup TestRun /\ Idle.op # "tests" /\ NoProcess.state = "none"
      /\ \A s \in Slots : request[s].op = "tests" => request[s] \in TestRun
      /\ \A s \in Slots : process[s] # NoProcess => process[s] \in Child
      /\ \A s \in Slots : process[s] # NoProcess =>
           request[s].op = "tests" /\ request[s].pc = "wait" /\ s \in workspaces
      /\ \A s \in Slots : process[s] = NoProcess => s \notin workspaces
      /\ \A phase \in {"compile", "run"} : Running(phase) \in Child
      /\ \A s \in Slots : At(s, "tests", "next") => process[s] = NoProcess
  BY DEF SandboxInv, Idle, NoProcess, At, Running, Child
<1>1. CASE UNCHANGED sandboxVars
  BY <1>1 DEF sandboxVars, sandboxData, SandboxInv, At
<1>2. ASSUME NEW s \in Slots, NEW l \in Languages, NEW b \in BOOLEAN,
             NEW n \in TestLists, BeginTests(s, l, b, n)
      PROVE  SandboxInv'
  <2> DEFINE r == [op |-> "tests", pc |-> "next", lang |-> l, blocked |-> b,
                   left |-> Capped(n), verdicts |-> <<>>]
  <2>1. r \in TestRun
    BY SandboxAssumption, EmptySeq DEF TestRun, Capped
  <2>2. /\ request[s] = Idle /\ request' = [request EXCEPT ![s] = r]
        /\ UNCHANGED <<process, workspaces, outcomes>>
    BY <1>2 DEF BeginTests, Accept, sandboxData
  <2>3. process[s] = NoProcess
    BY <1>0, <2>2
  <2>4. process' = [process EXCEPT ![s] = NoProcess] /\ workspaces' = workspaces \ {s}
    BY <1>0, <2>2, <2>3 DEF SandboxInv
  <2>5. r.pc # "wait"
    OBVIOUS
  <2> HIDE DEF r
  <2> QED BY <2>1, <2>2, <2>4, <2>5, SandboxSlotStep DEF SandboxInv
<1>3. ASSUME NEW s \in Slots, BlockTest(s) \/ FinishTests(s) \/ FailTests(s)
      PROVE  SandboxInv'
  <2>1. /\ At(s, "tests", "next") /\ process[s] = NoProcess /\ request[s] \in TestRun
        /\ UNCHANGED <<process, workspaces>>
    BY <1>0, <1>3 DEF BlockTest, FinishTests, FailTests, At, sandboxData
  <2>2. process' = [process EXCEPT ![s] = NoProcess] /\ workspaces' = workspaces \ {s}
    BY <1>0, <2>1 DEF SandboxInv
  <2>3. outcomes' \subseteq Seq(Verdict)
    BY <1>3, <2>1 DEF BlockTest, FinishTests, FailTests, sandboxData, SandboxInv, TestRun
  <2>4. PICK r \in {Idle} \cup TestRun :
          /\ request' = [request EXCEPT ![s] = r]
          /\ ~(r.op = "tests" /\ r.pc = "wait")
    <3>1. CASE BlockTest(s)
      <4> DEFINE r == [request[s] EXCEPT !.pc = "next", !.left = @ - 1,
                                         !.verdicts = Append(@, RunFailed)]
      <4>1. r \in TestRun /\ r.pc = "next"
        BY <2>1, Judged, VerdictsAreRight DEF TestRun
      <4>2. request' = [request EXCEPT ![s] = r]
        BY <3>1 DEF BlockTest, Judge, Hold
      <4> HIDE DEF r
      <4> QED BY <4>1, <4>2
    <3>2. CASE FinishTests(s) \/ FailTests(s)
      BY <1>0, <3>2 DEF FinishTests, FailTests, Respond
    <3> QED BY <1>3, <3>1, <3>2
  <2> QED BY <2>2, <2>3, <2>4, SandboxSlotStep
<1>4. ASSUME NEW s \in Slots, StartTest(s) PROVE SandboxInv'
  <2> DEFINE r == [request[s] EXCEPT !.pc = "wait"]
  <2>1. request[s] \in TestRun
    BY <1>0, <1>4 DEF StartTest, At
  <2>2. r \in TestRun /\ r.op = "tests" /\ r.pc = "wait"
    BY <2>1 DEF TestRun
  <2>3. request' = [request EXCEPT ![s] = r] /\ outcomes' \subseteq Seq(Verdict)
    BY <1>4 DEF StartTest, GoTo, SandboxInv
  <2>4. PICK p \in Child : process' = [process EXCEPT ![s] = p]
    BY <1>0, <1>4 DEF StartTest
  <2>5. p # NoProcess /\ workspaces' = workspaces \cup {s}
    BY <1>4 DEF StartTest, Child, NoProcess
  <2> HIDE DEF r
  <2> QED BY <2>2, <2>3, <2>4, <2>5, SandboxSlotStep
<1>5. ASSUME NEW s \in Slots, NEW v \in Verdict, EndExecution(s, v), process[s] # NoProcess
      PROVE  SandboxInv'
  <2> DEFINE r == [request[s] EXCEPT !.pc = "next", !.left = @ - 1, !.verdicts = Append(@, v)]
  <2>1. request[s] \in TestRun
    BY <1>0, <1>5
  <2>2. r \in TestRun /\ r.pc = "next"
    BY <2>1, Judged DEF TestRun
  <2>3. /\ request' = [request EXCEPT ![s] = r] /\ outcomes' \subseteq Seq(Verdict)
        /\ process' = [process EXCEPT ![s] = NoProcess] /\ workspaces' = workspaces \ {s}
    BY <1>5 DEF EndExecution, Judge, Hold, SandboxInv
  <2> HIDE DEF r
  <2> QED BY <2>2, <2>3, SandboxSlotStep
<1>6. ASSUME NEW s \in Slots, MissCommand(s) PROVE SandboxInv'
  <2>1. process[s] # NoProcess /\ EndExecution(s, RunFailed)
    BY <1>6 DEF MissCommand, Running, NoProcess
  <2> QED BY <1>5, <2>1, VerdictsAreRight
<1>7. ASSUME NEW s \in Slots,
             \/ Spawn(s) \/ EndOffspring(s) \/ PrintOutput(s)
             \/ Exit(s) \/ Overflow(s) \/ Expire(s)
      PROVE  SandboxInv'
  <2> USE DEF Offspring
  <2>1. process[s] # NoProcess /\ process[s] \in Child
    BY <1>0, <1>7 DEF Spawn, EndOffspring, PrintOutput, Exit, Overflow, Expire
  <2>2. ProcessKilled(s) \in Child
    BY <2>1 DEF ProcessKilled, Child
  <2>3. PICK p \in Child : process' = [process EXCEPT ![s] = p]
    <3>1. CASE PrintOutput(s)
      BY <2>1, <3>1 DEF PrintOutput, Child
    <3>2. CASE Exit(s)
      BY <2>1, <3>2 DEF Exit, Child
    <3>3. CASE Overflow(s)
      <4>1. [ProcessKilled(s) EXCEPT !.output = "other"] \in Child
        BY <2>2 DEF Child
      <4> QED BY <3>3, <4>1 DEF Overflow
    <3>4. CASE Expire(s)
      <4>1. [ProcessKilled(s) EXCEPT !.late = TRUE] \in Child
        BY <2>2 DEF Child
      <4> QED BY <3>4, <4>1 DEF Expire
    <3>5. CASE Spawn(s) \/ EndOffspring(s)
      BY <2>1, <3>5 DEF Spawn, EndOffspring, Child
    <3> QED BY <1>7, <3>1, <3>2, <3>3, <3>4, <3>5
  <2>4. UNCHANGED <<workspaces, outcomes, request>>
    BY <1>7 DEF Spawn, EndOffspring, PrintOutput, Exit, Overflow, Expire
  <2> QED BY <2>1, <2>3, <2>4, SandboxProcessStep
<1>8. ASSUME NEW s \in Slots, Close(s) PROVE SandboxInv'
  <2>1. process[s] # NoProcess /\ process[s] \in Child /\ process[s].state # "running"
    BY <1>0, <1>8 DEF Close
  <2>2. CASE process[s].phase = "compile" /\ ExitCode(process[s]) = 0
    BY <1>0, <1>8, <2>1, <2>2, SandboxProcessStep DEF Close
  <2>3. CASE ~(process[s].phase = "compile" /\ ExitCode(process[s]) = 0)
    BY <1>5, <1>8, <2>1, <2>3, VerdictsAreRight DEF Close
  <2> QED BY <2>2, <2>3
<1> QED BY <1>1, <1>2, <1>3, <1>4, <1>6, <1>7, <1>8 DEF SandboxNext

\* A test passes only if its program, not its compiler, ended by itself with
\* exit code 0 and printed what is expected, in whatever order output, exit,
\* time limit and `close' came (runProcess); and a program always has its
\* workspace (executeCodeSandbox).
THEOREM VerdictsTellTheTruth == SandboxSpec => []TestsTellTheTruth
<1>1. SandboxInv => TestsTellTheTruth
  <2> SUFFICES ASSUME SandboxInv PROVE TestsTellTheTruth
    OBVIOUS
  <2>1. ASSUME NEW o \in outcomes, NEW i \in DOMAIN o, o[i].passed
        PROVE  o[i].ended = "succeeded" /\ o[i].output = "expected"
    <3>1. o[i] \in Verdict
      BY ElementOfSeq DEF SandboxInv
    <3> QED BY <2>1, <3>1 DEF Verdict
  <2>2. \A s \in Slots :
          At(s, "tests", "wait") <=> s \in workspaces /\ process[s] # NoProcess
    BY DEF SandboxInv
  <2> QED BY <2>1, <2>2 DEF TestsTellTheTruth
<1> QED BY <1>1, SandboxStarts, SandboxStep, PTL DEF SandboxSpec
-----------------------------------------------------------------------------
LEMMA CascadesEndWithTheRules ==
  ASSUME NEW preferred, NEW available PROVE ProvidersCascade(preferred, available) \in Chain
<1> DEFINE order ==
             CASE preferred = "openai" -> <<"openai", "gemini", "ollama">>
               [] preferred = "gemini" -> <<"gemini", "ollama", "openai">>
               [] preferred \notin {"openai", "gemini"}
                    /\ (preferred = "ollama" \/ UseLocal)
                    -> <<"ollama", "gemini", "openai">>
               [] OTHER -> <<"gemini", "openai", "ollama">>
           present(i) == IF order[i] \in available THEN <<order[i]>> ELSE <<>>
           first == present(1) \o present(2) \o present(3)
<1>1. \A i \in 1 .. 3 : order[i] \in Providers
  BY DEF Providers
<1> HIDE DEF order
<1>2. \A i \in 1 .. 3 : present(i) \in Seq(Providers)
  BY <1>1
<1> HIDE DEF present
<1>3. first \in Seq(Providers)
  BY <1>2, ConcatProperties
<1> HIDE DEF first
<1>4. first \o <<Mock>> \in Seq(Providers) /\ <<Mock>> \in Seq(Providers)
      /\ Len(<<Mock>>) = 1 /\ <<Mock>>[1] = Mock
  BY <1>3, ConcatProperties DEF Providers
<1>5. Len(first) \in Nat
  BY <1>3, LenProperties
<1>6. /\ Len(first \o <<Mock>>) = Len(first) + 1
      /\ (first \o <<Mock>>)[Len(first) + 1] = Mock
  BY <1>3, <1>4, <1>5, ConcatProperties
<1>7. first \o <<Mock>> \in Chain
  <2> DEFINE c == first \o <<Mock>>
  <2>1. c \in Seq(Providers) /\ Len(c) = Len(first) + 1 /\ c[Len(first) + 1] = Mock
    BY <1>4, <1>6
  <2> HIDE DEF c
  <2>2. c \in Chain
    BY <1>5, <2>1 DEF Chain
  <2> QED BY <2>2 DEF c
<1> QED BY <1>7 DEF first, present, order, ProvidersCascade

LEMMA CascadeStarts == CascadeInit => CascadeInv
  BY DEF CascadeInit, CascadeInv, NoRequests, Idle, CascadeIsExhaustive

\* A slot that goes on with a question, or is free again, while nothing is
\* answered.
LEMMA QuestionGoesOn ==
  ASSUME CascadeInv, NEW s \in Slots, NEW r \in {Idle} \cup Question,
         request' = [request EXCEPT ![s] = r], given' = given,
         r # Idle => /\ Len(r.tried) <= Len(r.chain)
                     /\ r.pc = "called" => Len(r.tried) # Len(r.chain)
  PROVE  CascadeInv'
<1>1. \A t \in Slots : request'[t] = IF t = s THEN r ELSE request[t]
  BY DEF CascadeInv
<1>2. Idle.op # "ask"
  BY DEF Idle
<1>3. \A t \in Slots : request'[t].op = "ask" =>
        /\ Len(request'[t].tried) <= Len(request'[t].chain)
        /\ request'[t].pc = "called" => Len(request'[t].tried) # Len(request'[t].chain)
  BY <1>1, <1>2 DEF CascadeInv, Exhausted
<1> QED BY <1>3 DEF CascadeInv, Exhausted, CascadeIsExhaustive

\* An attempt that came to nothing is one more that was tried.
LEMMA TriedGoesOn ==
  ASSUME CascadeInv, NEW s \in Slots, request[s] \in Question, ~Exhausted(s),
         NEW o \in {"refused", "failed", "invalid"}, Tried(s, o), given' = given
  PROVE  CascadeInv'
<1> DEFINE r == [request[s] EXCEPT !.pc = "next", !.tried = Append(@, o)]
<1>1. /\ request[s].tried \in Seq({"refused", "failed", "invalid"})
      /\ request[s].chain \in Seq(Providers) /\ request[s].op = "ask"
  BY DEF Question, Chain
<1>2. Len(request[s].tried) \in Nat /\ Len(request[s].chain) \in Nat
  BY <1>1, LenProperties
<1>3. Len(request[s].tried) < Len(request[s].chain)
  BY <1>1, <1>2 DEF CascadeInv, Exhausted
<1>4. /\ Append(request[s].tried, o) \in Seq({"refused", "failed", "invalid"})
      /\ Len(Append(request[s].tried, o)) = Len(request[s].tried) + 1
  BY <1>1, AppendProperties
<1>5. r \in Question /\ r.pc = "next" /\ Len(r.tried) <= Len(r.chain)
  <2>1. PICK more \in Seq({"refused", "failed", "invalid"}) :
          more = Append(request[s].tried, o) /\ Len(more) = Len(request[s].tried) + 1
    BY <1>4
  <2>2. r = [request[s] EXCEPT !.pc = "next", !.tried = more]
    BY <2>1
  <2> HIDE DEF r
  <2>3. /\ r \in Question /\ r.pc = "next" /\ r.tried = more
        /\ r.chain = request[s].chain
    BY <2>2 DEF Question
  <2> QED BY <1>2, <1>3, <2>1, <2>3
<1>6. request' = [request EXCEPT ![s] = r]
  BY DEF Tried, Hold
<1> HIDE DEF r
<1> QED BY <1>5, <1>6, QuestionGoesOn

\* A question is over.
LEMMA QuestionEnds ==
  ASSUME CascadeInv, NEW s \in Slots, request' = [request EXCEPT ![s] = Idle],
         CascadeIsExhaustive'
  PROVE  CascadeInv'
<1>1. \A t \in Slots : request'[t] = IF t = s THEN Idle ELSE request[t]
  BY DEF CascadeInv
<1>2. \A t \in Slots : request'[t].op = "ask" =>
        /\ Len(request'[t].tried) <= Len(request'[t].chain)
        /\ request'[t].pc = "called" => Len(request'[t].tried) # Len(request'[t].chain)
  BY <1>1 DEF CascadeInv, Exhausted, Idle
<1> QED BY <1>2 DEF CascadeInv, Exhausted

\* The provider whose turn it is answers, or fails.
LEMMA CurrentAnswers ==
  ASSUME CascadeInv, NEW s \in Slots, At(s, "ask", "called"),
         NEW p, p = Current(s), NEW outcome \in {"valid", "invalid"},
         Answered(s, p, outcome)
  PROVE  CascadeInv'
<1>1. request[s] \in Question /\ ~Exhausted(s)
  BY DEF CascadeInv, At, Idle
<1>2. CASE outcome = "invalid"
  <2>1. Tried(s, "invalid") /\ given' = given
    BY <1>2 DEF Answered, CanAnswer
  <2> QED BY <1>1, <2>1, TriedGoesOn
<1>3. CASE outcome = "valid"
  <2> DEFINE tried == request[s].tried
             chain == request[s].chain
  <2>1. /\ request' = [request EXCEPT ![s] = Idle]
        /\ given' = [provider |-> p, chain |-> chain, tried |-> Append(tried, "valid")]
    BY <1>3 DEF Answered, CanAnswer, Respond
  <2>2. /\ tried \in Seq({"refused", "failed", "invalid"}) /\ chain \in Seq(Providers)
        /\ Len(chain) > 0 /\ chain[Len(chain)] = Mock
    BY <1>1 DEF Question, Chain
  <2>3. /\ Len(tried) \in Nat /\ Len(chain) \in Nat
        /\ \A i \in 1 .. Len(tried) : tried[i] # "valid"
    BY <2>2, LenProperties, ElementOfSeq
  <2>4. /\ Len(Append(tried, "valid")) = Len(tried) + 1
        /\ \A i \in 1 .. Len(tried) : Append(tried, "valid")[i] = tried[i]
        /\ Append(tried, "valid")[Len(tried) + 1] = "valid"
    BY <2>2, AppendProperties
  <2>5. Len(tried) + 1 \in 1 .. Len(chain) /\ p = chain[Len(tried) + 1]
    BY <1>1, <2>3 DEF CascadeInv, Exhausted, Current, At
  <2>6. p # Degraded
    BY <2>2, <2>5, ElementOfSeq, SMTT(30) DEF Providers, Degraded, Mock
  <2> HIDE DEF tried, chain
  <2>7. CascadeIsExhaustive'
    <3>1. Last(given'.chain) = Mock
      BY <2>1, <2>2 DEF Last
    <3>2. ASSUME NEW i \in 1 .. Len(tried) + 1
          PROVE  given'.tried[i] = "valid" <=>
                   i = Len(tried) + 1 /\ given'.provider = given'.chain[i]
      <4>1. CASE i = Len(tried) + 1
        BY <2>1, <2>4, <2>5, <4>1
      <4>2. CASE i # Len(tried) + 1
        <5>1. i \in 1 .. Len(tried)
          BY <2>3, <4>2
        <5> QED BY <2>1, <2>3, <2>4, <4>2, <5>1
      <4> QED BY <4>1, <4>2
    <3> QED BY <2>1, <2>4, <2>6, <3>1, <3>2 DEF CascadeIsExhaustive
  <2> QED BY <2>1, <2>7, QuestionEnds
<1> QED BY <1>2, <1>3

LEMMA CurrentFails ==
  ASSUME CascadeInv, NEW s \in Slots, At(s, "ask", "called"), NEW p, Failed(s, p)
  PROVE  CascadeInv'
<1>1. request[s] \in Question /\ ~Exhausted(s)
  BY DEF CascadeInv, At, Idle
<1> QED BY <1>1, TriedGoesOn DEF Failed

LEMMA CascadeStep == ASSUME CascadeInv, [CascadeNext]_cascadeVars PROVE CascadeInv'
<1>0. \A s \in Slots : request[s].op = "ask" => request[s] \in Question
  BY DEF CascadeInv, Idle
<1>1. CASE UNCHANGED <<request, given>>
  BY <1>1 DEF CascadeInv, Exhausted, CascadeIsExhaustive
<1>2. ASSUME NEW s \in Slots, NEW preferred \in Preferences, NEW available \in Setups,
             Ask(s, preferred, available)
      PROVE  CascadeInv'
  <2> DEFINE r == [op |-> "ask", pc |-> "next", tried |-> <<>>,
                   chain |-> ProvidersCascade(preferred, available)]
  <2>1. ProvidersCascade(preferred, available) \in Chain
    BY CascadesEndWithTheRules
  <2>2. r \in Question /\ r.pc = "next" /\ Len(r.tried) <= Len(r.chain)
    BY <2>1, EmptySeq DEF Question, Chain
  <2>3. request' = [request EXCEPT ![s] = r] /\ given' = given
    BY <1>2 DEF Ask, Accept, cascadeData
  <2> HIDE DEF r
  <2> QED BY <2>2, <2>3, QuestionGoesOn
<1>3. ASSUME NEW s \in Slots, Refuse(s) PROVE CascadeInv'
  BY <1>0, <1>3, TriedGoesOn DEF Refuse, At, cascadeData
<1>4. ASSUME NEW s \in Slots, Fire(s) PROVE CascadeInv'
  <2> DEFINE r == [request[s] EXCEPT !.pc = "called"]
  <2>1. request[s] \in Question /\ ~Exhausted(s) /\ request[s].op = "ask"
    BY <1>0, <1>4 DEF Fire, At
  <2>2. /\ r \in Question /\ r.tried = request[s].tried /\ r.chain = request[s].chain
        /\ request' = [request EXCEPT ![s] = r] /\ given' = given
    BY <1>4, <2>1 DEF Question, Fire, GoTo
  <2>3. Len(r.tried) <= Len(r.chain) /\ Len(r.tried) # Len(r.chain)
    BY <2>1, <2>2 DEF CascadeInv, Exhausted
  <2> HIDE DEF r
  <2> QED BY <2>2, <2>3, QuestionGoesOn
<1>5. ASSUME NEW s \in Slots, Return(s) PROVE CascadeInv'
  BY <1>5, CurrentAnswers DEF Return
<1>6. ASSUME NEW s \in Slots, GiveUp(s) PROVE CascadeInv'
  BY <1>6, CurrentFails DEF GiveUp
<1>7. ASSUME NEW s \in Slots, ModelAnswers(s) PROVE CascadeInv'
  BY <1>1, <1>7, CurrentAnswers DEF ModelAnswers, Waiting
<1>8. ASSUME NEW s \in Slots, ModelUnavailable(s) \/ ModelRefuses(s) PROVE CascadeInv'
  BY <1>1, <1>8, CurrentFails DEF ModelUnavailable, ModelRefuses, Waiting
<1>9. ASSUME NEW s \in Slots, FallBack(s) PROVE CascadeInv'
  <2>1. /\ request[s] \in Question /\ Exhausted(s)
        /\ request' = [request EXCEPT ![s] = Idle]
        /\ given' = [provider |-> Degraded, chain |-> request[s].chain,
                     tried |-> request[s].tried]
    BY <1>0, <1>9 DEF FallBack, At, Respond
  <2>2. /\ request[s].tried \in Seq({"refused", "failed", "invalid"})
        /\ request[s].chain \in Seq(Providers)
        /\ Len(request[s].chain) > 0 /\ request[s].chain[Len(request[s].chain)] = Mock
    BY <2>1 DEF Question, Chain
  <2>3. \A i \in 1 .. Len(request[s].tried) :
          /\ request[s].tried[i] # "valid" /\ request[s].chain[i] # Degraded
    BY <2>1, <2>2, ElementOfSeq, SMTT(30) DEF Providers, Degraded, Mock, Exhausted
  <2>4. CascadeIsExhaustive'
    BY <2>1, <2>2, <2>3 DEF CascadeIsExhaustive, Last, Exhausted
  <2> QED BY <2>1, <2>4, QuestionEnds
<1>10. ASSUME NEW p, ResetBreaker(p) PROVE CascadeInv'
  BY <1>1, <1>10 DEF ResetBreaker
<1>11. ASSUME NEW m, CoolDown(m) PROVE CascadeInv'
  BY <1>1, <1>11 DEF CoolDown
<1>12. CASE UNCHANGED cascadeVars
  BY <1>1, <1>12 DEF cascadeVars, cascadeData
<1> QED BY <1>2, <1>3, <1>4, <1>5, <1>6, <1>7, <1>8, <1>9, <1>10, <1>11, <1>12
        DEF CascadeNext

\* A question is answered by the first provider of its cascade that has an
\* acceptable answer, and is degraded only if every one of them, ending with
\* the local rules, was refused, failed, or gave an answer that the schema
\* rejects (executeWithCascade), for any number of questions and models,
\* whatever the breakers do.
THEOREM CascadeStaysExhaustive == CascadeSpec => []CascadeIsExhaustive
<1>1. CascadeInv => CascadeIsExhaustive
  BY DEF CascadeInv
<1> QED BY <1>1, CascadeStarts, CascadeStep, PTL DEF CascadeSpec
-----------------------------------------------------------------------------
LEMMA TerminalStarts ==
  TerminalInit => TerminalTyped /\ FreshHold /\ ShellsInv /\ OutputInv
<1> SUFFICES ASSUME TerminalInit
             PROVE  TerminalTyped /\ FreshHold /\ ShellsInv /\ OutputInv
  OBVIOUS
<1>1. /\ request = [s \in Slots |-> Idle] /\ shell = [t \in Terminals |-> NoShell]
      /\ answers = [t \in Terminals |-> {}] /\ emitted = [t \in Terminals |-> <<>>]
      /\ asked = [t \in Terminals |-> 0] /\ activeTerminals = {} /\ spawned = 0
      /\ typedInput = {} /\ count = 0
  BY DEF TerminalInit, NoRequests
<1>2. TerminalTyped
  <2>1. NoShell \in ShellEntry
    BY EmptySeq DEF NoShell, ShellEntry
  <2>2. <<>> \in Seq(Nat)
    BY EmptySeq
  <2> QED BY <1>1, <2>1, <2>2 DEF TerminalTyped
<1>3. Alive = {} /\ Admitted = {}
  BY <1>1 DEF Alive, NoShell, Admitted, At, Idle
<1>4. ShellsInv
  <2>1. Cardinality(Alive) = 0 /\ Cardinality(Admitted) = 0 /\ Cardinality(Slots) \in Nat
    BY <1>3, FS_EmptySet, SlotsAssumption, FS_CardinalityType
  <2> QED BY <1>3, <2>1, TerminalAssumption DEF ShellsInv
<1>5. FreshHold /\ OutputInv
  BY <1>1, <1>3 DEF FreshHold, OutputInv, InputsHold, At, Idle
<1> QED BY <1>2, <1>4, <1>5

\* Where a request stands says what it has read.
LEMMA TerminalRequests ==
  ASSUME TerminalTyped
  PROVE  /\ \A s \in Slots : At(s, "open", "spawned") => request[s] \in Spawned
         /\ \A s \in Slots : At(s, "open", "posted") \/ At(s, "open", "admitted") =>
                               request[s] \in Opening
         /\ \A s \in Slots : request[s].op = "input" => request[s] \in Typing
<1>1. \A s \in Slots : request[s] \in {Idle} \cup Opening \cup Spawned \cup Typing
  BY DEF TerminalTyped
<1>2. Idle.op = "idle" /\ \A r \in Typing : r.op = "input"
  BY DEF Idle, Typing
<1>3. /\ \A r \in Opening : r.op = "open" /\ r.pc # "spawned"
      /\ \A r \in Spawned : r.op = "open" /\ r.pc = "spawned"
  BY DEF Opening, Spawned
<1> QED BY <1>1, <1>2, <1>3 DEF At

LEMMA KeptIsSeq == ASSUME NEW S, NEW q \in Seq(S) PROVE Kept(q) \in Seq(S)
<1>1. Len(q) \in Nat
  BY LenProperties
<1>2. \A i \in 1 .. Len(q) : q[i] \in S
  BY ElementOfSeq
<1>3. SubSeq(q, 1, Len(q)) \in Seq(S) /\ SubSeq(q, 2, Len(q)) \in Seq(S)
  BY <1>1, <1>2, SubSeqProperties
<1> QED BY <1>3 DEF Kept

LEMMA TerminalTypedStep ==
  ASSUME TerminalTyped, FreshHold, [TerminalNext]_terminalVars
  PROVE  TerminalTyped'
<1>0. /\ \A r \in {Idle} \cup Opening \cup Spawned \cup Typing : \A s \in Slots :
           [request EXCEPT ![s] = r]
             \in [Slots -> {Idle} \cup Opening \cup Spawned \cup Typing]
      /\ \A e \in ShellEntry : \A t : [shell EXCEPT ![t] = e] \in [Terminals -> ShellEntry]
      /\ \A t \in Terminals : shell[t] \in ShellEntry /\ asked[t] \in Nat
      /\ \A t \in Terminals : answers[t] \subseteq PollAnswer /\ emitted[t] \in Seq(Nat)
  BY DEF TerminalTyped
<1>1. CASE UNCHANGED terminalVars
  BY <1>1 DEF terminalVars, terminalData, TerminalTyped
<1>2. ASSUME NEW s \in Slots, NEW room \in Rooms, OpenTerminal(s, room)
      PROVE  TerminalTyped'
  <2>1. [op |-> "open", pc |-> "posted", room |-> room] \in Opening
    BY DEF Opening
  <2>2. request' \in [Slots -> {Idle} \cup Opening \cup Spawned \cup Typing]
    BY <1>0, <1>2, <2>1 DEF OpenTerminal, Accept
  <2>3. count' \in Nat
    BY <1>2 DEF OpenTerminal, Accept, TerminalTyped
  <2> QED BY <1>2, <2>2, <2>3 DEF OpenTerminal, terminalData, TerminalTyped
<1>3. ASSUME NEW s \in Slots, AdmitTerminal(s) \/ FailTerminal(s) PROVE TerminalTyped'
  <2>1. CASE request' = [request EXCEPT ![s] = Idle]
    BY <1>0, <1>3, <2>1
       DEF AdmitTerminal, FailTerminal, Respond, GoTo, terminalData, TerminalTyped
  <2>2. CASE AdmitTerminal(s) /\ request' = [request EXCEPT ![s].pc = "admitted"]
    <3>1. request[s] \in Opening
      BY <2>2, TerminalRequests DEF AdmitTerminal
    <3>2. [request[s] EXCEPT !.pc = "admitted"] \in Opening
      BY <3>1 DEF Opening
    <3>3. request' \in [Slots -> {Idle} \cup Opening \cup Spawned \cup Typing]
      BY <1>0, <2>2, <3>2
    <3> QED BY <2>2, <3>3 DEF AdmitTerminal, Respond, GoTo, terminalData, TerminalTyped
  <2> QED BY <1>3, <2>1, <2>2 DEF AdmitTerminal, FailTerminal, Respond, GoTo
<1>4. ASSUME NEW s \in Slots, SpawnShell(s) PROVE TerminalTyped'
  <2>1. request[s] \in Opening /\ request[s].room \in Rooms
    BY <1>4, TerminalRequests DEF SpawnShell, Opening
  <2>2. PICK room \in Rooms : room = request[s].room
    BY <2>1
  <2>3. PICK n \in Nat : n = spawned + 1
    BY DEF TerminalTyped
  <2>4. [op |-> "open", pc |-> "spawned", room |-> room, id |-> n] \in Spawned
    BY DEF Spawned
  <2>5. [NoShell EXCEPT !.room = room, !.alive = TRUE] \in ShellEntry
    BY EmptySeq DEF NoShell, ShellEntry
  <2>6. /\ request' = [request EXCEPT ![s] = [op |-> "open", pc |-> "spawned",
                                              room |-> room, id |-> n]]
        /\ shell' = [shell EXCEPT ![n] = [NoShell EXCEPT !.room = room, !.alive = TRUE]]
        /\ spawned' = n
        /\ UNCHANGED <<activeTerminals, asked, answers, emitted, count>>
    BY <1>4, <2>2, <2>3 DEF SpawnShell, Hold
  <2>7. /\ request' \in [Slots -> {Idle} \cup Opening \cup Spawned \cup Typing]
        /\ shell' \in [Terminals -> ShellEntry]
    BY <1>0, <2>4, <2>5, <2>6
  <2>8. activeTerminals' \subseteq 1 .. spawned'
    BY <2>3, <2>6 DEF TerminalTyped
  <2> QED BY <2>6, <2>7, <2>8 DEF TerminalTyped
<1>5. ASSUME NEW s \in Slots, AddTerminal(s) \/ LoseTerminal(s) PROVE TerminalTyped'
  <2>1. /\ At(s, "open", "spawned") /\ request' = [request EXCEPT ![s] = Idle]
        /\ UNCHANGED <<shell, spawned, answers, emitted, count>>
    BY <1>5 DEF AddTerminal, LoseTerminal, Respond
  <2>2. request[s].id \in 1 .. spawned
    BY <2>1 DEF FreshHold
  <2>3. activeTerminals' \subseteq 1 .. spawned'
    BY <1>5, <2>1, <2>2 DEF AddTerminal, LoseTerminal, TerminalTyped
  <2>4. PICK id : id = request[s].id
    OBVIOUS
  <2>5. asked' = asked \/ asked' = [asked EXCEPT ![id] = @ + 1]
    BY <1>5, <2>4 DEF AddTerminal, LoseTerminal
  <2>6. asked' \in [Terminals -> Nat]
    <3>1. CASE id \in Terminals
      <4>1. PICK n \in Nat : n = asked[id] + 1
        BY <1>0, <3>1
      <4> QED BY <2>5, <4>1 DEF TerminalTyped
    <3>2. CASE id \notin Terminals
      <4>1. \A x : [asked EXCEPT ![id] = x] \in [Terminals -> Nat]
        BY <3>2 DEF TerminalTyped
      <4> QED BY <2>5, <4>1 DEF TerminalTyped
    <3> QED BY <3>1, <3>2
  <2>7. request' \in [Slots -> {Idle} \cup Opening \cup Spawned \cup Typing]
    BY <1>0, <2>1
  <2> QED BY <2>1, <2>3, <2>6, <2>7 DEF TerminalTyped
<1>6. ASSUME NEW s \in Slots, NEW t \in Terminals, BeginInput(s, t) PROVE TerminalTyped'
  <2>1. /\ request[s] = Idle /\ count < MaxRequests
        /\ UNCHANGED terminalData
    BY <1>6 DEF BeginInput, Accept
  <2>2. PICK n : n = count + 1
    OBVIOUS
  <2>3. request' = [request EXCEPT ![s] = [op |-> "input", pc |-> "found", id |-> t,
                                           input |-> n]]
    BY <1>6, <2>2 DEF BeginInput, Accept
  <2>4. n \in Nat /\ count' = n
    <3>1. count' = count + 1
      BY <1>6 DEF BeginInput, Accept
    <3>2. count + 1 \in Nat
      BY DEF TerminalTyped
    <3> QED BY <2>2, <3>1, <3>2
  <2>5. [op |-> "input", pc |-> "found", id |-> t, input |-> n] \in Typing
    BY <2>4 DEF Typing
  <2>6. request' \in [Slots -> {Idle} \cup Opening \cup Spawned \cup Typing]
    BY <1>0, <2>3, <2>5
  <2> QED BY <2>1, <2>4, <2>6 DEF terminalData, TerminalTyped
<1>7. ASSUME NEW s \in Slots, RelayInput(s) \/ WriteInput(s) PROVE TerminalTyped'
  <2>1. request[s] \in Typing /\ UNCHANGED <<activeTerminals, shell, spawned, asked,
                                             answers, emitted, count>>
    BY <1>7, TerminalRequests DEF RelayInput, WriteInput, At, GoTo, Respond
  <2>2. [request[s] EXCEPT !.pc = "posted"] \in Typing
    BY <2>1 DEF Typing
  <2>3. \/ request' = [request EXCEPT ![s].pc = "posted"]
        \/ request' = [request EXCEPT ![s] = Idle]
    BY <1>7 DEF RelayInput, WriteInput, GoTo, Respond
  <2>4. request' \in [Slots -> {Idle} \cup Opening \cup Spawned \cup Typing]
    BY <1>0, <2>2, <2>3
  <2> QED BY <2>1, <2>4 DEF TerminalTyped
<1>8. ASSUME NEW t \in Terminals,
             CloseTerminal(t) \/ LoseDelete(t) \/ DeleteShell(t) \/ ExitShell(t)
      PROVE  TerminalTyped'
  <2>1. [shell[t] EXCEPT !.alive = FALSE] \in ShellEntry
    BY <1>0, ZenonT(30) DEF ShellEntry
  <2>2. /\ shell' = shell \/ shell' = [shell EXCEPT ![t].alive = FALSE]
        /\ activeTerminals' \subseteq activeTerminals
        /\ count' \in Nat
        /\ UNCHANGED <<request, spawned, asked, answers, emitted>>
    BY <1>8 DEF CloseTerminal, LoseDelete, DeleteShell, ExitShell, Closed, Answer, TerminalTyped
  <2>3. shell' \in [Terminals -> ShellEntry]
    BY <1>0, <2>1, <2>2 DEF TerminalTyped
  <2> QED BY <2>2, <2>3 DEF TerminalTyped
<1>9. ASSUME NEW t \in Terminals, WriteOutput(t) PROVE TerminalTyped'
  <2> DEFINE all == Append(shell[t].pending, shell[t].produced + 1)
  <2>1. /\ shell[t].pending \in Seq(Nat) /\ shell[t].produced \in Nat
        /\ shell[t].clipped \in SUBSET Nat
    BY <1>0 DEF ShellEntry
  <2>2. all \in Seq(Nat) /\ Head(all) \in Nat
    <3>1. PICK n \in Nat : n = shell[t].produced + 1
      BY <2>1
    <3>2. Append(shell[t].pending, n) \in Seq(Nat) /\ Append(shell[t].pending, n) # <<>>
      BY <2>1, <3>1, AppendProperties
    <3> QED BY <3>1, <3>2, HeadTailProperties
  <2>3. Kept(all) \in Seq(Nat)
    BY <2>2, KeptIsSeq
  <2>4. PICK kept \in Seq(Nat) : kept = Kept(all)
    BY <2>3
  <2>5. PICK more \in SUBSET Nat :
          more = IF Kept(all) = all THEN shell[t].clipped
                 ELSE shell[t].clipped \cup {Head(all)}
    BY <2>1, <2>2
  <2>6. PICK n \in Nat : n = shell[t].produced + 1
    BY <2>1
  <2>7. /\ shell' = [shell EXCEPT ![t].produced = n, ![t].pending = kept,
                                  ![t].clipped = more]
        /\ UNCHANGED <<request, count, activeTerminals, spawned, asked, answers, emitted>>
    BY <1>9, <2>4, <2>5, <2>6 DEF WriteOutput
  <2>8. [shell[t] EXCEPT !.produced = n, !.pending = kept, !.clipped = more] \in ShellEntry
    <3>1. \A e \in ShellEntry : [e EXCEPT !.produced = n] \in ShellEntry
      BY DEF ShellEntry
    <3>2. \A e \in ShellEntry : [e EXCEPT !.pending = kept] \in ShellEntry
      BY DEF ShellEntry
    <3>3. \A e \in ShellEntry : [e EXCEPT !.clipped = more] \in ShellEntry
      BY DEF ShellEntry
    <3> QED BY <1>0, <3>1, <3>2, <3>3
  <2>9. shell' \in [Terminals -> ShellEntry]
    BY <1>0, <2>7, <2>8
  <2> QED BY <2>7, <2>9 DEF TerminalTyped
<1>10. ASSUME NEW t \in Terminals, SendPoll(t) PROVE TerminalTyped'
  BY <1>10 DEF SendPoll, TerminalTyped
<1>11. ASSUME NEW t \in Terminals, TakeOutput(t) PROVE TerminalTyped'
  <2>1. shell[t].pending \in Seq(Nat) /\ <<>> \in Seq(Nat)
    BY <1>0, EmptySeq DEF ShellEntry
  <2>2. Output(shell[t].pending) \in PollAnswer /\ Gone \in PollAnswer
    BY <2>1 DEF Output, Gone, PollAnswer
  <2>3. [shell[t] EXCEPT !.pending = <<>>] \in ShellEntry
    BY <1>0, <2>1, ZenonT(30) DEF ShellEntry
  <2>4. shell' \in [Terminals -> ShellEntry]
    BY <1>0, <1>11, <2>3 DEF TakeOutput, TerminalTyped
  <2>5. asked' \in [Terminals -> Nat]
    <3>1. PICK n \in Nat : n = asked[t] - 1
      BY <1>0, <1>11 DEF TakeOutput
    <3> QED BY <1>11, <3>1 DEF TakeOutput, TerminalTyped
  <2>6. answers' \in [Terminals -> SUBSET PollAnswer]
    <3>1. PICK a \in PollAnswer : answers' = [answers EXCEPT ![t] = @ \cup {a}]
      BY <1>11, <2>2 DEF TakeOutput
    <3> QED BY <1>0, <3>1 DEF TerminalTyped
  <2> QED BY <1>11, <2>4, <2>5, <2>6 DEF TakeOutput, TerminalTyped
<1>12. ASSUME NEW t \in Terminals, HandleAnswer(t) PROVE TerminalTyped'
  <2>1. PICK a \in answers[t] :
          /\ answers' = [answers EXCEPT ![t] = @ \ {a}]
          /\ emitted' = emitted \/ emitted' = [emitted EXCEPT ![t] = @ \o a.chunks]
          /\ activeTerminals' \subseteq activeTerminals
          /\ UNCHANGED <<request, count, shell, spawned, asked>>
    BY <1>12 DEF HandleAnswer, Closed
  <2>2. emitted[t] \o a.chunks \in Seq(Nat)
    BY <1>0, ConcatProperties DEF PollAnswer
  <2>3. emitted' \in [Terminals -> Seq(Nat)] /\ answers' \in [Terminals -> SUBSET PollAnswer]
    BY <1>0, <2>1, <2>2 DEF TerminalTyped
  <2> QED BY <2>1, <2>3 DEF TerminalTyped
<1>13. ASSUME NEW t \in Terminals, FailPoll(t) PROVE TerminalTyped'
  <2>1. asked' \in [Terminals -> Nat] /\ answers' \in [Terminals -> SUBSET PollAnswer]
    <3>1. CASE asked[t] > 0 /\ asked' = [asked EXCEPT ![t] = @ - 1] /\ UNCHANGED answers
      <4>1. PICK n \in Nat : n = asked[t] - 1
        BY <1>0, <3>1
      <4> QED BY <3>1, <4>1 DEF TerminalTyped
    <3>2. CASE \E a \in answers[t] : answers' = [answers EXCEPT ![t] = @ \ {a}]
                                     /\ UNCHANGED asked
      BY <1>0, <3>2 DEF TerminalTyped
    <3> QED BY <1>13, <3>1, <3>2 DEF FailPoll
  <2>2. /\ activeTerminals' \subseteq activeTerminals
        /\ UNCHANGED <<request, count, shell, spawned, emitted>>
    BY <1>13 DEF FailPoll, Closed
  <2> QED BY <2>1, <2>2 DEF TerminalTyped
<1>14. ASSUME NEW t \in Terminals, GarblePoll(t) PROVE TerminalTyped'
  <2>1. answers' \in [Terminals -> SUBSET PollAnswer]
    BY <1>0, <1>14 DEF GarblePoll, TerminalTyped
  <2> QED BY <1>14, <2>1 DEF GarblePoll, TerminalTyped
<1> QED BY <1>1, <1>2, <1>3, <1>4, <1>5, <1>6, <1>7, <1>8, <1>9, <1>10, <1>11, <1>12,
           <1>13, <1>14 DEF TerminalNext, PollStep

\* A step moves the request of one slot, by the actions of that slot.
RequestStep(s) ==
    \/ \E room \in Rooms : OpenTerminal(s, room)
    \/ AdmitTerminal(s) \/ SpawnShell(s) \/ AddTerminal(s)
    \/ LoseTerminal(s) \/ FailTerminal(s)
    \/ \E t \in Terminals : BeginInput(s, t)
    \/ RelayInput(s) \/ WriteInput(s)

LEMMA OneRequestMoves ==
  ASSUME TerminalTyped, [TerminalNext]_terminalVars,
         NEW s \in Slots, request'[s] # request[s]
  PROVE  RequestStep(s)
<1>0. request' # request
  OBVIOUS
<1>1. PICK q \in Slots : RequestStep(q)
  <2>1. \A t \in Terminals :
          ~(CloseTerminal(t) \/ DeleteShell(t) \/ LoseDelete(t) \/ ExitShell(t)
            \/ WriteOutput(t) \/ PollStep(t) \/ FailPoll(t) \/ GarblePoll(t))
    BY <1>0 DEF CloseTerminal, Answer, DeleteShell, LoseDelete, ExitShell, WriteOutput,
                PollStep, SendPoll, TakeOutput, HandleAnswer, FailPoll, GarblePoll
  <2> QED BY <1>0, <2>1 DEF TerminalNext, terminalVars, RequestStep
<1>2. PICK r : request' = [request EXCEPT ![q] = r]
  BY <1>1 DEF RequestStep, OpenTerminal, AdmitTerminal, SpawnShell, AddTerminal,
              LoseTerminal, FailTerminal, BeginInput, RelayInput, WriteInput,
              Accept, Respond, GoTo, Hold
<1>3. s = q
  BY <1>0, <1>2 DEF TerminalTyped
<1> QED BY <1>1, <1>3

LEMMA ServersAreFinite ==
  /\ \A A \in SUBSET Terminals : IsFiniteSet(A) /\ Cardinality(A) \in Nat
  /\ \A Q \in SUBSET Slots : /\ IsFiniteSet(Q) /\ Cardinality(Q) \in Nat
                             /\ Cardinality(Q) <= Cardinality(Slots)
  /\ Cardinality(Slots) \in Nat
<1>1. IsFiniteSet(Terminals)
  BY FS_Interval, RequestAssumption DEF Terminals
<1>2. \A A \in SUBSET Terminals : IsFiniteSet(A) /\ Cardinality(A) \in Nat
  BY <1>1, FS_Subset, FS_CardinalityType
<1>3. \A Q \in SUBSET Slots : IsFiniteSet(Q) /\ Cardinality(Q) <= Cardinality(Slots)
  BY FS_Subset, SlotsAssumption
<1> QED BY <1>2, <1>3, FS_CardinalityType, SlotsAssumption

LEMMA WhereRequestsGo ==
  ASSUME TerminalTyped, NEW s \in Slots, RequestStep(s)
  PROVE  /\ At(s, "open", "spawned")' => SpawnShell(s)
         /\ At(s, "open", "admitted")' => AdmitTerminal(s) /\ Cardinality(Alive) < MaxSessions
         /\ At(s, "input", "posted")' => RelayInput(s)
         /\ At(s, "open", "spawned") => AddTerminal(s) \/ LoseTerminal(s)
<1>0. \A r : request' = [request EXCEPT ![s] = r] => request'[s] = r
  BY DEF TerminalTyped
<1>1. CASE request'[s] = Idle /\ ~At(s, "open", "spawned")
  BY <1>1 DEF At, Idle
<1>2. CASE AddTerminal(s) \/ LoseTerminal(s)
  BY <1>0, <1>2 DEF AddTerminal, LoseTerminal, Respond, At, Idle
<1>3. CASE \E room \in Rooms : OpenTerminal(s, room)
  <2>1. PICK room \in Rooms : OpenTerminal(s, room)
    BY <1>3
  <2>2. request[s] = Idle /\ (request'[s] = Idle \/
          request'[s] = [op |-> "open", pc |-> "posted", room |-> room])
    BY <1>0, <2>1 DEF OpenTerminal, Accept
  <2> QED BY <2>2 DEF At, Idle
<1>4. CASE AdmitTerminal(s)
  <2>1. At(s, "open", "posted") /\ request[s] \in Opening
    BY <1>4, TerminalRequests DEF AdmitTerminal
  <2>2. CASE Cardinality(Alive) >= MaxSessions
    BY <1>0, <1>1, <1>4, <2>1, <2>2 DEF AdmitTerminal, Respond, At
  <2>3. CASE ~(Cardinality(Alive) >= MaxSessions)
    <3>1. Cardinality(Alive) < MaxSessions
      BY <2>3, ServersAreFinite, TerminalAssumption DEF Alive
    <3>2. request'[s] = [request[s] EXCEPT !.pc = "admitted"]
      BY <1>0, <1>4, <2>3 DEF AdmitTerminal, GoTo
    <3>3. request'[s].op = "open" /\ request'[s].pc = "admitted"
      BY <2>1, <3>2 DEF Opening
    <3> QED BY <1>4, <2>1, <3>1, <3>3 DEF At
  <2> QED BY <2>2, <2>3
<1>5. CASE SpawnShell(s)
  <2>1. request'[s].op = "open" /\ request'[s].pc = "spawned" /\ At(s, "open", "admitted")
    BY <1>0, <1>5 DEF SpawnShell, Hold
  <2> QED BY <1>5, <2>1 DEF At
<1>6. CASE FailTerminal(s)
  BY <1>0, <1>6, <1>1 DEF FailTerminal, Respond, At
<1>7. CASE \E t \in Terminals : BeginInput(s, t)
  <2>1. request[s] = Idle /\ request'[s].op = "input" /\ request'[s].pc = "found"
    <3>1. PICK t \in Terminals : BeginInput(s, t)
      BY <1>7
    <3>2. PICK n : n = count + 1
      OBVIOUS
    <3>3. request[s] = Idle /\ request'[s] = [op |-> "input", pc |-> "found",
                                              id |-> t, input |-> n]
      BY <1>0, <3>1, <3>2 DEF BeginInput, Accept
    <3> QED BY <3>3
  <2> QED BY <2>1 DEF At, Idle
<1>8. CASE RelayInput(s)
  <2>1. request[s] \in Typing
    BY <1>8, TerminalRequests DEF RelayInput, At
  <2>2. \/ request'[s] = Idle \/ request'[s] = [request[s] EXCEPT !.pc = "posted"]
    BY <1>0, <1>8 DEF RelayInput, Respond, GoTo
  <2>3. request'[s] = Idle \/ request'[s].op = "input"
    BY <2>1, <2>2 DEF Typing
  <2>4. request[s].op = "input"
    BY <2>1 DEF Typing
  <2> QED BY <1>8, <2>3, <2>4 DEF At, Idle
<1>9. CASE WriteInput(s)
  <2>1. request'[s] = Idle /\ request[s].op = "input"
    BY <1>0, <1>9 DEF WriteInput, Respond, At
  <2> QED BY <1>1, <2>1 DEF At
<1> QED BY <1>2, <1>3, <1>4, <1>5, <1>6, <1>7, <1>8, <1>9 DEF RequestStep

LEMMA FreshStep ==
  ASSUME TerminalTyped, FreshHold, [TerminalNext]_terminalVars PROVE FreshHold'
<1>1. spawned' \in Nat /\ spawned' >= spawned
  <2>1. spawned' = spawned \/ spawned' = spawned + 1
    <3>1. ASSUME NEW s \in Slots, RequestStep(s)
          PROVE  spawned' = spawned \/ spawned' = spawned + 1
      BY <3>1 DEF RequestStep, OpenTerminal, AdmitTerminal, SpawnShell, AddTerminal,
                  LoseTerminal, FailTerminal, BeginInput, RelayInput, WriteInput,
                  terminalData
    <3>2. ASSUME NEW t \in Terminals,
                 \/ CloseTerminal(t) \/ DeleteShell(t) \/ LoseDelete(t) \/ ExitShell(t)
                 \/ WriteOutput(t) \/ PollStep(t) \/ FailPoll(t) \/ GarblePoll(t)
          PROVE  spawned' = spawned
      BY <3>2 DEF CloseTerminal, DeleteShell, LoseDelete, ExitShell, WriteOutput, PollStep,
                  SendPoll, TakeOutput, HandleAnswer, FailPoll, GarblePoll
    <3> QED BY <3>1, <3>2 DEF TerminalNext, RequestStep, terminalVars, terminalData
  <2> QED BY <2>1 DEF TerminalTyped
<1>2. ASSUME NEW s \in Slots, At(s, "open", "spawned")'
      PROVE  request'[s].id \in 1 .. spawned'
  <2>1. CASE request'[s] = request[s]
    BY <1>1, <1>2, <2>1 DEF FreshHold, At, TerminalTyped
  <2>2. CASE request'[s] # request[s]
    <3>1. SpawnShell(s)
      BY <1>2, <2>2, OneRequestMoves, WhereRequestsGo
    <3>2. request'[s].id = spawned + 1 /\ spawned' = spawned + 1
      BY <3>1 DEF SpawnShell, Hold, TerminalTyped
    <3> QED BY <3>2 DEF TerminalTyped
  <2> QED BY <2>1, <2>2
<1>3. ASSUME NEW t \in Terminals, t > spawned'
      PROVE  asked'[t] = 0 /\ answers'[t] = {} /\ emitted'[t] = <<>>
  <2>0. /\ t > spawned /\ t \notin activeTerminals
        /\ asked[t] = 0 /\ answers[t] = {} /\ emitted[t] = <<>>
        /\ asked \in [Terminals -> Nat] /\ DOMAIN answers = Terminals
        /\ DOMAIN emitted = Terminals
    BY <1>1, <1>3 DEF FreshHold, TerminalTyped, Terminals
  <2>1. CASE UNCHANGED <<asked, answers, emitted>>
    BY <2>0, <2>1
  <2>2. ASSUME NEW s \in Slots, AddTerminal(s)
        PROVE  asked'[t] = 0 /\ answers'[t] = {} /\ emitted'[t] = <<>>
    <3>1. request[s].id \in 1 .. spawned
      BY <2>2 DEF FreshHold, AddTerminal
    <3>2. request[s].id # t
      BY <2>0, <3>1 DEF TerminalTyped
    <3> QED BY <2>0, <2>2, <3>2 DEF AddTerminal
  <2>3. ASSUME NEW q \in Terminals,
               PollStep(q) \/ FailPoll(q) \/ GarblePoll(q)
        PROVE  asked'[t] = 0 /\ answers'[t] = {} /\ emitted'[t] = <<>>
    <3>1. t # q
      BY <2>0, <2>3 DEF PollStep, SendPoll, TakeOutput, HandleAnswer, FailPoll, GarblePoll
    <3> QED BY <2>0, <2>3, <3>1
            DEF PollStep, SendPoll, TakeOutput, HandleAnswer, FailPoll, GarblePoll
  <2> QED BY <2>1, <2>2, <2>3
          DEF TerminalNext, terminalVars, terminalData, OpenTerminal, AdmitTerminal,
              SpawnShell, LoseTerminal, FailTerminal, BeginInput, RelayInput, WriteInput,
              CloseTerminal, DeleteShell, LoseDelete, ExitShell, WriteOutput
<1> QED BY <1>2, <1>3 DEF FreshHold

\* A step of a terminal, and what it may do to shells and to the map.
TerminalStep(t) ==
    \/ CloseTerminal(t) \/ DeleteShell(t) \/ LoseDelete(t) \/ ExitShell(t)
    \/ WriteOutput(t) \/ PollStep(t) \/ FailPoll(t) \/ GarblePoll(t)

LEMMA ShellsGoOn ==
  ASSUME TerminalTyped, [TerminalNext]_terminalVars
  PROVE  /\ \A t \in Alive' : t \in Alive \/ \E s \in Slots : SpawnShell(s) /\ t = spawned + 1
         /\ failed \subseteq failed'
         /\ activeTerminals \subseteq activeTerminals' \cup deleting'
         /\ \A t \in deleting : t \in deleting' \/ t \notin Alive' \/ t \in failed'
<1>0. DOMAIN shell = Terminals
  BY DEF TerminalTyped
<1>1. CASE UNCHANGED terminalData
  BY <1>1 DEF terminalData, Alive
<1>2. ASSUME NEW s \in Slots, SpawnShell(s)
      PROVE  \A t \in Alive' : t \in Alive \/ t = spawned + 1
  BY <1>0, <1>2 DEF SpawnShell, Alive
<1>3. ASSUME NEW s \in Slots, RequestStep(s), ~SpawnShell(s), ~UNCHANGED terminalData
      PROVE  Alive' = Alive
  BY <1>3 DEF RequestStep, OpenTerminal, AdmitTerminal, AddTerminal, LoseTerminal,
              FailTerminal, BeginInput, RelayInput, WriteInput, Alive
<1>4. ASSUME NEW s \in Slots, RequestStep(s), ~UNCHANGED terminalData
      PROVE  /\ failed \subseteq failed' /\ activeTerminals \subseteq activeTerminals'
             /\ deleting' = deleting
  BY <1>4 DEF RequestStep, OpenTerminal, AdmitTerminal, SpawnShell, AddTerminal,
              LoseTerminal, FailTerminal, BeginInput, RelayInput, WriteInput
<1>5. ASSUME NEW t \in Terminals, TerminalStep(t) PROVE Alive' \subseteq Alive
  <2>1. CASE UNCHANGED shell
    BY <2>1 DEF Alive
  <2>2. CASE DeleteShell(t) \/ ExitShell(t)
    <3>1. shell' = [shell EXCEPT ![t].alive = FALSE] /\ shell[t] \in ShellEntry
      BY <2>2 DEF DeleteShell, ExitShell, TerminalTyped
    <3>2. \A q \in Terminals : shell'[q].alive => shell[q].alive
      BY <1>0, <3>1 DEF ShellEntry
    <3> QED BY <3>2 DEF Alive
  <2>3. CASE WriteOutput(t)
    <3>1. \A q \in Terminals : shell'[q].alive = shell[q].alive
      <4>1. PICK n, kept, more :
              shell' = [shell EXCEPT ![t] = [[[shell[t] EXCEPT !.produced = n]
                                              EXCEPT !.pending = kept]
                                              EXCEPT !.clipped = more]]
        BY <1>0, <2>3 DEF WriteOutput
      <4>2. shell[t] \in ShellEntry
        BY DEF TerminalTyped
      <4> QED BY <1>0, <4>1, <4>2 DEF ShellEntry
    <3> QED BY <3>1 DEF Alive
  <2>4. CASE shell' = [shell EXCEPT ![t].pending = <<>>]
    <3>1. \A q \in Terminals : shell'[q].alive = shell[q].alive
      BY <1>0, <2>4 DEF TerminalTyped, ShellEntry
    <3> QED BY <3>1 DEF Alive
  <2> QED BY <1>5, <2>1, <2>2, <2>3, <2>4
          DEF TerminalStep, CloseTerminal, LoseDelete, PollStep, SendPoll, TakeOutput,
              HandleAnswer, FailPoll, GarblePoll
<1>6. ASSUME NEW t \in Terminals, TerminalStep(t)
      PROVE  /\ failed \subseteq failed'
             /\ activeTerminals \subseteq activeTerminals' \cup deleting'
             /\ \A q \in deleting : q \in deleting' \/ q \notin Alive' \/ q \in failed'
  <2>1. CASE DeleteShell(t)
    <3>1. t \notin Alive'
      BY <1>0, <2>1 DEF DeleteShell, Alive
    <3> QED BY <2>1, <3>1 DEF DeleteShell
  <2>2. CASE ~DeleteShell(t)
    BY <1>6, <2>2 DEF TerminalStep, CloseTerminal, LoseDelete, ExitShell, WriteOutput,
          PollStep, SendPoll, TakeOutput, HandleAnswer, FailPoll, GarblePoll, Closed
  <2> QED BY <2>1, <2>2
<1>7. [TerminalNext]_terminalVars =>
        \/ UNCHANGED terminalData
        \/ \E s \in Slots : RequestStep(s)
        \/ \E t \in Terminals : TerminalStep(t)
  BY DEF TerminalNext, terminalVars, terminalData, RequestStep, TerminalStep
<1> QED BY <1>1, <1>2, <1>3, <1>4, <1>5, <1>6, <1>7

LEMMA ShellsStep ==
  ASSUME TerminalTyped, ShellsInv, [TerminalNext]_terminalVars PROVE ShellsInv'
<1>1. ASSUME NEW t \in Alive' \ failed'
      PROVE  t \in activeTerminals' \cup deleting' \/ Creating(t)'
  <2>1. CASE \E s \in Slots : SpawnShell(s) /\ t = spawned + 1
    <3>1. PICK s \in Slots : SpawnShell(s) /\ t = spawned + 1
      BY <2>1
    <3>2. request'[s].op = "open" /\ request'[s].pc = "spawned" /\ request'[s].id = t
      BY <3>1 DEF SpawnShell, Hold, TerminalTyped
    <3> QED BY <3>2 DEF Creating, At
  <2>2. CASE t \in Alive
    <3>1. t \notin failed
      BY ShellsGoOn
    <3>2. CASE t \in activeTerminals \cup deleting
      BY <3>2, ShellsGoOn
    <3>3. CASE Creating(t)
      <4>1. PICK s \in Slots : At(s, "open", "spawned") /\ request[s].id = t
        BY <3>3 DEF Creating
      <4>2. CASE request'[s] = request[s]
        BY <4>1, <4>2 DEF Creating, At
      <4>3. CASE request'[s] # request[s]
        <5>1. AddTerminal(s) \/ LoseTerminal(s)
          BY <4>1, <4>3, OneRequestMoves, WhereRequestsGo
        <5> QED BY <4>1, <5>1 DEF AddTerminal, LoseTerminal
      <4> QED BY <4>2, <4>3
    <3> QED BY <2>2, <3>1, <3>2, <3>3 DEF ShellsInv
  <2> QED BY <2>1, <2>2, ShellsGoOn
<1>2. Cardinality(Alive') + Cardinality(Admitted') <= MaxSessions + Cardinality(Slots) - 1
  <2>0. /\ Cardinality(Alive) \in Nat /\ Cardinality(Admitted) \in Nat
        /\ Cardinality(Alive') \in Nat /\ Cardinality(Admitted') \in Nat
        /\ Cardinality(Slots) \in Nat /\ MaxSessions \in Nat
        /\ Cardinality(Admitted') <= Cardinality(Slots)
        /\ Cardinality(Alive) + Cardinality(Admitted) <= MaxSessions + Cardinality(Slots) - 1
    BY ServersAreFinite, TerminalAssumption DEF Alive, Admitted, ShellsInv
  <2>1. CASE \E s \in Slots : SpawnShell(s)
    <3>1. PICK s \in Slots : SpawnShell(s)
      BY <2>1
    <3>2. Alive' \subseteq Alive \cup {spawned + 1}
      BY ShellsGoOn
    <3>3. Cardinality(Alive') <= Cardinality(Alive) + 1
      <4>1. IsFiniteSet(Alive)
        BY ServersAreFinite DEF Alive
      <4>2. /\ IsFiniteSet(Alive \cup {spawned + 1})
            /\ Cardinality(Alive \cup {spawned + 1}) <= Cardinality(Alive) + 1
        <5>1. PICK x : x = spawned + 1
          OBVIOUS
        <5>2. /\ IsFiniteSet(Alive \cup {x})
              /\ Cardinality(Alive \cup {x}) = IF x \in Alive THEN Cardinality(Alive)
                                              ELSE Cardinality(Alive) + 1
          BY <4>1, FS_AddElement
        <5> QED BY <2>0, <5>1, <5>2
      <4>3. Cardinality(Alive') <= Cardinality(Alive \cup {spawned + 1})
        BY <3>2, <4>2, FS_Subset
      <4>4. Cardinality(Alive \cup {spawned + 1}) \in Nat
        BY <4>2, FS_CardinalityType
      <4> QED BY <2>0, <4>2, <4>3, <4>4
    <3>4. s \in Admitted /\ Admitted' \subseteq Admitted \ {s}
      <4>1. s \in Admitted /\ request'[s].pc = "spawned"
        BY <3>1 DEF SpawnShell, Hold, Admitted, TerminalTyped
      <4>2. \A q \in Slots : q # s => request'[q] = request[q]
        BY <3>1 DEF SpawnShell, Hold, TerminalTyped
      <4> QED BY <4>1, <4>2 DEF Admitted, At
    <3>5. Cardinality(Admitted') <= Cardinality(Admitted) - 1
      <4>1. IsFiniteSet(Admitted)
        BY ServersAreFinite DEF Admitted
      <4>2. /\ IsFiniteSet(Admitted \ {s})
            /\ Cardinality(Admitted \ {s}) = Cardinality(Admitted) - 1
        BY <3>4, <4>1, FS_RemoveElement
      <4> QED BY <3>4, <4>2, FS_Subset
    <3> QED BY <2>0, <3>3, <3>5
  <2>2. CASE ~(\E s \in Slots : SpawnShell(s))
    <3>1. Alive' \subseteq Alive
      BY <2>2, ShellsGoOn
    <3>2. Cardinality(Alive') <= Cardinality(Alive)
      BY <3>1, ServersAreFinite, FS_Subset DEF Alive
    <3>3. CASE Admitted' \subseteq Admitted
      <4>1. Cardinality(Admitted') <= Cardinality(Admitted)
        BY <3>3, ServersAreFinite, FS_Subset DEF Admitted
      <4> QED BY <2>0, <3>2, <4>1
    <3>4. CASE ~(Admitted' \subseteq Admitted)
      <4>1. PICK s \in Slots : At(s, "open", "admitted")' /\ ~At(s, "open", "admitted")
        BY <3>4 DEF Admitted, At
      <4>2. request'[s] # request[s]
        BY <4>1 DEF At
      <4>3. Cardinality(Alive) < MaxSessions
        BY <4>1, <4>2, OneRequestMoves, WhereRequestsGo
      <4> QED BY <2>0, <3>2, <4>3
    <3> QED BY <3>3, <3>4
  <2> QED BY <2>1, <2>2
<1> QED BY <1>1, <1>2 DEF ShellsInv

\* Of shells none of whose calls failed each is in the map of the API server,
\* about to be added to it, or about to be killed (createTerminal,
\* closeTerminalSession), and requests that the runner admitted together
\* exceed its limit by at most their number less one, for any number of
\* requests, rooms and polls.
THEOREM ShellsStayAccounted == TerminalSpec => []ShellsAreAccounted
<1> DEFINE Inv == TerminalTyped /\ FreshHold /\ ShellsInv
<1>1. TerminalInit => Inv
  BY TerminalStarts
<1>2. Inv /\ [TerminalNext]_terminalVars => Inv'
  BY TerminalTypedStep, FreshStep, ShellsStep
<1>3. Inv => ShellsAreAccounted
  <2>1. /\ Cardinality(Alive) \in Nat /\ Cardinality(Admitted) \in Nat
        /\ Cardinality(Slots) \in Nat /\ MaxSessions \in Nat
    BY ServersAreFinite, TerminalAssumption DEF Alive, Admitted
  <2> QED BY <2>1 DEF ShellsInv, ShellsAreAccounted
<1> QED BY <1>1, <1>2, <1>3, PTL DEF TerminalSpec
-----------------------------------------------------------------------------
LEMMA ChunksOfConcat ==
  ASSUME NEW p \in Seq(Nat), NEW q \in Seq(Nat)
  PROVE  /\ p \o q \in Seq(Nat) /\ Chunks(p \o q) = Chunks(p) \cup Chunks(q)
         /\ Distinct(p) /\ Distinct(q) /\ Chunks(p) \cap Chunks(q) = {} => Distinct(p \o q)
<1> PICK c : c = p \o q
  OBVIOUS
<1>1. /\ c \in Seq(Nat) /\ Len(p) \in Nat /\ Len(q) \in Nat /\ Len(c) = Len(p) + Len(q)
      /\ DOMAIN c = 1 .. Len(p) + Len(q) /\ DOMAIN p = 1 .. Len(p) /\ DOMAIN q = 1 .. Len(q)
      /\ \A i \in 1 .. Len(p) + Len(q) :
           c[i] = IF i <= Len(p) THEN p[i] ELSE q[i - Len(p)]
  BY ConcatProperties, LenProperties
<1>2. Chunks(c) \subseteq Chunks(p) \cup Chunks(q)
  <2> SUFFICES ASSUME NEW i \in 1 .. Len(p) + Len(q)
               PROVE  c[i] \in Chunks(p) \cup Chunks(q)
    BY <1>1 DEF Chunks
  <2>1. CASE i <= Len(p)
    <3>1. i \in 1 .. Len(p)
      BY <1>1, <2>1
    <3> QED BY <1>1, <2>1, <3>1 DEF Chunks
  <2>2. CASE ~(i <= Len(p))
    <3>1. i - Len(p) \in 1 .. Len(q)
      BY <1>1, <2>2
    <3> QED BY <1>1, <2>2, <3>1 DEF Chunks
  <2> QED BY <2>1, <2>2
<1>3. Chunks(p) \subseteq Chunks(c)
  <2> SUFFICES ASSUME NEW i \in 1 .. Len(p) PROVE p[i] \in Chunks(c)
    BY <1>1 DEF Chunks
  <2>1. i \in 1 .. Len(p) + Len(q) /\ i <= Len(p)
    BY <1>1
  <2> QED BY <1>1, <2>1 DEF Chunks
<1>4. Chunks(q) \subseteq Chunks(c)
  <2> SUFFICES ASSUME NEW i \in 1 .. Len(q) PROVE q[i] \in Chunks(c)
    BY <1>1 DEF Chunks
  <2>1. PICK j : j = i + Len(p)
    OBVIOUS
  <2>2. j \in 1 .. Len(p) + Len(q) /\ ~(j <= Len(p)) /\ j - Len(p) = i
    BY <1>1, <2>1
  <2> QED BY <1>1, <2>2 DEF Chunks
<1>5. ASSUME Distinct(p), Distinct(q), Chunks(p) \cap Chunks(q) = {}
      PROVE  Distinct(c)
  <2> SUFFICES ASSUME NEW i \in 1 .. Len(p) + Len(q), NEW j \in 1 .. Len(p) + Len(q),
                      c[i] = c[j]
               PROVE  i = j
    BY <1>1 DEF Distinct
  <2>1. \A k \in 1 .. Len(p) + Len(q) :
          \/ k \in 1 .. Len(p) /\ c[k] = p[k] /\ c[k] \in Chunks(p)
          \/ k - Len(p) \in 1 .. Len(q) /\ c[k] = q[k - Len(p)] /\ c[k] \in Chunks(q)
    <3> SUFFICES ASSUME NEW k \in 1 .. Len(p) + Len(q)
                 PROVE  \/ k \in 1 .. Len(p) /\ c[k] = p[k] /\ c[k] \in Chunks(p)
                        \/ k - Len(p) \in 1 .. Len(q) /\ c[k] = q[k - Len(p)]
                           /\ c[k] \in Chunks(q)
      OBVIOUS
    <3>1. CASE k <= Len(p)
      <4>1. k \in 1 .. Len(p)
        BY <1>1, <3>1
      <4> QED BY <1>1, <3>1, <4>1 DEF Chunks
    <3>2. CASE ~(k <= Len(p))
      <4>1. k - Len(p) \in 1 .. Len(q)
        BY <1>1, <3>2
      <4> QED BY <1>1, <3>2, <4>1 DEF Chunks
    <3> QED BY <3>1, <3>2
  <2>2. CASE i \in 1 .. Len(p) /\ c[i] = p[i] /\ c[i] \in Chunks(p)
    <3>1. j \in 1 .. Len(p) /\ c[j] = p[j]
      BY <1>5, <2>1, <2>2
    <3> QED BY <1>1, <1>5, <2>2, <3>1 DEF Distinct
  <2>3. CASE i - Len(p) \in 1 .. Len(q) /\ c[i] = q[i - Len(p)] /\ c[i] \in Chunks(q)
    <3>1. j - Len(p) \in 1 .. Len(q) /\ c[j] = q[j - Len(p)]
      BY <1>5, <2>1, <2>3
    <3>2. i - Len(p) = j - Len(p)
      BY <1>1, <1>5, <2>3, <3>1 DEF Distinct
    <3> QED BY <1>1, <3>2
  <2> QED BY <2>1, <2>2, <2>3
<1> QED BY <1>1, <1>2, <1>3, <1>4, <1>5

\* A chunk that was not there is added at the end.
LEMMA ChunksOfAppend ==
  ASSUME NEW q \in Seq(Nat), NEW n \in Nat, Distinct(q), n \notin Chunks(q)
  PROVE  /\ Append(q, n) \in Seq(Nat) /\ Append(q, n) # <<>>
         /\ Chunks(Append(q, n)) = Chunks(q) \cup {n} /\ Distinct(Append(q, n))
<1> PICK c : c = Append(q, n)
  OBVIOUS
<1>1. /\ c \in Seq(Nat) /\ c # <<>> /\ Len(q) \in Nat /\ Len(c) = Len(q) + 1
      /\ DOMAIN c = 1 .. Len(q) + 1 /\ DOMAIN q = 1 .. Len(q)
      /\ \A i \in 1 .. Len(q) : c[i] = q[i]
      /\ c[Len(q) + 1] = n
  BY AppendProperties, LenProperties
<1>2. \A i \in 1 .. Len(q) + 1 : i \in 1 .. Len(q) \/ i = Len(q) + 1
  BY <1>1
<1>3. \A i \in 1 .. Len(q) : i \in 1 .. Len(q) + 1
  BY <1>1
<1>4. Len(q) + 1 \in 1 .. Len(q) + 1
  BY <1>1
<1>5. Chunks(c) = Chunks(q) \cup {n}
  BY <1>1, <1>2, <1>3, <1>4 DEF Chunks
<1>6. Distinct(c)
  <2> SUFFICES ASSUME NEW i \in 1 .. Len(q) + 1, NEW j \in 1 .. Len(q) + 1, c[i] = c[j]
               PROVE  i = j
    BY <1>1 DEF Distinct
  <2> QED BY <1>1, <1>2, SMTT(30) DEF Distinct, Chunks
<1> QED BY <1>1, <1>5, <1>6

\* What the runner drops for want of space is the oldest chunk.
LEMMA ChunksOfKept ==
  ASSUME NEW q \in Seq(Nat), q # <<>>, Distinct(q)
  PROVE  /\ Kept(q) \in Seq(Nat) /\ Distinct(Kept(q)) /\ Chunks(Kept(q)) \subseteq Chunks(q)
         /\ Head(q) \in Chunks(q)
         /\ Kept(q) # q => Chunks(q) \subseteq Chunks(Kept(q)) \cup {Head(q)}
<1>1. Len(q) \in Nat /\ DOMAIN q = 1 .. Len(q) /\ Len(q) >= 1 /\ Head(q) = q[1]
      /\ \A i \in 1 .. Len(q) : q[i] \in Nat
  BY LenProperties, EmptySeq, HeadTailProperties, ElementOfSeq
<1>0. Head(q) \in Chunks(q)
  <2>1. 1 \in DOMAIN q /\ Head(q) = q[1]
    BY <1>1
  <2> QED BY <2>1 DEF Chunks
<1>2. CASE ~(Len(q) > MaxPending)
  <2>1. Kept(q) = q
    BY <1>2, SubSeqFull DEF Kept
  <2> QED BY <1>0, <2>1
<1>3. CASE Len(q) > MaxPending
  <2>1. PICK c : c = SubSeq(q, 2, Len(q)) /\ c = Kept(q)
    BY <1>3 DEF Kept
  <2>2. Len(q) >= 2
    BY <1>1, <1>3, TerminalAssumption
  <2>3. c \in Seq(Nat) /\ Len(c) = Len(q) - 1 /\ \A i \in 1 .. Len(q) - 1 : c[i] = q[2 + i - 1]
    BY <1>1, <2>1, <2>2, SubSeqProperties
  <2>4. DOMAIN c = 1 .. Len(q) - 1 /\ \A i \in 1 .. Len(q) - 1 :
          c[i] = q[i + 1] /\ i + 1 \in 1 .. Len(q)
    BY <1>1, <2>3, LenProperties
  <2>5. Distinct(c)
    <3> SUFFICES ASSUME NEW i \in 1 .. Len(q) - 1, NEW j \in 1 .. Len(q) - 1, c[i] = c[j]
                 PROVE  i = j
      BY <2>4 DEF Distinct
    <3>0. /\ i + 1 \in DOMAIN q /\ j + 1 \in DOMAIN q
          /\ q[i + 1] = q[j + 1]
      BY <1>1, <2>4
    <3>1. i + 1 = j + 1
      BY <3>0 DEF Distinct
    <3> QED BY <1>1, <3>1
  <2>6. Chunks(c) \subseteq Chunks(q)
    <3> SUFFICES ASSUME NEW i \in 1 .. Len(q) - 1 PROVE c[i] \in Chunks(q)
      BY <2>4 DEF Chunks
    <3>1. i + 1 \in DOMAIN q /\ c[i] = q[i + 1]
      BY <1>1, <2>4
    <3> QED BY <3>1 DEF Chunks
  <2>7. Chunks(q) \subseteq Chunks(c) \cup {Head(q)}
    <3> SUFFICES ASSUME NEW i \in 1 .. Len(q), i # 1 PROVE q[i] \in Chunks(c)
      BY <1>1 DEF Chunks
    <3>1. i - 1 \in 1 .. Len(q) - 1 /\ (i - 1) + 1 = i
      BY <1>1
    <3> QED BY <2>4, <3>1 DEF Chunks
  <2> QED BY <1>0, <2>1, <2>3, <2>5, <2>6, <2>7
<1> QED BY <1>2, <1>3

\* Where nothing is repeated, there are as many chunks as positions.
LEMMA DistinctCounts ==
  ASSUME NEW q \in Seq(Nat), Distinct(q) PROVE Len(q) = Cardinality(Chunks(q))
<1>1. Len(q) \in Nat /\ q \in [1 .. Len(q) -> Nat] /\ DOMAIN q = 1 .. Len(q)
  BY LenProperties
<1>2. q \in [1 .. Len(q) -> Chunks(q)]
  <2>1. \A i \in 1 .. Len(q) : q[i] \in Chunks(q)
    BY <1>1 DEF Chunks
  <2> QED BY <1>1, <2>1
<1>3. q \in Bijection(1 .. Len(q), Chunks(q))
  <2>1. IsInjective(q)
    BY DEF IsInjective, Distinct
  <2>2. \A x \in Chunks(q) : \E i \in 1 .. Len(q) : q[i] = x
    BY <1>1 DEF Chunks
  <2> QED BY <1>2, <2>1, <2>2 DEF Bijection, Injection, Surjection
<1>4. ExistsBijection(1 .. Len(q), Chunks(q))
  BY <1>3 DEF ExistsBijection
<1>5. IsFiniteSet(1 .. Len(q)) /\ Cardinality(1 .. Len(q)) = Len(q)
  <2>1. PICK n \in Nat : n = Len(q)
    BY <1>1
  <2>2. IsFiniteSet(1 .. n) /\ Cardinality(1 .. n) = IF 1 > n THEN 0 ELSE n - 1 + 1
    BY FS_Interval
  <2> QED BY <2>1, <2>2
<1> QED BY <1>4, <1>5, FS_Bijection

LEMMA InputsStep ==
  ASSUME TerminalTyped, InputsHold, [TerminalNext]_terminalVars PROVE InputsHold'
<1>1. CASE UNCHANGED <<shownInput, typedInput, request>>
  BY <1>1 DEF InputsHold, At
<1>2. ASSUME NEW s \in Slots, RequestStep(s) PROVE InputsHold'
  <2>1. shownInput \subseteq shownInput'
    BY <1>2 DEF RequestStep, OpenTerminal, AdmitTerminal, SpawnShell, AddTerminal,
                LoseTerminal, FailTerminal, BeginInput, RelayInput, WriteInput, terminalData
  <2>2. typedInput' \subseteq shownInput'
    <3>1. CASE WriteInput(s)
      <4>1. request[s].input \in shownInput
        BY <3>1 DEF InputsHold, WriteInput
      <4> QED BY <2>1, <3>1, <4>1 DEF InputsHold, WriteInput
    <3>2. CASE ~WriteInput(s)
      <4>1. typedInput' = typedInput
        BY <1>2, <3>2 DEF RequestStep, OpenTerminal, AdmitTerminal, SpawnShell, AddTerminal,
                LoseTerminal, FailTerminal, BeginInput, RelayInput, terminalData
      <4> QED BY <2>1, <4>1 DEF InputsHold
    <3> QED BY <3>1, <3>2
  <2>3. ASSUME NEW q \in Slots, At(q, "input", "posted")'
        PROVE  request'[q].input \in shownInput'
    <3>1. CASE request'[q] = request[q]
      BY <2>1, <2>3, <3>1 DEF InputsHold, At
    <3>2. CASE request'[q] # request[q]
      <4>1. RelayInput(q)
        BY <2>3, <3>2, OneRequestMoves, WhereRequestsGo
      <4>2. request[q] \in Typing
        BY <4>1, TerminalRequests DEF RelayInput, At
      <4>3. request'[q] = Idle \/ request'[q] = [request[q] EXCEPT !.pc = "posted"]
        BY <4>1 DEF RelayInput, Respond, GoTo, TerminalTyped
      <4>4. request'[q].input = request[q].input
        BY <2>3, <4>2, <4>3 DEF Typing, At, Idle
      <4> QED BY <4>1, <4>4 DEF RelayInput
    <3> QED BY <3>1, <3>2
  <2> QED BY <2>2, <2>3 DEF InputsHold
<1>3. ASSUME NEW t \in Terminals, TerminalStep(t)
      PROVE  UNCHANGED <<shownInput, typedInput, request>>
  BY <1>3 DEF TerminalStep, CloseTerminal, Answer, DeleteShell, LoseDelete, ExitShell,
              WriteOutput, PollStep, SendPoll, TakeOutput, HandleAnswer, FailPoll,
              GarblePoll
<1> QED BY <1>1, <1>2, <1>3
        DEF TerminalNext, terminalVars, terminalData, RequestStep, TerminalStep

\* What a chunk's place depends on.
LEMMA SamePlaces ==
  ASSUME NEW t, ChunksHold(t), emitted'[t] = emitted[t], answers'[t] = answers[t],
         shell'[t].pending = shell[t].pending, shell'[t].produced = shell[t].produced,
         shell'[t].clipped = shell[t].clipped
  PROVE  ChunksHold(t)'
  BY DEF ChunksHold, InFlight

LEMMA WrittenChunk ==
  ASSUME TerminalTyped, NEW t \in Terminals, ChunksHold(t), WriteOutput(t)
  PROVE  ChunksHold(t)'
<1> DEFINE all == Append(shell[t].pending, shell[t].produced + 1)
<1>1. /\ shell[t] \in ShellEntry /\ DOMAIN shell = Terminals
      /\ shell[t].pending \in Seq(Nat) /\ shell[t].produced \in Nat
  BY DEF TerminalTyped, ShellEntry
<1>2. PICK n \in Nat : n = shell[t].produced + 1
  BY <1>1
<1>3. PICK old : old = shell[t].pending /\ old \in Seq(Nat)
  BY <1>1
<1>4. PICK new : new = Append(old, n)
  OBVIOUS
<1>5. n \notin Chunks(old) /\ n \notin Chunks(emitted[t]) /\ n \notin InFlight(t)
  BY <1>1, <1>2, <1>3 DEF ChunksHold
<1>6. /\ new \in Seq(Nat) /\ new # <<>> /\ Distinct(new) /\ Chunks(new) = Chunks(old) \cup {n}
  BY <1>3, <1>4, <1>5, ChunksOfAppend DEF ChunksHold
<1>7. PICK kept : kept = Kept(new)
  OBVIOUS
<1>8. /\ Distinct(kept) /\ Chunks(kept) \subseteq Chunks(new) /\ Head(new) \in Chunks(new)
      /\ kept # new => Chunks(new) \subseteq Chunks(kept) \cup {Head(new)}
  BY <1>6, <1>7, ChunksOfKept
<1>9. PICK more : more = IF kept = new THEN shell[t].clipped
                         ELSE shell[t].clipped \cup {Head(new)}
  OBVIOUS
<1>10. /\ shell'[t].produced = n /\ shell'[t].pending = kept /\ shell'[t].clipped = more
       /\ emitted' = emitted /\ answers' = answers
  <2>1. /\ shell' = [shell EXCEPT ![t] = [[[shell[t] EXCEPT !.produced = n]
                                           EXCEPT !.pending = kept]
                                           EXCEPT !.clipped = more]]
        /\ emitted' = emitted /\ answers' = answers
    BY <1>1, <1>2, <1>3, <1>4, <1>7, <1>9 DEF WriteOutput
  <2> QED BY <1>1, <2>1 DEF ShellEntry
<1>11. 1 .. n = (1 .. shell[t].produced) \cup {n}
  BY <1>1, <1>2
<1>12. /\ Chunks(emitted[t]) \cup Chunks(old) \cup InFlight(t) \cup shell[t].clipped
            = 1 .. shell[t].produced
       /\ Chunks(emitted[t]) \cap (Chunks(old) \cup InFlight(t)) = {}
       /\ Chunks(old) \cap InFlight(t) = {} /\ Distinct(emitted[t])
       /\ \A a \in answers[t] : Distinct(a.chunks)
       /\ \A a, b \in answers[t] : a # b => Chunks(a.chunks) \cap Chunks(b.chunks) = {}
  BY <1>3 DEF ChunksHold
<1>13. Chunks(kept) \cup more = Chunks(new) \cup shell[t].clipped
  BY <1>8, <1>9
<1>14. /\ Chunks(emitted[t]) \cup Chunks(kept) \cup InFlight(t) \cup more = 1 .. n
       /\ Chunks(emitted[t]) \cap (Chunks(kept) \cup InFlight(t)) = {}
       /\ Chunks(kept) \cap InFlight(t) = {}
  BY <1>5, <1>6, <1>8, <1>11, <1>12, <1>13
<1> QED BY <1>8, <1>10, <1>12, <1>14 DEF ChunksHold, InFlight

LEMMA TakenChunks ==
  ASSUME TerminalTyped, NEW t \in Alive, ChunksHold(t), TakeOutput(t)
  PROVE  ChunksHold(t)'
<1>1. /\ shell[t] \in ShellEntry /\ DOMAIN shell = Terminals /\ t \in Terminals
      /\ DOMAIN answers = Terminals
  BY DEF TerminalTyped, Alive
<1>2. PICK a : a = Output(shell[t].pending)
  OBVIOUS
<1>3. a.chunks = shell[t].pending
  BY <1>2 DEF Output
<1>4. /\ answers' = [answers EXCEPT ![t] = @ \cup {a}]
      /\ shell' = [shell EXCEPT ![t].pending = <<>>] /\ emitted' = emitted
  BY <1>2 DEF TakeOutput, Alive
<1>5. /\ shell'[t].pending = <<>> /\ shell'[t].produced = shell[t].produced
      /\ shell'[t].clipped = shell[t].clipped /\ answers'[t] = answers[t] \cup {a}
  BY <1>1, <1>4 DEF ShellEntry
<1>6. Chunks(<<>>) = {} /\ Distinct(<<>>)
  BY DEF Chunks, Distinct
<1>7. InFlight(t)' = InFlight(t) \cup Chunks(shell[t].pending)
  BY <1>3, <1>5 DEF InFlight
<1>8. \A b \in answers[t] : Chunks(b.chunks) \subseteq InFlight(t)
  BY DEF InFlight
<1>9. /\ \A x \in answers'[t] : Distinct(x.chunks)
      /\ \A x, y \in answers'[t] : x # y => Chunks(x.chunks) \cap Chunks(y.chunks) = {}
  BY <1>3, <1>5, <1>8 DEF ChunksHold
<1> QED BY <1>4, <1>5, <1>6, <1>7, <1>9 DEF ChunksHold

LEMMA HandledChunks ==
  ASSUME TerminalTyped, NEW t \in Terminals, ChunksHold(t), HandleAnswer(t)
  PROVE  ChunksHold(t)'
<1>1. PICK a \in answers[t] :
        /\ answers' = [answers EXCEPT ![t] = @ \ {a}]
        /\ IF a.gone THEN emitted' = emitted
           ELSE emitted' = [emitted EXCEPT ![t] = @ \o a.chunks]
        /\ shell' = shell
  BY DEF HandleAnswer
<1>2. /\ a \in PollAnswer /\ emitted[t] \in Seq(Nat) /\ answers'[t] = answers[t] \ {a}
      /\ DOMAIN emitted = Terminals
  BY <1>1 DEF TerminalTyped
<1>3. a.chunks \in Seq(Nat) /\ (a.gone => a.chunks = <<>>)
  BY <1>2 DEF PollAnswer
<1>4. InFlight(t)' = InFlight(t) \ Chunks(a.chunks) /\ Chunks(a.chunks) \subseteq InFlight(t)
  <2>1. InFlight(t)' = UNION {Chunks(b.chunks) : b \in answers[t] \ {a}}
    BY <1>2 DEF InFlight
  <2>2. \A b \in answers[t] \ {a} : Chunks(b.chunks) \cap Chunks(a.chunks) = {}
    BY <1>1 DEF ChunksHold
  <2>3. /\ \A x \in InFlight(t) : \E b \in answers[t] : x \in Chunks(b.chunks)
        /\ \A b \in answers[t] : Chunks(b.chunks) \subseteq InFlight(t)
    BY DEF InFlight
  <2>4. /\ \A x \in InFlight(t)' : \E b \in answers[t] \ {a} : x \in Chunks(b.chunks)
        /\ \A b \in answers[t] \ {a} : Chunks(b.chunks) \subseteq InFlight(t)'
    BY <2>1
  <2>5. InFlight(t)' \subseteq InFlight(t) \ Chunks(a.chunks)
    BY <2>2, <2>3, <2>4
  <2>6. InFlight(t) \ Chunks(a.chunks) \subseteq InFlight(t)'
    BY <2>3, <2>4
  <2> QED BY <1>1, <2>3, <2>5, <2>6
<1>5. /\ Chunks(emitted'[t]) = Chunks(emitted[t]) \cup Chunks(a.chunks)
      /\ Distinct(emitted'[t])
  <2>1. CASE a.gone
    <3>1. Chunks(a.chunks) = {} /\ emitted'[t] = emitted[t]
      BY <1>1, <1>3, <2>1 DEF Chunks
    <3> QED BY <3>1 DEF ChunksHold
  <2>2. CASE ~a.gone
    <3>1. emitted'[t] = emitted[t] \o a.chunks
      BY <1>1, <1>2, <2>2
    <3>2. Chunks(emitted[t]) \cap Chunks(a.chunks) = {}
      BY <1>4 DEF ChunksHold
    <3> QED BY <1>1, <1>2, <1>3, <3>1, <3>2, ChunksOfConcat DEF ChunksHold
  <2> QED BY <2>1, <2>2
<1>6. /\ \A x \in answers'[t] : Distinct(x.chunks)
      /\ \A x, y \in answers'[t] : x # y => Chunks(x.chunks) \cap Chunks(y.chunks) = {}
  BY <1>2 DEF ChunksHold
<1> QED BY <1>1, <1>4, <1>5, <1>6 DEF ChunksHold

LEMMA OutputStep ==
  ASSUME TerminalTyped, FreshHold, OutputInv, [TerminalNext]_terminalVars
  PROVE  OutputInv'
<1>0. DOMAIN shell = Terminals /\ DOMAIN answers = Terminals /\ DOMAIN emitted = Terminals
      /\ \A t \in Terminals : shell[t] \in ShellEntry
  BY DEF TerminalTyped
<1>1. ASSUME NEW t \in Alive' \ failed', NEW s \in Slots, SpawnShell(s), t = spawned + 1
      PROVE  ChunksHold(t)'
  <2>1. t \in Terminals /\ t > spawned
    BY <1>1 DEF Alive, TerminalTyped
  <2>2. emitted'[t] = <<>> /\ answers'[t] = {}
    BY <1>1, <2>1 DEF FreshHold, SpawnShell
  <2>3. shell'[t].pending = <<>> /\ shell'[t].produced = 0 /\ shell'[t].clipped = {}
    BY <1>0, <1>1, <2>1 DEF SpawnShell, NoShell
  <2>4. Chunks(<<>>) = {} /\ Distinct(<<>>) /\ InFlight(t)' = {} /\ 1 .. 0 = {}
    BY <2>2 DEF Chunks, Distinct, InFlight
  <2> QED BY <2>2, <2>3, <2>4 DEF ChunksHold
<1>2. ASSUME NEW t \in Alive' \ failed', t \in Alive,
             ~\E s \in Slots : SpawnShell(s) /\ t = spawned + 1
      PROVE  ChunksHold(t)'
  <2>0. t \in Terminals /\ t \notin failed /\ ChunksHold(t)
    BY <1>2, ShellsGoOn DEF OutputInv, Alive
  <2>1. CASE shell'[t] = shell[t] /\ answers'[t] = answers[t] /\ emitted'[t] = emitted[t]
    BY <2>0, <2>1, SamePlaces
  <2>2. ASSUME NEW s \in Slots, RequestStep(s)
        PROVE  shell'[t] = shell[t] /\ answers'[t] = answers[t] /\ emitted'[t] = emitted[t]
    <3>1. UNCHANGED <<answers, emitted>>
      BY <2>2 DEF RequestStep, OpenTerminal, AdmitTerminal, SpawnShell, AddTerminal,
                  LoseTerminal, FailTerminal, BeginInput, RelayInput, WriteInput, terminalData
    <3>2. CASE SpawnShell(s)
      <4>1. t # spawned + 1
        BY <1>2, <3>2
      <4> QED BY <1>0, <3>1, <3>2, <4>1 DEF SpawnShell
    <3>3. CASE ~SpawnShell(s)
      <4>1. shell' = shell
        BY <2>2, <3>3 DEF RequestStep, OpenTerminal, AdmitTerminal, AddTerminal,
                  LoseTerminal, FailTerminal, BeginInput, RelayInput, WriteInput, terminalData
      <4> QED BY <3>1, <4>1
    <3> QED BY <3>2, <3>3
  <2>3. ASSUME NEW q \in Terminals, TerminalStep(q), q # t
        PROVE  shell'[t] = shell[t] /\ answers'[t] = answers[t] /\ emitted'[t] = emitted[t]
    <3>1. \E e : shell' = [shell EXCEPT ![q] = e]
      <4>1. CASE shell' = shell
        <5>1. shell' = [shell EXCEPT ![q] = shell[q]]
          BY <4>1 DEF TerminalTyped
        <5> QED BY <5>1
      <4>2. CASE shell' # shell
        BY <2>3, <4>2 DEF TerminalStep, CloseTerminal, DeleteShell, LoseDelete, ExitShell,
           WriteOutput, PollStep, SendPoll, TakeOutput, HandleAnswer, FailPoll, GarblePoll
      <4> QED BY <4>1, <4>2
    <3>2. /\ answers' = answers \/ \E e : answers' = [answers EXCEPT ![q] = e]
          /\ emitted' = emitted \/ \E e : emitted' = [emitted EXCEPT ![q] = e]
      BY <2>3 DEF TerminalStep, CloseTerminal, DeleteShell, LoseDelete, ExitShell,
         WriteOutput, PollStep, SendPoll, TakeOutput, HandleAnswer, FailPoll, GarblePoll
    <3> QED BY <1>0, <2>0, <2>3, <3>1, <3>2
  <2>4. CASE WriteOutput(t)
    BY <2>0, <2>4, WrittenChunk
  <2>5. CASE TakeOutput(t)
    BY <1>2, <2>0, <2>5, TakenChunks
  <2>6. CASE HandleAnswer(t)
    BY <2>0, <2>6, HandledChunks
  <2>7. ~(LoseDelete(t) \/ FailPoll(t) \/ GarblePoll(t) \/ DeleteShell(t) \/ ExitShell(t))
    <3>1. ~(LoseDelete(t) \/ FailPoll(t) \/ GarblePoll(t))
      BY <1>2 DEF LoseDelete, FailPoll, GarblePoll
    <3>2. ~(DeleteShell(t) \/ ExitShell(t))
      BY <1>0, <1>2, <2>0 DEF DeleteShell, ExitShell, Alive, ShellEntry
    <3> QED BY <3>1, <3>2
  <2>8. CASE CloseTerminal(t) \/ SendPoll(t)
    BY <2>1, <2>8 DEF CloseTerminal, SendPoll
  <2>9. CASE UNCHANGED terminalVars
    BY <2>1, <2>9 DEF terminalVars, terminalData
  <2> QED BY <2>0, <2>1, <2>2, <2>3, <2>4, <2>5, <2>6, <2>7, <2>8, <2>9
          DEF TerminalNext, RequestStep, TerminalStep, PollStep
<1> QED BY <1>1, <1>2, InputsStep, ShellsGoOn DEF OutputInv

\* The other participants see an input before the shell receives it, and of a
\* shell that is alive and none of whose calls failed every chunk of output is
\* waiting in the runner, on its way in one answer, or was sent to the room
\* once, unless it was dropped for want of space: the polls of a terminal
\* (startOutputPolling) may overlap and their answers come in any order.
THEOREM RoomKeepsSeeing == TerminalSpec => []RoomSeesTerminal
<1> DEFINE Inv == TerminalTyped /\ FreshHold /\ OutputInv
<1>1. TerminalInit => Inv
  BY TerminalStarts
<1>2. Inv /\ [TerminalNext]_terminalVars => Inv'
  BY TerminalTypedStep, FreshStep, OutputStep
<1>3. Inv => RoomSeesTerminal
  <2> SUFFICES ASSUME Inv PROVE RoomSeesTerminal
    OBVIOUS
  <2>1. ASSUME NEW t \in Alive \ failed
        PROVE  /\ ChunksHold(t)
               /\ Len(emitted[t]) = Cardinality(Chunks(emitted[t]))
    <3>1. ChunksHold(t) /\ emitted[t] \in Seq(Nat)
      BY DEF OutputInv, TerminalTyped, Alive
    <3> QED BY <3>1, DistinctCounts DEF ChunksHold
  <2> QED BY <2>1 DEF OutputInv, InputsHold, ChunksHold, RoomSeesTerminal
<1> QED BY <1>1, <1>2, <1>3, PTL DEF TerminalSpec
=============================================================================
