---------------------------- MODULE InterviewSignals ----------------------------
(***************************************************************************)
(* The signals of an interview.  A client posts what it sees of the work - *)
(* code, an execution, what was said, the whiteboard, the window's focus - *)
(* and the server derives named signals from it (signalExtractor.js), adds *)
(* them to those of the session (signals.controller.js), and rates the     *)
(* candidate by the names that are there (rubricScorer.js).  Signals are   *)
(* never removed.  Points are in tenths.                                   *)
(***************************************************************************)
EXTENDS Requests, Integers

CONSTANTS
    Observations  \* what a client posts

ASSUME SignalAssumption ==
    \A o \in Observations :
      o.depth \in Nat /\ o.passed <= o.total /\ o.own + o.others \in Nat

VARIABLES
    signals,      \* the names of the InterviewSignal records
    evaluation    \* what was read for the last evaluation, and its result

signalData == <<signals, evaluation>>
signalVars == <<signalData, request, count>>
-----------------------------------------------------------------------------
Empty == "empty_workspace"
When(condition, name) == IF condition THEN {name} ELSE {}

\* The depth of nested loops.
ComplexitySignals(o) ==
    When(o.depth >= 3, "high_time_complexity_warning")
      \cup When(o.depth = 2, "quadratic_time_complexity")
      \cup When(o.depth = 1, "linear_time_complexity")

\* extractCodeSignals: what is left without strings and comments is searched
\* for data structures and algorithms, and its loops are counted.
CodeSignals(o) ==
    IF o.blank THEN {Empty} ELSE o.patterns \cup ComplexitySignals(o)

ExecutionSignals(o) ==
    When(o.compileError, "compilation_syntax_error")
      \cup When(o.timedOut, "runtime_execution_timeout")
      \cup When(o.total > 0 /\ o.passed = o.total, "test_suite_all_passed")
      \cup When(o.passed < o.total /\ 2 * o.passed >= o.total,
                "test_suite_partial_pass")
      \cup When(2 * o.passed < o.total, "test_suite_failures")

\* The candidate speaks between 45 % and 85 % of more than 50 words.
SpeechSignals(o) ==
    LET words == o.own + o.others
    IN  When(o.clarifications > 0, "clarifying_questions_inquiry")
          \cup When(o.terminology > 0, "technical_terminology_fluency")
          \cup When(/\ words > 50
                    /\ 100 * o.own >= 45 * words /\ 100 * o.own <= 85 * words,
                    "balanced_dialogue_cadence")

WhiteboardSignals(o) ==
    When(o.boxes >= 3 /\ o.arrows >= 2, "structured_architecture_diagram")

AttentionSignals(o) == When(o.blurs > 5, "frequent_window_context_switch")

ExtractAllSignals(o) ==
    CodeSignals(o) \cup ExecutionSignals(o) \cup SpeechSignals(o)
      \cup WhiteboardSignals(o) \cup AttentionSignals(o)

Positive ==
    {"data_structure_hash_map", "data_structure_set",
     "data_structure_heap_queue", "algorithmic_dynamic_programming",
     "algorithmic_binary_search", "algorithmic_two_pointers",
     "linear_time_complexity", "test_suite_all_passed",
     "clarifying_questions_inquiry", "technical_terminology_fluency",
     "balanced_dialogue_cadence", "structured_architecture_diagram"}
-----------------------------------------------------------------------------
For(sig, names, points) == IF sig \cap names # {} THEN points ELSE 0

\* A test suite that passed counts in full, whatever failed before it.
PassPoints(sig) ==
    IF "test_suite_all_passed" \in sig THEN 10
    ELSE For(sig, {"test_suite_partial_pass"}, 3)

\* Mutant: whatever is said of the complexity counts as a warning.
ComplexityPenaltyAny(sig) ==
    For(sig, {"high_time_complexity_warning", "linear_time_complexity"}, 10)

ComplexityPenalty(sig) == For(sig, {"high_time_complexity_warning"}, 10)

\* An empty workspace costs the two coding pillars two levels.
Penalty(sig) == For(sig, {Empty}, 2)

\* Math.round, and a level between 1 and 5.
Level(points) ==
    LET n == (points + 5) \div 10
    IN  IF n < 1 THEN 1 ELSE IF n > 5 THEN 5 ELSE n

Lowered(level, penalty) == IF level - penalty < 1 THEN 1 ELSE level - penalty

ProblemSolving(sig) ==
    Lowered(Level(30 + For(sig, {"clarifying_questions_inquiry"}, 10)
                     + PassPoints(sig)
                     - For(sig, {"runtime_execution_timeout"}, 10)),
            Penalty(sig))

CodingAlgorithms(sig) ==
    Lowered(Level(
      30 + For(sig, {"data_structure_hash_map", "data_structure_set"}, 5)
         + For(sig, {"data_structure_heap_queue",
                     "algorithmic_dynamic_programming",
                     "algorithmic_binary_search",
                     "algorithmic_two_pointers"}, 10)
         + For(sig, {"test_suite_all_passed"}, 5)
         - ComplexityPenalty(sig)
         - For(sig, {"compilation_syntax_error"}, 5)), Penalty(sig))

SystemDesign(sig) ==
    Level(30 + For(sig, {"structured_architecture_diagram"}, 15)
             + For(sig, {"technical_terminology_fluency"}, 5))

Communication(sig) ==
    Level(30 + For(sig, {"balanced_dialogue_cadence"}, 8)
             + For(sig, {"technical_terminology_fluency"}, 6)
             + For(sig, {"clarifying_questions_inquiry"}, 6))

Pillars(sig) ==
    <<ProblemSolving(sig), CodingAlgorithms(sig), SystemDesign(sig),
      Communication(sig)>>

\* The average of the pillars as a percentage; nothing but an empty workspace
\* is worth 25 at most.
OverallScore(sig) ==
    LET p == Pillars(sig)
        score == 5 * (p[1] + p[2] + p[3] + p[4])
    IN  IF sig = {Empty} /\ score > 25 THEN 25 ELSE score

Competent(sig) == \A i \in 1 .. 4 : Pillars(sig)[i] >= 3

Decision(sig) ==
    LET score == OverallScore(sig)
    IN  CASE score >= 85 /\ Competent(sig) -> "STRONG_HIRE"
          [] score >= 70 /\ score < 85 /\ Competent(sig) -> "HIRE"
          [] score >= 55 /\ (score < 70 \/ ~Competent(sig)) -> "LEAN_HIRE"
          [] score >= 40 /\ score < 55 -> "LEAN_REJECT"
          [] OTHER -> "REJECT"

Rank(decision) ==
    CHOOSE i \in 1 .. 5 : decision = <<"REJECT", "LEAN_REJECT", "LEAN_HIRE",
                                       "HIRE", "STRONG_HIRE">>[i]
-----------------------------------------------------------------------------
NoEvaluation == [signals |-> {}, score |-> 0, decision |-> None]

SignalsInit ==
    /\ signals = {}
    /\ evaluation = NoEvaluation
    /\ NoRequests

\* extractSignals of a participant, once the session has been found.
BeginExtract(s, o) ==
    /\ Accept(s, [op |-> "extract", pc |-> "found",
                  names |-> ExtractAllSignals(o)])
    /\ UNCHANGED signalData

\* A client that does not want them kept only gets the answer.
ExtractOnly == Answer /\ UNCHANGED signalData

InsertSignals(s) ==
    /\ At(s, "extract", "found")
    /\ Respond(s)
    /\ signals' = signals \cup request[s].names
    /\ UNCHANGED evaluation

\* insertMany is not ordered: when it fails, any of them may have been added,
\* and the client, which is told of an error, posts them again.
FailInsert(s) ==
    /\ At(s, "extract", "found")
    /\ Respond(s)
    /\ \E part \in SUBSET request[s].names : signals' = signals \cup part
    /\ UNCHANGED evaluation

BeginEvaluation(s) ==
    /\ Accept(s, [op |-> "evaluate", pc |-> "found"])
    /\ UNCHANGED signalData

\* evaluateSessionSignals reads the signals last, and scores what it read.
Evaluate(s) ==
    /\ At(s, "evaluate", "found")
    /\ Respond(s)
    /\ evaluation' = [signals |-> signals, score |-> OverallScore(signals),
                      decision |-> Decision(signals)]
    /\ UNCHANGED signals

FailEvaluation(s) ==
    /\ At(s, "evaluate", "found")
    /\ Respond(s)
    /\ UNCHANGED signalData

SignalsNext ==
    \/ \E s \in Slots :
         \/ \E o \in Observations : BeginExtract(s, o)
         \/ InsertSignals(s) \/ FailInsert(s)
         \/ BeginEvaluation(s) \/ Evaluate(s) \/ FailEvaluation(s)
    \/ ExtractOnly

SignalsSpec == SignalsInit /\ [][SignalsNext]_signalVars
-----------------------------------------------------------------------------
\* The rating follows the evidence: positive signals that come in between two
\* evaluations, in whatever order and whatever was noted before them, neither
\* lower the score nor worsen the recommended decision.
PositiveSignalsNeverHurt ==
    [][LET before == evaluation
           after == evaluation'
       IN  before.decision # None
             /\ after.signals \ before.signals \subseteq Positive
           => /\ after.score >= before.score
              /\ Rank(after.decision) >= Rank(before.decision)]_signalVars
=============================================================================
