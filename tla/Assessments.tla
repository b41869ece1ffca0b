----------------------------- MODULE Assessments -----------------------------
(***************************************************************************)
(* What the interviewers say about one interview: an evaluation of each    *)
(* evaluator (evaluation.controller.js), and one scorecard of the lead     *)
(* interviewer (evaluateInterview in interview.controller.js).  Both are   *)
(* written by the first request and updated by later ones, and the unique  *)
(* indexes decide which of two first requests is the first.                *)
(***************************************************************************)
EXTENDS Requests

CONSTANTS
    Evaluators,   \* the recruiter and the additional interviewers
    Lead          \* the recruiter

ASSUME AssessmentAssumption == Lead \in Evaluators /\ "scorecard" \notin Evaluators

VARIABLES
    evaluation,   \* per evaluator: the evaluation stored under its name
    scorecard,    \* the scorecard
    completed,    \* the session's status is COMPLETED
    answered,     \* history: the writes that were answered as successful
    outdated      \* history: those that another one, begun later, replaced

records == <<evaluation, scorecard, completed>>
assessmentVars == <<records, answered, outdated, request, count>>
-----------------------------------------------------------------------------
\* A write is known by its number, and the rating by the write that set it.
Nothing == [by |-> None, rating |-> 0]

Card == "scorecard"
Keys == Evaluators \cup {Card}

AssessmentsInit ==
    /\ evaluation = [e \in Evaluators |-> Nothing]
    /\ scorecard = Nothing
    /\ completed = FALSE
    /\ answered = [k \in Keys |-> {}]
    /\ outdated = [k \in Keys |-> {}]
    /\ NoRequests

\* before: the writes of the same record that were answered by now.
Write(op, e, key) ==
    [op |-> op, pc |-> "authorized", by |-> e, number |-> count + 1,
     before |-> answered[key], completed |-> completed, found |-> Nothing]

Finish(s, key) ==
    /\ answered' = [answered EXCEPT ![key] = @ \cup {request[s].number}]
    /\ outdated' = [outdated EXCEPT ![key] = @ \cup request[s].before]

\* createEvaluation and createCompetencyEvaluation, up to the last look at the
\* evidence: authorizeRecruiter has loaded the session.
BeginEvaluate(s, e) ==
    /\ Accept(s, Write("evaluate", e, e))
    /\ UNCHANGED <<records, answered, outdated>>

\* Mutant: the filter is the session, not the session and the evaluator.
FilterAnyone(e) ==
    IF \E x \in Evaluators : evaluation[x] # Nothing
    THEN CHOOSE x \in Evaluators : evaluation[x] # Nothing ELSE e

\* The evaluation that {session, evaluator} finds, or would insert.
Filter(e) == e

WrittenBy(s) == [by |-> request[s].by, rating |-> request[s].number]

StoreEvaluation(s) ==
    /\ GoTo(s, "stored")
    /\ evaluation' = [evaluation EXCEPT ![Filter(request[s].by)] = WrittenBy(s)]
    /\ UNCHANGED <<scorecard, completed, answered, outdated>>

\* findOneAndUpdate with upsert: what is there is updated, ...
UpsertFound(s) ==
    /\ At(s, "evaluate", "authorized")
    /\ evaluation[Filter(request[s].by)] # Nothing
    /\ StoreEvaluation(s)

\* ... and what is not there is inserted, after the lookup.
UpsertMissed(s) ==
    /\ At(s, "evaluate", "authorized")
    /\ evaluation[Filter(request[s].by)] = Nothing
    /\ GoTo(s, "inserting")
    /\ UNCHANGED <<records, answered, outdated>>

UpsertInserts(s) ==
    /\ At(s, "evaluate", "inserting")
    /\ evaluation[Filter(request[s].by)] = Nothing
    /\ StoreEvaluation(s)

\* Another request inserted it first: 11000, and an update without upsert.
UpsertLoses(s) ==
    /\ At(s, "evaluate", "inserting")
    /\ evaluation[Filter(request[s].by)] # Nothing
    /\ GoTo(s, "retrying")
    /\ UNCHANGED <<records, answered, outdated>>

Retry(s) ==
    /\ At(s, "evaluate", "retrying")
    /\ evaluation[Filter(request[s].by)] # Nothing
    /\ StoreEvaluation(s)

\* The session is completed unless it was when it was loaded.
CompleteEvaluate(s) ==
    /\ At(s, "evaluate", "stored")
    /\ Respond(s)
    /\ completed' = (completed \/ ~request[s].completed)
    /\ Finish(s, request[s].by)
    /\ UNCHANGED <<evaluation, scorecard>>

\* updateEvaluation of one's own evaluation, with a body that names the rating.
UpdateEvaluation(e) ==
    /\ Answer
    /\ evaluation[e] # Nothing
    /\ evaluation' = [evaluation EXCEPT ![e].rating = count + 1]
    /\ answered' = [answered EXCEPT ![e] = @ \cup {count + 1}]
    /\ outdated' = [outdated EXCEPT ![e] = @ \cup answered[e]]
    /\ UNCHANGED <<scorecard, completed>>

\* evaluateInterview, by the lead, while the assessment is generated.
BeginScore(s) ==
    /\ Accept(s, Write("score", Lead, Card))
    /\ UNCHANGED <<records, answered, outdated>>

FindCard(s) ==
    /\ At(s, "score", "authorized")
    /\ Hold(s, [request[s] EXCEPT !.pc = "found", !.found = scorecard])
    /\ UNCHANGED <<records, answered, outdated>>

\* The unique index on session refuses a second scorecard.
Collides(found) == found = Nothing /\ scorecard # Nothing

\* A new card, or the new assessment in the one that was found.
SaveCard(s) ==
    LET q == request[s]
    IN  /\ At(s, "score", "found")
        /\ ~Collides(q.found)
        /\ GoTo(s, "stored")
        /\ scorecard' = IF q.found = Nothing THEN WrittenBy(s)
                        ELSE [scorecard EXCEPT !.rating = q.number]
        /\ UNCHANGED <<evaluation, completed, answered, outdated>>

CompleteScore(s) ==
    /\ At(s, "score", "stored")
    /\ Respond(s)
    /\ completed' = (completed \/ ~request[s].completed)
    /\ Finish(s, Card)
    /\ UNCHANGED <<evaluation, scorecard>>

\* 400 or 500: refused evidence, a card that collides, a call that fails.  What
\* was stored stays, and the session is not completed.
FailAssessment(s) ==
    /\ request[s].op \in {"evaluate", "score"}
    /\ Respond(s)
    /\ UNCHANGED <<records, answered, outdated>>

AssessmentsNext ==
    \/ \E s \in Slots :
         \/ \E e \in Evaluators : BeginEvaluate(s, e)
         \/ UpsertFound(s) \/ UpsertMissed(s) \/ UpsertInserts(s)
         \/ UpsertLoses(s) \/ Retry(s) \/ CompleteEvaluate(s)
         \/ BeginScore(s) \/ FindCard(s) \/ SaveCard(s) \/ CompleteScore(s)
         \/ FailAssessment(s)
    \/ \E e \in Evaluators : UpdateEvaluation(e)

AssessmentsSpec == AssessmentsInit /\ [][AssessmentsNext]_assessmentVars
-----------------------------------------------------------------------------
RecordOf(k) == IF k = Card THEN scorecard ELSE evaluation[k]

\* An answered evaluation or scorecard stands: the record is there, under the
\* name of the one who wrote it, and holds no rating of a write that had been
\* answered before another answered write of it began.  No interviewer writes
\* over another, and losing the race to create the record loses nothing.
AnsweredAssessmentStands ==
    \A k \in Keys : answered[k] # {} =>
      /\ RecordOf(k).by = IF k = Card THEN Lead ELSE k
      /\ RecordOf(k).rating \notin outdated[k]
=============================================================================
