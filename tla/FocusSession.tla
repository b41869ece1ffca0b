---------------------------- MODULE FocusSession ----------------------------
(***************************************************************************)
(* The focus sessions of one user and the points and streak they earn      *)
(* (learn.controller.js).  Completing or failing a session takes several   *)
(* awaited database calls, so two requests of the same user (two tabs, a   *)
(* double click, a retry) interleave between them, and any of them may be  *)
(* the last one that is made.                                              *)
(***************************************************************************)
EXTENDS Integers, FiniteSets, Functions

CONSTANTS
    FocusRequests,   \* slots for requests in progress
    Sessions,   \* the focus sessions
    Worth,      \* what each earns: its minutes, or the score of its answers
    SameSitting,\* a gap up to this (4 hours) leaves the streak as it is
    Lapse,      \* a gap from this on (48 hours) restarts it
    MaxClock,   \* bound on the clock
    MaxStrikes  \* bound on how often sessions are failed

ASSUME FocusAssumption ==
    /\ IsFiniteSet(Sessions) /\ Sessions # {}
    /\ Worth \in [Sessions -> Nat]
    /\ SameSitting \in Nat /\ Lapse \in Nat /\ SameSitting < Lapse
    /\ MaxClock \in Nat /\ MaxStrikes \in Nat

VARIABLES
    clock,      \* the time of day
    session,    \* the stored sessions
    user,       \* the stored points, streak and date of the last completion
    req,        \* per slot: where its handler is and what it has read
    awards,     \* history: how often each session was rewarded
    overlapped  \* history: two requests have been in progress at once

focusVars == <<clock, session, user, req, awards, overlapped>>
-----------------------------------------------------------------------------
Never == -1
SessionDoc == [status : {"NONE", "ACTIVE", "COMPLETED", "FAILED"},
               completed : BOOLEAN, strikes : Nat]
UserDoc == [points : Int, streak : Int, lastFocus : {Never} \cup Nat]

NewUser == [points |-> 0, streak |-> 0, lastFocus |-> Never]
Absent == [status |-> "NONE", completed |-> FALSE, strikes |-> 0]

NoRequest == [pc |-> "idle", of |-> CHOOSE s \in Sessions : TRUE,
              loaded |-> Absent, seen |-> NewUser, now |-> 0]

FocusInit ==
    /\ clock = 0
    /\ session = [s \in Sessions |-> Absent]
    /\ user = NewUser
    /\ req = [r \in FocusRequests |-> NoRequest]
    /\ awards = [s \in Sessions |-> 0]
    /\ overlapped = FALSE

AtRest(r) == req[r].pc = "idle"
FinishFocus(r) == req' = [req EXCEPT ![r] = NoRequest]

\* POST /session starts a session.
StartSession(s) ==
    /\ session[s].status = "NONE"
    /\ session' = [session EXCEPT ![s].status = "ACTIVE"]
    /\ UNCHANGED <<clock, user, req, awards, overlapped>>

Load(r, s, pc) ==
    /\ req' = [req EXCEPT ![r] = [NoRequest EXCEPT !.pc = pc, !.of = s,
                                                   !.loaded = session[s]]]
    /\ overlapped' = (overlapped \/ \E o \in FocusRequests : ~AtRest(o))

\* Mutant: a session that has failed can be completed as well.
CompletableUnfinished(d) == d.status \notin {"NONE", "COMPLETED"}

\* POST /session/:id/complete answers 400 unless the session is active.
Completable(d) == d.status = "ACTIVE"

BeginComplete(r, s) ==
    /\ AtRest(r)
    /\ Completable(session[s])
    /\ Load(r, s, "completing")
    /\ UNCHANGED <<clock, session, user, awards>>

SaveComplete(r) ==
    /\ req[r].pc = "completing"
    /\ session' = [session EXCEPT ![req[r].of].status = "COMPLETED",
                                  ![req[r].of].completed = TRUE]
    /\ req' = [req EXCEPT ![r].pc = "scored"]
    /\ UNCHANGED <<clock, user, awards, overlapped>>

\* The user is read for the date and the streak.
ReadUser(r) ==
    /\ req[r].pc = "scored"
    /\ req' = [req EXCEPT ![r].pc = "awarding", ![r].seen = user,
                          ![r].now = clock]
    /\ UNCHANGED <<clock, session, user, awards, overlapped>>

\* What is added to the streak: the first completion and one within two days
\* extend it, one in the same sitting does not, a later one restarts it at 1.
StreakDelta(seen, now) ==
    LET gap == now - seen.lastFocus
    IN  CASE seen.lastFocus = Never -> 1
          [] seen.lastFocus # Never /\ gap <= SameSitting -> 0
          [] seen.lastFocus # Never /\ gap > SameSitting /\ gap < Lapse -> 1
          [] seen.lastFocus # Never /\ gap >= Lapse -> 1 - seen.streak

\* Mutant: points and streak are written back from the copy that was read.
RewardedFromCopy(stored, q) ==
    [points    |-> q.seen.points + Worth[q.of],
     streak    |-> q.seen.streak + StreakDelta(q.seen, q.now),
     lastFocus |-> q.now]

\* One update with $inc for points and streak and $set for the date.
Rewarded(stored, q) ==
    [points    |-> stored.points + Worth[q.of],
     streak    |-> stored.streak + StreakDelta(q.seen, q.now),
     lastFocus |-> q.now]

Award(r) ==
    /\ req[r].pc = "awarding"
    /\ user' = Rewarded(user, req[r])
    /\ awards' = [awards EXCEPT ![req[r].of] = @ + 1]
    /\ FinishFocus(r)
    /\ UNCHANGED <<clock, session, overlapped>>

\* POST /session/:id/fail asks nothing of the session but that it exists.
BeginFail(r, s) ==
    /\ AtRest(r)
    /\ session[s].status # "NONE"
    /\ session[s].strikes < MaxStrikes
    /\ Load(r, s, "failing")
    /\ UNCHANGED <<clock, session, user, awards>>

\* save() writes the strike count computed from the loaded one, and the status
\* if the loaded one was another.
SaveFail(r) ==
    LET q == req[r]
    IN  /\ q.pc = "failing"
        /\ session' = [session EXCEPT
                         ![q.of].strikes = q.loaded.strikes + 1,
                         ![q.of].status = IF q.loaded.status # "FAILED"
                                          THEN "FAILED" ELSE @]
        /\ req' = [req EXCEPT ![r].pc = "resetting"]
        /\ UNCHANGED <<clock, user, awards, overlapped>>

ResetStreak(r) ==
    /\ req[r].pc = "resetting"
    /\ user' = [user EXCEPT !.streak = 0]
    /\ FinishFocus(r)
    /\ UNCHANGED <<clock, session, awards, overlapped>>

\* A database call throws, or the server stops, between two steps.
FailRequest(r) ==
    /\ ~AtRest(r)
    /\ FinishFocus(r)
    /\ UNCHANGED <<clock, session, user, awards, overlapped>>

Tick ==
    /\ clock < MaxClock
    /\ clock' = clock + 1
    /\ UNCHANGED <<session, user, req, awards, overlapped>>

FocusNext ==
    \/ \E s \in Sessions : StartSession(s)
    \/ \E r \in FocusRequests, s \in Sessions : BeginComplete(r, s) \/ BeginFail(r, s)
    \/ \E r \in FocusRequests : SaveComplete(r) \/ ReadUser(r) \/ Award(r)
    \/ \E r \in FocusRequests : SaveFail(r) \/ ResetStreak(r) \/ FailRequest(r)
    \/ Tick

FocusSpec == FocusInit /\ [][FocusNext]_focusVars
-----------------------------------------------------------------------------
FocusTypeOK ==
    /\ clock \in Nat
    /\ session \in [Sessions -> SessionDoc]
    /\ user \in UserDoc
    /\ req \in [FocusRequests -> [pc : {"idle", "completing", "scored", "awarding",
                                   "failing", "resetting"},
                             of : Sessions, loaded : SessionDoc,
                             seen : UserDoc, now : Nat]]
    /\ awards \in [Sessions -> Nat]
    /\ overlapped \in BOOLEAN

\* "Atomic increments (no lost updates under concurrency)": the points are the
\* sum of all rewards given, however completions interleave.
PointsAreConserved ==
    user.points = SumFunction([s \in Sessions |-> awards[s] * Worth[s]])

\* A reward follows a stored completion: an error or a crash between the calls
\* of completeSession may cost the user a reward, and never gives one for a
\* session whose completion was not recorded.
RewardsAreRecorded == \A s \in Sessions : awards[s] > 0 => session[s].completed

\* However requests overlap and fail, what the user has was earned.
RewardsAreSound == PointsAreConserved /\ RewardsAreRecorded

\* "One should succeed 200, others 400 (not active)": completing a session
\* pays once.
RewardedOnce == \A s \in Sessions : awards[s] <= 1
-----------------------------------------------------------------------------
(***************************************************************************)
(* What holds for as long as the user waits for each answer before the     *)
(* next request, whatever fails between the calls of a request.            *)
(***************************************************************************)

\* A session pays once: completing it again, or failing it and completing it
\* then, is refused.
RewardedOnceSerially == overlapped \/ RewardedOnce

\* The streak is never negative, and never longer than the number of rewards
\* that earned it.
StreakIsEarned ==
    \/ overlapped
    \/ /\ user.streak >= 0
       /\ user.streak <= SumFunction(awards)

\* Both of them, in any sequence of completions and failures.
RewardsAreFairSerially == RewardedOnceSerially /\ StreakIsEarned
=============================================================================
