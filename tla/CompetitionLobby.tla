-------------------------- MODULE CompetitionLobby --------------------------
(***************************************************************************)
(* One lobby of the competition hub: the players who join over HTTP        *)
(* (competition.controller.js) and the socket events with which the host   *)
(* runs the game and the players answer (socketio.js).  Every socket       *)
(* handler loads the lobby, edits its copy and saves it; Mongoose writes   *)
(* the changed fields only, the score of one player by its index in the    *)
(* array.                                                                  *)
(***************************************************************************)
EXTENDS Integers, Sequences, FiniteSets

CONSTANTS
    Contestants,          \* the users, one of them the host
    Host,
    EventSlots,       \* slots for requests in progress
    Deltas,         \* what an answer may score: 0, or 100 and a speed bonus
    Questions,      \* the number of quiz questions
    Tests,          \* the number of test cases of the programming problem
    MaxScore        \* bound on what a user scores

ASSUME LobbyAssumption ==
    /\ Host \in Contestants
    /\ Deltas \subseteq Nat
    /\ Questions \in Nat \ {0}
    /\ Tests \in Nat \ {0}
    /\ MaxScore \in Nat

\* Bound on how often the host goes on: once beyond the end of the quiz.
MaxIndex == Questions + 1

VARIABLES
    lobby,      \* the stored lobby
    event,      \* per slot: where its handler is, who asked, what it loaded,
                \* and the copy it edited
    announced,  \* the final scores broadcast last
    earned,     \* history: the points given to each user
    crossed,    \* history: the users who have had two requests at once
    mingled     \* history: two requests have been in progress at once

lobbyHistory == <<earned, crossed, mingled>>
lobbyVars == <<lobby, event, announced, lobbyHistory>>
-----------------------------------------------------------------------------
Statuses == {"WAITING", "STARTING", "PLAYING", "LEADERBOARD", "FINISHED"}
Modes == {"QUIZ", "CP"}

NewPlayer(u) == [user |-> u, score |-> 0, testCasesPassed |-> 0]

\* createLobby: the host is the first player.
NewLobby(mode) ==
    [mode |-> mode, status |-> "WAITING", currentQuestionIndex |-> -1,
     players |-> <<NewPlayer(Host)>>]

Joined(l) == {l.players[i].user : i \in DOMAIN l.players}
Scores(l) ==
    {<<l.players[i].user, l.players[i].score>> : i \in DOMAIN l.players}

Player == [user : Contestants, score : Nat, testCasesPassed : 0 .. Tests]
Lobby == [mode : Modes, status : Statuses,
          currentQuestionIndex : Int, players : Seq(Player)]

NoEvent == [pc |-> "idle", user |-> Host, base |-> NewLobby("QUIZ"),
              copy |-> NewLobby("QUIZ")]

LobbyInit ==
    /\ \E mode \in Modes : lobby = NewLobby(mode)
    /\ event = [r \in EventSlots |-> NoEvent]
    /\ announced = {}
    /\ earned = [u \in Contestants |-> 0]
    /\ crossed = {}
    /\ mingled = FALSE

Free(r) == event[r].pc = "idle"
FinishEvent(r) == event' = [event EXCEPT ![r] = NoEvent]

\* A request of user u has loaded the lobby and goes on with this copy of it.
AcceptEvent(r, u, at, copied) ==
    /\ Free(r)
    /\ event' = [event EXCEPT ![r] = [pc |-> at, user |-> u, base |-> lobby,
                                  copy |-> copied]]
    /\ crossed' = IF \E o \in EventSlots : ~Free(o) /\ event[o].user = u
                  THEN crossed \cup {u} ELSE crossed
    /\ mingled' = (mingled \/ \E o \in EventSlots : ~Free(o))
    /\ UNCHANGED <<lobby, announced, earned>>

\* Mutant: the whole array of players is saved with the copy.
MergeWhole(l, q) ==
    [l EXCEPT !.status = q.copy.status, !.players = q.copy.players,
              !.currentQuestionIndex = q.copy.currentQuestionIndex]

\* lobby.save(): the fields in which the copy differs from what was loaded.
Merge(l, q) ==
    LET field(f) == IF q.copy[f] # q.base[f] THEN q.copy[f] ELSE l[f]
        player(i) ==
          IF i \notin DOMAIN q.copy.players THEN l.players[i]
          ELSE LET of(f) == IF q.copy.players[i][f] # q.base.players[i][f]
                            THEN q.copy.players[i][f] ELSE l.players[i][f]
               IN  [user |-> l.players[i].user, score |-> of("score"),
                    testCasesPassed |-> of("testCasesPassed")]
    IN  [mode |-> l.mode, status |-> field("status"),
         currentQuestionIndex |-> field("currentQuestionIndex"),
         players |-> [i \in DOMAIN l.players |-> player(i)]]
-----------------------------------------------------------------------------
\* POST /join reads the lobby, refuses when it has started, and answers with
\* it when the user is in it already; else it goes on to the update.
BeginJoin(r, u) ==
    /\ lobby.status = "WAITING"
    /\ u \notin Joined(lobby)
    /\ AcceptEvent(r, u, "joining", lobby)

\* The filter of findOneAndUpdate.
MayPush(l, u) == l.status = "WAITING" /\ u \notin Joined(l)

PushPlayer(r) ==
    /\ event[r].pc = "joining"
    /\ lobby' =
         IF MayPush(lobby, event[r].user)
         THEN [lobby EXCEPT !.players = Append(@, NewPlayer(event[r].user))]
         ELSE lobby
    /\ FinishEvent(r)
    /\ UNCHANGED <<announced, lobbyHistory>>

\* "start_comp": no status is asked for, so the host can start again.
Started(l) ==
    [l EXCEPT !.status = "PLAYING",
              !.currentQuestionIndex = IF l.mode = "QUIZ" THEN 0 ELSE @]

StartComp(r) == AcceptEvent(r, Host, "saving", Started(lobby))

\* "next_question" asks for no status either.  The copy that ends the quiz is
\* also the one whose scores are announced.
NextQuestion(r) ==
    LET next == lobby.currentQuestionIndex + 1
        moved == [lobby EXCEPT !.currentQuestionIndex = next]
    IN  /\ lobby.mode = "QUIZ"
        /\ next <= MaxIndex
        /\ IF next >= Questions
           THEN AcceptEvent(r, Host, "ending",
                       [moved EXCEPT !.status = "LEADERBOARD"])
           ELSE AcceptEvent(r, Host, "saving", moved)

TakesAnswers(l, mode) == l.status = "PLAYING" /\ l.mode = mode

Scored(l, u, delta, passed) ==
    LET scored(p) ==
          IF p.user # u THEN p
          ELSE [p EXCEPT !.score = @ + delta,
                         !.testCasesPassed = IF passed > @ THEN passed ELSE @]
    IN  [l EXCEPT !.players = [i \in DOMAIN @ |-> scored(@[i])]]

\* "submit_comp_answer": any question of the quiz may be answered at any time
\* and repeatedly; a user who has not joined scores nothing.
SubmitCompAnswer(r, u, delta) ==
    /\ TakesAnswers(lobby, "QUIZ")
    /\ earned[u] + delta <= MaxScore
    /\ AcceptEvent(r, u, "saving", Scored(lobby, u, delta, 0))

\* "submit_cp_solution": 20 points a test, 100 more for all of them, counted
\* here in units of 20 after the sandbox has run the tests.
SubmitCpSolution(r, u, passed) ==
    LET perfect == passed = Tests
        delta == passed + (IF perfect THEN 5 ELSE 0)
    IN  /\ TakesAnswers(lobby, "CP")
        /\ earned[u] + delta <= MaxScore
        /\ AcceptEvent(r, u, IF perfect THEN "solving" ELSE "saving",
                  Scored(lobby, u, delta, passed))

ScoreOf(l, u) ==
    l.players[CHOOSE i \in DOMAIN l.players : l.players[i].user = u].score

\* The first save of a perfect solution is followed by a second that ends the
\* game, if its user is a player.
Save(r) ==
    LET q == event[r]
        wins == q.pc = "solving" /\ q.user \in Joined(q.copy)
    IN  /\ q.pc \in {"saving", "solving"}
        /\ lobby' = Merge(lobby, q)
        /\ earned' =
             IF q.user \in Joined(q.base)
             THEN [earned EXCEPT ![q.user] =
                     @ + ScoreOf(q.copy, q.user) - ScoreOf(q.base, q.user)]
             ELSE earned
        /\ IF wins
           THEN event' = [event EXCEPT ![r] =
                          [q EXCEPT !.pc = "ending", !.base = q.copy,
                                    !.copy.status = "LEADERBOARD"]]
           ELSE FinishEvent(r)
        /\ UNCHANGED <<announced, crossed, mingled>>

\* The save that ends the game, and "quiz_complete" or "cp_complete".
End(r) ==
    /\ event[r].pc = "ending"
    /\ lobby' = Merge(lobby, event[r])
    /\ announced' = Scores(event[r].copy)
    /\ FinishEvent(r)
    /\ UNCHANGED lobbyHistory

LobbyFails(r) ==
    /\ ~Free(r)
    /\ FinishEvent(r)
    /\ UNCHANGED <<lobby, announced, lobbyHistory>>

HostStep(r) == StartComp(r) \/ NextQuestion(r)

PlayerStep(r, u) ==
    \/ BeginJoin(r, u)
    \/ \E delta \in Deltas : SubmitCompAnswer(r, u, delta)
    \/ \E passed \in 0 .. Tests : SubmitCpSolution(r, u, passed)

LobbyNext ==
    \E r \in EventSlots :
      \/ HostStep(r)
      \/ \E u \in Contestants : PlayerStep(r, u)
      \/ PushPlayer(r)
      \/ Save(r)
      \/ End(r)
      \/ LobbyFails(r)

LobbySpec == LobbyInit /\ [][LobbyNext]_lobbyVars
-----------------------------------------------------------------------------
LobbyTypeOK ==
    /\ lobby \in Lobby
    /\ event \in [EventSlots -> [pc : {"idle", "joining", "saving", "solving",
                                   "ending"},
                             user : Contestants, base : Lobby, copy : Lobby]]
    /\ announced \subseteq Contestants \X Nat
    /\ earned \in [Contestants -> Nat]
    /\ crossed \subseteq Contestants
    /\ mingled \in BOOLEAN

\* "Atomic join to prevent duplicate players under concurrent recruiter joins".
NoDuplicatePlayers == Cardinality(Joined(lobby)) = Len(lobby.players)

\* A user who waits for each answer has all the points his answers were given,
\* whatever stale copies the others and the host save around them.
ScoresAddUp ==
    \A i \in DOMAIN lobby.players :
      LET u == lobby.players[i].user
      IN  u \notin crossed => lobby.players[i].score = earned[u]

\* Until two requests overlap, the leaderboard shows the scores announced.
LeaderboardIsAnnounced ==
    ~mingled /\ lobby.status = "LEADERBOARD" => announced = Scores(lobby)

\* Until two requests overlap, a quiz that is being played is at one of its
\* questions.
PlayedQuizHasQuestion ==
    ~mingled /\ lobby.status = "PLAYING" /\ lobby.mode = "QUIZ"
      => lobby.currentQuestionIndex \in 0 .. Questions - 1

\* The lobby is consistent through overlapping joins, answers and host steps.
LobbyIsSound ==
    /\ NoDuplicatePlayers /\ ScoresAddUp
    /\ LeaderboardIsAnnounced /\ PlayedQuizHasQuestion
=============================================================================
