---------------------------- MODULE PlatformProofs ----------------------------
(***************************************************************************)
(* Focus sessions, competition lobbies, the limits of a room's documents,  *)
(* the scores of a resume and the rating of an interview, proved for any   *)
(* number of users, sessions, requests, roles and requirements and for     *)
(* every limit: what the points and the streak of a user are made of, what *)
(* becomes of the copies of a lobby that are saved over one another, what  *)
(* the limits leave of a whiteboard, and which additions can lower a score.*)
(***************************************************************************)
EXTENDS FocusSession, CompetitionLobby, RoomLimits, RoleFit, InterviewSignals,
        FiniteSetTheorems, SequenceTheorems, TLAPS

-----------------------------------------------------------------------------
(***************************************************************************)
(* Sums over a finite set.  SumFunction is defined by recursion on the     *)
(* subsets of the domain; the induction is on a smallest counterexample.   *)
(***************************************************************************)
First(A) == CHOOSE x \in A : TRUE

\* One more unfolding of a table of partial sums.
Unfolded(t, F, S) == [A \in SUBSET S |-> IF A = {} THEN 0
                                         ELSE F[First(A)] + t[A \ {First(A)}]]

LEMMA Smallest ==
  ASSUME NEW T, T \subseteq Nat, T # {}
  PROVE  \E m \in T : \A k \in T : m <= k
<1>1. PICK m \in T : \A k \in T : ~(<<k, m>> \in OpToRel(<, Nat))
  BY WFMin, NatLessThanWellFounded, Zenon
<1>2. \A k \in T : ~(k < m)
  BY <1>1, Zenon DEF OpToRel
<1>3. m \in Nat /\ \A k \in T : k \in Nat
  OBVIOUS
<1>4. \A k \in T : m <= k
  BY <1>2, <1>3
<1> QED BY <1>4

LEMMA SmallestSubset ==
  ASSUME NEW S, IsFiniteSet(S), NEW T, T \subseteq SUBSET S, T # {}
  PROVE  \E A \in T : \A B \in T : B \subseteq A => B = A
<1>1. IsWellFoundedOn(StrictSubsetOrdering(S), SUBSET S)
  BY FS_StrictSubsetOrderingWellFounded, FS_FiniteSubsetsOfFinite
<1>2. PICK A \in T : \A B \in T : ~(<<B, A>> \in StrictSubsetOrdering(S))
  BY <1>1, WFMin, Zenon
<1>3. \A B \in T : B \subseteq A => B = A
  BY <1>2 DEF StrictSubsetOrdering
<1> QED BY <1>3

LEMMA PartialSums ==
  ASSUME NEW S, IsFiniteSet(S), NEW F \in [S -> Int]
  PROVE  \E t \in [SUBSET S -> Int] : t = Unfolded(t, F, S)
<1>1. \A A \in SUBSET S : IsFiniteSet(A) /\ Cardinality(A) \in Nat
  BY FS_Subset, FS_CardinalityType
<1>2. \A A \in SUBSET S : A # {} =>
        /\ First(A) \in A /\ A \ {First(A)} \in SUBSET S
        /\ Cardinality(A \ {First(A)}) = Cardinality(A) - 1
  BY <1>1, FS_RemoveElement DEF First
<1>3. \A t \in [SUBSET S -> Int] : Unfolded(t, F, S) \in [SUBSET S -> Int]
  <2> SUFFICES ASSUME NEW t \in [SUBSET S -> Int], NEW A \in SUBSET S
               PROVE  (IF A = {} THEN 0 ELSE F[First(A)] + t[A \ {First(A)}]) \in Int
    BY Zenon DEF Unfolded
  <2>1. CASE A # {}
    <3>1. First(A) \in S /\ A \ {First(A)} \in SUBSET S
      BY <1>2, <2>1
    <3>2. F[First(A)] \in Int /\ t[A \ {First(A)}] \in Int
      BY <3>1
    <3> QED BY <2>1, <3>2
  <2> QED BY <2>1
<1> DEFINE Right(t, n) == \A A \in SUBSET S : Cardinality(A) <= n => t[A] = Unfolded(t, F, S)[A]
           Wrong == {n \in Nat : ~\E t \in [SUBSET S -> Int] : Right(t, n)}
<1>4. Right([A \in SUBSET S |-> 0], 0)
  <2> SUFFICES ASSUME NEW A \in SUBSET S, Cardinality(A) <= 0
               PROVE  Unfolded([B \in SUBSET S |-> 0], F, S)[A] = 0
    OBVIOUS
  <2>1. A = {}
    BY <1>1, FS_EmptySet
  <2> QED BY <2>1 DEF Unfolded
<1>5. ASSUME NEW n \in Nat, NEW t \in [SUBSET S -> Int], Right(t, n)
      PROVE  Right(Unfolded(t, F, S), n + 1)
  <2> SUFFICES ASSUME NEW A \in SUBSET S, Cardinality(A) <= n + 1
               PROVE  Unfolded(t, F, S)[A] = Unfolded(Unfolded(t, F, S), F, S)[A]
    OBVIOUS
  <2>1. CASE A = {}
    BY <2>1 DEF Unfolded
  <2>2. CASE A # {}
    <3>1. /\ First(A) \in A /\ A \ {First(A)} \in SUBSET S
          /\ Cardinality(A \ {First(A)}) <= n
      BY <1>1, <1>2, <2>2
    <3>2. t[A \ {First(A)}] = Unfolded(t, F, S)[A \ {First(A)}]
      BY <1>5, <3>1
    <3> QED BY <2>2, <3>1, <3>2 DEF Unfolded
  <2> QED BY <2>1, <2>2
<1>6. Wrong = {}
  <2>0. /\ Wrong \subseteq Nat
        /\ \A n \in Nat : n \notin Wrong <=> \E t \in [SUBSET S -> Int] : Right(t, n)
    OBVIOUS
  <2>z. [A \in SUBSET S |-> 0] \in [SUBSET S -> Int]
    OBVIOUS
  <2> HIDE DEF Wrong, Right
  <2> SUFFICES ASSUME Wrong # {} PROVE FALSE
    OBVIOUS
  <2>1. PICK m \in Wrong : \A k \in Wrong : m <= k
    BY <2>0, Smallest
  <2>2. m \in Nat /\ m # 0
    BY <1>4, <2>0, <2>1, <2>z
  <2>3. PICK n \in Nat : m = n + 1
    BY <2>2
  <2>4. n \notin Wrong
    BY <2>1, <2>3
  <2>5. PICK t \in [SUBSET S -> Int] : Right(t, n)
    BY <2>0, <2>4
  <2>6. Right(Unfolded(t, F, S), m)
    BY <1>5, <2>3, <2>5
  <2> QED BY <1>3, <2>0, <2>1, <2>5, <2>6
<1>7. PICK t \in [SUBSET S -> Int] : Right(t, Cardinality(S))
  BY <1>1, <1>6
<1>8. \A A \in SUBSET S : Cardinality(A) <= Cardinality(S)
  BY FS_Subset
<1>9. \A A \in SUBSET S : t[A] = Unfolded(t, F, S)[A]
  BY <1>7, <1>8
<1> QED BY <1>3, <1>9 DEF Unfolded

LEMMA SumsAreFolds ==
  ASSUME NEW S, IsFiniteSet(S), NEW F \in [S -> Int]
  PROVE  \E t \in [SUBSET S -> Int] : t = Unfolded(t, F, S) /\ SumFunction(F) = t[S]
<1>1. PICK u \in [SUBSET S -> Int] : u = Unfolded(u, F, S)
  BY PartialSums
<1> DEFINE t == CHOOSE t : t = Unfolded(t, F, S)
<1>2. t = Unfolded(t, F, S)
  BY <1>1
<1>3. SumFunction(F) = t[S]
  <2>1. DOMAIN F = S
    OBVIOUS
  <2> QED BY <2>1 DEF SumFunction, SumFunctionOnSet, FoldFunctionOnSet, MapThenFoldSet,
                      Unfolded, First
<1> HIDE DEF t
<1>4. \A A \in SUBSET S : t[A] \in Int
  <2> DEFINE T == {A \in SUBSET S : t[A] \notin Int}
  <2> SUFFICES ASSUME T # {} PROVE FALSE
    OBVIOUS
  <2>1. PICK A \in T : \A B \in T : B \subseteq A => B = A
    <3>1. T \subseteq SUBSET S
      OBVIOUS
    <3> HIDE DEF T
    <3> QED BY <3>1, SmallestSubset
  <2>2. A # {}
    BY <1>2, <2>1 DEF Unfolded
  <2>3. First(A) \in A /\ A \ {First(A)} \in SUBSET S
    BY <2>2 DEF First
  <2>4. t[A \ {First(A)}] \in Int
    BY <2>1, <2>3
  <2>5. t[A] = F[First(A)] + t[A \ {First(A)}]
    BY <1>2, <2>1, <2>2 DEF Unfolded
  <2> QED BY <2>1, <2>3, <2>4, <2>5
<1>5. t \in [SUBSET S -> Int]
  BY <1>2, <1>4 DEF Unfolded
<1> QED BY <1>2, <1>3, <1>5

LEMMA SumOfZeroes ==
  ASSUME NEW S, IsFiniteSet(S), NEW F \in [S -> Int], \A x \in S : F[x] = 0
  PROVE  SumFunction(F) = 0
<1>1. PICK t \in [SUBSET S -> Int] : t = Unfolded(t, F, S) /\ SumFunction(F) = t[S]
  BY SumsAreFolds
<1> DEFINE T == {A \in SUBSET S : t[A] # 0}
<1> SUFFICES ASSUME T # {} PROVE FALSE
  BY <1>1
<1>2. PICK A \in T : \A B \in T : B \subseteq A => B = A
  <2>1. T \subseteq SUBSET S
    OBVIOUS
  <2> HIDE DEF T
  <2> QED BY <2>1, SmallestSubset
<1>3. A # {}
  BY <1>1, <1>2 DEF Unfolded
<1>4. First(A) \in A /\ A \ {First(A)} \in SUBSET S
  BY <1>3 DEF First
<1>5. t[A] = F[First(A)] + t[A \ {First(A)}] /\ F[First(A)] = 0
  BY <1>1, <1>2, <1>3, <1>4 DEF Unfolded
<1>6. t[A \ {First(A)}] = 0
  BY <1>2, <1>4
<1> QED BY <1>2, <1>5, <1>6

LEMMA SumIsNatural ==
  ASSUME NEW S, IsFiniteSet(S), NEW F \in [S -> Nat]
  PROVE  SumFunction(F) \in Nat
<1>1. F \in [S -> Int]
  OBVIOUS
<1>2. PICK t \in [SUBSET S -> Int] : t = Unfolded(t, F, S) /\ SumFunction(F) = t[S]
  BY <1>1, SumsAreFolds
<1> DEFINE T == {A \in SUBSET S : t[A] \notin Nat}
<1> SUFFICES ASSUME T # {} PROVE FALSE
  BY <1>2
<1>3. PICK A \in T : \A B \in T : B \subseteq A => B = A
  <2>1. T \subseteq SUBSET S
    OBVIOUS
  <2> HIDE DEF T
  <2> QED BY <2>1, SmallestSubset
<1>4. A # {}
  BY <1>2, <1>3 DEF Unfolded
<1>5. First(A) \in A /\ A \ {First(A)} \in SUBSET S
  BY <1>4 DEF First
<1>6. t[A] = F[First(A)] + t[A \ {First(A)}] /\ F[First(A)] \in Nat
  BY <1>2, <1>3, <1>4, <1>5 DEF Unfolded
<1>7. t[A \ {First(A)}] \in Nat
  BY <1>3, <1>5
<1> QED BY <1>3, <1>6, <1>7

\* A sum changes as the one term that changes.
LEMMA SumChanges ==
  ASSUME NEW S, IsFiniteSet(S), NEW F \in [S -> Int], NEW G \in [S -> Int],
         NEW i \in S, \A j \in S \ {i} : G[j] = F[j]
  PROVE  SumFunction(G) = SumFunction(F) + (G[i] - F[i])
<1>1. PICK f \in [SUBSET S -> Int] : f = Unfolded(f, F, S) /\ SumFunction(F) = f[S]
  BY SumsAreFolds
<1>2. PICK g \in [SUBSET S -> Int] : g = Unfolded(g, G, S) /\ SumFunction(G) = g[S]
  BY SumsAreFolds
<1> DEFINE Diff(A) == IF i \in A THEN G[i] - F[i] ELSE 0
           T == {A \in SUBSET S : g[A] # f[A] + Diff(A)}
<1> SUFFICES ASSUME T # {} PROVE FALSE
  BY <1>1, <1>2
<1>3. PICK A \in T : \A B \in T : B \subseteq A => B = A
  <2>1. T \subseteq SUBSET S
    OBVIOUS
  <2> HIDE DEF T
  <2> QED BY <2>1, SmallestSubset
<1>4. A # {}
  BY <1>1, <1>2, <1>3 DEF Unfolded
<1>5. PICK x \in A : x = First(A)
  BY <1>4 DEF First
<1>6. /\ f[A] = F[x] + f[A \ {x}] /\ g[A] = G[x] + g[A \ {x}]
      /\ A \ {x} \in SUBSET S /\ A \ {x} # A /\ x \in S
  BY <1>1, <1>2, <1>3, <1>4, <1>5 DEF Unfolded
<1>7. g[A \ {x}] = f[A \ {x}] + Diff(A \ {x})
  BY <1>3, <1>6
<1>8. CASE x = i
  BY <1>3, <1>5, <1>6, <1>7, <1>8
<1>9. CASE x # i
  <2>1. G[x] = F[x] /\ Diff(A \ {x}) = Diff(A) /\ Diff(A) \in Int
    BY <1>6, <1>9
  <2> QED BY <1>3, <1>6, <1>7, <2>1
<1> QED BY <1>8, <1>9
-----------------------------------------------------------------------------
(***************************************************************************)
(* Focus sessions.                                                         *)
(***************************************************************************)
Rewards(a) == [s \in Sessions |-> a[s] * Worth[s]]

\* A request past the save has its session's completion stored.
FocusInv ==
    /\ FocusTypeOK
    /\ user.points = SumFunction(Rewards(awards))
    /\ \A s \in Sessions : awards[s] > 0 => session[s].completed
    /\ \A r \in FocusRequests :
         req[r].pc \in {"scored", "awarding"} => session[req[r].of].completed

\* While no two requests overlap, at most one is in progress; a session that
\* may yet be completed has paid nothing, and what the request has read of the
\* user is what is stored.
SerialInv ==
    \/ overlapped
    \/ /\ \A r, o \in FocusRequests : ~AtRest(r) /\ ~AtRest(o) => r = o
       /\ \A s \in Sessions :
            /\ awards[s] <= 1
            /\ session[s].status \in {"NONE", "ACTIVE"} => awards[s] = 0
       /\ \A r \in FocusRequests :
            /\ req[r].pc \in {"completing", "scored", "awarding"} => awards[req[r].of] = 0
            /\ req[r].pc \in {"scored", "awarding"} =>
                 session[req[r].of].status \notin {"NONE", "ACTIVE"}
            /\ req[r].pc = "awarding" => req[r].seen = user
       /\ user.streak >= 0 /\ user.streak <= SumFunction(awards)

FocusDoc == [pc : {"idle", "completing", "scored", "awarding", "failing", "resetting"},
             of : Sessions, loaded : SessionDoc, seen : UserDoc, now : Nat]

LEMMA FocusDocs ==
  /\ Absent \in SessionDoc /\ NewUser \in UserDoc /\ NoRequest \in FocusDoc
  /\ NoRequest.pc = "idle"
  BY FocusAssumption DEF Absent, NewUser, NoRequest, SessionDoc, UserDoc, FocusDoc, Never

\* What a step of a request makes of its slot.
LEMMA RewardsAdd ==
  ASSUME FocusTypeOK, NEW i \in Sessions, awards' = [awards EXCEPT ![i] = @ + 1]
  PROVE  /\ awards' \in [Sessions -> Nat] /\ awards'[i] = awards[i] + 1
         /\ \A s \in Sessions \ {i} : awards'[s] = awards[s]
         /\ SumFunction(awards') = SumFunction(awards) + 1
         /\ SumFunction(Rewards(awards')) = SumFunction(Rewards(awards)) + Worth[i]
<1>1. awards \in [Sessions -> Nat] /\ Worth \in [Sessions -> Nat] /\ IsFiniteSet(Sessions)
  BY FocusAssumption DEF FocusTypeOK
<1>2. PICK n \in Nat : n = awards[i] + 1
  BY <1>1
<1>3. /\ awards' \in [Sessions -> Nat] /\ awards'[i] = awards[i] + 1
      /\ \A s \in Sessions \ {i} : awards'[s] = awards[s]
  BY <1>1, <1>2
<1>4. SumFunction(awards') = SumFunction(awards) + (awards'[i] - awards[i])
  <2>1. awards \in [Sessions -> Int] /\ awards' \in [Sessions -> Int]
    BY <1>1, <1>3
  <2>2. PICK F \in [Sessions -> Int], G \in [Sessions -> Int] : F = awards /\ G = awards'
    BY <2>1
  <2>3. \A s \in Sessions \ {i} : G[s] = F[s]
    BY <1>3, <2>2
  <2>4. SumFunction(G) = SumFunction(F) + (G[i] - F[i])
    BY <1>1, <2>3, SumChanges
  <2> QED BY <2>2, <2>4
<1>5. \A a \in [Sessions -> Nat] : Rewards(a) \in [Sessions -> Int]
  <2> SUFFICES ASSUME NEW a \in [Sessions -> Nat], NEW s \in Sessions PROVE a[s] * Worth[s] \in Int
    BY Zenon DEF Rewards
  <2>1. a[s] \in Nat /\ Worth[s] \in Nat
    BY <1>1
  <2> QED BY <2>1
<1>6. SumFunction(Rewards(awards'))
        = SumFunction(Rewards(awards)) + (Rewards(awards')[i] - Rewards(awards)[i])
  <2>1. \A s \in Sessions \ {i} : Rewards(awards')[s] = Rewards(awards)[s]
    BY <1>3 DEF Rewards
  <2>2. PICK F \in [Sessions -> Int], G \in [Sessions -> Int] :
          F = Rewards(awards) /\ G = Rewards(awards')
    BY <1>1, <1>3, <1>5
  <2>3. \A s \in Sessions \ {i} : G[s] = F[s]
    BY <2>1, <2>2
  <2>4. SumFunction(G) = SumFunction(F) + (G[i] - F[i])
    BY <1>1, <2>3, SumChanges
  <2> QED BY <2>2, <2>4
<1>7. Rewards(awards')[i] - Rewards(awards)[i] = Worth[i]
  <2>1. Rewards(awards')[i] = (awards[i] + 1) * Worth[i] /\ Rewards(awards)[i] = awards[i] * Worth[i]
    BY <1>3 DEF Rewards
  <2>2. awards[i] \in Nat /\ Worth[i] \in Nat
    BY <1>1
  <2>3. \A m, k \in Nat : (m + 1) * k = m * k + k
    OBVIOUS
  <2>4. (awards[i] + 1) * Worth[i] = awards[i] * Worth[i] + Worth[i]
    BY <2>2, <2>3
  <2>5. awards[i] * Worth[i] \in Nat
    BY <2>2
  <2> QED BY <2>1, <2>2, <2>4, <2>5
<1>8. awards[i] \in Nat
  BY <1>1
<1>9. SumFunction(awards') = SumFunction(awards) + 1
  <2>1. awards'[i] - awards[i] = 1
    BY <1>3, <1>8
  <2> QED BY <1>4, <2>1
<1> QED BY <1>3, <1>6, <1>7, <1>9

LEMMA StreakDeltaType ==
  ASSUME NEW d \in UserDoc, NEW n \in Nat
  PROVE  StreakDelta(d, n) \in {0, 1, 1 - d.streak}
<1>1. d.lastFocus \in {Never} \cup Nat /\ d.lastFocus \in Int /\ n - d.lastFocus \in Int
  BY DEF UserDoc, Never
<1>2. SameSitting \in Nat /\ Lapse \in Nat
  BY FocusAssumption
<1>3. \/ d.lastFocus = Never
      \/ d.lastFocus # Never /\ n - d.lastFocus <= SameSitting
      \/ d.lastFocus # Never /\ n - d.lastFocus > SameSitting /\ n - d.lastFocus < Lapse
      \/ d.lastFocus # Never /\ n - d.lastFocus >= Lapse
  BY <1>1, <1>2
<1> QED BY <1>1, <1>2, <1>3 DEF StreakDelta

LEMMA FocusTyped == FocusTypeOK /\ [FocusNext]_focusVars => FocusTypeOK'
<1> SUFFICES ASSUME FocusTypeOK, [FocusNext]_focusVars PROVE FocusTypeOK'
  OBVIOUS
<1>0. /\ clock \in Nat /\ session \in [Sessions -> SessionDoc] /\ user \in UserDoc
      /\ req \in [FocusRequests -> FocusDoc] /\ awards \in [Sessions -> Nat]
      /\ overlapped \in BOOLEAN
  BY DEF FocusTypeOK, FocusDoc
<1>q. ASSUME clock' \in Nat, session' \in [Sessions -> SessionDoc], user' \in UserDoc,
             req' \in [FocusRequests -> FocusDoc], awards' \in [Sessions -> Nat],
             overlapped' \in BOOLEAN
      PROVE  FocusTypeOK'
  BY <1>q DEF FocusTypeOK, FocusDoc
<1>d. \A q \in FocusDoc : \A pc \in {"scored", "resetting"} : [q EXCEPT !.pc = pc] \in FocusDoc
  BY DEF FocusDoc
<1>s. \A d \in SessionDoc : \A u \in {"ACTIVE", "COMPLETED", "FAILED"} :
        [d EXCEPT !.status = u] \in SessionDoc
  BY DEF SessionDoc
<1>1. CASE UNCHANGED focusVars
  BY <1>0, <1>1, <1>q DEF focusVars
<1>2. ASSUME NEW s \in Sessions, StartSession(s) PROVE FocusTypeOK'
  <2>1. session' \in [Sessions -> SessionDoc]
    <3>1. session' = [session EXCEPT ![s] = [session[s] EXCEPT !.status = "ACTIVE"]]
      BY <1>2 DEF StartSession
    <3> QED BY <1>0, <1>s, <3>1
  <2> QED BY <1>0, <1>2, <1>q, <2>1 DEF StartSession
<1>3. ASSUME NEW r \in FocusRequests, NEW s \in Sessions, BeginComplete(r, s) \/ BeginFail(r, s)
      PROVE  FocusTypeOK'
  <2>1. \A pc \in {"completing", "failing"} :
          [NoRequest EXCEPT !.pc = pc, !.of = s, !.loaded = session[s]] \in FocusDoc
    BY <1>0, FocusDocs DEF FocusDoc
  <2>2. PICK pc \in {"completing", "failing"} : Load(r, s, pc)
    BY <1>3 DEF BeginComplete, BeginFail
  <2>3. req' \in [FocusRequests -> FocusDoc] /\ overlapped' \in BOOLEAN
    BY <1>0, <2>1, <2>2 DEF Load
  <2> QED BY <1>0, <1>3, <1>q, <2>3 DEF BeginComplete, BeginFail
<1>4. ASSUME NEW r \in FocusRequests, SaveComplete(r) PROVE FocusTypeOK'
  <2>1. PICK i \in Sessions : i = req[r].of
    BY <1>0 DEF FocusDoc
  <2>2. session' \in [Sessions -> SessionDoc]
    BY <1>0, <1>4, <2>1 DEF SaveComplete, SessionDoc
  <2>3. req' \in [FocusRequests -> FocusDoc]
    <3>1. req' = [req EXCEPT ![r] = [req[r] EXCEPT !.pc = "scored"]]
      BY <1>4 DEF SaveComplete
    <3> QED BY <1>0, <1>d, <3>1
  <2> QED BY <1>0, <1>4, <1>q, <2>2, <2>3 DEF SaveComplete
<1>5. ASSUME NEW r \in FocusRequests, ReadUser(r) PROVE FocusTypeOK'
  <2>1. req' \in [FocusRequests -> FocusDoc]
    <3>1. req' = [req EXCEPT ![r] = [req[r] EXCEPT !.pc = "awarding", !.seen = user, !.now = clock]]
      BY <1>0, <1>5 DEF ReadUser
    <3>2. [req[r] EXCEPT !.pc = "awarding", !.seen = user, !.now = clock] \in FocusDoc
      BY <1>0 DEF FocusDoc
    <3> QED BY <1>0, <3>1, <3>2
  <2> QED BY <1>0, <1>5, <1>q, <2>1 DEF ReadUser
<1>6. ASSUME NEW r \in FocusRequests, Award(r) PROVE FocusTypeOK'
  <2>1. PICK i \in Sessions, d \in UserDoc, n \in Nat :
          i = req[r].of /\ d = req[r].seen /\ n = req[r].now
    BY <1>0 DEF FocusDoc
  <2>2. user' \in UserDoc
    <3>1. /\ StreakDelta(d, n) \in Int /\ Worth[i] \in Int
          /\ user.points \in Int /\ user.streak \in Int
      BY <1>0, StreakDeltaType, FocusAssumption DEF UserDoc
    <3>2. /\ user.points + Worth[i] \in Int /\ user.streak + StreakDelta(d, n) \in Int
      BY <3>1
    <3>3. user' = [points |-> user.points + Worth[i], streak |-> user.streak + StreakDelta(d, n),
                   lastFocus |-> n]
      BY <1>6, <2>1 DEF Award, Rewarded
    <3> QED BY <3>2, <3>3 DEF UserDoc
  <2>3. awards' \in [Sessions -> Nat]
    BY <1>6, <2>1, RewardsAdd DEF Award
  <2>4. req' \in [FocusRequests -> FocusDoc]
    BY <1>0, <1>6, FocusDocs DEF Award, FinishFocus
  <2> QED BY <1>0, <1>6, <1>q, <2>2, <2>3, <2>4 DEF Award
<1>7. ASSUME NEW r \in FocusRequests, SaveFail(r) PROVE FocusTypeOK'
  <2>1. PICK i \in Sessions, k \in Nat : i = req[r].of /\ k = req[r].loaded.strikes + 1
    BY <1>0 DEF FocusDoc, SessionDoc
  <2>2. session' \in [Sessions -> SessionDoc]
    BY <1>0, <1>7, <2>1 DEF SaveFail, SessionDoc
  <2>3. req' \in [FocusRequests -> FocusDoc]
    <3>1. req' = [req EXCEPT ![r] = [req[r] EXCEPT !.pc = "resetting"]]
      BY <1>7 DEF SaveFail
    <3> QED BY <1>0, <1>d, <3>1
  <2> QED BY <1>0, <1>7, <1>q, <2>2, <2>3 DEF SaveFail
<1>8. ASSUME NEW r \in FocusRequests, ResetStreak(r) \/ FailRequest(r) PROVE FocusTypeOK'
  <2>1. req' \in [FocusRequests -> FocusDoc]
    BY <1>0, <1>8, FocusDocs DEF ResetStreak, FailRequest, FinishFocus
  <2>2. user' \in UserDoc
    BY <1>0, <1>8 DEF ResetStreak, FailRequest, UserDoc
  <2> QED BY <1>0, <1>8, <1>q, <2>1, <2>2 DEF ResetStreak, FailRequest
<1>9. CASE Tick
  BY <1>0, <1>9, <1>q DEF Tick
<1> QED BY <1>1, <1>2, <1>3, <1>4, <1>5, <1>6, <1>7, <1>8, <1>9 DEF FocusNext

LEMMA CompletedStays ==
  ASSUME FocusTypeOK, [FocusNext]_focusVars, NEW s \in Sessions, session[s].completed
  PROVE  session'[s].completed
<1>0. session \in [Sessions -> SessionDoc] /\ req \in [FocusRequests -> FocusDoc]
  BY DEF FocusTypeOK, FocusDoc
<1>1. CASE \E i \in Sessions : StartSession(i)
  BY <1>0, <1>1 DEF StartSession, SessionDoc
<1>2. CASE \E r \in FocusRequests : SaveComplete(r)
  BY <1>0, <1>2 DEF SaveComplete, SessionDoc
<1>3. CASE \E r \in FocusRequests : SaveFail(r)
  BY <1>0, <1>3 DEF SaveFail, SessionDoc
<1>4. CASE UNCHANGED session
  BY <1>4
<1> QED BY <1>1, <1>2, <1>3, <1>4 DEF FocusNext, focusVars, BeginComplete, BeginFail, ReadUser,
           Award, ResetStreak, FailRequest, Tick

LEMMA FocusStarts == FocusInit => FocusInv /\ SerialInv
<1> SUFFICES ASSUME FocusInit PROVE FocusInv /\ SerialInv
  OBVIOUS
<1>1. /\ awards \in [Sessions -> Nat] /\ \A s \in Sessions : awards[s] = 0
      /\ user = NewUser /\ \A r \in FocusRequests : req[r].pc = "idle"
      /\ \A s \in Sessions : session[s] = Absent
  BY FocusDocs DEF FocusInit
<1>2. FocusTypeOK
  <2>1. /\ clock \in Nat /\ session \in [Sessions -> SessionDoc] /\ user \in UserDoc
        /\ req \in [FocusRequests -> FocusDoc] /\ overlapped \in BOOLEAN
    BY FocusDocs DEF FocusInit
  <2> QED BY <1>1, <2>1 DEF FocusTypeOK, FocusDoc
<1>3. SumFunction(awards) = 0
  <2>1. IsFiniteSet(Sessions) /\ awards \in [Sessions -> Int]
    BY <1>1, FocusAssumption
  <2> QED BY <1>1, <2>1, SumOfZeroes
<1>4. SumFunction(Rewards(awards)) = 0
  <2>1. \A s \in Sessions : awards[s] * Worth[s] = 0
    BY <1>1, FocusAssumption
  <2>2. Rewards(awards) \in [Sessions -> Int] /\ \A s \in Sessions : Rewards(awards)[s] = 0
    BY <2>1 DEF Rewards
  <2>3. IsFiniteSet(Sessions)
    BY FocusAssumption
  <2> QED BY <2>2, <2>3, SumOfZeroes
<1>5. FocusInv
  BY <1>1, <1>2, <1>4 DEF FocusInv, NewUser
<1>6. SerialInv
  BY <1>1, <1>3 DEF SerialInv, AtRest, NewUser, Absent
<1> QED BY <1>5, <1>6

LEMMA FocusStep == FocusInv /\ [FocusNext]_focusVars => FocusInv'
<1> SUFFICES ASSUME FocusInv, [FocusNext]_focusVars PROVE FocusInv'
  OBVIOUS
<1>0. FocusTypeOK /\ FocusTypeOK'
  BY FocusTyped DEF FocusInv
<1>t. /\ req \in [FocusRequests -> FocusDoc] /\ awards \in [Sessions -> Nat]
      /\ user \in UserDoc /\ session \in [Sessions -> SessionDoc]
  BY <1>0 DEF FocusTypeOK, FocusDoc
<1>a. \/ user' = user /\ awards' = awards
      \/ \E r \in FocusRequests : Award(r) \/ ResetStreak(r)
  BY DEF FocusNext, focusVars, StartSession, BeginComplete, BeginFail, SaveComplete, ReadUser,
         SaveFail, FailRequest, Tick
<1>1. user'.points = SumFunction(Rewards(awards'))
  <2>1. CASE user' = user /\ awards' = awards
    BY <2>1 DEF FocusInv
  <2>2. ASSUME NEW r \in FocusRequests, Award(r) PROVE user'.points = SumFunction(Rewards(awards'))
    <3>1. PICK i \in Sessions : i = req[r].of
      BY <1>t DEF FocusDoc
    <3>2. SumFunction(Rewards(awards')) = SumFunction(Rewards(awards)) + Worth[i]
      BY <1>0, <2>2, <3>1, RewardsAdd DEF Award
    <3>3. user'.points = user.points + Worth[i]
      BY <2>2, <3>1 DEF Award, Rewarded
    <3> QED BY <3>2, <3>3 DEF FocusInv
  <2>3. ASSUME NEW r \in FocusRequests, ResetStreak(r)
        PROVE  user'.points = SumFunction(Rewards(awards'))
    <3>1. user'.points = user.points /\ awards' = awards
      BY <1>t, <2>3 DEF ResetStreak, UserDoc
    <3> QED BY <3>1 DEF FocusInv
  <2> QED BY <1>a, <2>1, <2>2, <2>3
<1>2. \A s \in Sessions : awards'[s] > 0 => session'[s].completed
  <2> SUFFICES ASSUME NEW s \in Sessions, awards'[s] > 0 PROVE session'[s].completed
    OBVIOUS
  <2>1. session[s].completed
    <3>1. CASE awards' = awards
      BY <3>1 DEF FocusInv
    <3>2. ASSUME NEW r \in FocusRequests, Award(r) PROVE session[s].completed
      <4>1. CASE s = req[r].of
        BY <3>2, <4>1 DEF FocusInv, Award
      <4>2. CASE s # req[r].of
        <5>1. awards'[s] = awards[s]
          BY <1>t, <3>2, <4>2 DEF Award
        <5> QED BY <5>1 DEF FocusInv
      <4> QED BY <4>1, <4>2
    <3> QED BY <1>a, <3>1, <3>2 DEF ResetStreak
  <2> QED BY <1>0, <2>1, CompletedStays
<1>3. \A r \in FocusRequests :
        req'[r].pc \in {"scored", "awarding"} => session'[req'[r].of].completed
  <2> SUFFICES ASSUME NEW r \in FocusRequests, req'[r].pc \in {"scored", "awarding"}
               PROVE  session'[req'[r].of].completed
    OBVIOUS
  <2>1. CASE /\ req[r].pc \in {"scored", "awarding"} /\ req'[r].of = req[r].of
    <3>1. session[req[r].of].completed /\ req[r].of \in Sessions
      BY <1>t, <2>1 DEF FocusInv, FocusDoc
    <3> QED BY <1>0, <2>1, <3>1, CompletedStays
  <2>2. CASE SaveComplete(r)
    <3>1. req'[r].of = req[r].of /\ req[r].of \in Sessions
      BY <1>t, <2>2 DEF SaveComplete, FocusDoc
    <3> QED BY <1>t, <2>2, <3>1 DEF SaveComplete, SessionDoc
  <2>3. SaveComplete(r) \/ (req[r].pc \in {"scored", "awarding"} /\ req'[r].of = req[r].of)
    <3>1. CASE req'[r] = req[r]
      BY <3>1
    <3>2. ASSUME NEW o \in FocusRequests, r # o,
                 \/ ReadUser(o) \/ Award(o) \/ SaveComplete(o)
                 \/ SaveFail(o) \/ ResetStreak(o) \/ FailRequest(o)
                 \/ \E s \in Sessions : BeginComplete(o, s) \/ BeginFail(o, s)
          PROVE  req'[r] = req[r]
      BY <1>t, <3>2 DEF ReadUser, Award, SaveComplete, SaveFail, ResetStreak, FailRequest,
                        BeginComplete, BeginFail, Load, FinishFocus
    <3>3. CASE ReadUser(r)
      BY <1>t, <3>3 DEF ReadUser, FocusDoc
    <3>4. CASE Award(r) \/ ResetStreak(r) \/ FailRequest(r)
      <4>1. req'[r].pc = "idle"
        BY <1>t, <3>4, FocusDocs DEF Award, ResetStreak, FailRequest, FinishFocus
      <4> QED BY <4>1
    <3>5. CASE SaveFail(r)
      <4>1. req'[r].pc = "resetting"
        BY <1>t, <3>5 DEF SaveFail, FocusDoc
      <4> QED BY <4>1
    <3>6. ~\E s \in Sessions : BeginComplete(r, s) \/ BeginFail(r, s)
      <4>1. ASSUME NEW s \in Sessions, NEW pc \in {"completing", "failing"}, Load(r, s, pc)
            PROVE  FALSE
        <5>1. req'[r].pc = pc
          BY <1>t, <4>1, FocusDocs DEF Load, FocusDoc
        <5> QED BY <5>1
      <4> QED BY <4>1 DEF BeginComplete, BeginFail
    <3>7. ASSUME Tick \/ UNCHANGED focusVars \/ \E s \in Sessions : StartSession(s)
          PROVE  req'[r] = req[r]
      BY <3>7 DEF Tick, focusVars, StartSession
    <3> QED BY <3>1, <3>2, <3>3, <3>4, <3>5, <3>6, <3>7 DEF FocusNext
  <2> QED BY <2>1, <2>2, <2>3
<1> QED BY <1>0, <1>1, <1>2, <1>3 DEF FocusInv

\* Whatever overlaps and whatever fails, the points of a user are the sum of
\* the rewards he was given, and a reward follows a stored completion.
THEOREM RewardsStaySound == FocusSpec => []RewardsAreSound
<1>1. FocusInv => RewardsAreSound
  BY DEF FocusInv, RewardsAreSound, PointsAreConserved, RewardsAreRecorded, Rewards
<1> QED BY <1>1, FocusStarts, FocusStep, PTL DEF FocusSpec

RequestStep(r) ==
    \/ \E s \in Sessions : BeginComplete(r, s) \/ BeginFail(r, s)
    \/ SaveComplete(r) \/ ReadUser(r) \/ Award(r)
    \/ SaveFail(r) \/ ResetStreak(r) \/ FailRequest(r)

SlotSerial(r) ==
    /\ req[r].pc \in {"completing", "scored", "awarding"} => awards[req[r].of] = 0
    /\ req[r].pc \in {"scored", "awarding"} => session[req[r].of].status \notin {"NONE", "ACTIVE"}
    /\ req[r].pc = "awarding" => req[r].seen = user

SessionSerial(s) ==
    /\ awards[s] <= 1
    /\ session[s].status \in {"NONE", "ACTIVE"} => awards[s] = 0

StreakSerial == user.streak >= 0 /\ user.streak <= SumFunction(awards)

\* While requests do not overlap, the one that goes on is alone.
LEMMA OneAtATime ==
  ASSUME FocusTypeOK, SerialInv, NEW r \in FocusRequests, RequestStep(r), ~overlapped'
  PROVE  /\ ~overlapped
         /\ \A o \in FocusRequests \ {r} : req'[o] = req[o] /\ req[o].pc = "idle"
<1>1. ~overlapped
  BY DEF RequestStep, BeginComplete, BeginFail, Load, SaveComplete, ReadUser, Award, SaveFail,
         ResetStreak, FailRequest
<1>2. \A o \in FocusRequests \ {r} : req'[o] = req[o]
  BY DEF RequestStep, BeginComplete, BeginFail, Load, SaveComplete, ReadUser, Award, SaveFail,
         ResetStreak, FailRequest, FinishFocus, FocusTypeOK
<1>3. ASSUME NEW o \in FocusRequests, o # r, req[o].pc # "idle" PROVE FALSE
  <2>1. CASE ~AtRest(r)
    BY <1>1, <1>3, <2>1 DEF SerialInv, AtRest
  <2>2. CASE AtRest(r)
    <3>1. overlapped' = (overlapped \/ \E x \in FocusRequests : ~AtRest(x))
      BY <2>2 DEF RequestStep, BeginComplete, BeginFail, Load, SaveComplete, ReadUser, Award,
                  SaveFail, ResetStreak, FailRequest, AtRest
    <3>2. ~AtRest(o)
      BY <1>3 DEF AtRest
    <3> QED BY <3>1, <3>2
  <2> QED BY <2>1, <2>2
<1> QED BY <1>1, <1>2, <1>3

LEMMA StreakGrows ==
  ASSUME FocusTypeOK, StreakSerial, NEW r \in FocusRequests, Award(r), req[r].seen = user
  PROVE  StreakSerial'
<1>1. PICK i \in Sessions, d \in UserDoc, n \in Nat :
        i = req[r].of /\ d = req[r].seen /\ n = req[r].now
  BY DEF FocusTypeOK
<1>2. user'.streak = user.streak + StreakDelta(user, n)
  BY <1>1 DEF Award, Rewarded
<1>3. SumFunction(awards') = SumFunction(awards) + 1
  BY <1>1, RewardsAdd DEF Award
<1>4. StreakDelta(user, n) \in {0, 1, 1 - user.streak} /\ user.streak \in Int
  BY StreakDeltaType DEF FocusTypeOK, UserDoc
<1>5. SumFunction(awards) \in Nat
  <2>1. awards \in [Sessions -> Nat] /\ IsFiniteSet(Sessions)
    BY FocusAssumption DEF FocusTypeOK
  <2> QED BY <2>1, SumIsNatural
<1>6. user.streak + StreakDelta(user, n) \in {user.streak, user.streak + 1, 1}
  BY <1>4
<1>7. user'.streak \in {user.streak, user.streak + 1, 1}
  BY <1>2, <1>6
<1>8. user.streak >= 0 /\ user.streak <= SumFunction(awards)
  BY DEF StreakSerial
<1>9. user'.streak >= 0 /\ user'.streak <= SumFunction(awards) + 1
  BY <1>4, <1>5, <1>7, <1>8
<1> QED BY <1>3, <1>9 DEF StreakSerial

LEMMA SerialStep == FocusTypeOK /\ SerialInv /\ [FocusNext]_focusVars => SerialInv'
<1> SUFFICES ASSUME FocusTypeOK, SerialInv, [FocusNext]_focusVars, ~overlapped' PROVE SerialInv'
  BY DEF SerialInv
<1>0. /\ req \in [FocusRequests -> FocusDoc] /\ awards \in [Sessions -> Nat]
      /\ user \in UserDoc /\ session \in [Sessions -> SessionDoc]
  BY DEF FocusTypeOK, FocusDoc
<1>1. CASE UNCHANGED focusVars
  BY <1>1 DEF focusVars, SerialInv, AtRest
<1>2. CASE Tick
  BY <1>2 DEF Tick, SerialInv, AtRest
<1>3. ASSUME NEW i \in Sessions, StartSession(i) PROVE SerialInv'
  <2>1. /\ session[i].status = "NONE" /\ UNCHANGED <<user, req, awards, overlapped>>
        /\ \A s \in Sessions : s # i => session'[s] = session[s]
    BY <1>0, <1>3 DEF StartSession
  <2>2. awards[i] = 0
    BY <2>1 DEF SerialInv
  <2>3. \A r \in FocusRequests :
          req[r].pc \in {"scored", "awarding"} => req[r].of # i /\ req[r].of \in Sessions
    BY <1>0, <2>1 DEF SerialInv, FocusDoc
  <2> QED BY <2>1, <2>2, <2>3 DEF SerialInv, AtRest
<1>4. ASSUME NEW r \in FocusRequests, RequestStep(r) PROVE SerialInv'
  <2>0. /\ ~overlapped
        /\ \A o \in FocusRequests \ {r} : req'[o] = req[o] /\ req[o].pc = "idle"
    BY <1>4, OneAtATime
  <2>s. SlotSerial(r) /\ StreakSerial /\ \A s \in Sessions : SessionSerial(s)
    BY <2>0 DEF SerialInv, SlotSerial, StreakSerial, SessionSerial
  <2>n. SumFunction(awards) \in Nat
    <3>1. IsFiniteSet(Sessions)
      BY FocusAssumption
    <3> QED BY <1>0, <3>1, SumIsNatural
  <2>q. ASSUME SlotSerial(r)', StreakSerial', \A s \in Sessions : SessionSerial(s)'
        PROVE  SerialInv'
    <3>1. \A o \in FocusRequests \ {r} : SlotSerial(o)'
      BY <2>0 DEF SlotSerial
    <3> QED BY <2>0, <2>q, <3>1 DEF SerialInv, AtRest, SlotSerial, StreakSerial, SessionSerial
  <2>1. ASSUME NEW s \in Sessions, BeginComplete(r, s) PROVE SerialInv'
    <3>1. req'[r].pc = "completing" /\ req'[r].of = s
      BY <1>0, <2>1, FocusDocs DEF BeginComplete, Load, FocusDoc
    <3>2. UNCHANGED <<session, user, awards>> /\ awards[s] = 0
      BY <2>1, <2>s DEF BeginComplete, Completable, SessionSerial
    <3> QED BY <2>q, <2>s, <3>1, <3>2 DEF SlotSerial, StreakSerial, SessionSerial
  <2>2. ASSUME NEW s \in Sessions, BeginFail(r, s) PROVE SerialInv'
    <3>1. req'[r].pc = "failing"
      BY <1>0, <2>2, FocusDocs DEF BeginFail, Load, FocusDoc
    <3>2. UNCHANGED <<session, user, awards>>
      BY <2>2 DEF BeginFail
    <3> QED BY <2>q, <2>s, <3>1, <3>2 DEF SlotSerial, StreakSerial, SessionSerial
  <2>3. CASE SaveComplete(r)
    <3>1. req'[r].pc = "scored" /\ req'[r].of = req[r].of /\ req[r].of \in Sessions
      BY <1>0, <2>3 DEF SaveComplete, FocusDoc
    <3>2. /\ session'[req[r].of].status = "COMPLETED" /\ UNCHANGED <<user, awards>>
          /\ \A s \in Sessions : s # req[r].of => session'[s] = session[s]
      BY <1>0, <2>3, <3>1 DEF SaveComplete, SessionDoc
    <3>3. awards[req[r].of] = 0
      BY <2>3, <2>s DEF SaveComplete, SlotSerial
    <3> QED BY <2>q, <2>s, <3>1, <3>2, <3>3 DEF SlotSerial, StreakSerial, SessionSerial
  <2>4. CASE ReadUser(r)
    <3>1. /\ req'[r].pc = "awarding" /\ req'[r].of = req[r].of /\ req'[r].seen = user
          /\ UNCHANGED <<session, user, awards>> /\ req[r].pc = "scored"
      BY <1>0, <2>4 DEF ReadUser, FocusDoc
    <3> QED BY <2>q, <2>s, <3>1 DEF SlotSerial, StreakSerial, SessionSerial
  <2>5. CASE Award(r)
    <3>1. req'[r].pc = "idle" /\ session' = session
      BY <1>0, <2>5, FocusDocs DEF Award, FinishFocus
    <3>2. /\ awards[req[r].of] = 0 /\ session[req[r].of].status \notin {"NONE", "ACTIVE"}
          /\ req[r].seen = user
      BY <2>5, <2>s DEF Award, SlotSerial
    <3>3. StreakSerial'
      BY <2>5, <2>s, <3>2, StreakGrows
    <3>4. PICK i \in Sessions : i = req[r].of
      BY <1>0 DEF FocusDoc
    <3>5. awards'[i] = 1 /\ \A s \in Sessions \ {i} : awards'[s] = awards[s]
      <4>1. awards' = [awards EXCEPT ![i] = @ + 1]
        BY <2>5, <3>4 DEF Award
      <4> QED BY <1>0, <3>2, <3>4, <4>1
    <3>6. \A s \in Sessions : SessionSerial(s)'
      BY <2>s, <3>1, <3>2, <3>4, <3>5 DEF SessionSerial
    <3>7. SlotSerial(r)'
      BY <3>1 DEF SlotSerial
    <3> QED BY <2>q, <3>3, <3>6, <3>7
  <2>6. CASE SaveFail(r)
    <3>1. req'[r].pc = "resetting" /\ UNCHANGED <<user, awards>>
      BY <1>0, <2>6 DEF SaveFail, FocusDoc
    <3>2. \A s \in Sessions : session'[s].status \in {session[s].status, "FAILED"}
      BY <1>0, <2>6 DEF SaveFail, SessionDoc
    <3> QED BY <2>q, <2>s, <3>1, <3>2 DEF SlotSerial, StreakSerial, SessionSerial
  <2>7. CASE ResetStreak(r)
    <3>1. req'[r].pc = "idle" /\ user'.streak = 0 /\ UNCHANGED <<session, awards>>
      BY <1>0, <2>7, FocusDocs DEF ResetStreak, FinishFocus, UserDoc
    <3>2. StreakSerial'
      BY <2>n, <3>1 DEF StreakSerial
    <3>3. SlotSerial(r)' /\ \A s \in Sessions : SessionSerial(s)'
      BY <2>s, <3>1 DEF SlotSerial, SessionSerial
    <3> QED BY <2>q, <3>2, <3>3
  <2>8. CASE FailRequest(r)
    <3>1. req'[r].pc = "idle" /\ UNCHANGED <<session, user, awards>>
      BY <1>0, <2>8, FocusDocs DEF FailRequest, FinishFocus
    <3> QED BY <2>q, <2>s, <3>1 DEF SlotSerial, StreakSerial, SessionSerial
  <2> QED BY <1>4, <2>1, <2>2, <2>3, <2>4, <2>5, <2>6, <2>7, <2>8 DEF RequestStep
<1> QED BY <1>1, <1>2, <1>3, <1>4 DEF FocusNext, RequestStep

\* In any sequence of completions and failures, with an error or a crash in any
\* of them, a session pays once, and the streak is one that rewards earned.
THEOREM RewardsStayFair == FocusSpec => []RewardsAreFairSerially
<1>1. FocusInit => FocusTypeOK /\ SerialInv
  BY FocusStarts DEF FocusInv
<1>2. FocusTypeOK /\ SerialInv /\ [FocusNext]_focusVars => FocusTypeOK' /\ SerialInv'
  BY FocusTyped, SerialStep
<1>3. FocusTypeOK /\ SerialInv => RewardsAreFairSerially
  BY DEF SerialInv, RewardsAreFairSerially, RewardedOnceSerially, RewardedOnce, StreakIsEarned
<1> QED BY <1>1, <1>2, <1>3, PTL DEF FocusSpec
-----------------------------------------------------------------------------
(***************************************************************************)
(* The competition lobby.                                                  *)
(***************************************************************************)
Busy(r) == event[r].pc # "idle"

Unlike(p) == \A i, j \in DOMAIN p : p[i].user = p[j].user => i = j

\* The players of p are the first of those of q.
Alike(p, q) == Len(p) <= Len(q) /\ \A i \in DOMAIN p : p[i].user = q[i].user

\* A copy has the players it was loaded with, who are still the first of the
\* lobby's, and gives points to nobody but its user.
CopyInv(e) ==
    /\ e.copy.mode = e.base.mode /\ Len(e.copy.players) = Len(e.base.players)
    /\ Alike(e.copy.players, e.base.players) /\ Alike(e.base.players, lobby.players)
    /\ \A i \in DOMAIN e.copy.players :
         e.copy.players[i].user # e.user \/ e.pc \in {"joining", "ending"} =>
           e.copy.players[i].score = e.base.players[i].score
    /\ e.copy.currentQuestionIndex >= -1

\* What is saved of a user who waits for each answer was loaded as it still is.
ScoresInv ==
    /\ Unlike(lobby.players) /\ lobby.currentQuestionIndex >= -1
    /\ \A r \in EventSlots : Busy(r) => CopyInv(event[r])
    /\ \A u \in Contestants \ Joined(lobby) : earned[u] = 0
    /\ \A i \in DOMAIN lobby.players :
         lobby.players[i].user \notin crossed =>
           lobby.players[i].score = earned[lobby.players[i].user]
    /\ \A r, o \in EventSlots :
         Busy(r) /\ Busy(o) /\ event[r].user = event[o].user /\ event[r].user \notin crossed
           => r = o
    /\ \A r \in EventSlots : Busy(r) /\ event[r].user \notin crossed =>
         \A i \in DOMAIN event[r].base.players :
           event[r].base.players[i].user = event[r].user =>
             event[r].base.players[i].score = lobby.players[i].score

HasQuestion(l) ==
    l.status = "PLAYING" /\ l.mode = "QUIZ" => l.currentQuestionIndex \in 0 .. Questions - 1

EndsWell(e) ==
    /\ e.base = lobby
    /\ e.pc = "ending" => e.copy.status = "LEADERBOARD"
    /\ e.pc \in {"saving", "solving"} =>
         /\ e.copy.status = "LEADERBOARD" =>
              e.base.status = "LEADERBOARD" /\ e.copy.players = e.base.players
         /\ HasQuestion(e.copy)

\* Until two requests overlap, what is saved is an edit of what is stored.
GameInv ==
    \/ mingled
    \/ /\ \A r, o \in EventSlots : Busy(r) /\ Busy(o) => r = o
       /\ \A r \in EventSlots : Busy(r) => EndsWell(event[r])
       /\ lobby.status = "LEADERBOARD" => announced = Scores(lobby)
       /\ HasQuestion(lobby)

EventDoc == [pc : {"idle", "joining", "saving", "solving", "ending"}, user : Contestants,
             base : Lobby, copy : Lobby]

LEMMA LobbyFields ==
  ASSUME NEW l \in Lobby
  PROVE  /\ l.mode \in Modes /\ l.status \in Statuses /\ l.currentQuestionIndex \in Int
         /\ l.players \in Seq(Player) /\ Len(l.players) \in Nat
         /\ DOMAIN l.players = 1 .. Len(l.players)
         /\ \A i \in DOMAIN l.players :
              /\ l.players[i] \in Player
              /\ l.players[i].user \in Contestants /\ l.players[i].score \in Nat
              /\ l.players[i].testCasesPassed \in 0 .. Tests
<1>1. /\ l.mode \in Modes /\ l.status \in Statuses /\ l.currentQuestionIndex \in Int
      /\ l.players \in Seq(Player)
  BY DEF Lobby
<1>2. /\ Len(l.players) \in Nat /\ DOMAIN l.players = 1 .. Len(l.players)
      /\ \A i \in DOMAIN l.players : l.players[i] \in Player
  BY <1>1
<1> QED BY <1>1, <1>2 DEF Player

LEMMA LobbyIs ==
  ASSUME NEW m \in Modes, NEW s \in Statuses, NEW n \in Int, NEW p \in Seq(Player)
  PROVE  [mode |-> m, status |-> s, currentQuestionIndex |-> n, players |-> p] \in Lobby
  BY DEF Lobby

LEMMA NewLobbies == \A mode \in Modes :
  /\ NewLobby(mode) \in Lobby
  /\ NewLobby(mode).players = <<NewPlayer(Host)>> /\ NewPlayer(Host) \in Player
<1> SUFFICES ASSUME NEW mode \in Modes
             PROVE  /\ NewLobby(mode) \in Lobby
                    /\ NewLobby(mode).players = <<NewPlayer(Host)>> /\ NewPlayer(Host) \in Player
  OBVIOUS
<1>1. NewPlayer(Host) \in Player
  BY LobbyAssumption DEF NewPlayer, Player
<1>2. <<NewPlayer(Host)>> \in Seq(Player) /\ -1 \in Int /\ "WAITING" \in Statuses
  BY <1>1 DEF Statuses
<1>3. NewLobby(mode) \in Lobby
  BY <1>2, LobbyIs DEF NewLobby
<1> QED BY <1>1, <1>3 DEF NewLobby

LEMMA NoEventIs == NoEvent \in EventDoc /\ NoEvent.pc = "idle"
<1>1. "QUIZ" \in Modes /\ Host \in Contestants
  BY LobbyAssumption DEF Modes
<1> QED BY <1>1, NewLobbies DEF NoEvent, EventDoc

LEMMA EventFields ==
  ASSUME NEW e \in EventDoc
  PROVE  e.user \in Contestants /\ e.base \in Lobby /\ e.copy \in Lobby
  BY DEF EventDoc

\* What a save makes of the stored lobby.
LEMMA MergeKeeps ==
  ASSUME NEW l \in Lobby, NEW q \in EventDoc,
         Len(q.copy.players) = Len(q.base.players), Len(q.base.players) <= Len(l.players)
  PROVE  /\ Merge(l, q) \in Lobby /\ Merge(l, q).mode = l.mode
         /\ Len(Merge(l, q).players) = Len(l.players)
         /\ DOMAIN Merge(l, q).players = DOMAIN l.players
         /\ \A i \in DOMAIN l.players :
              /\ Merge(l, q).players[i].user = l.players[i].user
              /\ i \in DOMAIN q.copy.players =>
                   /\ Merge(l, q).players[i].score =
                        IF q.copy.players[i].score # q.base.players[i].score
                        THEN q.copy.players[i].score ELSE l.players[i].score
                   /\ Merge(l, q).players[i].testCasesPassed =
                        IF q.copy.players[i].testCasesPassed # q.base.players[i].testCasesPassed
                        THEN q.copy.players[i].testCasesPassed ELSE l.players[i].testCasesPassed
              /\ i \notin DOMAIN q.copy.players => Merge(l, q).players[i] = l.players[i]
         /\ Merge(l, q).status =
              IF q.copy.status # q.base.status THEN q.copy.status ELSE l.status
         /\ Merge(l, q).currentQuestionIndex =
              IF q.copy.currentQuestionIndex # q.base.currentQuestionIndex
              THEN q.copy.currentQuestionIndex ELSE l.currentQuestionIndex
<1> DEFINE c == q.copy.players
           b == q.base.players
           of(i, f) == IF c[i][f] # b[i][f] THEN c[i][f] ELSE l.players[i][f]
           player(i) == IF i \notin DOMAIN c THEN l.players[i]
                        ELSE [user |-> l.players[i].user, score |-> of(i, "score"),
                              testCasesPassed |-> of(i, "testCasesPassed")]
           s == IF q.copy.status # q.base.status THEN q.copy.status ELSE l.status
           n == IF q.copy.currentQuestionIndex # q.base.currentQuestionIndex
                THEN q.copy.currentQuestionIndex ELSE l.currentQuestionIndex
           p == [i \in DOMAIN l.players |-> player(i)]
<1>1. Merge(l, q) = [mode |-> l.mode, status |-> s, currentQuestionIndex |-> n, players |-> p]
  BY DEF Merge
<1>2. q.copy \in Lobby /\ q.base \in Lobby
  BY EventFields
<1>3. \A i \in DOMAIN l.players : player(i) \in Player
  <2> SUFFICES ASSUME NEW i \in DOMAIN l.players PROVE player(i) \in Player
    OBVIOUS
  <2>1. CASE i \notin DOMAIN c
    BY <2>1, LobbyFields
  <2>2. CASE i \in DOMAIN c
    <3>1. /\ c[i].score \in Nat /\ c[i].testCasesPassed \in 0 .. Tests
      BY <1>2, <2>2, LobbyFields
    <3>2. /\ l.players[i].user \in Contestants /\ l.players[i].score \in Nat
          /\ l.players[i].testCasesPassed \in 0 .. Tests
      BY LobbyFields
    <3>3. of(i, "score") \in Nat /\ of(i, "testCasesPassed") \in 0 .. Tests
      BY <3>1, <3>2
    <3> QED BY <2>2, <3>2, <3>3 DEF Player
  <2> QED BY <2>1, <2>2
<1>4. DOMAIN l.players = 1 .. Len(l.players) /\ Len(l.players) \in Nat
  BY LobbyFields
<1>5. /\ p \in Seq(Player) /\ Len(p) = Len(l.players) /\ DOMAIN p = DOMAIN l.players
      /\ \A i \in DOMAIN l.players : p[i] = player(i)
  BY <1>3, <1>4
<1>6. l.mode \in Modes /\ s \in Statuses /\ n \in Int
  BY <1>2, LobbyFields
<1>7. Merge(l, q) \in Lobby
  <2> HIDE DEF p, s, n
  <2> QED BY <1>1, <1>5, <1>6, LobbyIs
<1>8. /\ Merge(l, q).mode = l.mode /\ Merge(l, q).status = s
      /\ Merge(l, q).currentQuestionIndex = n /\ Merge(l, q).players = p
  BY <1>1
<1>9. \A i \in DOMAIN l.players :
        /\ player(i).user = l.players[i].user
        /\ i \in DOMAIN c => /\ player(i).score = of(i, "score")
                             /\ player(i).testCasesPassed = of(i, "testCasesPassed")
        /\ i \notin DOMAIN c => player(i) = l.players[i]
  OBVIOUS
<1>10. \A i \in DOMAIN c :
        /\ of(i, "score") = IF c[i].score # b[i].score THEN c[i].score ELSE l.players[i].score
        /\ of(i, "testCasesPassed") =
             IF c[i].testCasesPassed # b[i].testCasesPassed
             THEN c[i].testCasesPassed ELSE l.players[i].testCasesPassed
  OBVIOUS
<1> HIDE DEF p, player, of
<1> QED BY <1>5, <1>7, <1>8, <1>9, <1>10

LEMMA PlayersEqual ==
  ASSUME NEW x \in Player, NEW y \in Player, x.user = y.user, x.score = y.score,
         x.testCasesPassed = y.testCasesPassed
  PROVE  x = y
  BY DEF Player

LEMMA LobbiesEqual ==
  ASSUME NEW x \in Lobby, NEW y \in Lobby, x.mode = y.mode, x.status = y.status,
         x.currentQuestionIndex = y.currentQuestionIndex, x.players = y.players
  PROVE  x = y
  BY DEF Lobby

\* A copy of what is stored is saved as it is.
LEMMA MergeOfCurrent ==
  ASSUME NEW q \in EventDoc, q.copy.mode = q.base.mode,
         Len(q.copy.players) = Len(q.base.players), Alike(q.copy.players, q.base.players)
  PROVE  Merge(q.base, q) = q.copy
<1>1. q.base \in Lobby /\ q.copy \in Lobby
  BY EventFields
<1> DEFINE m == Merge(q.base, q)
<1>2. /\ m \in Lobby /\ m.mode = q.copy.mode /\ m.status = q.copy.status
      /\ m.currentQuestionIndex = q.copy.currentQuestionIndex
  <2>1. Len(q.base.players) <= Len(q.base.players)
    BY <1>1, LobbyFields
  <2> QED BY <1>1, <2>1, MergeKeeps
<1>3. m.players = q.copy.players
  <2>1. /\ DOMAIN q.base.players = 1 .. Len(q.base.players)
        /\ DOMAIN q.copy.players = 1 .. Len(q.copy.players)
        /\ DOMAIN q.copy.players = DOMAIN q.base.players
        /\ Len(q.base.players) <= Len(q.base.players)
    BY <1>1, LobbyFields
  <2>2. DOMAIN m.players = DOMAIN q.copy.players
    BY <1>1, <2>1, MergeKeeps
  <2>3. ASSUME NEW i \in DOMAIN q.copy.players PROVE m.players[i] = q.copy.players[i]
    <3>1. /\ m.players[i].user = q.base.players[i].user
          /\ m.players[i].score = q.copy.players[i].score
          /\ m.players[i].testCasesPassed = q.copy.players[i].testCasesPassed
      <4>1. i \in DOMAIN q.base.players
        BY <2>1
      <4>2. /\ m.players[i].user = q.base.players[i].user
            /\ m.players[i].score =
                 IF q.copy.players[i].score # q.base.players[i].score
                 THEN q.copy.players[i].score ELSE q.base.players[i].score
            /\ m.players[i].testCasesPassed =
                 IF q.copy.players[i].testCasesPassed # q.base.players[i].testCasesPassed
                 THEN q.copy.players[i].testCasesPassed
                 ELSE q.base.players[i].testCasesPassed
        BY <1>1, <2>1, <4>1, MergeKeeps
      <4> HIDE DEF m
      <4> QED BY <4>2
    <3>2. q.base.players[i].user = q.copy.players[i].user
      BY <2>1 DEF Alike
    <3>3. m.players[i] \in Player /\ q.copy.players[i] \in Player
      BY <1>1, <1>2, <2>2, LobbyFields
    <3> QED BY <3>1, <3>2, <3>3, PlayersEqual
  <2>4. m.players \in Seq(Player) /\ q.copy.players \in Seq(Player)
    BY <1>1, <1>2, LobbyFields
  <2> HIDE DEF m
  <2> QED BY <2>1, <2>2, <2>3, <2>4
<1> HIDE DEF m
<1>4. m = q.copy
  BY <1>1, <1>2, <1>3, LobbiesEqual
<1> QED BY <1>4 DEF m

LEMMA ScoredIs ==
  ASSUME NEW l \in Lobby, NEW u \in Contestants, NEW delta \in Nat, NEW passed \in 0 .. Tests
  PROVE  /\ Scored(l, u, delta, passed) \in Lobby
         /\ Scored(l, u, delta, passed).mode = l.mode
         /\ Scored(l, u, delta, passed).status = l.status
         /\ Scored(l, u, delta, passed).currentQuestionIndex = l.currentQuestionIndex
         /\ Len(Scored(l, u, delta, passed).players) = Len(l.players)
         /\ DOMAIN Scored(l, u, delta, passed).players = DOMAIN l.players
         /\ \A i \in DOMAIN l.players :
              /\ Scored(l, u, delta, passed).players[i].user = l.players[i].user
              /\ l.players[i].user # u => Scored(l, u, delta, passed).players[i] = l.players[i]
<1> DEFINE scored(x) == IF x.user # u THEN x
                        ELSE [x EXCEPT !.score = @ + delta,
                                       !.testCasesPassed = IF passed > @ THEN passed ELSE @]
           p == [i \in DOMAIN l.players |-> scored(l.players[i])]
<1>1. Scored(l, u, delta, passed) = [l EXCEPT !.players = p]
  BY DEF Scored
<1>2. ASSUME NEW i \in DOMAIN l.players
      PROVE  /\ p[i] \in Player /\ p[i].user = l.players[i].user
             /\ l.players[i].user # u => p[i] = l.players[i]
  <2>1. /\ l.players[i] \in Player /\ l.players[i].score \in Nat
        /\ l.players[i].testCasesPassed \in 0 .. Tests
    BY LobbyFields
  <2>2. PICK s \in Nat, n \in 0 .. Tests :
          /\ s = l.players[i].score + delta
          /\ n = IF passed > l.players[i].testCasesPassed
                 THEN passed ELSE l.players[i].testCasesPassed
    BY <2>1
  <2>3. CASE l.players[i].user = u
    <3>1. p[i] = [l.players[i] EXCEPT !.score = s, !.testCasesPassed = n]
      BY <2>2, <2>3
    <3> HIDE DEF p
    <3> QED BY <2>1, <2>3, <3>1 DEF Player
  <2>4. CASE l.players[i].user # u
    BY <2>1, <2>4
  <2> QED BY <2>3, <2>4
<1>3. DOMAIN l.players = 1 .. Len(l.players) /\ Len(l.players) \in Nat
  BY LobbyFields
<1>4. p \in Seq(Player) /\ Len(p) = Len(l.players) /\ DOMAIN p = DOMAIN l.players
  <2>1. DOMAIN p = DOMAIN l.players
    OBVIOUS
  <2>2. p = [i \in 1 .. Len(l.players) |-> p[i]]
    BY <1>3
  <2> HIDE DEF p
  <2>3. p \in [1 .. Len(l.players) -> Player]
    BY <1>2, <1>3, <2>2
  <2> QED BY <1>3, <2>1, <2>3
<1> HIDE DEF p
<1>5. Scored(l, u, delta, passed).players = p
  <2>1. l = [mode |-> l.mode, status |-> l.status,
             currentQuestionIndex |-> l.currentQuestionIndex, players |-> l.players]
    BY DEF Lobby
  <2> QED BY <1>1, <2>1
<1>6. /\ Scored(l, u, delta, passed).mode = l.mode
      /\ Scored(l, u, delta, passed).status = l.status
      /\ Scored(l, u, delta, passed).currentQuestionIndex = l.currentQuestionIndex
      /\ Scored(l, u, delta, passed) \in Lobby
  BY <1>1, <1>4 DEF Lobby
<1> QED BY <1>2, <1>4, <1>5, <1>6

LobbyTyped ==
    /\ lobby \in Lobby /\ event \in [EventSlots -> EventDoc]
    /\ earned \in [Contestants -> Int]

\* What a request may take away to edit.
Edit(u, at, c) ==
    /\ c \in Lobby /\ c.mode = lobby.mode /\ Len(c.players) = Len(lobby.players)
    /\ Alike(c.players, lobby.players)
    /\ \A i \in DOMAIN c.players :
         c.players[i].user # u \/ at \in {"joining", "ending"} => c.players[i] = lobby.players[i]
    /\ c.currentQuestionIndex >= -1
    /\ at = "ending" => c.status = "LEADERBOARD"
    /\ at \in {"saving", "solving"} =>
         /\ c.status = "LEADERBOARD" => lobby.status = "LEADERBOARD" /\ c.players = lobby.players
         /\ HasQuestion(lobby) => HasQuestion(c)

Accepts(r) ==
    \E u \in Contestants, at \in {"joining", "saving", "solving", "ending"} : \E c :
      AcceptEvent(r, u, at, c) /\ Edit(u, at, c)

LEMMA ScoredEdits ==
  ASSUME LobbyTyped, lobby.currentQuestionIndex >= -1, lobby.status = "PLAYING",
         NEW u \in Contestants, NEW at \in {"saving", "solving"}, NEW delta \in Nat,
         NEW passed \in 0 .. Tests
  PROVE  Edit(u, at, Scored(lobby, u, delta, passed))
<1>1. PICK c : c = Scored(lobby, u, delta, passed)
  OBVIOUS
<1>2. lobby \in Lobby
  BY DEF LobbyTyped
<1>3. /\ c \in Lobby /\ c.mode = lobby.mode /\ c.status = lobby.status
      /\ c.currentQuestionIndex = lobby.currentQuestionIndex
      /\ Len(c.players) = Len(lobby.players) /\ DOMAIN c.players = DOMAIN lobby.players
      /\ \A i \in DOMAIN lobby.players :
           /\ c.players[i].user = lobby.players[i].user
           /\ lobby.players[i].user # u => c.players[i] = lobby.players[i]
  BY <1>1, <1>2, ScoredIs
<1>4. Len(c.players) <= Len(lobby.players)
  BY <1>2, <1>3, LobbyFields
<1>5. Edit(u, at, c)
  BY <1>3, <1>4 DEF Edit, Alike, HasQuestion
<1> QED BY <1>1, <1>5

LEMMA PlainEdits ==
  ASSUME LobbyTyped, NEW u, NEW at, NEW c \in Lobby, c.mode = lobby.mode,
         c.players = lobby.players, c.currentQuestionIndex >= -1,
         at = "ending" => c.status = "LEADERBOARD",
         at \in {"saving", "solving"} =>
           /\ c.status = "LEADERBOARD" => lobby.status = "LEADERBOARD"
           /\ HasQuestion(lobby) => HasQuestion(c)
  PROVE  Edit(u, at, c)
<1>1. Len(c.players) <= Len(lobby.players)
  BY LobbyFields DEF LobbyTyped
<1> QED BY <1>1 DEF Edit, Alike

LEMMA Accepted ==
  ASSUME LobbyTyped, lobby.currentQuestionIndex >= -1, NEW r \in EventSlots,
         HostStep(r) \/ \E u \in Contestants : PlayerStep(r, u)
  PROVE  Accepts(r)
<1>0. lobby \in Lobby /\ Host \in Contestants
  BY LobbyAssumption DEF LobbyTyped
<1>1. ASSUME NEW u \in Contestants, BeginJoin(r, u) PROVE Accepts(r)
  <2>1. Edit(u, "joining", lobby)
    BY <1>0, PlainEdits
  <2> QED BY <1>1, <2>1 DEF BeginJoin, Accepts
<1>2. CASE StartComp(r)
  <2>1. PICK n \in Int : n = IF lobby.mode = "QUIZ" THEN 0 ELSE lobby.currentQuestionIndex
    BY <1>0, LobbyFields
  <2>2. PICK c : c = Started(lobby)
    OBVIOUS
  <2>3. c = [mode |-> lobby.mode, status |-> "PLAYING", currentQuestionIndex |-> n,
             players |-> lobby.players]
    BY <1>0, <2>1, <2>2 DEF Started, Lobby
  <2>4. c \in Lobby
    BY <1>0, <2>3, LobbyFields, LobbyIs DEF Statuses
  <2>5. n >= -1 /\ HasQuestion(c)
    BY <2>1, <2>3, LobbyAssumption DEF HasQuestion
  <2>6. Edit(Host, "saving", c)
    BY <2>3, <2>4, <2>5, PlainEdits
  <2> QED BY <1>0, <1>2, <2>2, <2>6 DEF StartComp, Accepts
<1>3. CASE NextQuestion(r)
  <2>1. PICK n \in Int : n = lobby.currentQuestionIndex + 1
    BY <1>0, LobbyFields
  <2>n. n >= 0
    BY <1>0, <2>1, LobbyFields
  <2>2. PICK c, d : /\ c = [lobby EXCEPT !.currentQuestionIndex = n]
                    /\ d = [c EXCEPT !.status = "LEADERBOARD"]
    OBVIOUS
  <2>3. /\ c = [mode |-> lobby.mode, status |-> lobby.status, currentQuestionIndex |-> n,
                players |-> lobby.players]
        /\ d = [mode |-> lobby.mode, status |-> "LEADERBOARD", currentQuestionIndex |-> n,
                players |-> lobby.players]
    BY <1>0, <2>2 DEF Lobby
  <2>4. c \in Lobby /\ d \in Lobby
    BY <1>0, <2>3, LobbyFields, LobbyIs DEF Statuses
  <2>5. IF n >= Questions THEN AcceptEvent(r, Host, "ending", d)
                          ELSE AcceptEvent(r, Host, "saving", c)
    BY <1>3, <2>1, <2>2 DEF NextQuestion
  <2>6. CASE n >= Questions
    <3>1. Edit(Host, "ending", d)
      BY <2>3, <2>4, <2>n, PlainEdits
    <3> QED BY <1>0, <2>5, <2>6, <3>1 DEF Accepts
  <2>7. CASE ~(n >= Questions)
    <3>1. HasQuestion(c)
      BY <2>3, <2>7, <2>n, LobbyAssumption DEF HasQuestion
    <3>2. Edit(Host, "saving", c)
      BY <2>3, <2>4, <2>n, <3>1, PlainEdits
    <3> QED BY <1>0, <2>5, <2>7, <3>2 DEF Accepts
  <2> QED BY <2>6, <2>7
<1>4. ASSUME NEW u \in Contestants, NEW delta \in Deltas, SubmitCompAnswer(r, u, delta)
      PROVE  Accepts(r)
  <2>1. lobby.status = "PLAYING" /\ AcceptEvent(r, u, "saving", Scored(lobby, u, delta, 0))
    BY <1>4 DEF SubmitCompAnswer, TakesAnswers
  <2>2. delta \in Nat /\ 0 \in 0 .. Tests
    BY LobbyAssumption
  <2>3. Edit(u, "saving", Scored(lobby, u, delta, 0))
    BY <2>1, <2>2, ScoredEdits
  <2> QED BY <2>1, <2>3 DEF Accepts
<1>5. ASSUME NEW u \in Contestants, NEW passed \in 0 .. Tests, SubmitCpSolution(r, u, passed)
      PROVE  Accepts(r)
  <2>1. PICK delta \in Nat, at \in {"saving", "solving"} :
          lobby.status = "PLAYING" /\ AcceptEvent(r, u, at, Scored(lobby, u, delta, passed))
    <3>1. /\ passed + (IF passed = Tests THEN 5 ELSE 0) \in Nat
          /\ (IF passed = Tests THEN "solving" ELSE "saving") \in {"saving", "solving"}
      OBVIOUS
    <3> QED BY <1>5, <3>1 DEF SubmitCpSolution, TakesAnswers
  <2>2. Edit(u, at, Scored(lobby, u, delta, passed))
    BY <2>1, ScoredEdits
  <2> QED BY <2>1, <2>2 DEF Accepts
<1> QED BY <1>1, <1>2, <1>3, <1>4, <1>5 DEF HostStep, PlayerStep

LEMMA LobbyStarts == LobbyInit => LobbyTyped /\ ScoresInv /\ GameInv
<1> SUFFICES ASSUME LobbyInit PROVE LobbyTyped /\ ScoresInv /\ GameInv
  OBVIOUS
<1>1. PICK mode \in Modes : lobby = NewLobby(mode)
  BY DEF LobbyInit
<1>2. /\ lobby \in Lobby /\ lobby.players = <<NewPlayer(Host)>> /\ lobby.status = "WAITING"
      /\ lobby.currentQuestionIndex = -1
  BY <1>1, NewLobbies DEF NewLobby
<1>3. /\ \A r \in EventSlots : event[r] = NoEvent /\ ~Busy(r)
      /\ event \in [EventSlots -> EventDoc]
  BY NoEventIs DEF LobbyInit, Busy
<1>4. /\ DOMAIN lobby.players = {1} /\ lobby.players[1].score = 0
      /\ \A u \in Contestants : earned[u] = 0
      /\ earned \in [Contestants -> Int] /\ lobby.players[1].user \in Contestants
  BY <1>2, LobbyAssumption DEF LobbyInit, NewPlayer
<1>5. LobbyTyped
  BY <1>2, <1>3, <1>4 DEF LobbyTyped
<1>6. ScoresInv
  BY <1>2, <1>3, <1>4 DEF ScoresInv, Unlike
<1>7. GameInv
  BY <1>2, <1>3 DEF GameInv, HasQuestion
<1> QED BY <1>5, <1>6, <1>7

\* What a save makes of the lobby, given what copies are.
LEMMA SaveMerges ==
  ASSUME LobbyTyped, ScoresInv, NEW r \in EventSlots, Busy(r), NEW m, m = Merge(lobby, event[r])
  PROVE  /\ m \in Lobby /\ m.mode = lobby.mode /\ m.currentQuestionIndex >= -1
         /\ Len(m.players) = Len(lobby.players)
         /\ DOMAIN m.players = DOMAIN lobby.players
         /\ \A i \in DOMAIN lobby.players : m.players[i].user = lobby.players[i].user
         /\ Joined(m) = Joined(lobby) /\ Unlike(m.players)
         /\ DOMAIN event[r].base.players = DOMAIN event[r].copy.players
         /\ DOMAIN event[r].copy.players \subseteq DOMAIN lobby.players
         /\ \A i \in DOMAIN event[r].copy.players :
              /\ event[r].base.players[i].user = lobby.players[i].user
              /\ event[r].copy.players[i].user = lobby.players[i].user
              /\ m.players[i].score =
                   IF event[r].copy.players[i].score # event[r].base.players[i].score
                   THEN event[r].copy.players[i].score ELSE lobby.players[i].score
         /\ \A i \in DOMAIN lobby.players :
              \/ lobby.players[i].user # event[r].user
              \/ event[r].pc = "ending"
              \/ i \notin DOMAIN event[r].copy.players
              => m.players[i].score = lobby.players[i].score
<1> DEFINE e == event[r]
<1>1. /\ e \in EventDoc /\ lobby \in Lobby /\ e.base \in Lobby /\ e.copy \in Lobby
      /\ CopyInv(e) /\ lobby.currentQuestionIndex >= -1
      /\ Unlike(lobby.players)
  BY EventFields DEF LobbyTyped, ScoresInv
<1>2. /\ Len(e.copy.players) = Len(e.base.players)
      /\ Len(e.base.players) <= Len(lobby.players)
      /\ e.copy.currentQuestionIndex >= -1
  BY <1>1 DEF CopyInv, Alike
<1>3. /\ m \in Lobby /\ m.mode = lobby.mode /\ Len(m.players) = Len(lobby.players)
      /\ DOMAIN m.players = DOMAIN lobby.players
      /\ m.currentQuestionIndex = IF e.copy.currentQuestionIndex # e.base.currentQuestionIndex
                                  THEN e.copy.currentQuestionIndex ELSE lobby.currentQuestionIndex
      /\ \A i \in DOMAIN lobby.players :
           /\ m.players[i].user = lobby.players[i].user
           /\ i \in DOMAIN e.copy.players =>
                m.players[i].score = IF e.copy.players[i].score # e.base.players[i].score
                                     THEN e.copy.players[i].score ELSE lobby.players[i].score
           /\ i \notin DOMAIN e.copy.players => m.players[i] = lobby.players[i]
  BY <1>1, <1>2, MergeKeeps, SMTT(30)
<1>4. m.currentQuestionIndex >= -1
  BY <1>1, <1>2, <1>3
<1>5. /\ DOMAIN e.base.players = DOMAIN e.copy.players
      /\ DOMAIN e.copy.players \subseteq DOMAIN lobby.players
  <2>1. /\ DOMAIN e.base.players = 1 .. Len(e.base.players)
        /\ DOMAIN e.copy.players = 1 .. Len(e.copy.players)
        /\ DOMAIN lobby.players = 1 .. Len(lobby.players)
        /\ Len(e.base.players) \in Nat /\ Len(lobby.players) \in Nat
    BY <1>1, LobbyFields
  <2> QED BY <1>2, <2>1
<1>6. \A i \in DOMAIN e.copy.players :
        /\ e.base.players[i].user = lobby.players[i].user
        /\ e.copy.players[i].user = lobby.players[i].user
  BY <1>1, <1>5 DEF CopyInv, Alike
<1>7. Joined(m) = Joined(lobby) /\ Unlike(m.players)
  BY <1>1, <1>3 DEF Joined, Unlike
<1>8. ASSUME NEW i \in DOMAIN lobby.players,
             \/ lobby.players[i].user # e.user
             \/ e.pc = "ending"
             \/ i \notin DOMAIN e.copy.players
      PROVE  m.players[i].score = lobby.players[i].score
  <2>1. CASE i \notin DOMAIN e.copy.players
    BY <1>3, <2>1
  <2>2. CASE i \in DOMAIN e.copy.players
    <3>1. e.copy.players[i].score = e.base.players[i].score
      BY <1>1, <1>6, <1>8, <2>2 DEF CopyInv
    <3> QED BY <1>3, <2>2, <3>1
  <2> QED BY <2>1, <2>2
<1> QED BY <1>3, <1>4, <1>5, <1>6, <1>7, <1>8

\* Players join at the end.
LEMMA AlikeGrows ==
  ASSUME NEW p, NEW l \in Lobby, NEW m \in Lobby, Alike(p, l.players), Len(p) \in Nat,
         DOMAIN p = 1 .. Len(p), Len(l.players) <= Len(m.players),
         \A i \in DOMAIN l.players : m.players[i].user = l.players[i].user
  PROVE  Alike(p, m.players)
<1>1. /\ Len(l.players) \in Nat /\ Len(m.players) \in Nat
      /\ DOMAIN l.players = 1 .. Len(l.players)
  BY LobbyFields
<1> QED BY <1>1 DEF Alike

\* The copies go on fitting when the lobby has changed.
LEMMA CopiesStay ==
  ASSUME NEW e \in EventDoc, CopyInv(e), lobby \in Lobby, lobby' \in Lobby,
         Len(lobby.players) <= Len(lobby'.players),
         \A i \in DOMAIN lobby.players : lobby'.players[i].user = lobby.players[i].user
  PROVE  /\ Alike(e.base.players, lobby'.players)
         /\ Alike(e.copy.players, lobby'.players)
<1>1. /\ e.base \in Lobby /\ e.copy \in Lobby
      /\ Alike(e.copy.players, e.base.players) /\ Alike(e.base.players, lobby.players)
  BY EventFields DEF CopyInv
<1>2. /\ Len(e.base.players) \in Nat /\ DOMAIN e.base.players = 1 .. Len(e.base.players)
      /\ Len(e.copy.players) \in Nat /\ DOMAIN e.copy.players = 1 .. Len(e.copy.players)
  BY <1>1, LobbyFields
<1>3. Alike(e.base.players, lobby'.players)
  BY <1>1, <1>2, AlikeGrows
<1>4. \A i \in DOMAIN e.base.players : lobby'.players[i].user = e.base.players[i].user
  BY <1>3 DEF Alike
<1>5. Len(e.base.players) <= Len(lobby'.players)
  BY <1>3 DEF Alike
<1>6. Alike(e.copy.players, lobby'.players)
  BY <1>1, <1>2, <1>4, <1>5, AlikeGrows
<1> QED BY <1>3, <1>6

\* What does not depend on the requests, and what does.
StoredInv ==
    /\ Unlike(lobby.players) /\ lobby.currentQuestionIndex >= -1
    /\ \A u \in Contestants \ Joined(lobby) : earned[u] = 0
    /\ \A i \in DOMAIN lobby.players :
         lobby.players[i].user \notin crossed =>
           lobby.players[i].score = earned[lobby.players[i].user]

HeldInv(r) == Busy(r) =>
    /\ CopyInv(event[r])
    /\ event[r].user \notin crossed =>
         \A i \in DOMAIN event[r].base.players :
           event[r].base.players[i].user = event[r].user =>
             event[r].base.players[i].score = lobby.players[i].score

AloneInv == \A r, o \in EventSlots :
    Busy(r) /\ Busy(o) /\ event[r].user = event[o].user /\ event[r].user \notin crossed => r = o

LEMMA ScoresParts == ScoresInv <=> StoredInv /\ AloneInv /\ \A r \in EventSlots : HeldInv(r)
  BY DEF ScoresInv, StoredInv, AloneInv, HeldInv

LEMMA ScoresPartsNext ==
  ASSUME StoredInv', AloneInv', \A r \in EventSlots : HeldInv(r)' PROVE ScoresInv'
  BY DEF ScoresInv, StoredInv, AloneInv, HeldInv

\* A request that leaves the players as they are.
LEMMA HeldStays ==
  ASSUME NEW o \in EventSlots, event'[o] = event[o], HeldInv(o), crossed \subseteq crossed',
         lobby' = lobby
  PROVE  HeldInv(o)'
  BY DEF HeldInv, Busy, CopyInv

LEMMA AcceptScores ==
  ASSUME LobbyTyped, ScoresInv, NEW r \in EventSlots, Accepts(r)
  PROVE  LobbyTyped' /\ ScoresInv'
<1>0. PICK u \in Contestants, at \in {"joining", "saving", "solving", "ending"} : \E c :
        AcceptEvent(r, u, at, c) /\ Edit(u, at, c)
  BY DEF Accepts
<1>1. PICK c : AcceptEvent(r, u, at, c) /\ Edit(u, at, c)
  BY <1>0
<1>2. /\ ~Busy(r) /\ UNCHANGED <<lobby, earned>> /\ crossed \subseteq crossed'
      /\ event' = [event EXCEPT ![r] = [pc |-> at, user |-> u, base |-> lobby, copy |-> c]]
      /\ u \notin crossed' => \A o \in EventSlots : Busy(o) => event[o].user # u
  BY <1>1 DEF AcceptEvent, Free, Busy
<1>3. [pc |-> at, user |-> u, base |-> lobby, copy |-> c] \in EventDoc
  BY <1>1 DEF Edit, LobbyTyped, EventDoc
<1>4. PICK e \in EventDoc : e = [pc |-> at, user |-> u, base |-> lobby, copy |-> c]
  BY <1>3
<1>5. LobbyTyped'
  BY <1>2, <1>3 DEF LobbyTyped
<1>6. event'[r] = e /\ \A o \in EventSlots \ {r} : event'[o] = event[o]
  BY <1>2, <1>4 DEF LobbyTyped
<1>7. StoredInv'
  BY <1>2 DEF ScoresInv, StoredInv, Joined
<1>8. HeldInv(r)'
  <2>1. CopyInv(e)'
    <3>1. Alike(lobby.players, lobby.players)
      BY LobbyFields DEF LobbyTyped, Alike
    <3> QED BY <1>1, <1>2, <1>4, <3>1 DEF CopyInv, Edit
  <2>2. e.base = lobby'
    BY <1>2, <1>4
  <2>3. CopyInv(event[r])'
    BY <1>6, <2>1 DEF CopyInv
  <2> QED BY <1>6, <2>2, <2>3 DEF HeldInv
<1>9. \A o \in EventSlots \ {r} : HeldInv(o)'
  BY <1>2, <1>6, HeldStays, ScoresParts
<1>10. AloneInv'
  <2>1. ASSUME NEW o \in EventSlots, o # r, Busy(o)', event'[o].user = u, u \notin crossed'
        PROVE  FALSE
    BY <1>2, <1>6, <2>1 DEF Busy
  <2>2. event'[r].user = u
    BY <1>4, <1>6
  <2> QED BY <1>2, <1>6, <2>1, <2>2, ScoresParts DEF AloneInv, Busy
<1> QED BY <1>5, <1>7, <1>8, <1>9, <1>10, ScoresPartsNext

\* A request that ends.
LEMMA FreedScores ==
  ASSUME LobbyTyped, ScoresInv, NEW r \in EventSlots, FinishEvent(r), StoredInv',
         lobby' \in Lobby, earned' \in [Contestants -> Int], crossed' = crossed,
         Len(lobby.players) <= Len(lobby'.players),
         \A i \in DOMAIN lobby.players : lobby'.players[i].user = lobby.players[i].user,
         \A i \in DOMAIN lobby.players :
           lobby'.players[i].score = lobby.players[i].score
             \/ lobby.players[i].user = event[r].user,
         Busy(r)
  PROVE  LobbyTyped' /\ ScoresInv'
<1>1. event'[r] = NoEvent /\ \A o \in EventSlots \ {r} : event'[o] = event[o]
  BY DEF FinishEvent, LobbyTyped
<1>2. LobbyTyped'
  BY NoEventIs DEF FinishEvent, LobbyTyped
<1>3. ~Busy(r)'
  BY <1>1, NoEventIs DEF Busy
<1>4. AloneInv'
  BY <1>1, <1>3, ScoresParts DEF AloneInv, Busy
<1>5. ASSUME NEW o \in EventSlots, o # r, Busy(o) PROVE HeldInv(o)'
  <2>1. event[o] \in EventDoc /\ CopyInv(event[o]) /\ lobby \in Lobby
    BY <1>5 DEF ScoresInv, LobbyTyped
  <2>2. CopyInv(event[o])'
    <3>1. Alike(event[o].base.players, lobby'.players)
      BY <2>1, CopiesStay
    <3> QED BY <1>1, <1>5, <2>1, <3>1 DEF CopyInv
  <2>3. ASSUME event[o].user \notin crossed, NEW i \in DOMAIN event[o].base.players,
               event[o].base.players[i].user = event[o].user
        PROVE  event[o].base.players[i].score = lobby'.players[i].score
    <3>1. event[o].base.players[i].score = lobby.players[i].score
      BY <1>5, <2>3 DEF ScoresInv
    <3>2. lobby.players[i].user = event[o].user /\ i \in DOMAIN lobby.players
      <4>1. /\ DOMAIN event[o].base.players = 1 .. Len(event[o].base.players)
            /\ DOMAIN lobby.players = 1 .. Len(lobby.players)
            /\ Len(event[o].base.players) \in Nat /\ Len(lobby.players) \in Nat
        BY <2>1, EventFields, LobbyFields
      <4> QED BY <2>1, <2>3, <4>1 DEF CopyInv, Alike
    <3>3. event[r].user # event[o].user
      BY <1>5, <2>3 DEF ScoresInv
    <3> QED BY <3>1, <3>2, <3>3
  <2> QED BY <1>1, <1>5, <2>2, <2>3 DEF HeldInv
<1>6. ASSUME NEW o \in EventSlots, o # r, ~Busy(o) PROVE HeldInv(o)'
  BY <1>1, <1>6 DEF HeldInv, Busy
<1>7. HeldInv(r)'
  BY <1>3 DEF HeldInv
<1>8. \A o \in EventSlots : HeldInv(o)'
  BY <1>5, <1>6, <1>7
<1> QED BY <1>2, <1>4, <1>8, ScoresPartsNext

LEMMA PushScores ==
  ASSUME LobbyTyped, ScoresInv, NEW r \in EventSlots, PushPlayer(r)
  PROVE  LobbyTyped' /\ ScoresInv'
<1>0. /\ FinishEvent(r) /\ Busy(r) /\ earned' = earned /\ crossed' = crossed
      /\ event[r].user \in Contestants /\ lobby \in Lobby
      /\ lobby.players \in Seq(Player) /\ Len(lobby.players) \in Nat
      /\ DOMAIN lobby.players = 1 .. Len(lobby.players)
  BY LobbyFields, EventFields DEF PushPlayer, LobbyTyped, Busy, lobbyHistory
<1>1. CASE lobby' = lobby
  <2>1. StoredInv'
    BY <1>0, <1>1 DEF ScoresInv, StoredInv, Joined
  <2>2. earned' \in [Contestants -> Int]
    BY <1>0 DEF LobbyTyped
  <2> QED BY <1>0, <1>1, <2>1, <2>2, FreedScores
<1>2. CASE lobby' # lobby
  <2> DEFINE u == event[r].user
  <2>1. /\ u \notin Joined(lobby)
        /\ lobby' = [lobby EXCEPT !.players = Append(@, NewPlayer(u))]
    BY <1>2 DEF PushPlayer, MayPush
  <2>2. PICK p \in Player : p = NewPlayer(u)
    <3>1. NewPlayer(u) \in Player
      BY <1>0, LobbyAssumption DEF NewPlayer, Player
    <3> QED BY <3>1
  <2>3. p.user = u /\ p.score = 0
    BY <2>2 DEF NewPlayer
  <2>4. PICK q : q = Append(lobby.players, p)
    OBVIOUS
  <2>5. /\ q \in Seq(Player) /\ Len(q) = Len(lobby.players) + 1
        /\ DOMAIN q = 1 .. Len(lobby.players) + 1
        /\ \A i \in DOMAIN lobby.players : q[i] = lobby.players[i]
        /\ q[Len(lobby.players) + 1] = p
    BY <1>0, <2>4
  <2>6. /\ lobby' \in Lobby /\ lobby'.players = q
        /\ lobby'.currentQuestionIndex = lobby.currentQuestionIndex
    BY <1>0, <2>1, <2>2, <2>4, <2>5 DEF Lobby
  <2>7. Unlike(q)
    <3>1. \A i \in DOMAIN lobby.players : lobby.players[i].user # u
      BY <2>1 DEF Joined
    <3>2. DOMAIN q = DOMAIN lobby.players \cup {Len(lobby.players) + 1}
      BY <1>0, <2>5
    <3>3. Unlike(lobby.players)
      BY DEF ScoresInv
    <3> QED BY <2>3, <2>5, <3>1, <3>2, <3>3, ZenonT(30) DEF Unlike
  <2>8. Joined(lobby') = Joined(lobby) \cup {u}
    <3>1. DOMAIN q = DOMAIN lobby.players \cup {Len(lobby.players) + 1}
      BY <1>0, <2>5
    <3>2. Joined(lobby') = {q[i].user : i \in DOMAIN q}
      BY <2>6 DEF Joined
    <3>3. \A x : x \in {q[i].user : i \in DOMAIN q} <=> x \in Joined(lobby) \cup {u}
      BY <2>3, <2>5, <3>1 DEF Joined
    <3> QED BY <3>2, <3>3
  <2>9. earned[u] = 0
    BY <1>0, <2>1 DEF ScoresInv
  <2>10. StoredInv'
    <3>1. \A i \in DOMAIN q : q[i].user \notin crossed => q[i].score = earned[q[i].user]
      <4>1. DOMAIN q = DOMAIN lobby.players \cup {Len(lobby.players) + 1}
        BY <1>0, <2>5
      <4> QED BY <2>3, <2>5, <2>9, <4>1 DEF ScoresInv
    <3> QED BY <1>0, <2>6, <2>7, <2>8, <3>1 DEF ScoresInv, StoredInv
  <2>11. /\ Len(lobby.players) <= Len(lobby'.players)
         /\ \A i \in DOMAIN lobby.players : lobby'.players[i] = lobby.players[i]
    BY <1>0, <2>5, <2>6
  <2>12. earned' \in [Contestants -> Int]
    BY <1>0 DEF LobbyTyped
  <2> QED BY <1>0, <2>6, <2>10, <2>11, <2>12, FreedScores
<1> QED BY <1>1, <1>2

LEMMA EndScores ==
  ASSUME LobbyTyped, ScoresInv, NEW r \in EventSlots, End(r)
  PROVE  LobbyTyped' /\ ScoresInv'
<1>0. /\ FinishEvent(r) /\ Busy(r) /\ earned' = earned /\ crossed' = crossed
      /\ event[r].pc = "ending" /\ lobby' = Merge(lobby, event[r])
      /\ earned' \in [Contestants -> Int]
  BY DEF End, LobbyTyped, Busy, lobbyHistory
<1>1. /\ lobby' \in Lobby /\ lobby'.currentQuestionIndex >= -1
      /\ Len(lobby'.players) = Len(lobby.players) /\ Unlike(lobby'.players)
      /\ DOMAIN lobby'.players = DOMAIN lobby.players /\ Joined(lobby') = Joined(lobby)
      /\ \A i \in DOMAIN lobby.players :
           /\ lobby'.players[i].user = lobby.players[i].user
           /\ lobby'.players[i].score = lobby.players[i].score
  BY <1>0, SaveMerges
<1>2. Len(lobby.players) <= Len(lobby'.players)
  BY <1>1, LobbyFields
<1>3. StoredInv'
  BY <1>0, <1>1 DEF ScoresInv, StoredInv
<1> QED BY <1>0, <1>1, <1>2, <1>3, FreedScores

LEMMA FailScores ==
  ASSUME LobbyTyped, ScoresInv, NEW r \in EventSlots, LobbyFails(r)
  PROVE  LobbyTyped' /\ ScoresInv'
<1>0. /\ FinishEvent(r) /\ Busy(r) /\ earned' = earned /\ crossed' = crossed /\ lobby' = lobby
      /\ earned' \in [Contestants -> Int] /\ lobby' \in Lobby
      /\ Len(lobby.players) <= Len(lobby'.players)
  BY LobbyFields DEF LobbyFails, LobbyTyped, Busy, Free, lobbyHistory
<1>1. StoredInv'
  BY <1>0 DEF ScoresInv, StoredInv, Joined
<1> QED BY <1>0, <1>1, FreedScores

LEMMA ScoreOfIs ==
  ASSUME NEW l \in Lobby, Unlike(l.players), NEW i \in DOMAIN l.players
  PROVE  ScoreOf(l, l.players[i].user) = l.players[i].score
<1>1. PICK u : u = l.players[i].user
  OBVIOUS
<1>2. PICK j \in DOMAIN l.players :
        j = CHOOSE k \in DOMAIN l.players : l.players[k].user = u
  BY <1>1
<1>3. l.players[j].user = u
  BY <1>1, <1>2
<1>4. j = i
  BY <1>1, <1>3 DEF Unlike
<1> QED BY <1>1, <1>2, <1>4 DEF ScoreOf

\* What a save leaves stored, whoever is given points.
LEMMA SaveStored ==
  ASSUME LobbyTyped, ScoresInv, NEW r \in EventSlots, Save(r)
  PROVE  /\ earned' \in [Contestants -> Int] /\ StoredInv'
         /\ \A i \in DOMAIN event[r].base.players :
              event[r].user \notin crossed /\ event[r].base.players[i].user = event[r].user =>
                lobby'.players[i].score = event[r].copy.players[i].score
<1> DEFINE e == event[r]
           u == e.user
<1>0. /\ Busy(r) /\ crossed' = crossed /\ lobby' = Merge(lobby, e) /\ e.pc # "ending"
      /\ earned' = IF u \in Joined(e.base)
                   THEN [earned EXCEPT ![u] = @ + ScoreOf(e.copy, u) - ScoreOf(e.base, u)]
                   ELSE earned
      /\ earned \in [Contestants -> Int] /\ u \in Contestants
      /\ e.base \in Lobby /\ e.copy \in Lobby /\ lobby \in Lobby
  BY EventFields DEF Save, Busy, LobbyTyped
<1>1. /\ lobby' \in Lobby /\ lobby'.currentQuestionIndex >= -1
      /\ DOMAIN lobby'.players = DOMAIN lobby.players
      /\ Joined(lobby') = Joined(lobby) /\ Unlike(lobby'.players)
      /\ \A i \in DOMAIN lobby.players : lobby'.players[i].user = lobby.players[i].user
      /\ DOMAIN e.base.players = DOMAIN e.copy.players
      /\ DOMAIN e.copy.players \subseteq DOMAIN lobby.players
      /\ \A i \in DOMAIN e.copy.players :
           /\ e.base.players[i].user = lobby.players[i].user
           /\ e.copy.players[i].user = lobby.players[i].user
           /\ lobby'.players[i].score =
                IF e.copy.players[i].score # e.base.players[i].score
                THEN e.copy.players[i].score ELSE lobby.players[i].score
      /\ \A i \in DOMAIN lobby.players :
           lobby.players[i].user # u \/ i \notin DOMAIN e.copy.players
             => lobby'.players[i].score = lobby.players[i].score
  BY <1>0, SaveMerges
<1>2. Unlike(lobby.players) /\ Unlike(e.base.players) /\ Unlike(e.copy.players)
  <2>1. Unlike(lobby.players)
    BY DEF ScoresInv
  <2> QED BY <1>1, <2>1 DEF Unlike
<1>3. ASSUME NEW i \in DOMAIN e.copy.players, lobby.players[i].user = u
      PROVE  /\ earned'[u] = earned[u] + e.copy.players[i].score - e.base.players[i].score
             /\ \A v \in Contestants \ {u} : earned'[v] = earned[v]
             /\ earned' \in [Contestants -> Int]
             /\ e.copy.players[i].score \in Nat /\ e.base.players[i].score \in Nat
  <2>1. /\ ScoreOf(e.copy, u) = e.copy.players[i].score
        /\ ScoreOf(e.base, u) = e.base.players[i].score
    <3>1. /\ e.copy.players[i].user = u /\ e.base.players[i].user = u
          /\ i \in DOMAIN e.base.players
      BY <1>1, <1>3
    <3> QED BY <1>0, <1>2, <3>1, ScoreOfIs
  <2>2. u \in Joined(e.base)
    BY <1>1, <1>3 DEF Joined
  <2>3. e.copy.players[i].score \in Nat /\ e.base.players[i].score \in Nat
    BY <1>0, <1>1, LobbyFields
  <2>4. PICK n \in Int : n = earned[u] + e.copy.players[i].score - e.base.players[i].score
    BY <1>0, <2>3
  <2>5. earned' = [earned EXCEPT ![u] = n]
    BY <1>0, <2>1, <2>2, <2>4
  <2>6. /\ earned' \in [Contestants -> Int] /\ earned'[u] = n
        /\ \A v \in Contestants \ {u} : earned'[v] = earned[v]
    BY <1>0, <2>4, <2>5
  <2> QED BY <2>3, <2>4, <2>6
<1>4. ASSUME \A i \in DOMAIN e.copy.players : lobby.players[i].user # u
      PROVE  earned' = earned
  <2>1. u \notin Joined(e.base)
    BY <1>1, <1>4 DEF Joined
  <2> QED BY <1>0, <2>1
<1>5. earned' \in [Contestants -> Int]
  BY <1>0, <1>3, <1>4
<1>6. \A v \in Contestants : v # u => earned'[v] = earned[v]
  BY <1>3, <1>4
<1>7. \A v \in Contestants \ Joined(lobby') : earned'[v] = 0
  <2> SUFFICES ASSUME NEW v \in Contestants, v \notin Joined(lobby) PROVE earned'[v] = 0
    BY <1>1
  <2>1. earned[v] = 0
    BY DEF ScoresInv
  <2>2. CASE v = u
    <3>1. \A i \in DOMAIN e.copy.players : lobby.players[i].user # u
      BY <1>1, <2>2 DEF Joined
    <3> QED BY <1>4, <2>1, <3>1
  <2> QED BY <1>6, <2>1, <2>2
<1>8. ASSUME NEW i \in DOMAIN e.copy.players, lobby.players[i].user = u, u \notin crossed
      PROVE  /\ lobby'.players[i].score = e.copy.players[i].score
             /\ lobby'.players[i].score = earned'[u]
  <2>1. i \in DOMAIN e.base.players /\ i \in DOMAIN lobby.players /\ e.base.players[i].user = u
    BY <1>1, <1>8
  <2>2. e.base.players[i].score = lobby.players[i].score
    BY <1>0, <1>8, <2>1 DEF ScoresInv
  <2>3. lobby.players[i].score = earned[u]
    BY <1>8, <2>1 DEF ScoresInv
  <2>4. lobby'.players[i].score = e.copy.players[i].score
    BY <1>1, <2>2
  <2> QED BY <1>3, <1>8, <2>2, <2>3, <2>4
<1>9. \A i \in DOMAIN lobby'.players :
        lobby'.players[i].user \notin crossed' =>
          lobby'.players[i].score = earned'[lobby'.players[i].user]
  <2> SUFFICES ASSUME NEW i \in DOMAIN lobby.players, lobby.players[i].user \notin crossed
               PROVE  lobby'.players[i].score = earned'[lobby.players[i].user]
    BY <1>0, <1>1
  <2>1. lobby.players[i].score = earned[lobby.players[i].user]
    BY DEF ScoresInv
  <2>2. lobby.players[i].user \in Contestants
    BY <1>0, LobbyFields
  <2>3. CASE lobby.players[i].user # u
    BY <1>1, <1>6, <2>1, <2>2, <2>3
  <2>4. CASE lobby.players[i].user = u /\ i \in DOMAIN e.copy.players
    BY <1>8, <2>4
  <2>5. CASE lobby.players[i].user = u /\ i \notin DOMAIN e.copy.players
    <3>1. \A j \in DOMAIN e.copy.players : lobby.players[j].user # u
      BY <1>1, <1>2, <2>5 DEF Unlike
    <3> QED BY <1>1, <1>4, <2>1, <2>5, <3>1
  <2> QED BY <2>3, <2>4, <2>5
<1>10. StoredInv'
  BY <1>1, <1>7, <1>9 DEF StoredInv
<1>11. \A i \in DOMAIN e.base.players :
         u \notin crossed /\ e.base.players[i].user = u =>
           lobby'.players[i].score = e.copy.players[i].score
  BY <1>1, <1>8
<1> QED BY <1>5, <1>10, <1>11

\* The second copy of a perfect solution.
EndsFrom(q, c, w) ==
    /\ w \in EventDoc
    /\ w.pc = "ending" /\ w.user = q.user /\ w.base = q.copy /\ w.copy = c

LEMMA EndingOf ==
  ASSUME NEW q \in EventDoc, NEW c \in Lobby, c = [q.copy EXCEPT !.status = "LEADERBOARD"],
         NEW w, w = [q EXCEPT !.pc = "ending", !.base = q.copy, !.copy.status = "LEADERBOARD"]
  PROVE  EndsFrom(q, c, w)
<1>1. [q EXCEPT !.pc = "ending", !.base = q.copy, !.copy.status = "LEADERBOARD"]
        = [q EXCEPT !.pc = "ending", !.base = q.copy,
                    !.copy = [q.copy EXCEPT !.status = "LEADERBOARD"]]
  OBVIOUS
<1>2. PICK b \in Lobby : b = q.copy
  BY EventFields
<1>3. ASSUME NEW d \in Lobby, NEW v, v = [q EXCEPT !.pc = "ending", !.base = b, !.copy = d]
      PROVE  /\ v \in EventDoc
             /\ v.pc = "ending" /\ v.user = q.user /\ v.base = b /\ v.copy = d
  <2>1. v \in EventDoc
    BY <1>3 DEF EventDoc
  <2>2. v.pc = "ending" /\ v.user = q.user
    BY <1>3 DEF EventDoc
  <2>3. v.base = b
    BY <1>3 DEF EventDoc
  <2>4. v.copy = d
    BY <1>3 DEF EventDoc
  <2> QED BY <2>1, <2>2, <2>3, <2>4
<1>4. w = [q EXCEPT !.pc = "ending", !.base = b, !.copy = c]
  BY <1>1, <1>2, Zenon
<1> QED BY <1>2, <1>3, <1>4, ZenonT(30) DEF EndsFrom

LEMMA SaveScores ==
  ASSUME LobbyTyped, ScoresInv, NEW r \in EventSlots, Save(r)
  PROVE  LobbyTyped' /\ ScoresInv'
<1> DEFINE e == event[r]
           wins == e.pc = "solving" /\ e.user \in Joined(e.copy)
           w == [e EXCEPT !.pc = "ending", !.base = e.copy, !.copy.status = "LEADERBOARD"]
<1>0. /\ Busy(r) /\ crossed' = crossed /\ lobby' = Merge(lobby, e)
      /\ e.pc \in {"saving", "solving"}
      /\ e \in EventDoc /\ e.base \in Lobby /\ e.copy \in Lobby /\ lobby \in Lobby
      /\ CopyInv(e)
  BY EventFields DEF Save, Busy, LobbyTyped, ScoresInv
<1>1. /\ lobby' \in Lobby /\ Len(lobby'.players) = Len(lobby.players)
      /\ DOMAIN lobby'.players = DOMAIN lobby.players
      /\ \A i \in DOMAIN lobby.players :
           /\ lobby'.players[i].user = lobby.players[i].user
           /\ lobby.players[i].user # e.user =>
                lobby'.players[i].score = lobby.players[i].score
  BY <1>0, SaveMerges
<1>2. Len(lobby.players) <= Len(lobby'.players)
  BY <1>0, <1>1, LobbyFields
<1>3. earned' \in [Contestants -> Int] /\ StoredInv'
  BY SaveStored
<1>4. CASE ~wins
  <2>1. FinishEvent(r)
    BY <1>4 DEF Save
  <2> QED BY <1>0, <1>1, <1>2, <1>3, <2>1, FreedScores
<1>5. CASE wins
  <2>1. event' = [event EXCEPT ![r] = w]
    BY <1>5 DEF Save
  <2>2. PICK c \in Lobby : c = [e.copy EXCEPT !.status = "LEADERBOARD"]
    BY <1>0 DEF Lobby, Statuses
  <2>3. /\ c.players = e.copy.players /\ c.mode = e.copy.mode
        /\ c.currentQuestionIndex = e.copy.currentQuestionIndex
    BY <1>0, <2>2 DEF Lobby
  <2>4. PICK x : x = w
    OBVIOUS
  <2>5. x = w /\ EndsFrom(e, c, x)
    BY <1>0, <2>2, <2>4, EndingOf
  <2> HIDE DEF w, e
  <2>6. x = w /\ x \in EventDoc
    BY <2>5 DEF EndsFrom
  <2>7. x.pc = "ending" /\ x.user = e.user /\ x.base = e.copy /\ x.copy = c
    BY <2>5 DEF EndsFrom
  <2> USE DEF e
  <2>8. event'[r] = x /\ \A o \in EventSlots \ {r} : event'[o] = event[o]
    BY <2>1, <2>6 DEF LobbyTyped
  <2>9. LobbyTyped'
    BY <1>1, <1>3, <2>1, <2>6 DEF LobbyTyped
  <2>10. CopyInv(x)'
    <3>1. Alike(e.copy.players, lobby'.players)
      BY <1>0, <1>1, <1>2, CopiesStay
    <3>2. Alike(e.copy.players, e.copy.players) /\ e.copy.currentQuestionIndex >= -1
      BY <1>0, LobbyFields DEF CopyInv, Alike
    <3> QED BY <2>3, <2>7, <3>1, <3>2 DEF CopyInv
  <2>11. HeldInv(r)'
    <3>1. DOMAIN e.base.players = DOMAIN e.copy.players
      BY <1>0, SaveMerges
    <3>2. ASSUME e.user \notin crossed, NEW i \in DOMAIN e.copy.players,
                 e.copy.players[i].user = e.user
          PROVE  e.copy.players[i].score = lobby'.players[i].score
      <4>1. e.base.players[i].user = e.user
        BY <1>0, <3>2 DEF CopyInv, Alike
      <4> QED BY <3>1, <3>2, <4>1, SaveStored
    <3>3. CopyInv(event[r])'
      BY <2>8, <2>10 DEF CopyInv
    <3> QED BY <1>0, <2>7, <2>8, <3>2, <3>3 DEF HeldInv
  <2>12. ASSUME NEW o \in EventSlots, o # r PROVE HeldInv(o)'
    <3>1. CASE ~Busy(o)
      BY <2>8, <2>12, <3>1 DEF HeldInv, Busy
    <3>2. CASE Busy(o)
      <4>1. event[o] \in EventDoc /\ CopyInv(event[o])
        BY <3>2 DEF ScoresInv, LobbyTyped
      <4>2. CopyInv(event[o])'
        <5>1. Alike(event[o].base.players, lobby'.players)
          BY <1>0, <1>1, <1>2, <4>1, CopiesStay
        <5> QED BY <2>8, <2>12, <4>1, <5>1 DEF CopyInv
      <4>3. ASSUME event[o].user \notin crossed, NEW i \in DOMAIN event[o].base.players,
                   event[o].base.players[i].user = event[o].user
            PROVE  event[o].base.players[i].score = lobby'.players[i].score
        <5>1. event[o].base.players[i].score = lobby.players[i].score
          BY <3>2, <4>3 DEF ScoresInv
        <5>2. lobby.players[i].user = event[o].user /\ i \in DOMAIN lobby.players
          BY <3>2, <4>1, <4>3, SaveMerges DEF CopyInv, Alike
        <5>3. e.user # event[o].user
          BY <1>0, <2>12, <3>2, <4>3 DEF ScoresInv
        <5> QED BY <1>1, <5>1, <5>2, <5>3
      <4> QED BY <1>0, <2>8, <2>12, <4>2, <4>3 DEF HeldInv
    <3> QED BY <3>1, <3>2
  <2>13. AloneInv'
    <3>1. \A o \in EventSlots : event'[o].user = event[o].user /\ (Busy(o)' => Busy(o))
      BY <1>0, <2>7, <2>8 DEF Busy
    <3> QED BY <1>0, <3>1, ScoresParts DEF AloneInv
  <2>14. \A o \in EventSlots : HeldInv(o)'
    BY <2>11, <2>12
  <2> QED BY <1>3, <2>9, <2>13, <2>14, ScoresPartsNext
<1> QED BY <1>4, <1>5

LEMMA ScoresStep ==
  LobbyTyped /\ ScoresInv /\ [LobbyNext]_lobbyVars => LobbyTyped' /\ ScoresInv'
<1> SUFFICES ASSUME LobbyTyped, ScoresInv, [LobbyNext]_lobbyVars PROVE LobbyTyped' /\ ScoresInv'
  OBVIOUS
<1>1. CASE UNCHANGED lobbyVars
  BY <1>1 DEF lobbyVars, lobbyHistory, LobbyTyped, ScoresInv, Joined, Busy, CopyInv
<1>2. ASSUME NEW r \in EventSlots, HostStep(r) \/ \E u \in Contestants : PlayerStep(r, u)
      PROVE  LobbyTyped' /\ ScoresInv'
  <2>1. lobby.currentQuestionIndex >= -1
    BY DEF ScoresInv
  <2> QED BY <1>2, <2>1, Accepted, AcceptScores
<1> QED BY <1>1, <1>2, PushScores, SaveScores, EndScores, FailScores DEF LobbyNext

(***************************************************************************)
(* While requests do not overlap, each one saves an edit of the lobby that *)
(* is stored, and no other waits.                                          *)
(***************************************************************************)
Orderly ==
    /\ \A r, o \in EventSlots : Busy(r) /\ Busy(o) => r = o
    /\ \A r \in EventSlots : Busy(r) => EndsWell(event[r])
    /\ lobby.status = "LEADERBOARD" => announced = Scores(lobby)
    /\ HasQuestion(lobby)

LEMMA GameIs == GameInv <=> (mingled \/ Orderly)
  BY DEF GameInv, Orderly

LEMMA GameIsNext == Orderly' => GameInv'
  BY DEF GameInv, Orderly

\* The only request under way ends.
LEMMA FreedOrderly ==
  ASSUME LobbyTyped, Orderly, NEW r \in EventSlots, Busy(r), FinishEvent(r),
         (lobby.status = "LEADERBOARD" => announced = Scores(lobby))', HasQuestion(lobby')
  PROVE  Orderly'
<1>1. event'[r] = NoEvent /\ \A o \in EventSlots \ {r} : event'[o] = event[o]
  BY DEF FinishEvent, LobbyTyped
<1>2. \A o \in EventSlots : ~Busy(o)'
  BY <1>1, NoEventIs DEF Orderly, Busy
<1>3. HasQuestion(lobby)'
  BY DEF HasQuestion
<1> QED BY <1>2, <1>3 DEF Orderly

LEMMA AcceptGame ==
  ASSUME LobbyTyped, GameInv, NEW r \in EventSlots, Accepts(r)
  PROVE  GameInv'
<1>0. PICK u \in Contestants, at \in {"joining", "saving", "solving", "ending"} : \E c :
        AcceptEvent(r, u, at, c) /\ Edit(u, at, c)
  BY DEF Accepts
<1>1. PICK c : AcceptEvent(r, u, at, c) /\ Edit(u, at, c)
  BY <1>0
<1>2. /\ UNCHANGED <<lobby, announced>>
      /\ event' = [event EXCEPT ![r] = [pc |-> at, user |-> u, base |-> lobby, copy |-> c]]
  BY <1>1 DEF AcceptEvent
<1>3. CASE mingled \/ \E o \in EventSlots : Busy(o)
  <2>1. mingled' = (mingled \/ \E o \in EventSlots : Busy(o))
    BY <1>1 DEF AcceptEvent, Free, Busy
  <2> QED BY <1>3, <2>1 DEF GameInv
<1>4. CASE ~mingled /\ \A o \in EventSlots : ~Busy(o)
  <2>1. Orderly
    BY <1>4, GameIs
  <2>2. PICK e : e = [pc |-> at, user |-> u, base |-> lobby, copy |-> c]
    OBVIOUS
  <2>3. e.pc = at /\ e.base = lobby /\ e.copy = c
    BY <2>2
  <2>4. event'[r] = e /\ \A o \in EventSlots \ {r} : event'[o] = event[o]
    BY <1>2, <2>2 DEF LobbyTyped
  <2>5. \A o \in EventSlots : Busy(o)' => o = r
    BY <1>4, <2>4 DEF Busy
  <2>6. EndsWell(e)'
    <3>1. HasQuestion(lobby) /\ lobby' = lobby
      BY <1>2, <2>1 DEF Orderly
    <3>2. /\ at = "ending" => c.status = "LEADERBOARD"
          /\ at \in {"saving", "solving"} =>
               /\ c.status = "LEADERBOARD" => lobby.status = "LEADERBOARD" /\ c.players = lobby.players
               /\ HasQuestion(c)
      BY <1>1, <3>1 DEF Edit
    <3>3. HasQuestion(e.copy)' <=> HasQuestion(e.copy)
      BY DEF HasQuestion
    <3> QED BY <2>3, <3>1, <3>2, <3>3 DEF EndsWell
  <2>7. EndsWell(event[r])'
    BY <2>4, <2>6 DEF EndsWell, HasQuestion
  <2>8. /\ HasQuestion(lobby)' 
        /\ (lobby.status = "LEADERBOARD" => announced = Scores(lobby))'
    BY <1>2, <2>1 DEF Orderly, HasQuestion, Scores
  <2>9. Orderly'
    BY <2>5, <2>7, <2>8 DEF Orderly
  <2> QED BY <2>9, GameIsNext
<1> QED BY <1>3, <1>4

LEMMA PushGame ==
  ASSUME LobbyTyped, GameInv, NEW r \in EventSlots, PushPlayer(r)
  PROVE  GameInv'
<1>0. /\ FinishEvent(r) /\ Busy(r) /\ mingled' = mingled /\ announced' = announced
  BY DEF PushPlayer, Busy, lobbyHistory
<1>1. /\ lobby'.status = lobby.status /\ lobby'.mode = lobby.mode
      /\ lobby'.currentQuestionIndex = lobby.currentQuestionIndex
      /\ lobby.status = "LEADERBOARD" => lobby' = lobby
  <2>1. CASE MayPush(lobby, event[r].user)
    <3>1. PICK p : p = Append(lobby.players, NewPlayer(event[r].user))
      OBVIOUS
    <3>2. lobby' = [lobby EXCEPT !.players = p] /\ lobby.status = "WAITING"
      BY <2>1, <3>1 DEF PushPlayer, MayPush
    <3> QED BY <3>2 DEF LobbyTyped, Lobby
  <2>2. CASE ~MayPush(lobby, event[r].user)
    BY <2>2 DEF PushPlayer
  <2> QED BY <2>1, <2>2
<1>2. CASE mingled
  BY <1>0, <1>2 DEF GameInv
<1>3. CASE ~mingled
  <2>1. Orderly
    BY <1>3, GameIs
  <2>2. HasQuestion(lobby')
    BY <1>1, <2>1 DEF Orderly, HasQuestion
  <2>3. (lobby.status = "LEADERBOARD" => announced = Scores(lobby))'
    BY <1>0, <1>1, <2>1 DEF Orderly, Scores
  <2>4. Orderly'
    BY <1>0, <2>1, <2>2, <2>3, FreedOrderly
  <2> QED BY <2>4, GameIsNext
<1> QED BY <1>2, <1>3

\* While requests do not overlap, a save stores its copy as it is.
LEMMA SavesCopy ==
  ASSUME LobbyTyped, ScoresInv, Orderly, NEW r \in EventSlots, Busy(r)
  PROVE  Merge(lobby, event[r]) = event[r].copy /\ EndsWell(event[r])
<1>1. event[r] \in EventDoc /\ CopyInv(event[r]) /\ EndsWell(event[r])
  BY DEF LobbyTyped, ScoresInv, Orderly
<1>2. event[r].base = lobby
  BY <1>1 DEF EndsWell
<1> QED BY <1>1, <1>2, MergeOfCurrent DEF CopyInv

LEMMA SaveGame ==
  ASSUME LobbyTyped, ScoresInv, GameInv, NEW r \in EventSlots, Save(r)
  PROVE  GameInv'
<1> DEFINE e == event[r]
           wins == e.pc = "solving" /\ e.user \in Joined(e.copy)
           w == [e EXCEPT !.pc = "ending", !.base = e.copy, !.copy.status = "LEADERBOARD"]
<1>0. /\ Busy(r) /\ mingled' = mingled /\ announced' = announced /\ lobby' = Merge(lobby, e)
      /\ e.pc \in {"saving", "solving"} /\ e \in EventDoc /\ e.copy \in Lobby
  BY EventFields DEF Save, Busy, LobbyTyped
<1>1. CASE mingled
  BY <1>0, <1>1 DEF GameInv
<1>2. CASE ~mingled
  <2>1. Orderly
    BY <1>2, GameIs
  <2>2. lobby' = e.copy /\ EndsWell(e)
    BY <1>0, <2>1, SavesCopy
  <2>3. HasQuestion(lobby')
    BY <1>0, <2>2 DEF EndsWell
  <2>4. (lobby.status = "LEADERBOARD" => announced = Scores(lobby))'
    <3> SUFFICES ASSUME lobby'.status = "LEADERBOARD" PROVE announced' = Scores(lobby')
      BY DEF Scores
    <3>1. lobby.status = "LEADERBOARD" /\ lobby'.players = lobby.players
      BY <1>0, <2>2 DEF EndsWell
    <3> QED BY <1>0, <2>1, <3>1 DEF Orderly, Scores
  <2>5. CASE ~wins
    <3>1. FinishEvent(r)
      BY <2>5 DEF Save
    <3>2. Orderly'
      BY <1>0, <2>1, <2>3, <2>4, <3>1, FreedOrderly
    <3> QED BY <3>2, GameIsNext
  <2>6. CASE wins
    <3>1. event' = [event EXCEPT ![r] = w]
      BY <2>6 DEF Save
    <3>2. PICK c \in Lobby : c = [e.copy EXCEPT !.status = "LEADERBOARD"]
      BY <1>0 DEF Lobby, Statuses
    <3>3. c.status = "LEADERBOARD"
      BY <1>0, <3>2 DEF Lobby
    <3>4. PICK x : x = w
      OBVIOUS
    <3>5. x = w /\ EndsFrom(e, c, x)
      BY <1>0, <3>2, <3>4, EndingOf
    <3> HIDE DEF w, e
    <3>6. x = w /\ x.pc = "ending" /\ x.base = e.copy /\ x.copy = c
      BY <3>5 DEF EndsFrom
    <3> USE DEF e
    <3>7. event'[r] = x /\ \A o \in EventSlots \ {r} : event'[o] = event[o]
      BY <3>1, <3>6 DEF LobbyTyped
    <3>8. \A o \in EventSlots : Busy(o)' => o = r
      BY <1>0, <2>1, <3>7 DEF Busy, Orderly
    <3>9. EndsWell(event[r])'
      BY <2>2, <3>3, <3>6, <3>7 DEF EndsWell
    <3>10. HasQuestion(lobby)'
      BY <2>3 DEF HasQuestion
    <3>11. Orderly'
      BY <2>4, <3>8, <3>9, <3>10 DEF Orderly
    <3> QED BY <3>11, GameIsNext
  <2> QED BY <2>5, <2>6
<1> QED BY <1>1, <1>2

LEMMA EndGame ==
  ASSUME LobbyTyped, ScoresInv, GameInv, NEW r \in EventSlots, End(r)
  PROVE  GameInv'
<1>0. /\ FinishEvent(r) /\ Busy(r) /\ mingled' = mingled /\ event[r].pc = "ending"
      /\ lobby' = Merge(lobby, event[r]) /\ announced' = Scores(event[r].copy)
  BY DEF End, Busy, lobbyHistory
<1>1. CASE mingled
  BY <1>0, <1>1 DEF GameInv
<1>2. CASE ~mingled
  <2>1. Orderly
    BY <1>2, GameIs
  <2>2. lobby' = event[r].copy /\ EndsWell(event[r])
    BY <1>0, <2>1, SavesCopy
  <2>3. lobby'.status = "LEADERBOARD" /\ announced' = Scores(lobby')
    BY <1>0, <2>2 DEF EndsWell
  <2>4. HasQuestion(lobby')
    BY <2>3 DEF HasQuestion
  <2>5. (lobby.status = "LEADERBOARD" => announced = Scores(lobby))'
    BY <2>3 DEF Scores
  <2>6. Orderly'
    BY <1>0, <2>1, <2>4, <2>5, FreedOrderly
  <2> QED BY <2>6, GameIsNext
<1> QED BY <1>1, <1>2

LEMMA FailGame ==
  ASSUME LobbyTyped, GameInv, NEW r \in EventSlots, LobbyFails(r)
  PROVE  GameInv'
<1>0. /\ FinishEvent(r) /\ Busy(r) /\ mingled' = mingled
      /\ lobby' = lobby /\ announced' = announced
  BY DEF LobbyFails, Busy, Free, lobbyHistory
<1>1. CASE mingled
  BY <1>0, <1>1 DEF GameInv
<1>2. CASE ~mingled
  <2>1. Orderly
    BY <1>2, GameIs
  <2>2. /\ HasQuestion(lobby')
        /\ (lobby.status = "LEADERBOARD" => announced = Scores(lobby))'
    BY <1>0, <2>1 DEF Orderly, HasQuestion, Scores
  <2>3. Orderly'
    BY <1>0, <2>1, <2>2, FreedOrderly
  <2> QED BY <2>3, GameIsNext
<1> QED BY <1>1, <1>2

LEMMA GameStep ==
  LobbyTyped /\ ScoresInv /\ GameInv /\ [LobbyNext]_lobbyVars => GameInv'
<1> SUFFICES ASSUME LobbyTyped, ScoresInv, GameInv, [LobbyNext]_lobbyVars PROVE GameInv'
  OBVIOUS
<1>1. CASE UNCHANGED lobbyVars
  BY <1>1 DEF lobbyVars, lobbyHistory, GameInv, Busy, EndsWell, HasQuestion, Scores
<1>2. ASSUME NEW r \in EventSlots, HostStep(r) \/ \E u \in Contestants : PlayerStep(r, u)
      PROVE  GameInv'
  <2>1. lobby.currentQuestionIndex >= -1
    BY DEF ScoresInv
  <2> QED BY <1>2, <2>1, Accepted, AcceptGame
<1> QED BY <1>1, <1>2, PushGame, SaveGame, EndGame, FailGame DEF LobbyNext

(***************************************************************************)
(* The lobby is sound.                                                     *)
(***************************************************************************)
LEMMA JoinedCount ==
  ASSUME NEW l \in Lobby, Unlike(l.players)
  PROVE  Cardinality(Joined(l)) = Len(l.players)
<1> DEFINE n == Len(l.players)
           f == [i \in 1 .. n |-> l.players[i].user]
<1>1. n \in Nat /\ DOMAIN l.players = 1 .. n
  BY LobbyFields
<1>2. f \in Bijection(1 .. n, Joined(l))
  <2>1. f \in [1 .. n -> Joined(l)]
    BY <1>1 DEF Joined
  <2>2. \A i, j \in 1 .. n : f[i] = f[j] => i = j
    BY <1>1 DEF Unlike
  <2>3. \A u \in Joined(l) : \E i \in 1 .. n : f[i] = u
    BY <1>1 DEF Joined
  <2> HIDE DEF f
  <2> QED BY <2>1, <2>2, <2>3 DEF Bijection, Injection, Surjection, IsInjective
<1>3. ExistsBijection(1 .. n, Joined(l))
  BY <1>2 DEF ExistsBijection
<1> HIDE DEF n
<1>4. Cardinality(Joined(l)) = n
  BY <1>1, <1>3, FS_CountingElements
<1> QED BY <1>4 DEF n

LEMMA LobbyInvIsSound == LobbyTyped /\ ScoresInv /\ GameInv => LobbyIsSound
<1> SUFFICES ASSUME LobbyTyped, ScoresInv, GameInv PROVE LobbyIsSound
  OBVIOUS
<1>1. NoDuplicatePlayers
  BY JoinedCount DEF LobbyTyped, ScoresInv, NoDuplicatePlayers
<1>2. ScoresAddUp
  BY DEF ScoresInv, ScoresAddUp
<1>3. LeaderboardIsAnnounced /\ PlayedQuizHasQuestion
  BY DEF GameInv, HasQuestion, LeaderboardIsAnnounced, PlayedQuizHasQuestion
<1> QED BY <1>1, <1>2, <1>3 DEF LobbyIsSound

\* However joins, answers and the host's steps overlap around stale copies of
\* the lobby, nobody is a player twice and a user who waits for each answer
\* has the points he was given; and until two requests overlap the leaderboard
\* is the one announced and the quiz is at one of its questions
\* (competition.controller.js joinLobby, socketio.js competition events).
THEOREM LobbyStaysSound == LobbySpec => []LobbyIsSound
<1>1. LobbyInit => LobbyTyped /\ ScoresInv /\ GameInv
  BY LobbyStarts
<1>2. LobbyTyped /\ ScoresInv /\ GameInv /\ [LobbyNext]_lobbyVars
        => (LobbyTyped /\ ScoresInv /\ GameInv)'
  BY ScoresStep, GameStep
<1> QED BY <1>1, <1>2, LobbyInvIsSound, PTL DEF LobbySpec
-----------------------------------------------------------------------------
(***************************************************************************)
(* RoomLimits.  A whiteboard is a sequence of sizes, and what the limits   *)
(* leave of it a suffix of a selection.  Sums and selections are taken     *)
(* from the front, so that the inductions are on the length of a prefix.   *)
(***************************************************************************)
LEMMA Induction ==
  ASSUME NEW T, 0 \in T, \A n \in Nat : n \in T => n + 1 \in T
  PROVE  \A n \in Nat : n \in T
<1> DEFINE Rest == {n \in Nat : n \notin T}
<1> SUFFICES ASSUME Rest # {} PROVE FALSE
  OBVIOUS
<1>1. PICK m \in Rest : \A k \in Rest : m <= k
  <2>1. Rest \subseteq Nat
    OBVIOUS
  <2> HIDE DEF Rest
  <2> QED BY <2>1, Smallest
<1>2. m \in Nat /\ m - 1 \in Nat
  BY <1>1
<1>3. m - 1 \in T
  BY <1>1, <1>2
<1>4. (m - 1) + 1 \in T
  BY <1>2, <1>3
<1> QED BY <1>1, <1>2, <1>4

SumsOf(t, F, S) == t \in [SUBSET S -> Int] /\ t = Unfolded(t, F, S)
AnyFirst(t, F, S) == \A A \in SUBSET S : \A x \in A : t[A] = F[x] + t[A \ {x}]

\* Any element may be taken off a sum first.
LEMMA Removal ==
  ASSUME NEW S, IsFiniteSet(S), NEW F \in [S -> Int], NEW t, SumsOf(t, F, S)
  PROVE  AnyFirst(t, F, S)
<1>t. t \in [SUBSET S -> Int] /\ t = Unfolded(t, F, S)
  BY DEF SumsOf
<1> DEFINE T == {A \in SUBSET S : \E x \in A : t[A] # F[x] + t[A \ {x}]}
<1> SUFFICES ASSUME T # {} PROVE FALSE
  BY DEF AnyFirst
<1>1. PICK A \in T : \A B \in T : B \subseteq A => B = A
  <2>1. T \subseteq SUBSET S
    OBVIOUS
  <2> HIDE DEF T
  <2> QED BY <2>1, SmallestSubset
<1>2. PICK x \in A : t[A] # F[x] + t[A \ {x}]
  BY <1>1
<1>3. PICK y \in A : y = First(A)
  BY <1>2 DEF First
<1>4. t[A] = F[y] + t[A \ {y}]
  BY <1>t, <1>1, <1>3 DEF Unfolded
<1>5. x # y
  BY <1>2, <1>4
<1>6. /\ A \ {y} \in SUBSET S /\ A \ {y} # A /\ x \in A \ {y}
      /\ A \ {x} \in SUBSET S /\ A \ {x} # A /\ y \in A \ {x}
  BY <1>1, <1>2, <1>3, <1>5
<1>7. /\ t[A \ {y}] = F[x] + t[(A \ {y}) \ {x}]
      /\ t[A \ {x}] = F[y] + t[(A \ {x}) \ {y}]
  <2>1. A \ {y} \notin T /\ A \ {x} \notin T
    <3> HIDE DEF T
    <3> QED BY <1>1, <1>6
  <2> QED BY <1>6, <2>1
<1>8. (A \ {y}) \ {x} = (A \ {x}) \ {y} /\ (A \ {x}) \ {y} \in SUBSET S
  BY <1>6
<1>9. PICK r \in Int : r = t[(A \ {x}) \ {y}] /\ r = t[(A \ {y}) \ {x}]
  BY <1>t, <1>8
<1>10. F[x] \in Int /\ F[y] \in Int
  BY <1>1, <1>2, <1>3
<1>11. t[A \ {y}] = F[x] + r /\ t[A \ {x}] = F[y] + r
  BY <1>7, <1>9
<1>12. F[y] + (F[x] + r) = F[x] + (F[y] + r)
  BY <1>10
<1> QED BY <1>2, <1>4, <1>11, <1>12

LEMMA TotalEmpty == Total(<<>>) = 0
<1>1. <<>> \in [{} -> Int] /\ IsFiniteSet({})
  BY FS_EmptySet
<1>2. \A x \in {} : <<>>[x] = 0
  OBVIOUS
<1> QED BY <1>1, <1>2, SumOfZeroes DEF Total

LEMMA TotalAppend ==
  ASSUME NEW s \in Seq(Nat), NEW x \in Nat
  PROVE  Total(Append(s, x)) = Total(s) + x
<1> DEFINE N == Len(s)
           S == 1 .. N
           U == 1 .. N + 1
           F == Append(s, x)
<1>1. /\ N \in Nat /\ S \subseteq U /\ U \ {N + 1} = S /\ N + 1 \in U
      /\ IsFiniteSet(S) /\ IsFiniteSet(U)
  BY FS_Interval, SMTT(30)
<1>2. /\ s \in [S -> Int] /\ F \in [U -> Int] /\ F[N + 1] = x
      /\ \A i \in S : F[i] = s[i]
  <2>1. /\ F \in Seq(Nat) /\ Len(F) = N + 1 /\ F[N + 1] = x
        /\ \A i \in S : F[i] = s[i]
    BY AppendProperties
  <2>2. F \in [1 .. Len(F) -> Nat] /\ s \in [1 .. Len(s) -> Nat]
    BY <2>1, LenProperties
  <2> QED BY <2>1, <2>2
<1> HIDE DEF S, U, F, N
<1>3. PICK u \in [SUBSET S -> Int] : u = Unfolded(u, s, S) /\ SumFunction(s) = u[S]
  BY <1>1, <1>2, SumsAreFolds
<1>4. PICK t \in [SUBSET U -> Int] : t = Unfolded(t, F, U) /\ SumFunction(F) = t[U]
  BY <1>1, <1>2, SumsAreFolds
<1>5. t[U] = x + t[S]
  <2>1. U \in SUBSET U
    OBVIOUS
  <2>2. AnyFirst(t, F, U)
    <3>1. IsFiniteSet(U) /\ F \in [U -> Int] /\ SumsOf(t, F, U)
      BY <1>1, <1>2, <1>4 DEF SumsOf
    <3> QED BY <3>1, Removal, Zenon
  <2>3. t[U] = F[N + 1] + t[U \ {N + 1}]
    BY <1>1, <2>1, <2>2 DEF AnyFirst
  <2> QED BY <1>1, <1>2, <2>3
<1>6. u[S] = t[S]
  <2> DEFINE T == {A \in SUBSET S : u[A] # t[A]}
  <2> SUFFICES ASSUME T # {} PROVE FALSE
    OBVIOUS
  <2>1. PICK A \in T : \A B \in T : B \subseteq A => B = A
    <3>1. T \subseteq SUBSET S
      OBVIOUS
    <3> HIDE DEF T
    <3> QED BY <1>1, <3>1, SmallestSubset
  <2>2. A \in SUBSET S /\ A \in SUBSET U /\ u[A] # t[A]
    BY <1>1, <2>1
  <2>3. A # {}
    BY <1>3, <1>4, <2>2 DEF Unfolded
  <2>4. PICK y \in A : y = First(A)
    BY <2>3 DEF First
  <2>5. u[A] = s[y] + u[A \ {y}] /\ t[A] = F[y] + t[A \ {y}]
    BY <1>3, <1>4, <2>2, <2>3, <2>4 DEF Unfolded
  <2>6. u[A \ {y}] = t[A \ {y}] /\ s[y] = F[y]
    <3>1. A \ {y} \in SUBSET S /\ A \ {y} # A /\ A \ {y} \subseteq A /\ y \in S
      BY <2>2, <2>4
    <3>2. A \ {y} \notin T
      <4> HIDE DEF T
      <4> QED BY <2>1, <3>1
    <3> QED BY <1>2, <3>1, <3>2
  <2> QED BY <2>2, <2>5, <2>6
<1>7. t[S] \in Int
  BY <1>1, <1>4
<1> QED BY <1>3, <1>4, <1>5, <1>6, <1>7 DEF Total, F

\* The first j of a sequence: those up to the i-th, and the slice after them.
LEMMA Slices ==
  ASSUME NEW b \in Seq(Nat), NEW i \in 0 .. Len(b), NEW j \in i .. Len(b)
  PROVE  /\ SubSeq(b, i + 1, j) \in Seq(Nat)
         /\ Len(SubSeq(b, i + 1, j)) = j - i
         /\ \A n \in 1 .. j - i : SubSeq(b, i + 1, j)[n] = b[i + n]
<1>1. Len(b) \in Nat /\ i \in Nat /\ j \in Nat /\ i <= j /\ j <= Len(b)
  OBVIOUS
<1>2. \A n \in i + 1 .. j : b[n] \in Nat
  BY <1>1
<1> QED BY <1>1, <1>2, SubSeqProperties

LEMMA SliceGrows ==
  ASSUME NEW b \in Seq(Nat), NEW i \in 0 .. Len(b), NEW j \in i .. Len(b), j < Len(b)
  PROVE  SubSeq(b, i + 1, j + 1) = Append(SubSeq(b, i + 1, j), b[j + 1])
<1>1. Len(b) \in Nat /\ i \in Nat /\ j \in Nat /\ i <= j /\ j + 1 \in i .. Len(b)
  OBVIOUS
<1> DEFINE s == SubSeq(b, i + 1, j)
           t == SubSeq(b, i + 1, j + 1)
<1>2. /\ s \in Seq(Nat) /\ Len(s) = j - i
      /\ \A n \in 1 .. j - i : s[n] = b[i + n]
  BY Slices
<1>3. /\ t \in Seq(Nat) /\ Len(t) = (j + 1) - i
      /\ \A n \in 1 .. (j + 1) - i : t[n] = b[i + n]
  BY <1>1, Slices
<1>4. b[j + 1] \in Nat
  BY <1>1
<1> HIDE DEF s, t
<1>5. /\ Append(s, b[j + 1]) \in Seq(Nat)
      /\ Len(Append(s, b[j + 1])) = (j + 1) - i
      /\ \A n \in 1 .. (j + 1) - i : Append(s, b[j + 1])[n] = b[i + n]
  <2>1. /\ Append(s, b[j + 1]) \in Seq(Nat)
        /\ Len(Append(s, b[j + 1])) = Len(s) + 1
        /\ \A n \in 1 .. Len(s) : Append(s, b[j + 1])[n] = s[n]
        /\ Append(s, b[j + 1])[Len(s) + 1] = b[j + 1]
    BY <1>2, <1>4, AppendProperties
  <2>2. (j - i) + 1 = (j + 1) - i /\ i + ((j + 1) - i) = j + 1
    BY <1>1
  <2>3. \A n \in 1 .. (j + 1) - i : n \in 1 .. j - i \/ n = (j + 1) - i
    BY <1>1
  <2> QED BY <1>2, <2>1, <2>2, <2>3
<1>6. t = Append(s, b[j + 1])
  BY <1>1, <1>3, <1>5, SeqEqual
<1> QED BY <1>6 DEF s, t

LEMMA EmptySlice ==
  ASSUME NEW b \in Seq(Nat), NEW i \in 0 .. Len(b)
  PROVE  SubSeq(b, i + 1, i) = <<>>
<1>1. i + 1 \in Int /\ i \in Int /\ i < i + 1
  OBVIOUS
<1> QED BY <1>1, SubSeqEmpty

LEMMA TotalIsNatural == \A b \in Seq(Nat) : Total(b) \in Nat
<1> SUFFICES ASSUME NEW b \in Seq(Nat) PROVE Total(b) \in Nat
  OBVIOUS
<1>1. b \in [1 .. Len(b) -> Nat] /\ IsFiniteSet(1 .. Len(b))
  BY FS_Interval
<1> QED BY <1>1, SumIsNatural DEF Total

LEMMA TotalOfSlices ==
  ASSUME NEW b \in Seq(Nat), NEW i \in 0 .. Len(b), NEW j \in i .. Len(b)
  PROVE  Total(SubSeq(b, 1, j)) = Total(SubSeq(b, 1, i)) + Total(SubSeq(b, i + 1, j))
<1> DEFINE Holds(k) == Total(SubSeq(b, 1, k))
                         = Total(SubSeq(b, 1, i)) + Total(SubSeq(b, i + 1, k))
           T == {n \in Nat : i + n <= Len(b) => Holds(i + n)}
<1>0. Len(b) \in Nat /\ i \in Nat /\ 0 \in 0 .. Len(b)
  OBVIOUS
<1>1. 0 \in T
  <2>1. i + 0 = i
    BY <1>0
  <2>2. SubSeq(b, 1, i) \in Seq(Nat)
    BY <1>0, Slices
  <2>3. Total(SubSeq(b, 1, i)) \in Nat
    BY <2>2, TotalIsNatural
  <2>4. SubSeq(b, i + 1, i) = <<>>
    BY EmptySlice
  <2>5. Total(SubSeq(b, i + 1, i)) = 0
    BY <2>4, TotalEmpty, Zenon
  <2>6. Holds(i)
    BY <2>3, <2>5
  <2> QED BY <2>1, <2>6
<1>2. ASSUME NEW n \in Nat, n \in T PROVE n + 1 \in T
  <2> SUFFICES ASSUME i + (n + 1) <= Len(b) PROVE Holds(i + (n + 1))
    OBVIOUS
  <2>1. PICK k \in i .. Len(b) : k = i + n /\ k + 1 = i + (n + 1) /\ k < Len(b)
    BY <1>0
  <2>2. Holds(k)
    BY <1>2, <2>1
  <2>3. k \in Nat /\ k \in 0 .. Len(b) /\ b[k + 1] \in Nat
    BY <1>0, <2>1
  <2>4. SubSeq(b, i + 1, k + 1) = Append(SubSeq(b, i + 1, k), b[k + 1])
    BY <2>1, SliceGrows
  <2>5. SubSeq(b, 1, k + 1) = Append(SubSeq(b, 1, k), b[k + 1])
    BY <1>0, <2>1, <2>3, SliceGrows
  <2>6. /\ SubSeq(b, i + 1, k) \in Seq(Nat) /\ SubSeq(b, 1, k) \in Seq(Nat)
        /\ SubSeq(b, 1, i) \in Seq(Nat)
    BY <1>0, <2>1, <2>3, Slices
  <2>7. /\ Total(SubSeq(b, i + 1, k)) \in Nat /\ Total(SubSeq(b, 1, k)) \in Nat
        /\ Total(SubSeq(b, 1, i)) \in Nat
    BY <2>6, TotalIsNatural
  <2>8. /\ Total(SubSeq(b, i + 1, k + 1)) = Total(SubSeq(b, i + 1, k)) + b[k + 1]
        /\ Total(SubSeq(b, 1, k + 1)) = Total(SubSeq(b, 1, k)) + b[k + 1]
    BY <2>3, <2>4, <2>5, <2>6, TotalAppend
  <2>9. Holds(k + 1)
    BY <2>2, <2>3, <2>7, <2>8, SMTT(30)
  <2> QED BY <2>1, <2>9
<1>3. \A n \in Nat : n \in T
  <2> HIDE DEF T
  <2> QED BY <1>1, <1>2, Induction
<1>4. j - i \in Nat /\ i + (j - i) = j
  BY <1>0
<1>5. j - i \in T
  BY <1>3, <1>4
<1> QED BY <1>0, <1>4, <1>5

\* The selections from the first n of a sequence, one unfolding further.
Selected(k, b) ==
    [n \in 0 .. Len(b) |-> IF n = 0 THEN <<>>
                           ELSE IF b[n] > MaxElement THEN k[n - 1]
                                ELSE Append(k[n - 1], b[n])]

SelectionOf(k, b) == k \in [0 .. Len(b) -> Seq(Nat)] /\ k = Selected(k, b)

LEMMA MaxElementIs == MaxElement \in Nat /\ MaxElements \in Nat /\ MaxTotal \in Nat
  BY LimitAssumption

LEMMA SelectedTyped ==
  ASSUME NEW b \in Seq(Nat), NEW k \in [0 .. Len(b) -> Seq(Nat)]
  PROVE  Selected(k, b) \in [0 .. Len(b) -> Seq(Nat)]
<1> SUFFICES ASSUME NEW n \in 0 .. Len(b)
             PROVE  Selected(k, b)[n] \in Seq(Nat)
  BY DEF Selected
<1>1. CASE n = 0
  BY <1>1 DEF Selected
<1>2. CASE n # 0
  <2>1. n - 1 \in 0 .. Len(b) /\ b[n] \in Nat
    BY <1>2
  <2>2. k[n - 1] \in Seq(Nat)
    BY <2>1
  <2>3. Append(k[n - 1], b[n]) \in Seq(Nat)
    BY <2>1, <2>2
  <2> QED BY <1>2, <2>2, <2>3 DEF Selected
<1> QED BY <1>1, <1>2

LEMMA SelectionExists ==
  ASSUME NEW b \in Seq(Nat)
  PROVE  \E k : SelectionOf(k, b)
<1> DEFINE K == [0 .. Len(b) -> Seq(Nat)]
           Right(k, n) == \A i \in 0 .. Len(b) : i <= n => k[i] = Selected(k, b)[i]
           T == {n \in Nat : \E k \in K : Right(k, n)}
<1>1. 0 \in T
  <2>1. [i \in 0 .. Len(b) |-> <<>>] \in K
    OBVIOUS
  <2>2. Right([i \in 0 .. Len(b) |-> <<>>], 0)
    BY DEF Selected
  <2> QED BY <2>1, <2>2
<1>2. ASSUME NEW n \in Nat, n \in T PROVE n + 1 \in T
  <2>1. PICK k \in K : Right(k, n)
    BY <1>2
  <2>2. Selected(k, b) \in K
    BY SelectedTyped
  <2>3. Right(Selected(k, b), n + 1)
    <3> SUFFICES ASSUME NEW i \in 0 .. Len(b), i <= n + 1
                 PROVE  Selected(k, b)[i] = Selected(Selected(k, b), b)[i]
      OBVIOUS
    <3>1. CASE i = 0
      BY <3>1 DEF Selected
    <3>2. CASE i # 0
      <4>1. i - 1 \in 0 .. Len(b) /\ i - 1 <= n
        BY <3>2
      <4>2. k[i - 1] = Selected(k, b)[i - 1]
        BY <2>1, <4>1
      <4> QED BY <3>2, <4>2 DEF Selected
    <3> QED BY <3>1, <3>2
  <2> QED BY <2>2, <2>3, SMTT(30)
<1>3. \A n \in Nat : n \in T
  <2> HIDE DEF T
  <2> QED BY <1>1, <1>2, Induction
<1>4. Len(b) \in T
  <2> HIDE DEF T
  <2> QED BY <1>3
<1>5. PICK k \in K : Right(k, Len(b))
  BY <1>4
<1>6. \A i \in 0 .. Len(b) : k[i] = Selected(k, b)[i]
  BY <1>5
<1>7. k = Selected(k, b)
  BY <1>5, <1>6 DEF Selected
<1> QED BY <1>5, <1>7 DEF SelectionOf

LEMMA FittingIs ==
  ASSUME NEW b \in Seq(Nat)
  PROVE  \E k : SelectionOf(k, b) /\ Fitting(b) = k[Len(b)]
<1> DEFINE k == CHOOSE k : k = Selected(k, b)
<1>1. k = Selected(k, b)
  BY SelectionExists DEF SelectionOf
<1>2. Fitting(b) = k[Len(b)]
  BY DEF Fitting, Selected
<1> HIDE DEF k
<1> DEFINE T == {n \in Nat : n <= Len(b) => k[n] \in Seq(Nat)}
<1>3. 0 \in T
  <2>1. k[0] = <<>>
    BY <1>1 DEF Selected
  <2>2. k[0] \in Seq(Nat)
    BY <2>1
  <2> QED BY <2>2
<1>4. ASSUME NEW n \in Nat, n \in T PROVE n + 1 \in T
  <2> SUFFICES ASSUME n + 1 <= Len(b) PROVE k[n + 1] \in Seq(Nat)
    OBVIOUS
  <2>1. /\ n + 1 \in 0 .. Len(b) /\ n + 1 # 0 /\ (n + 1) - 1 = n
        /\ b[n + 1] \in Nat /\ k[n] \in Seq(Nat)
    BY <1>4
  <2>2. Append(k[n], b[n + 1]) \in Seq(Nat)
    BY <2>1
  <2>3. k[n + 1] = k[n] \/ k[n + 1] = Append(k[n], b[n + 1])
    BY <1>1, <2>1 DEF Selected
  <2> QED BY <2>1, <2>2, <2>3
<1>5. \A n \in Nat : n \in T
  <2> HIDE DEF T
  <2> QED BY <1>3, <1>4, Induction
<1>6. \A n \in 0 .. Len(b) : k[n] \in Seq(Nat)
  BY <1>5
<1>7. k \in [0 .. Len(b) -> Seq(Nat)]
  BY <1>1, <1>6 DEF Selected
<1> QED BY <1>1, <1>2, <1>7 DEF SelectionOf

LEMMA FittingEmpty == Fitting(<<>>) = <<>>
<1>1. <<>> \in Seq(Nat) /\ Len(<<>>) = 0
  OBVIOUS
<1>2. PICK k : SelectionOf(k, <<>>) /\ Fitting(<<>>) = k[0]
  BY <1>1, FittingIs
<1> QED BY <1>1, <1>2 DEF SelectionOf, Selected

LEMMA FittingTyped == \A b \in Seq(Nat) : Fitting(b) \in Seq(Nat)
<1> SUFFICES ASSUME NEW b \in Seq(Nat) PROVE Fitting(b) \in Seq(Nat)
  OBVIOUS
<1>1. PICK k : SelectionOf(k, b) /\ Fitting(b) = k[Len(b)]
  BY FittingIs
<1>2. Len(b) \in 0 .. Len(b)
  OBVIOUS
<1> QED BY <1>1, <1>2 DEF SelectionOf

LEMMA FittingAppend ==
  ASSUME NEW s \in Seq(Nat), NEW x \in Nat
  PROVE  /\ x > MaxElement => Fitting(Append(s, x)) = Fitting(s)
         /\ ~(x > MaxElement) => Fitting(Append(s, x)) = Append(Fitting(s), x)
<1> DEFINE a == Append(s, x)
           N == Len(s)
<1>1. /\ a \in Seq(Nat) /\ Len(a) = N + 1 /\ N \in Nat /\ a[N + 1] = x
      /\ \A i \in 1 .. N : a[i] = s[i]
  BY AppendProperties
<1> HIDE DEF a
<1>2. PICK k : SelectionOf(k, s) /\ Fitting(s) = k[N]
  BY FittingIs
<1>3. PICK h : SelectionOf(h, a) /\ Fitting(a) = h[N + 1]
  BY <1>1, FittingIs
<1> HIDE DEF N
<1>k. k = Selected(k, s) /\ N = Len(s)
  BY <1>2 DEF SelectionOf, N
<1>h. h = Selected(h, a)
  BY <1>3 DEF SelectionOf
<1> DEFINE T == {n \in Nat : n <= N => h[n] = k[n]}
<1>4. 0 \in T
  <2>1. h[0] = <<>>
    BY <1>1, <1>h DEF Selected
  <2>2. k[0] = <<>>
    BY <1>1, <1>k DEF Selected
  <2> QED BY <2>1, <2>2
<1>5. ASSUME NEW n \in Nat, n \in T PROVE n + 1 \in T
  <2> SUFFICES ASSUME n + 1 <= N PROVE h[n + 1] = k[n + 1]
    OBVIOUS
  <2>1. /\ n + 1 \in 0 .. N /\ n + 1 \in 0 .. N + 1 /\ n + 1 # 0 /\ (n + 1) - 1 = n
        /\ a[n + 1] = s[n + 1] /\ h[n] = k[n]
    BY <1>1, <1>5
  <2>2. h[n + 1] = IF a[n + 1] > MaxElement THEN h[n] ELSE Append(h[n], a[n + 1])
    BY <1>1, <1>h, <2>1 DEF Selected
  <2>3. k[n + 1] = IF s[n + 1] > MaxElement THEN k[n] ELSE Append(k[n], s[n + 1])
    BY <1>1, <1>k, <2>1 DEF Selected
  <2> QED BY <2>1, <2>2, <2>3
<1>6. \A n \in Nat : n \in T
  <2> HIDE DEF T
  <2> QED BY <1>4, <1>5, Induction
<1>7. h[N] = k[N]
  <2>1. N \in T /\ N <= N
    BY <1>1, <1>6
  <2> QED BY <2>1
<1>8. h[N + 1] = IF x > MaxElement THEN h[N] ELSE Append(h[N], x)
  <2>1. N + 1 \in 0 .. N + 1 /\ N + 1 # 0 /\ (N + 1) - 1 = N
    BY <1>1
  <2> QED BY <1>1, <1>h, <2>1 DEF Selected
<1> QED BY <1>2, <1>3, <1>7, <1>8 DEF a

\* What is selected fits, and weighs no more; and what fits is all selected.
SelectionFits(s) ==
    /\ \A i \in DOMAIN Fitting(s) : Fitting(s)[i] <= MaxElement
    /\ Total(Fitting(s)) <= Total(s) /\ Len(Fitting(s)) <= Len(s)
    /\ (\A i \in DOMAIN s : s[i] <= MaxElement) => Fitting(s) = s

LEMMA SelectionFitsAppended ==
  ASSUME NEW s \in Seq(Nat), NEW x \in Nat, SelectionFits(s)
  PROVE  SelectionFits(Append(s, x))
<1>1. /\ Append(s, x) \in Seq(Nat) /\ DOMAIN Append(s, x) = 1 .. Len(s) + 1
      /\ DOMAIN s = 1 .. Len(s) /\ Append(s, x)[Len(s) + 1] = x
      /\ \A i \in 1 .. Len(s) : Append(s, x)[i] = s[i]
      /\ Len(s) \in Nat
  BY AppendProperties
<1>2. /\ Total(Append(s, x)) = Total(s) + x
      /\ Total(s) \in Nat /\ Fitting(s) \in Seq(Nat) /\ Total(Fitting(s)) \in Nat
  BY TotalAppend, TotalIsNatural, FittingTyped
<1>3. Total(Fitting(s)) <= Total(s) /\ Len(Fitting(s)) <= Len(s)
  BY DEF SelectionFits
<1>4. \A i \in DOMAIN Fitting(s) : Fitting(s)[i] <= MaxElement
  BY DEF SelectionFits
<1>5. (\A i \in DOMAIN s : s[i] <= MaxElement) => Fitting(s) = s
  BY DEF SelectionFits
<1>6. CASE x > MaxElement
  <2>1. Fitting(Append(s, x)) = Fitting(s)
    BY <1>6, FittingAppend
  <2>2. Total(Fitting(s)) <= Total(s) + x /\ Len(Fitting(s)) <= Len(Append(s, x))
    BY <1>2, <1>3
  <2>3. ~(Append(s, x)[Len(s) + 1] <= MaxElement)
    BY <1>1, <1>6, MaxElementIs
  <2>4. ~\A i \in DOMAIN Append(s, x) : Append(s, x)[i] <= MaxElement
    BY <1>1, <2>3
  <2> QED BY <1>2, <1>4, <2>1, <2>2, <2>4 DEF SelectionFits
<1>7. CASE ~(x > MaxElement)
  <2> DEFINE f == Fitting(s)
  <2>1. Fitting(Append(s, x)) = Append(f, x)
    BY <1>7, FittingAppend
  <2>2. f \in Seq(Nat)
    BY <1>2
  <2>3. /\ DOMAIN Append(f, x) = 1 .. Len(f) + 1 /\ DOMAIN f = 1 .. Len(f)
        /\ Append(f, x)[Len(f) + 1] = x
        /\ \A i \in 1 .. Len(f) : Append(f, x)[i] = f[i]
        /\ Len(f) \in Nat
    BY <2>2, AppendProperties
  <2>4. Total(Append(f, x)) = Total(f) + x
    BY <2>2, TotalAppend
  <2>l. Len(f) <= Len(s)
    BY <1>3
  <2>5. Total(f) + x <= Total(s) + x
    BY <1>2, <1>3
  <2>6. \A i \in DOMAIN Append(f, x) : Append(f, x)[i] <= MaxElement
    <3> SUFFICES ASSUME NEW i \in 1 .. Len(f) + 1
                 PROVE  Append(f, x)[i] <= MaxElement
      BY <2>3
    <3>1. CASE i = Len(f) + 1
      BY <1>7, <2>3, <3>1, MaxElementIs
    <3>2. CASE i # Len(f) + 1
      <4>1. i \in DOMAIN f /\ Append(f, x)[i] = f[i]
        BY <2>3, <3>2
      <4> QED BY <1>4, <4>1
    <3> QED BY <3>1, <3>2
  <2>7. ASSUME \A i \in DOMAIN Append(s, x) : Append(s, x)[i] <= MaxElement
        PROVE  Append(f, x) = Append(s, x)
    <3>1. \A i \in 1 .. Len(s) : s[i] <= MaxElement
      <4> SUFFICES ASSUME NEW i \in 1 .. Len(s) PROVE s[i] <= MaxElement
        OBVIOUS
      <4>1. i \in DOMAIN Append(s, x) /\ Append(s, x)[i] = s[i]
        BY <1>1
      <4> QED BY <2>7, <4>1
    <3>2. f = s
      BY <1>1, <1>5, <3>1
    <3> QED BY <3>2
  <2> HIDE DEF f
  <2>8. Total(Append(f, x)) <= Total(Append(s, x))
    BY <1>2, <2>4, <2>5
  <2>9. Len(Append(f, x)) <= Len(Append(s, x))
    BY <1>1, <2>2, <2>l
  <2> QED BY <2>1, <2>6, <2>7, <2>8, <2>9 DEF SelectionFits
<1> QED BY <1>6, <1>7

LEMMA SelectionsFit == \A b \in Seq(Nat) : SelectionFits(b)
<1> SUFFICES ASSUME NEW b \in Seq(Nat) PROVE SelectionFits(b)
  OBVIOUS
<1> DEFINE T == {n \in Nat : n <= Len(b) => SelectionFits(SubSeq(b, 1, n))}
<1>0. Len(b) \in Nat /\ 0 \in 0 .. Len(b) /\ 0 + 1 = 1
  OBVIOUS
<1>1. 0 \in T
  <2>1. SubSeq(b, 1, 0) = <<>>
    BY <1>0, EmptySlice
  <2>2. SelectionFits(<<>>)
    <3>1. DOMAIN <<>> = {} /\ Total(<<>>) <= Total(<<>>) /\ Len(<<>>) <= Len(<<>>)
      BY TotalEmpty
    <3> QED BY <3>1, FittingEmpty DEF SelectionFits
  <2> QED BY <2>1, <2>2
<1>2. ASSUME NEW n \in Nat, n \in T PROVE n + 1 \in T
  <2> SUFFICES ASSUME n + 1 <= Len(b) PROVE SelectionFits(SubSeq(b, 1, n + 1))
    OBVIOUS
  <2>1. n \in 0 .. Len(b) /\ n < Len(b) /\ b[n + 1] \in Nat
    BY <1>0
  <2>2. SubSeq(b, 1, n + 1) = Append(SubSeq(b, 1, n), b[n + 1])
    BY <1>0, <2>1, SliceGrows
  <2>3. SubSeq(b, 1, n) \in Seq(Nat)
    BY <1>0, <2>1, Slices
  <2>4. SelectionFits(SubSeq(b, 1, n))
    BY <1>2, <2>1
  <2> QED BY <2>1, <2>2, <2>3, <2>4, SelectionFitsAppended
<1>3. \A n \in Nat : n \in T
  <2> HIDE DEF T
  <2> QED BY <1>1, <1>2, Induction
<1>4. SelectionFits(SubSeq(b, 1, Len(b)))
  BY <1>0, <1>3
<1>5. SubSeq(b, 1, Len(b)) = b
  BY SubSeqFull
<1> QED BY <1>4, <1>5

LEMMA AppendToConcat ==
  ASSUME NEW p \in Seq(Nat), NEW q \in Seq(Nat), NEW x \in Nat
  PROVE  Append(p \o q, x) = p \o Append(q, x)
<1> DEFINE l == Append(p \o q, x)
           a == Append(q, x)
           r == p \o a
<1>1. /\ l \in Seq(Nat) /\ Len(l) = Len(p) + Len(q) + 1
      /\ l[Len(p) + Len(q) + 1] = x
      /\ \A i \in 1 .. Len(p) + Len(q) : l[i] = (p \o q)[i]
  <2>1. p \o q \in Seq(Nat) /\ Len(p \o q) = Len(p) + Len(q)
    BY ConcatProperties
  <2> QED BY <2>1, AppendProperties
<1>2. /\ a \in Seq(Nat) /\ Len(a) = Len(q) + 1 /\ a[Len(q) + 1] = x
      /\ \A i \in 1 .. Len(q) : a[i] = q[i]
  BY AppendProperties
<1>3. /\ r \in Seq(Nat) /\ Len(r) = Len(p) + Len(a)
      /\ \A i \in 1 .. Len(p) + Len(a) :
           r[i] = IF i <= Len(p) THEN p[i] ELSE a[i - Len(p)]
  BY <1>2, ConcatProperties
<1> HIDE DEF l, a, r
<1>4. \A i \in 1 .. Len(p) + Len(q) :
        (p \o q)[i] = IF i <= Len(p) THEN p[i] ELSE q[i - Len(p)]
  BY ConcatProperties
<1>5. Len(p) \in Nat /\ Len(q) \in Nat
  OBVIOUS
<1>6. \A i \in 1 .. Len(l) : l[i] = r[i]
  <2> SUFFICES ASSUME NEW i \in 1 .. Len(p) + Len(q) + 1 PROVE l[i] = r[i]
    BY <1>1
  <2>1. i \in 1 .. Len(p) + Len(a)
    BY <1>2, <1>5
  <2>2. CASE i = Len(p) + Len(q) + 1
    <3>1. ~(i <= Len(p)) /\ i - Len(p) = Len(q) + 1
      BY <1>5, <2>2
    <3>2. r[i] = a[i - Len(p)]
      BY <1>3, <2>1, <3>1
    <3> QED BY <1>1, <1>2, <2>2, <3>1, <3>2
  <2>3. CASE i # Len(p) + Len(q) + 1
    <3>1. i \in 1 .. Len(p) + Len(q)
      BY <1>5, <2>3
    <3>2. CASE i <= Len(p)
      BY <1>1, <1>3, <1>4, <2>1, <3>1, <3>2
    <3>3. CASE ~(i <= Len(p))
      <4>1. i - Len(p) \in 1 .. Len(q)
        BY <1>5, <3>1, <3>3
      <4> QED BY <1>1, <1>2, <1>3, <1>4, <2>1, <3>1, <3>3, <4>1
    <3> QED BY <3>2, <3>3
  <2> QED BY <2>2, <2>3
<1>7. Len(l) = Len(r)
  BY <1>1, <1>2, <1>3, <1>5
<1>8. l = r
  BY <1>1, <1>3, <1>6, <1>7, SeqEqual
<1> QED BY <1>8 DEF l, a, r

LEMMA SelectionOfSlices ==
  ASSUME NEW b \in Seq(Nat), NEW i \in 0 .. Len(b), NEW j \in i .. Len(b)
  PROVE  Fitting(SubSeq(b, 1, j))
           = Fitting(SubSeq(b, 1, i)) \o Fitting(SubSeq(b, i + 1, j))
<1> DEFINE Holds(k) == Fitting(SubSeq(b, 1, k))
                         = Fitting(SubSeq(b, 1, i)) \o Fitting(SubSeq(b, i + 1, k))
           T == {n \in Nat : i + n <= Len(b) => Holds(i + n)}
<1>0. Len(b) \in Nat /\ i \in Nat /\ 0 \in 0 .. Len(b) /\ 0 + 1 = 1
  OBVIOUS
<1>p. SubSeq(b, 1, i) \in Seq(Nat) /\ Fitting(SubSeq(b, 1, i)) \in Seq(Nat)
  BY <1>0, Slices, FittingTyped
<1>1. 0 \in T
  <2>1. i + 0 = i
    BY <1>0
  <2>2. Fitting(SubSeq(b, i + 1, i)) = <<>>
    BY EmptySlice, FittingEmpty, Zenon
  <2>3. Holds(i)
    BY <1>p, <2>2, ConcatEmptySeq
  <2> QED BY <2>1, <2>3
<1>2. ASSUME NEW n \in Nat, n \in T PROVE n + 1 \in T
  <2> SUFFICES ASSUME i + (n + 1) <= Len(b) PROVE Holds(i + (n + 1))
    OBVIOUS
  <2>1. PICK k \in i .. Len(b) : k = i + n /\ k + 1 = i + (n + 1) /\ k < Len(b)
    BY <1>0
  <2>2. Holds(k)
    BY <1>2, <2>1
  <2>3. k \in Nat /\ k \in 0 .. Len(b) /\ b[k + 1] \in Nat
    BY <1>0, <2>1
  <2>4. SubSeq(b, i + 1, k + 1) = Append(SubSeq(b, i + 1, k), b[k + 1])
    BY <2>1, SliceGrows
  <2>5. SubSeq(b, 1, k + 1) = Append(SubSeq(b, 1, k), b[k + 1])
    BY <1>0, <2>1, <2>3, SliceGrows
  <2>6. SubSeq(b, i + 1, k) \in Seq(Nat) /\ SubSeq(b, 1, k) \in Seq(Nat)
    BY <1>0, <2>1, <2>3, Slices
  <2>7. Fitting(SubSeq(b, i + 1, k)) \in Seq(Nat) /\ Fitting(SubSeq(b, 1, k)) \in Seq(Nat)
    BY <2>6, FittingTyped
  <2>8. CASE b[k + 1] > MaxElement
    <3>1. /\ Fitting(SubSeq(b, i + 1, k + 1)) = Fitting(SubSeq(b, i + 1, k))
          /\ Fitting(SubSeq(b, 1, k + 1)) = Fitting(SubSeq(b, 1, k))
      BY <2>3, <2>4, <2>5, <2>6, <2>8, FittingAppend
    <3> QED BY <2>1, <2>2, <3>1
  <2>9. CASE ~(b[k + 1] > MaxElement)
    <3>1. /\ Fitting(SubSeq(b, i + 1, k + 1)) = Append(Fitting(SubSeq(b, i + 1, k)), b[k + 1])
          /\ Fitting(SubSeq(b, 1, k + 1)) = Append(Fitting(SubSeq(b, 1, k)), b[k + 1])
      BY <2>3, <2>4, <2>5, <2>6, <2>9, FittingAppend
    <3>3. Append(Fitting(SubSeq(b, 1, i)) \o Fitting(SubSeq(b, i + 1, k)), b[k + 1])
            = Fitting(SubSeq(b, 1, i)) \o Append(Fitting(SubSeq(b, i + 1, k)), b[k + 1])
      BY <1>p, <2>3, <2>7, AppendToConcat, ZenonT(30)
    <3> QED BY <2>1, <2>2, <3>1, <3>3
  <2> QED BY <2>8, <2>9
<1>3. \A n \in Nat : n \in T
  <2> HIDE DEF T
  <2> QED BY <1>1, <1>2, Induction
<1>4. j - i \in Nat /\ i + (j - i) = j
  BY <1>0
<1>5. j - i \in T
  <2> HIDE DEF T
  <2> QED BY <1>3, <1>4
<1> QED BY <1>0, <1>4, <1>5

LEMMA NewestIs ==
  ASSUME NEW b \in Seq(Nat), NEW m \in 0 .. Len(b)
  PROVE  /\ Newest(b, m) = SubSeq(b, (Len(b) - m) + 1, Len(b))
         /\ Newest(b, m) \in Seq(Nat) /\ Len(Newest(b, m)) = m
         /\ \A i \in 1 .. m : Newest(b, m)[i] = b[(Len(b) - m) + i]
<1>1. Len(b) - m \in 0 .. Len(b) /\ Len(b) \in (Len(b) - m) .. Len(b)
  OBVIOUS
<1>2. Len(b) - (Len(b) - m) = m
  OBVIOUS
<1>3. Newest(b, m) = SubSeq(b, (Len(b) - m) + 1, Len(b))
  BY DEF Newest
<1> HIDE DEF Newest
<1> QED BY <1>1, <1>2, <1>3, Slices

LEMMA NewestWeighs ==
  ASSUME NEW b \in Seq(Nat), NEW m \in 0 .. Len(b)
  PROVE  Total(b) = Total(SubSeq(b, 1, Len(b) - m)) + Total(Newest(b, m))
<1>1. Len(b) - m \in 0 .. Len(b) /\ Len(b) \in (Len(b) - m) .. Len(b)
  OBVIOUS
<1>2. Total(SubSeq(b, 1, Len(b))) = Total(SubSeq(b, 1, Len(b) - m))
                                      + Total(SubSeq(b, (Len(b) - m) + 1, Len(b)))
  BY <1>1, TotalOfSlices
<1> QED BY <1>2, NewestIs, SubSeqFull

LEMMA NewestAll ==
  ASSUME NEW b \in Seq(Nat)
  PROVE  Newest(b, Len(b)) = b
<1>1. Len(b) \in 0 .. Len(b) /\ (Len(b) - Len(b)) + 1 = 1
  OBVIOUS
<1>2. Newest(b, Len(b)) = SubSeq(b, 1, Len(b))
  BY <1>1, NewestIs
<1> QED BY <1>2, SubSeqFull

LEMMA ConcatIndex ==
  ASSUME NEW p \in Seq(Nat), NEW q \in Seq(Nat), NEW i \in 1 .. Len(q)
  PROVE  Len(p) + i \in DOMAIN (p \o q) /\ (p \o q)[Len(p) + i] = q[i]
<1>1. /\ p \o q \in Seq(Nat) /\ Len(p \o q) = Len(p) + Len(q)
      /\ \A j \in 1 .. Len(p) + Len(q) :
           (p \o q)[j] = IF j <= Len(p) THEN p[j] ELSE q[j - Len(p)]
  BY ConcatProperties
<1>2. /\ Len(p) + i \in 1 .. Len(p) + Len(q) /\ ~(Len(p) + i <= Len(p))
      /\ (Len(p) + i) - Len(p) = i
  OBVIOUS
<1>3. DOMAIN (p \o q) = 1 .. Len(p) + Len(q)
  BY <1>1, LenProperties
<1> QED BY <1>1, <1>2, <1>3

LEMMA NewestOfSuffix ==
  ASSUME NEW p \in Seq(Nat), NEW q \in Seq(Nat), NEW m \in 0 .. Len(q)
  PROVE  Newest(p \o q, m) = Newest(q, m)
<1>1. /\ p \o q \in Seq(Nat) /\ Len(p \o q) = Len(p) + Len(q)
      /\ \A i \in 1 .. Len(p) + Len(q) :
           (p \o q)[i] = IF i <= Len(p) THEN p[i] ELSE q[i - Len(p)]
      /\ Len(p) \in Nat /\ Len(q) \in Nat /\ m \in Nat /\ m <= Len(q)
  BY ConcatProperties
<1>2. m \in 0 .. Len(p \o q)
  BY <1>1
<1>3. /\ Newest(p \o q, m) \in Seq(Nat) /\ Len(Newest(p \o q, m)) = m
      /\ \A i \in 1 .. m :
           Newest(p \o q, m)[i] = (p \o q)[(Len(p \o q) - m) + i]
  BY <1>1, <1>2, NewestIs
<1>4. /\ Newest(q, m) \in Seq(Nat) /\ Len(Newest(q, m)) = m
      /\ \A i \in 1 .. m : Newest(q, m)[i] = q[(Len(q) - m) + i]
  BY NewestIs
<1>5. \A i \in 1 .. m : Newest(p \o q, m)[i] = Newest(q, m)[i]
  <2> SUFFICES ASSUME NEW i \in 1 .. m
               PROVE  (p \o q)[(Len(p \o q) - m) + i] = q[(Len(q) - m) + i]
    BY <1>3, <1>4
  <2>1. PICK k \in Int : k = (Len(p \o q) - m) + i
    <3>1. (Len(p \o q) - m) + i \in Int
      BY <1>1
    <3> QED BY <3>1
  <2>2. k \in 1 .. Len(p) + Len(q) /\ ~(k <= Len(p)) /\ k - Len(p) = (Len(q) - m) + i
    BY <1>1, <2>1
  <2>3. (p \o q)[k] = q[k - Len(p)]
    BY <1>1, <2>2
  <2> QED BY <2>1, <2>2, <2>3
<1> QED BY <1>3, <1>4, <1>5, SeqEqual

\* Elements are taken from the front until the size is in bounds: no more than
\* are needed, if the size is that of the elements.
LEMMA ShrunkIs ==
  ASSUME NEW c \in Seq(Nat), NEW size \in Nat, Total(c) <= size
  PROVE  \E m \in 0 .. Len(c) :
           /\ Shrunk(c, size) = Newest(c, m)
           /\ Total(Newest(c, m)) <= MaxTotal
           /\ size = Total(c) /\ m < Len(c) => Total(Newest(c, m + 1)) > MaxTotal
<1> DEFINE Before(k) == Total(SubSeq(c, 1, k))
           enough == {k \in 0 .. Len(c) : size - Before(k) <= MaxTotal}
           k0 == IF enough = {} THEN Len(c)
                 ELSE CHOOSE i \in enough : \A j \in enough : i <= j
<1>1. Shrunk(c, size) = Newest(c, Len(c) - k0)
  BY DEF Shrunk
<1>2. Len(c) \in Nat /\ MaxTotal \in Nat /\ Total(c) \in Nat
  BY MaxElementIs, TotalIsNatural
<1>3. \A k \in 0 .. Len(c) :
        /\ Before(k) \in Nat
        /\ Len(c) - k \in 0 .. Len(c) /\ Len(c) - (Len(c) - k) = k
        /\ Total(c) = Before(k) + Total(Newest(c, Len(c) - k))
        /\ Total(Newest(c, Len(c) - k)) \in Nat
  <2> SUFFICES ASSUME NEW k \in 0 .. Len(c)
               PROVE  /\ Before(k) \in Nat
                      /\ Len(c) - k \in 0 .. Len(c) /\ Len(c) - (Len(c) - k) = k
                      /\ Total(c) = Before(k) + Total(Newest(c, Len(c) - k))
                      /\ Total(Newest(c, Len(c) - k)) \in Nat
    OBVIOUS
  <2>1. Len(c) - k \in 0 .. Len(c) /\ Len(c) - (Len(c) - k) = k
    BY <1>2
  <2>2. 0 \in 0 .. Len(c) /\ k \in 0 .. Len(c) /\ 0 + 1 = 1
    BY <1>2
  <2>3. SubSeq(c, 1, k) \in Seq(Nat)
    BY <2>2, Slices
  <2>4. Before(k) \in Nat
    BY <2>3, TotalIsNatural
  <2>5. Newest(c, Len(c) - k) \in Seq(Nat)
    BY <2>1, NewestIs
  <2>6. Total(c) = Total(SubSeq(c, 1, Len(c) - (Len(c) - k))) + Total(Newest(c, Len(c) - k))
    BY <2>1, NewestWeighs
  <2> QED BY <2>1, <2>4, <2>5, <2>6, TotalIsNatural
<1> HIDE DEF Before
<1>4. /\ k0 \in 0 .. Len(c)
      /\ enough = {} => k0 = Len(c)
      /\ enough # {} => k0 \in enough /\ \A j \in enough : k0 <= j
  <2>1. CASE enough = {}
    BY <1>2, <2>1
  <2>2. CASE enough # {}
    <3>1. \E i \in enough : \A j \in enough : i <= j
      <4>1. enough \subseteq Nat
        OBVIOUS
      <4> HIDE DEF enough
      <4> QED BY <2>2, <4>1, Smallest
    <3>2. k0 \in enough /\ \A j \in enough : k0 <= j
      <4> HIDE DEF enough
      <4> QED BY <2>2, <3>1
    <3>3. enough \subseteq 0 .. Len(c)
      OBVIOUS
    <3> HIDE DEF enough, k0
    <3> QED BY <2>2, <3>2, <3>3
  <2> QED BY <2>1, <2>2
<1>5. \A k \in 0 .. Len(c) : k \in enough <=> size - Before(k) <= MaxTotal
  OBVIOUS
<1> HIDE DEF enough, k0
<1> DEFINE m == Len(c) - k0
<1>6. Total(Newest(c, m)) <= MaxTotal
  <2>1. /\ Before(k0) \in Nat /\ Total(c) = Before(k0) + Total(Newest(c, m))
        /\ Total(Newest(c, m)) \in Nat
    BY <1>3, <1>4
  <2>2. CASE enough = {}
    <3>1. m = 0
      BY <1>2, <1>4, <2>2
    <3>2. Newest(c, 0) \in Seq(Nat) /\ Len(Newest(c, 0)) = 0
      BY <1>2, NewestIs
    <3>3. Newest(c, 0) = <<>>
      BY <3>2, EmptySeq
    <3>4. Total(Newest(c, m)) = 0
      BY <3>1, <3>3, TotalEmpty, Zenon
    <3> QED BY <1>2, <3>4
  <2>3. CASE enough # {}
    <3>1. size - Before(k0) <= MaxTotal
      BY <1>4, <1>5, <2>3
    <3> HIDE DEF m
    <3> QED BY <1>2, <2>1, <3>1
  <2> QED BY <2>2, <2>3
<1>7. ASSUME size = Total(c), m < Len(c)
      PROVE  Total(Newest(c, m + 1)) > MaxTotal
  <2>1. k0 > 0
    BY <1>2, <1>4, <1>7
  <2>2. k0 - 1 \in 0 .. Len(c) /\ Len(c) - (k0 - 1) = m + 1
    BY <1>2, <1>4, <2>1
  <2>3. k0 - 1 \notin enough
    BY <1>2, <1>4, <2>1, <2>2
  <2>4. size - Before(k0 - 1) > MaxTotal
    <3>1. Before(k0 - 1) \in Nat
      BY <1>3, <2>2
    <3> QED BY <1>2, <1>5, <2>2, <2>3, <3>1
  <2>5. /\ Before(k0 - 1) \in Nat
        /\ Total(c) = Before(k0 - 1) + Total(Newest(c, m + 1))
        /\ Total(Newest(c, m + 1)) \in Nat
    BY <1>3, <2>2
  <2> HIDE DEF m
  <2> QED BY <1>2, <1>7, <2>4, <2>5
<1>8. m \in 0 .. Len(c)
  BY <1>2, <1>4
<1> HIDE DEF m
<1>9. Shrunk(c, size) = Newest(c, m)
  BY <1>1 DEF m
<1> QED BY <1>6, <1>7, <1>8, <1>9

LEMMA CountedIs ==
  ASSUME NEW b \in Seq(Nat)
  PROVE  \E n \in 0 .. Len(b) :
           /\ Counted(b) = Newest(b, n) /\ n <= MaxElements
           /\ n = Len(b) \/ n = MaxElements
<1>1. CASE Len(b) > MaxElements
  <2>1. MaxElements \in 0 .. Len(b)
    BY <1>1, MaxElementIs
  <2>2. Counted(b) = Newest(b, MaxElements)
    BY <1>1 DEF Counted
  <2> QED BY <2>1, <2>2, MaxElementIs
<1>2. CASE ~(Len(b) > MaxElements)
  <2>1. Counted(b) = Newest(b, Len(b))
    BY <1>2, NewestAll DEF Counted
  <2>2. Len(b) \in 0 .. Len(b) /\ Len(b) <= MaxElements
    BY <1>2, MaxElementIs
  <2> QED BY <2>1, <2>2
<1> QED BY <1>1, <1>2

LEMMA SelectionOfSuffix ==
  ASSUME NEW b \in Seq(Nat), NEW n \in 0 .. Len(b)
  PROVE  Fitting(b) = Fitting(SubSeq(b, 1, Len(b) - n)) \o Fitting(Newest(b, n))
<1>1. Len(b) - n \in 0 .. Len(b) /\ Len(b) \in (Len(b) - n) .. Len(b)
  OBVIOUS
<1>2. Fitting(SubSeq(b, 1, Len(b)))
        = Fitting(SubSeq(b, 1, Len(b) - n)) \o Fitting(SubSeq(b, (Len(b) - n) + 1, Len(b)))
  BY <1>1, SelectionOfSlices
<1> QED BY <1>2, NewestIs, SubSeqFull

\* What the limits make of a board, as LimitsAreTight says it.
BoardIsTight(c, b) ==
    /\ Len(c) <= MaxElements /\ Total(c) <= MaxTotal
    /\ \A i \in DOMAIN c : c[i] <= MaxElement
    /\ Len(c) <= Len(Fitting(b)) /\ c = Newest(Fitting(b), Len(c))
    /\ Fitting(b) = b /\ Len(c) < Len(b) =>
         \/ Len(Newest(b, Len(c) + 1)) > MaxElements
         \/ Total(Newest(b, Len(c) + 1)) > MaxTotal

LEMMA LimitedIsTight ==
  ASSUME NEW b \in Seq(Nat)
  PROVE  Limited(b) \in Seq(Nat) /\ BoardIsTight(Limited(b), b)
<1>1. PICK n \in 0 .. Len(b) : /\ Counted(b) = Newest(b, n) /\ n <= MaxElements
                               /\ n = Len(b) \/ n = MaxElements
  BY CountedIs
<1>2. PICK c \in Seq(Nat) : c = Counted(b) /\ c = Newest(b, n) /\ Len(c) = n
  BY <1>1, NewestIs
<1>3. PICK f \in Seq(Nat) : f = Fitting(c)
  BY FittingTyped
<1>4. /\ \A i \in DOMAIN f : f[i] <= MaxElement
      /\ Total(f) <= Total(c)
      /\ (\A i \in DOMAIN c : c[i] <= MaxElement) => f = c
  BY <1>3, SelectionsFit DEF SelectionFits
<1>5. Total(c) \in Nat
  BY TotalIsNatural
<1>6. PICK m \in 0 .. Len(f) :
        /\ Shrunk(f, Total(c)) = Newest(f, m)
        /\ Total(Newest(f, m)) <= MaxTotal
        /\ Total(c) = Total(f) /\ m < Len(f) => Total(Newest(f, m + 1)) > MaxTotal
  BY <1>4, <1>5, ShrunkIs
<1>7. PICK d \in Seq(Nat) : /\ d = Limited(b) /\ d = Newest(f, m) /\ Len(d) = m
                            /\ \A i \in 1 .. m : d[i] = f[(Len(f) - m) + i]
  <2>1. Limited(b) = Newest(f, m)
    BY <1>2, <1>3, <1>6 DEF Limited
  <2>2. /\ Newest(f, m) \in Seq(Nat) /\ Len(Newest(f, m)) = m
        /\ \A i \in 1 .. m : Newest(f, m)[i] = f[(Len(f) - m) + i]
    BY NewestIs
  <2> QED BY <2>1, <2>2
<1>8. PICK p \in Seq(Nat) : b = p \o c
  <2>1. /\ Len(b) - n \in 0 .. Len(b) /\ 0 \in 0 .. Len(b) /\ 0 + 1 = 1
        /\ Len(b) - n \in 0 .. Len(b)
    OBVIOUS
  <2>2. SubSeq(b, 1, Len(b) - n) \in Seq(Nat)
    BY <2>1, Slices
  <2>3. b = SubSeq(b, 1, Len(b) - n) \o Newest(b, n)
    <3>1. 1 \in 1 .. Len(b) + 1 /\ Len(b) - n \in 1 - 1 .. Len(b)
          /\ Len(b) \in Len(b) - n .. Len(b)
      BY <2>1
    <3>2. SubSeq(b, 1, Len(b) - n) \o SubSeq(b, (Len(b) - n) + 1, Len(b))
            = SubSeq(b, 1, Len(b))
      BY <3>1, ConcatAdjacentSubSeq
    <3> QED BY <3>2, NewestIs, SubSeqFull
  <2> QED BY <1>2, <2>2, <2>3
<1>9. PICK g \in Seq(Nat) : Fitting(b) = g \o f
  <2>1. Len(b) - n \in 0 .. Len(b) /\ 0 \in 0 .. Len(b) /\ 0 + 1 = 1
    OBVIOUS
  <2>2. SubSeq(b, 1, Len(b) - n) \in Seq(Nat)
    BY <2>1, Slices
  <2>3. Fitting(SubSeq(b, 1, Len(b) - n)) \in Seq(Nat)
    BY <2>2, FittingTyped
  <2>4. Fitting(b) = Fitting(SubSeq(b, 1, Len(b) - n)) \o Fitting(Newest(b, n))
    BY SelectionOfSuffix
  <2>5. Fitting(Newest(b, n)) = f
    BY <1>2, <1>3
  <2> QED BY <2>3, <2>4, <2>5
<1>10. /\ Len(f) \in Nat /\ Len(g) \in Nat /\ Len(c) \in Nat /\ Len(b) \in Nat /\ m \in Nat
       /\ m <= Len(f) /\ Len(g \o f) = Len(g) + Len(f)
  BY ConcatProperties
<1>11. Len(d) <= Len(Fitting(b)) /\ d = Newest(Fitting(b), Len(d))
  <2>1. Newest(g \o f, m) = Newest(f, m)
    BY NewestOfSuffix
  <2> QED BY <1>7, <1>9, <1>10, <2>1
<1>12. \A i \in DOMAIN d : d[i] <= MaxElement
  <2> SUFFICES ASSUME NEW i \in 1 .. m PROVE d[i] <= MaxElement
    BY <1>7
  <2>1. (Len(f) - m) + i \in 1 .. Len(f)
    BY <1>10
  <2>2. (Len(f) - m) + i \in DOMAIN f /\ d[i] = f[(Len(f) - m) + i]
    BY <1>7, <2>1
  <2> QED BY <1>4, <2>2
<1>13. Len(f) <= Len(c)
  BY <1>3, SelectionsFit DEF SelectionFits
<1>14. Len(d) <= MaxElements
  BY <1>1, <1>2, <1>7, <1>10, <1>13, MaxElementIs
<1>15. ASSUME Fitting(b) = b, Len(d) < Len(b)
       PROVE  \/ Len(Newest(b, Len(d) + 1)) > MaxElements
              \/ Total(Newest(b, Len(d) + 1)) > MaxTotal
  <2>1. \A i \in DOMAIN c : c[i] <= MaxElement
    <3>1. \A i \in DOMAIN b : b[i] <= MaxElement
      BY <1>15, SelectionsFit DEF SelectionFits
    <3> SUFFICES ASSUME NEW i \in 1 .. Len(c) PROVE c[i] <= MaxElement
      OBVIOUS
    <3>2. Len(p) + i \in DOMAIN b /\ b[Len(p) + i] = c[i]
      BY <1>8, ConcatIndex
    <3> QED BY <3>1, <3>2
  <2>2. f = c
    BY <1>4, <2>1
  <2>3. CASE m < Len(f)
    <3>1. Total(Newest(f, m + 1)) > MaxTotal
      BY <1>6, <2>2, <2>3
    <3>2. m + 1 \in 0 .. Len(c)
      BY <1>10, <2>2, <2>3
    <3>3. Newest(p \o c, m + 1) = Newest(c, m + 1)
      BY <3>2, NewestOfSuffix
    <3> QED BY <1>7, <1>8, <2>2, <3>1, <3>3
  <2>4. CASE m = Len(f)
    <3>1. m = n /\ n = MaxElements
      BY <1>1, <1>2, <1>7, <1>15, <2>2, <2>4
    <3>2. m + 1 \in 0 .. Len(b)
      BY <1>7, <1>10, <1>15
    <3>3. Len(Newest(b, m + 1)) = m + 1
      BY <3>2, NewestIs
    <3> QED BY <1>7, <1>10, <3>1, <3>3
  <2> QED BY <1>10, <2>3, <2>4
<1> QED BY <1>6, <1>7, <1>11, <1>12, <1>14, <1>15 DEF BoardIsTight

LimitsInv == board \in Seq(Nat) /\ LimitsAreTight

LEMMA BoardsAreTight ==
  /\ LimitsAreTight <=> BoardIsTight(board, arrived) /\ listed \cap BadFiles = {}
  /\ LimitsAreTight' <=> BoardIsTight(board', arrived') /\ listed' \cap BadFiles = {}
  BY DEF LimitsAreTight, BoardIsTight

LEMMA LimitsStart == LimitsInit => LimitsInv
<1> SUFFICES ASSUME LimitsInit PROVE LimitsInv
  OBVIOUS
<1>1. board = <<>> /\ arrived = <<>> /\ listed = {}
  BY DEF LimitsInit
<1>2. <<>> \in Seq(Nat) /\ Len(<<>>) = 0 /\ 0 \in 0 .. Len(<<>>) /\ DOMAIN <<>> = {}
  OBVIOUS
<1>3. Newest(<<>>, Len(<<>>)) = <<>>
  BY <1>2, NewestAll
<1>4. /\ Len(<<>>) <= MaxElements /\ Total(<<>>) <= MaxTotal
      /\ \A i \in DOMAIN <<>> : <<>>[i] <= MaxElement
      /\ Len(<<>>) <= Len(<<>>) /\ ~(Len(<<>>) < Len(<<>>))
  BY <1>2, TotalEmpty, MaxElementIs
<1>5. BoardIsTight(<<>>, <<>>)
  BY <1>3, <1>4, FittingEmpty DEF BoardIsTight
<1> QED BY <1>1, <1>2, <1>5, BoardsAreTight DEF LimitsInv

LEMMA UpdateIsLimited ==
  ASSUME NEW t, NEW files, NEW b \in Seq(Nat), Update(t, files, b)
  PROVE  LimitsInv'
<1>1. board' = Limited(b) /\ arrived' = b /\ listed' = files \ BadFiles
  BY DEF Update
<1> QED BY <1>1, LimitedIsTight, BoardsAreTight DEF LimitsInv

LEMMA LimitsStep == LimitsInv /\ [LimitsNext]_limitVars => LimitsInv'
<1> SUFFICES ASSUME LimitsInv, [LimitsNext]_limitVars PROVE LimitsInv'
  OBVIOUS
<1>0. board \in Seq(Nat)
  BY DEF LimitsInv
<1>1. ASSUME NEW f \in Files, ListFile(f) PROVE LimitsInv'
  BY <1>0, <1>1, UpdateIsLimited DEF ListFile
<1>2. ASSUME NEW f \in Files, NEW n \in Lengths, EditText(f, n) PROVE LimitsInv'
  BY <1>0, <1>2, UpdateIsLimited DEF EditText
<1>3. ASSUME NEW batch \in Batches, AddElements(batch) PROVE LimitsInv'
  <2>1. batch \in Seq(Nat)
    BY LimitAssumption
  <2>2. board \o batch \in Seq(Nat)
    BY <1>0, <2>1, ConcatProperties
  <2> QED BY <1>3, <2>2, UpdateIsLimited DEF AddElements
<1>4. ASSUME NEW i \in DOMAIN board, NEW n \in Lengths, ResizeElement(i, n)
      PROVE  LimitsInv'
  <2>1. n \in Nat /\ i \in 1 .. Len(board)
    BY <1>0, LimitAssumption
  <2>2. [board EXCEPT ![i] = n] \in Seq(Nat)
    BY <1>0, <2>1, ExceptSeq
  <2> QED BY <1>4, <2>2, UpdateIsLimited DEF ResizeElement
<1>5. ASSUME UNCHANGED <<board, arrived, listed>> PROVE LimitsInv'
  <2>1. board' = board /\ arrived' = arrived /\ listed' = listed
    BY <1>5
  <2> QED BY <2>1, BoardsAreTight DEF LimitsInv
<1>6. ASSUME NEW f \in Files, OpenText(f) PROVE LimitsInv'
  BY <1>5, <1>6 DEF OpenText
<1>7. ASSUME UNCHANGED limitVars PROVE LimitsInv'
  BY <1>5, <1>7 DEF limitVars
<1> QED BY <1>1, <1>2, <1>3, <1>4, <1>6, <1>7 DEF LimitsNext

\* Whatever an update brings, the whiteboard that the three limits leave is
\* within all of them and the newest part of what arrived, and no more than
\* needed has gone if no element was too large, although the last limit is
\* enforced on a size from before the others (yjsCoordinator.js
\* enforceWhiteboardSizeLimit).
THEOREM LimitsStayTight == LimitsSpec => []LimitsAreTight
<1>1. LimitsInv => LimitsAreTight
  BY DEF LimitsInv
<1> QED BY <1>1, LimitsStart, LimitsStep, PTL DEF LimitsSpec
-----------------------------------------------------------------------------
\* More terms, none of them smaller, have no smaller sum.
LEMMA SumGrows ==
  ASSUME NEW S, NEW T, S \subseteq T, IsFiniteSet(T),
         NEW F \in [S -> Nat], NEW G \in [T -> Nat], \A x \in S : F[x] <= G[x]
  PROVE  /\ SumFunction(F) \in Nat /\ SumFunction(G) \in Nat
         /\ SumFunction(F) <= SumFunction(G)
<1>0. IsFiniteSet(S) /\ F \in [S -> Int] /\ G \in [T -> Int]
  BY FS_Subset
<1>1. PICK f \in [SUBSET S -> Int] : f = Unfolded(f, F, S) /\ SumFunction(F) = f[S]
  BY <1>0, SumsAreFolds
<1>2. PICK g \in [SUBSET T -> Int] : g = Unfolded(g, G, T) /\ SumFunction(G) = g[T]
  BY <1>0, SumsAreFolds
<1>3. f[S] <= g[S]
  <2> DEFINE W == {A \in SUBSET S : ~(f[A] <= g[A])}
  <2> SUFFICES ASSUME W # {} PROVE FALSE
    OBVIOUS
  <2>1. PICK A \in W : \A B \in W : B \subseteq A => B = A
    <3>1. W \subseteq SUBSET S
      OBVIOUS
    <3> HIDE DEF W
    <3> QED BY <1>0, <3>1, SmallestSubset
  <2>2. A # {}
    BY <1>1, <1>2, <2>1 DEF Unfolded
  <2>3. PICK x \in A : x = First(A)
    BY <2>2 DEF First
  <2>4. f[A] = F[x] + f[A \ {x}] /\ g[A] = G[x] + g[A \ {x}]
    BY <1>1, <1>2, <2>1, <2>2, <2>3 DEF Unfolded
  <2>5. f[A \ {x}] <= g[A \ {x}]
    BY <2>1
  <2>6. PICK a \in Int, b \in Int : a = f[A \ {x}] /\ b = g[A \ {x}]
    BY <1>1, <1>2, <2>1
  <2>7. F[x] \in Int /\ G[x] \in Int /\ F[x] <= G[x]
    BY <2>1
  <2> QED BY <2>1, <2>4, <2>5, <2>6, <2>7
<1>4. g[S] <= g[T]
  <2> DEFINE W == {B \in SUBSET T : S \subseteq B /\ ~(g[S] <= g[B])}
  <2> SUFFICES ASSUME W # {} PROVE FALSE
    OBVIOUS
  <2>1. PICK B \in W : \A A \in W : A \subseteq B => A = B
    <3>1. W \subseteq SUBSET T
      OBVIOUS
    <3> HIDE DEF W
    <3> QED BY <3>1, SmallestSubset
  <2>2. PICK x \in B : x \notin S
    <3>1. g[S] \in Int /\ B # S
      BY <1>2, <2>1
    <3> QED BY <2>1, <3>1
  <2>3. AnyFirst(g, G, T)
    BY <1>0, <1>2, Removal DEF SumsOf
  <2>4. g[B] = G[x] + g[B \ {x}]
    BY <2>1, <2>3 DEF AnyFirst
  <2>5. g[S] <= g[B \ {x}]
    BY <2>1, <2>2
  <2>6. PICK a \in Int, b \in Int : a = g[S] /\ b = g[B \ {x}]
    BY <1>2, <2>1
  <2>7. G[x] \in Nat
    BY <2>1
  <2> QED BY <2>1, <2>4, <2>5, <2>6, <2>7
<1>5. SumFunction(F) \in Nat /\ SumFunction(G) \in Nat
  BY <1>0, SumIsNatural
<1> QED BY <1>1, <1>2, <1>3, <1>4, <1>5

LEMMA TermBelowSum ==
  ASSUME NEW S, IsFiniteSet(S), NEW F \in [S -> Nat], NEW x \in S
  PROVE  SumFunction(F) \in Nat /\ F[x] <= SumFunction(F)
<1> DEFINE U == {x}
           G == [y \in U |-> F[y]]
<1>0. IsFiniteSet(U) /\ G \in [U -> Int] /\ G \in [U -> Nat] /\ U \subseteq S
  BY FS_Subset
<1>1. PICK g \in [SUBSET U -> Int] : g = Unfolded(g, G, U) /\ SumFunction(G) = g[U]
  BY <1>0, SumsAreFolds
<1>2. First(U) = x /\ U \ {x} = {} /\ U # {}
  BY DEF First
<1>3. g[{}] = 0 /\ g[U] = G[x] + g[U \ {x}]
  BY <1>1, <1>2 DEF Unfolded
<1>4. SumFunction(G) = F[x]
  <2>1. G[x] = F[x] /\ F[x] \in Int
    OBVIOUS
  <2>2. g[U \ {x}] = 0
    BY <1>2, <1>3
  <2>3. g[U] = F[x] + 0
    BY <1>3, <2>1, <2>2
  <2> HIDE DEF G, U
  <2> QED BY <1>1, <2>1, <2>3
<1>5. \A y \in U : G[y] <= F[y]
  OBVIOUS
<1> HIDE DEF G, U
<1> QED BY <1>0, <1>4, <1>5, SumGrows

LEMMA DivisionGrows ==
  ASSUME NEW m \in Nat, NEW n \in Nat, m <= n, NEW d \in Nat \ {0}
  PROVE  m \div d \in Nat /\ n \div d \in Nat /\ m \div d <= n \div d
<1>0. m \in Int /\ n \in Int /\ d \in Int /\ d > 0
  OBVIOUS
<1>1. m \div d \in Int /\ n \div d \in Int
  BY <1>0
<1>2. PICK a \in Int, b \in Int : a = m \div d /\ b = n \div d
  BY <1>1
<1>3. d * a <= m /\ m < d * a + d /\ d * b <= n /\ n < d * b + d
  BY <1>0, <1>2
<1>4. a >= 0 /\ b >= 0
  <2>1. \A x \in Int : x <= -1 => d * x <= -d
    OBVIOUS
  <2> QED BY <1>3, <2>1
<1>5. a <= b
  <2> SUFFICES ASSUME b + 1 <= a PROVE FALSE
    OBVIOUS
  <2>1. d * (b + 1) <= d * a /\ d * (b + 1) = d * b + d
    OBVIOUS
  <2> QED BY <1>3, <2>1
<1> QED BY <1>2, <1>4, <1>5

LEMMA RoundedGrows ==
  ASSUME NEW m \in Nat, NEW n \in Nat, m <= n, NEW d \in Nat \ {0}
  PROVE  Rounded(m, d) \in Nat /\ Rounded(n, d) \in Nat /\ Rounded(m, d) <= Rounded(n, d)
<1>1. /\ 2 * m + d \in Nat /\ 2 * n + d \in Nat /\ 2 * m + d <= 2 * n + d
      /\ 2 * d \in Nat \ {0}
  OBVIOUS
<1> QED BY <1>1, DivisionGrows DEF Rounded
-----------------------------------------------------------------------------
(***************************************************************************)
(* RoleFit.  The merged ranges have as many years as there are years in    *)
(* any of the ranges, and a set of years only grows with a range.          *)
(***************************************************************************)
DateRange == {r \in Nat \X Nat : r[1] <= r[2]}
YearsOf(A) == {y \in Nat : \E r \in A : r[1] <= y /\ y < r[2]}
Spans(m) == [i \in DOMAIN m |-> m[i][2] - m[i][1]]

\* Beyond the start of the last merged range, the years are the ones in it.
LastIs(A, l) ==
    /\ \E r \in A : r[1] = l[1]
    /\ \A y \in Nat : l[1] <= y => (y \in YearsOf(A) <=> y < l[2])

MergeOf(A, m) ==
    /\ m \in Seq(DateRange)
    /\ m = <<>> => A = {}
    /\ m # <<>> => LastIs(A, m[Len(m)])
    /\ IsFiniteSet(YearsOf(A))
    /\ Total(Spans(m)) = Cardinality(YearsOf(A))

LEMMA RangeFields ==
  \A r \in DateRange : r[1] \in Nat /\ r[2] \in Nat /\ r[1] <= r[2]
  BY DEF DateRange

LEMMA SpansTyped ==
  ASSUME NEW m \in Seq(DateRange)
  PROVE  /\ Spans(m) \in Seq(Nat) /\ Len(Spans(m)) = Len(m)
         /\ Spans(m) \in [1 .. Len(m) -> Int]
         /\ DOMAIN Spans(m) = 1 .. Len(m)
         /\ \A i \in 1 .. Len(m) : /\ m[i] \in DateRange
                                   /\ Spans(m)[i] = m[i][2] - m[i][1]
<1>1. /\ DOMAIN m = 1 .. Len(m) /\ Len(m) \in Nat
      /\ \A i \in 1 .. Len(m) : m[i] \in DateRange
  OBVIOUS
<1>2. \A r \in DateRange : r[2] - r[1] \in Nat
  BY DEF DateRange
<1>3. Spans(m) \in [1 .. Len(m) -> Nat]
  BY <1>1, <1>2 DEF Spans
<1>4. Spans(m) \in Seq(Nat)
  BY <1>1, <1>3, IsASeq
<1>5. Len(Spans(m)) = Len(m) /\ Spans(m) \in [1 .. Len(m) -> Int]
  BY <1>1, <1>3, <1>4
<1> QED BY <1>1, <1>3, <1>4, <1>5 DEF Spans

\* The years that a range adds are those from a on.
LEMMA YearsAdd ==
  ASSUME NEW A, IsFiniteSet(YearsOf(A)), NEW x \in DateRange, NEW a \in Nat, x[1] <= a,
         \A y \in Nat : a <= y => y \notin YearsOf(A),
         \A y \in Nat : x[1] <= y /\ y < a /\ y < x[2] => y \in YearsOf(A)
  PROVE  /\ IsFiniteSet(YearsOf(A \cup {x}))
         /\ Cardinality(YearsOf(A \cup {x})) =
              Cardinality(YearsOf(A)) + (IF a < x[2] THEN x[2] - a ELSE 0)
<1>0. x[1] \in Nat /\ x[2] \in Nat
  BY RangeFields
<1>1. PICK b \in Nat : b = x[2]
  BY <1>0
<1>2. YearsOf(A \cup {x}) = YearsOf(A) \cup (a .. b - 1)
  BY <1>0, <1>1 DEF YearsOf
<1>3. YearsOf(A) \cap (a .. b - 1) = {}
  BY <1>1
<1>4. /\ IsFiniteSet(a .. b - 1)
      /\ Cardinality(a .. b - 1) = IF a < b THEN b - a ELSE 0
  <2>1. /\ IsFiniteSet(a .. b - 1)
        /\ Cardinality(a .. b - 1) = IF a > b - 1 THEN 0 ELSE (b - 1) - a + 1
    BY FS_Interval
  <2> QED BY <2>1
<1>5. Cardinality({}) = 0 /\ Cardinality(YearsOf(A)) \in Nat
  BY FS_EmptySet, FS_CardinalityType
<1>6. /\ IsFiniteSet(YearsOf(A) \cup (a .. b - 1))
      /\ Cardinality(YearsOf(A) \cup (a .. b - 1)) =
           Cardinality(YearsOf(A)) + Cardinality(a .. b - 1) - Cardinality({})
  BY <1>3, <1>4, FS_Union
<1>7. PICK c \in Nat, e \in Nat : /\ c = Cardinality(YearsOf(A))
                                  /\ e = Cardinality(a .. b - 1)
  BY <1>4, <1>5, FS_CardinalityType
<1>8. Cardinality(YearsOf(A \cup {x})) = c + e - 0
  BY <1>2, <1>5, <1>6, <1>7
<1>9. IsFiniteSet(YearsOf(A \cup {x}))
  BY <1>2, <1>6
<1> QED BY <1>1, <1>4, <1>7, <1>8, <1>9

\* A range apart from the others is one more merged range.
LEMMA AppendMerges ==
  ASSUME NEW A, NEW m, MergeOf(A, m), NEW x \in DateRange,
         m = <<>> \/ m[Len(m)][2] < x[1], \A r \in A : r[1] <= x[1]
  PROVE  MergeOf(A \cup {x}, Append(m, x))
<1> DEFINE n == Append(m, x)
<1>0. m \in Seq(DateRange) /\ x[1] \in Nat /\ x[2] \in Nat /\ x[1] <= x[2]
  BY DEF MergeOf, DateRange
<1>1. /\ n \in Seq(DateRange) /\ Len(n) = Len(m) + 1 /\ Len(m) \in Nat
      /\ n[Len(n)] = x /\ n # <<>> /\ \A i \in 1 .. Len(m) : n[i] = m[i]
  BY <1>0, AppendProperties
<1>2. \A y \in Nat : x[1] <= y => y \notin YearsOf(A)
  <2>1. CASE m = <<>>
    BY <2>1 DEF MergeOf, YearsOf
  <2>2. CASE m # <<>>
    <3>1. Len(m) \in 1 .. Len(m) /\ m[Len(m)] \in DateRange
      BY <1>0, <2>2, EmptySeq
    <3>2. /\ m[Len(m)][1] \in Nat /\ m[Len(m)][2] \in Nat
          /\ m[Len(m)][1] <= m[Len(m)][2]
      BY <3>1 DEF DateRange
    <3> QED BY <1>0, <2>2, <3>2 DEF MergeOf, LastIs
  <2> QED BY <2>1, <2>2
<1>3. /\ IsFiniteSet(YearsOf(A \cup {x}))
      /\ Cardinality(YearsOf(A \cup {x})) =
           Cardinality(YearsOf(A)) + (IF x[1] < x[2] THEN x[2] - x[1] ELSE 0)
  BY <1>0, <1>2, YearsAdd DEF MergeOf
<1>4. LastIs(A \cup {x}, x)
  BY <1>0, <1>2 DEF LastIs, YearsOf
<1>5. Spans(n) = Append(Spans(m), x[2] - x[1])
  <2>1. /\ Spans(n) \in Seq(Nat) /\ Len(Spans(n)) = Len(m) + 1
        /\ \A i \in 1 .. Len(m) + 1 : Spans(n)[i] = n[i][2] - n[i][1]
    BY <1>1, SpansTyped
  <2>2. /\ Spans(m) \in Seq(Nat) /\ Len(Spans(m)) = Len(m)
        /\ \A i \in 1 .. Len(m) : Spans(m)[i] = m[i][2] - m[i][1]
    BY <1>0, SpansTyped
  <2>3. x[2] - x[1] \in Nat
    BY <1>0
  <2>4. /\ Append(Spans(m), x[2] - x[1]) \in Seq(Nat)
        /\ Len(Append(Spans(m), x[2] - x[1])) = Len(m) + 1
        /\ \A i \in 1 .. Len(m) : Append(Spans(m), x[2] - x[1])[i] = Spans(m)[i]
        /\ Append(Spans(m), x[2] - x[1])[Len(m) + 1] = x[2] - x[1]
    BY <2>2, <2>3, AppendProperties
  <2>5. \A i \in 1 .. Len(m) + 1 : Spans(n)[i] = Append(Spans(m), x[2] - x[1])[i]
    BY <1>1, <2>1, <2>2, <2>4
  <2> QED BY <1>1, <2>1, <2>4, <2>5, SeqEqual
<1>6. Total(Spans(n)) = Total(Spans(m)) + (x[2] - x[1])
  <2>1. Spans(m) \in Seq(Nat) /\ x[2] - x[1] \in Nat
    BY <1>0, SpansTyped
  <2> QED BY <1>5, <2>1, TotalAppend
<1>7. PICK c \in Nat : c = Cardinality(YearsOf(A)) /\ c = Total(Spans(m))
  BY FS_CardinalityType DEF MergeOf
<1>8. Total(Spans(n)) = Cardinality(YearsOf(A \cup {x}))
  BY <1>0, <1>3, <1>6, <1>7
<1> QED BY <1>1, <1>3, <1>4, <1>8 DEF MergeOf

\* A range that meets the last one makes that one longer, or lies in it.
LEMMA MeetingMerges ==
  ASSUME NEW A, NEW m, MergeOf(A, m), NEW x \in DateRange, m # <<>>,
         x[1] <= m[Len(m)][2], \A r \in A : r[1] <= x[1]
  PROVE  MergeOf(A \cup {x},
                 [m EXCEPT ![Len(m)] = <<@[1], Most(@[2], x[2])>>])
<1> DEFINE k == Len(m)
           l == m[k]
           e == Most(l[2], x[2])
           n == [m EXCEPT ![k] = <<l[1], e>>]
<1>0. /\ m \in Seq(DateRange) /\ x[1] \in Nat /\ x[2] \in Nat /\ x[1] <= x[2]
      /\ DOMAIN m = 1 .. k /\ k \in Nat
  BY DEF MergeOf, DateRange
<1>1. k \in 1 .. k /\ l \in DateRange
  BY <1>0, EmptySeq
<1>2. l[1] \in Nat /\ l[2] \in Nat /\ l[1] <= l[2] /\ LastIs(A, l)
  BY <1>1 DEF DateRange, MergeOf
<1>3. e \in Nat /\ l[2] <= e /\ x[2] <= e /\ (e = l[2] \/ e = x[2])
  BY <1>0, <1>2 DEF Most
<1>4. l[1] <= x[1]
  BY <1>0, <1>2 DEF LastIs
<1>5. <<l[1], e>> \in DateRange
  BY <1>2, <1>3 DEF DateRange
<1> HIDE DEF e
<1>6. /\ n \in Seq(DateRange) /\ Len(n) = k /\ n # <<>> /\ n[k] = <<l[1], e>>
      /\ \A i \in 1 .. k : i # k => n[i] = m[i]
  <2>1. n \in [1 .. k -> DateRange]
    BY <1>0, <1>1, <1>5
  <2>2. n \in Seq(DateRange) /\ Len(n) = k
    BY <1>0, <2>1, IsASeq
  <2> QED BY <1>0, <1>1, <2>2, EmptySeq
<1> HIDE DEF n
<1>7. /\ IsFiniteSet(YearsOf(A \cup {x}))
      /\ Cardinality(YearsOf(A \cup {x})) = Cardinality(YearsOf(A)) + (e - l[2])
  <2>1. \A y \in Nat : l[2] <= y => y \notin YearsOf(A)
    BY <1>2 DEF LastIs
  <2>2. \A y \in Nat : x[1] <= y /\ y < l[2] => y \in YearsOf(A)
    BY <1>0, <1>2, <1>4 DEF LastIs
  <2>3. /\ IsFiniteSet(YearsOf(A \cup {x}))
        /\ Cardinality(YearsOf(A \cup {x})) =
             Cardinality(YearsOf(A)) + (IF l[2] < x[2] THEN x[2] - l[2] ELSE 0)
    BY <1>2, <2>1, <2>2, YearsAdd DEF MergeOf
  <2>4. e - l[2] = IF l[2] < x[2] THEN x[2] - l[2] ELSE 0
    BY <1>0, <1>2 DEF e, Most
  <2> QED BY <2>3, <2>4
<1>8. LastIs(A \cup {x}, <<l[1], e>>)
  <2>1. \A y \in Nat : y \in YearsOf(A \cup {x}) <=>
                         y \in YearsOf(A) \/ (x[1] <= y /\ y < x[2])
    BY DEF YearsOf
  <2>2. \A y \in Nat : l[1] <= y => (y \in YearsOf(A) <=> y < l[2])
    BY <1>2 DEF LastIs
  <2>3. ASSUME NEW y \in Nat, l[1] <= y
        PROVE  y \in YearsOf(A \cup {x}) <=> y < e
    <3>1. PICK u \in Nat, v \in Nat, w \in Nat :
            u = x[1] /\ v = x[2] /\ w = l[2] /\ u <= w
      BY <1>0, <1>2
    <3>2. y \in YearsOf(A) <=> y < w
      BY <2>2, <2>3, <3>1
    <3>3. w <= e /\ v <= e /\ (e = w \/ e = v)
      BY <1>3, <3>1
    <3>4. y < w \/ (u <= y /\ y < v) <=> y < e
      BY <1>3, <3>1, <3>3
    <3> QED BY <2>1, <3>1, <3>2, <3>4
  <2>4. \E r \in A \cup {x} : r[1] = l[1]
    BY <1>2 DEF LastIs
  <2>5. <<l[1], e>>[1] = l[1] /\ <<l[1], e>>[2] = e
    OBVIOUS
  <2> QED BY <2>3, <2>4, <2>5 DEF LastIs
<1>9. Total(Spans(n)) = Total(Spans(m)) + (e - l[2])
  <2>1. /\ Spans(n) \in [1 .. k -> Int] /\ Spans(m) \in [1 .. k -> Int]
        /\ \A i \in 1 .. k : Spans(n)[i] = n[i][2] - n[i][1]
        /\ \A i \in 1 .. k : Spans(m)[i] = m[i][2] - m[i][1]
    BY <1>0, <1>6, SpansTyped
  <2>2. \A i \in (1 .. k) \ {k} : Spans(n)[i] = Spans(m)[i]
    BY <1>6, <2>1
  <2>3. Spans(n)[k] = e - l[1] /\ Spans(m)[k] = l[2] - l[1]
    BY <1>1, <1>6, <2>1
  <2>4. IsFiniteSet(1 .. k)
    BY <1>0, FS_Interval
  <2>5. SumFunction(Spans(n)) = SumFunction(Spans(m)) + (Spans(n)[k] - Spans(m)[k])
    <3>1. PICK f \in [1 .. k -> Int], g \in [1 .. k -> Int] : f = Spans(m) /\ g = Spans(n)
      BY <2>1
    <3>2. \A i \in (1 .. k) \ {k} : g[i] = f[i]
      BY <2>2, <3>1
    <3>3. SumFunction(g) = SumFunction(f) + (g[k] - f[k])
      BY <1>1, <2>4, <3>2, SumChanges
    <3> QED BY <3>1, <3>3
  <2>6. Spans(n)[k] - Spans(m)[k] = e - l[2]
    BY <1>2, <1>3, <2>3
  <2> QED BY <2>5, <2>6 DEF Total
<1>10. Total(Spans(n)) = Cardinality(YearsOf(A \cup {x}))
  BY <1>7, <1>9 DEF MergeOf
<1>11. MergeOf(A \cup {x}, n)
  BY <1>6, <1>7, <1>8, <1>10 DEF MergeOf
<1> QED BY <1>11 DEF e, n

LEMMA MergeGoesOn ==
  ASSUME NEW A, A \subseteq DateRange, NEW m, MergeOf(A, m), NEW x \in DateRange,
         \A r \in A : r[1] <= x[1]
  PROVE  MergeOf(A \cup {x}, Merged(m, x))
<1>1. m # <<>> => m[Len(m)] \in DateRange
  <2> SUFFICES ASSUME m # <<>> PROVE m[Len(m)] \in DateRange
    OBVIOUS
  <2>1. m \in Seq(DateRange)
    BY DEF MergeOf
  <2> QED BY <2>1, EmptySeq
<1>2. CASE m # <<>> /\ x[1] <= m[Len(m)][2]
  BY <1>2, MeetingMerges DEF Merged
<1>3. CASE ~(m # <<>> /\ x[1] <= m[Len(m)][2])
  <2>1. m = <<>> \/ m[Len(m)][2] < x[1]
    BY <1>1, <1>3 DEF DateRange
  <2> QED BY <1>3, <2>1, AppendMerges DEF Merged
<1> QED BY <1>2, <1>3

LEMMA LastExists ==
  ASSUME NEW D, IsFiniteSet(D), D \subseteq DateRange, NEW A \in SUBSET D, A # {}
  PROVE  LastOf(A) \in A /\ \A b \in A : b[1] <= LastOf(A)[1]
<1> DEFINE Last(B, a) == \A b \in B : b[1] < a[1] \/ (b[1] = a[1] /\ b[2] <= a[2])
           T == {B \in SUBSET D : B # {} /\ ~\E a \in B : Last(B, a)}
<1>0. \A r \in D : r[1] \in Nat /\ r[2] \in Nat
  BY DEF DateRange
<1>1. T = {}
  <2> SUFFICES ASSUME T # {} PROVE FALSE
    OBVIOUS
  <2>1. PICK B \in T : \A C \in T : C \subseteq B => C = B
    <3>1. T \subseteq SUBSET D
      OBVIOUS
    <3> HIDE DEF T
    <3> QED BY <3>1, SmallestSubset
  <2>2. PICK x \in B : TRUE
    BY <2>1
  <2>3. CASE B \ {x} = {}
    <3>1. Last(B, x)
      BY <1>0, <2>1, <2>2, <2>3
    <3> QED BY <2>1, <2>2, <3>1
  <2>4. CASE B \ {x} # {}
    <3>0. B \ {x} \notin T
      <4> HIDE DEF T
      <4> QED BY <2>1, <2>2
    <3>1. PICK a \in B \ {x} : Last(B \ {x}, a)
      BY <2>1, <2>4, <3>0
    <3>2. Last(B, a) \/ Last(B, x)
      BY <1>0, <2>1, <2>2, <3>1
    <3> QED BY <2>1, <2>2, <3>1, <3>2
  <2> QED BY <2>3, <2>4
<1>2. PICK a \in A : Last(A, a)
  BY <1>1
<1>3. LastOf(A) \in A /\ Last(A, LastOf(A))
  BY <1>2 DEF LastOf
<1> QED BY <1>0, <1>3

\* One more unfolding of a table of merged ranges.
MergedOnce(t, D) ==
    [A \in SUBSET D |-> IF A = {} THEN <<>>
                        ELSE Merged(t[A \ {LastOf(A)}], LastOf(A))]

LEMMA MergedTable ==
  ASSUME NEW D, IsFiniteSet(D), D \subseteq DateRange
  PROVE  \E t : t = MergedOnce(t, D)
<1>1. \A A \in SUBSET D : IsFiniteSet(A) /\ Cardinality(A) \in Nat
  BY FS_Subset, FS_CardinalityType
<1>2. \A A \in SUBSET D : A # {} =>
        /\ LastOf(A) \in A /\ A \ {LastOf(A)} \in SUBSET D
        /\ Cardinality(A \ {LastOf(A)}) = Cardinality(A) - 1
  BY <1>1, LastExists, FS_RemoveElement
<1> DEFINE Right(t, n) == \A A \in SUBSET D : Cardinality(A) <= n => t[A] = MergedOnce(t, D)[A]
           T == {n \in Nat : \E t : Right(t, n)}
<1>3. Right([A \in SUBSET D |-> <<>>], 0)
  <2> SUFFICES ASSUME NEW A \in SUBSET D, Cardinality(A) <= 0
               PROVE  MergedOnce([B \in SUBSET D |-> <<>>], D)[A] = <<>>
    OBVIOUS
  <2>1. A = {}
    BY <1>1, FS_EmptySet
  <2> QED BY <2>1 DEF MergedOnce
<1>4. ASSUME NEW n \in Nat, NEW t, Right(t, n)
      PROVE  Right(MergedOnce(t, D), n + 1)
  <2> SUFFICES ASSUME NEW A \in SUBSET D, Cardinality(A) <= n + 1
               PROVE  MergedOnce(t, D)[A] = MergedOnce(MergedOnce(t, D), D)[A]
    OBVIOUS
  <2>1. CASE A = {}
    BY <2>1 DEF MergedOnce
  <2>2. CASE A # {}
    <3>1. /\ LastOf(A) \in A /\ A \ {LastOf(A)} \in SUBSET D
          /\ Cardinality(A \ {LastOf(A)}) <= n
      BY <1>1, <1>2, <2>2
    <3>2. t[A \ {LastOf(A)}] = MergedOnce(t, D)[A \ {LastOf(A)}]
      BY <1>4, <3>1
    <3> QED BY <2>2, <3>1, <3>2 DEF MergedOnce
  <2> QED BY <2>1, <2>2
<1>5. 0 \in T
  BY <1>3
<1>6. \A n \in Nat : n \in T => n + 1 \in T
  BY <1>4
<1>7. Cardinality(D) \in T
  <2> HIDE DEF T
  <2> QED BY <1>1, <1>5, <1>6, Induction
<1>8. PICK t : Right(t, Cardinality(D))
  BY <1>7
<1>9. \A A \in SUBSET D : Cardinality(A) <= Cardinality(D)
  BY FS_Subset
<1>10. MergedOnce(t, D) = MergedOnce(MergedOnce(t, D), D)
  <2>1. \A A \in SUBSET D : t[A] = MergedOnce(t, D)[A]
    BY <1>8, <1>9
  <2>2. \A A \in SUBSET D : A # {} => A \ {LastOf(A)} \in SUBSET D
    BY <1>2
  <2> QED BY <2>1, <2>2 DEF MergedOnce
<1> QED BY <1>10

LEMMA MergedRangesAre ==
  ASSUME NEW D, IsFiniteSet(D), D \subseteq DateRange
  PROVE  MergeOf(D, MergedRanges(D))
<1> DEFINE t == CHOOSE t : t = MergedOnce(t, D)
<1>1. t = MergedOnce(t, D)
  BY MergedTable
<1>2. MergedRanges(D) = t[D]
  BY DEF MergedRanges, MergedOnce
<1> HIDE DEF t
<1> DEFINE T == {A \in SUBSET D : ~MergeOf(A, t[A])}
<1> SUFFICES ASSUME T # {} PROVE FALSE
  BY <1>2
<1>3. PICK A \in T : \A B \in T : B \subseteq A => B = A
  <2>1. T \subseteq SUBSET D
    OBVIOUS
  <2> HIDE DEF T
  <2> QED BY <2>1, SmallestSubset
<1>4. A # {}
  <2> SUFFICES ASSUME A = {} PROVE MergeOf(A, t[A])
    BY <1>3
  <2>1. t[A] = <<>>
    BY <1>1, <1>3 DEF MergedOnce
  <2>2. YearsOf(A) = {}
    BY DEF YearsOf
  <2>3. Spans(<<>>) = <<>>
    BY DEF Spans
  <2> QED BY <2>1, <2>2, <2>3, TotalEmpty, FS_EmptySet DEF MergeOf
<1>5. PICK x \in A : x = LastOf(A)
  BY <1>3, <1>4, LastExists
<1>6. x \in DateRange /\ A \ {x} \in SUBSET D /\ \A r \in A \ {x} : r[1] <= x[1]
  BY <1>3, <1>4, <1>5, LastExists
<1>7. MergeOf(A \ {x}, t[A \ {x}])
  BY <1>3, <1>6
<1>8. MergeOf((A \ {x}) \cup {x}, Merged(t[A \ {x}], x))
  BY <1>6, <1>7, MergeGoesOn
<1>9. t[A] = Merged(t[A \ {x}], x) /\ (A \ {x}) \cup {x} = A
  BY <1>1, <1>3, <1>4, <1>5 DEF MergedOnce
<1> QED BY <1>3, <1>8, <1>9
-----------------------------------------------------------------------------
\* q is p with more in it.
More(p, q) ==
    /\ p \in ResumeProfile /\ q \in ResumeProfile
    /\ p.skills \subseteq q.skills /\ p.roles \subseteq q.roles
    /\ p.bullets \subseteq q.bullets /\ p.projects \subseteq q.projects
    /\ p.achievements \subseteq q.achievements /\ p.degrees \subseteq q.degrees
    /\ p.contact \subseteq q.contact /\ p.sections \subseteq q.sections

LEMMA ProfileFields ==
  ASSUME NEW p \in ResumeProfile
  PROVE  /\ p.skills \in SUBSET Terms /\ IsFiniteSet(p.skills)
         /\ p.roles \in SUBSET Roles /\ IsFiniteSet(p.roles)
         /\ p.bullets \in SUBSET Texts /\ IsFiniteSet(p.bullets)
         /\ p.projects \in SUBSET Texts /\ IsFiniteSet(p.projects)
         /\ p.achievements \in SUBSET Texts /\ IsFiniteSet(p.achievements)
         /\ p.contact \in SUBSET ContactFields
         /\ p.sections \in SUBSET Sections /\ IsFiniteSet(p.sections)
<1>1. IsFiniteSet(Sections)
  <2>1. IsFiniteSet({}) /\ Sections = ((((({} \cup {"contact"}) \cup {"summary"}) \cup {"skills"})
                              \cup {"experience"}) \cup {"education"})
    BY FS_EmptySet DEF Sections
  <2> QED BY <2>1, FS_AddElement
<1>2. p.sections \in SUBSET Sections
  BY DEF ResumeProfile
<1>3. IsFiniteSet(p.sections)
  BY <1>1, <1>2, FS_Subset
<1> QED BY <1>2, <1>3 DEF ResumeProfile, Finite

LEMMA CountGrows ==
  ASSUME NEW B, IsFiniteSet(B), NEW A \in SUBSET B
  PROVE  Cardinality(A) \in Nat /\ Cardinality(B) \in Nat /\ Cardinality(A) <= Cardinality(B)
  BY FS_Subset, FS_CardinalityType

LEMMA ScaledGrows ==
  ASSUME NEW k \in Nat, NEW m \in Nat, NEW n \in Nat, m <= n
  PROVE  k * m \in Nat /\ k * n \in Nat /\ k * m <= k * n
  OBVIOUS

LEMMA LeastGrows ==
  ASSUME NEW m \in Nat, NEW n \in Nat, m <= n, NEW k \in Nat
  PROVE  Least(m, k) \in Nat /\ Least(n, k) \in Nat /\ Least(m, k) <= Least(n, k)
  BY DEF Least

LEMMA EvidenceGrows ==
  ASSUME NEW p, NEW q, More(p, q), NEW term, Evidenced(p, term)
  PROVE  Evidenced(q, term)
  BY DEF More, Evidenced

LEMMA WeightGrows ==
  ASSUME NEW R, RequirementsOK(R), NEW B \in SUBSET R, NEW A \in SUBSET B
  PROVE  Weight(A) \in Nat /\ Weight(B) \in Nat /\ Weight(A) <= Weight(B)
<1>1. IsFiniteSet(B)
  BY FS_Subset DEF RequirementsOK
<1>2. [x \in A |-> x.weight] \in [A -> Nat] /\ [x \in B |-> x.weight] \in [B -> Nat]
  BY DEF RequirementsOK
<1>3. \A x \in A : [y \in A |-> y.weight][x] <= [y \in B |-> y.weight][x]
  BY DEF RequirementsOK
<1> QED BY <1>1, <1>2, <1>3, SumGrows DEF Weight

LEMMA WeightPositive ==
  ASSUME NEW R, RequirementsOK(R), R # {}
  PROVE  Weight(R) \in Nat \ {0}
<1>1. PICK x \in R : x.weight \in Nat \ {0}
  BY DEF RequirementsOK
<1>2. [y \in R |-> y.weight] \in [R -> Nat] /\ IsFiniteSet(R)
  BY DEF RequirementsOK
<1>3. Weight(R) \in Nat /\ [y \in R |-> y.weight][x] <= Weight(R)
  BY <1>2, TermBelowSum DEF Weight
<1> QED BY <1>1, <1>3

\* The rounded share of the weight that is found.
LEMMA ShareGrows ==
  ASSUME NEW p, NEW q, More(p, q), NEW R, RequirementsOK(R), R # {}, NEW k \in Nat
  PROVE  /\ Rounded(k * Weight(Matched(p, R)), Weight(R)) \in Nat
         /\ Rounded(k * Weight(Matched(q, R)), Weight(R)) \in Nat
         /\ Rounded(k * Weight(Matched(p, R)), Weight(R))
              <= Rounded(k * Weight(Matched(q, R)), Weight(R))
<1>1. Matched(q, R) \in SUBSET R /\ Matched(p, R) \in SUBSET Matched(q, R)
  BY EvidenceGrows DEF Matched
<1>2. PICK m \in Nat, n \in Nat :
        m = Weight(Matched(p, R)) /\ n = Weight(Matched(q, R)) /\ m <= n
  BY <1>1, WeightGrows
<1>3. k * m \in Nat /\ k * n \in Nat /\ k * m <= k * n
  BY <1>2, ScaledGrows
<1> QED BY <1>2, <1>3, WeightPositive, RoundedGrows

LEMMA JobFields ==
  ASSUME NEW j \in FitJobs
  PROVE  /\ RequirementsOK(j.mustHave) /\ RequirementsOK(j.preferred)
         /\ IsFiniteSet(j.phrases) /\ j.minYears \in Nat
         /\ PreferredMax(j) \in Nat /\ ResponsibilityMax(j) \in Nat
  BY RoleFitAssumption DEF PreferredMax, ResponsibilityMax

LEMMA RequiredSkillsGrow ==
  ASSUME NEW p, NEW q, More(p, q), NEW j \in FitJobs
  PROVE  /\ RequiredSkills(p, j) \in Nat /\ RequiredSkills(q, j) \in Nat
         /\ RequiredSkills(p, j) <= RequiredSkills(q, j)
<1>1. CASE Redistributed(j)
  BY <1>1 DEF RequiredSkills
<1>2. CASE ~Redistributed(j)
  <2>1. RequirementsOK(j.mustHave) /\ j.mustHave # {}
    BY <1>2, JobFields DEF Redistributed
  <2>2. /\ RequiredSkills(p, j) =
             Rounded(350 * Weight(Matched(p, j.mustHave)), Weight(j.mustHave))
        /\ RequiredSkills(q, j) =
             Rounded(350 * Weight(Matched(q, j.mustHave)), Weight(j.mustHave))
    BY <1>2 DEF RequiredSkills
  <2>3. 350 \in Nat
    OBVIOUS
  <2> QED BY <2>1, <2>2, <2>3, ShareGrows
<1> QED BY <1>1, <1>2

LEMMA PreferredSkillsGrow ==
  ASSUME NEW p, NEW q, More(p, q), NEW j \in FitJobs
  PROVE  /\ PreferredSkills(p, j) \in Nat /\ PreferredSkills(q, j) \in Nat
         /\ PreferredSkills(p, j) <= PreferredSkills(q, j)
<1>1. CASE j.preferred = {}
  BY <1>1, JobFields DEF PreferredSkills
<1>2. CASE j.preferred # {}
  <2>1. RequirementsOK(j.preferred) /\ PreferredMax(j) \in Nat
    BY JobFields
  <2>2. /\ PreferredSkills(p, j) =
             Rounded(PreferredMax(j) * Weight(Matched(p, j.preferred)), Weight(j.preferred))
        /\ PreferredSkills(q, j) =
             Rounded(PreferredMax(j) * Weight(Matched(q, j.preferred)), Weight(j.preferred))
    BY <1>2 DEF PreferredSkills
  <2> QED BY <1>2, <2>1, <2>2, ShareGrows
<1> QED BY <1>1, <1>2

Dated(roles) == {<<r.from, r.to>> : r \in {o \in roles : o.stated = 0}}

LEMMA DatedAre ==
  ASSUME NEW R \in SUBSET Roles, IsFiniteSet(R)
  PROVE  IsFiniteSet(Dated(R)) /\ Dated(R) \subseteq DateRange
<1> DEFINE A == {o \in R : o.stated = 0}
           f == [r \in A |-> <<r.from, r.to>>]
<1>1. IsFiniteSet(A)
  BY FS_Subset
<1>2. f \in Surjection(A, Dated(R))
  BY DEF Surjection, Dated
<1>3. IsFiniteSet(Dated(R))
  BY <1>1, <1>2, FS_Surjection
<1>4. \A r \in R : <<r.from, r.to>> \in DateRange
  <2> SUFFICES ASSUME NEW r \in R PROVE <<r.from, r.to>> \in DateRange
    OBVIOUS
  <2>1. r.from \in Nat /\ r.to \in Nat /\ r.from <= r.to
    BY RoleFitAssumption
  <2> QED BY <2>1 DEF DateRange
<1> QED BY <1>3, <1>4 DEF Dated

LEMMA YearsGrow ==
  ASSUME NEW S \in SUBSET Roles, IsFiniteSet(S), NEW R \in SUBSET S
  PROVE  /\ EstimateExperienceYears(R) \in Nat /\ EstimateExperienceYears(S) \in Nat
         /\ EstimateExperienceYears(R) <= EstimateExperienceYears(S)
<1> DEFINE Stated(A) == SumFunction([r \in A |-> r.stated])
<1>0. R \in SUBSET Roles /\ IsFiniteSet(R)
  BY FS_Subset
<1>1. ASSUME NEW A \in SUBSET Roles, IsFiniteSet(A)
      PROVE  /\ IsFiniteSet(YearsOf(Dated(A)))
             /\ EstimateExperienceYears(A) = Cardinality(YearsOf(Dated(A))) + Stated(A)
  <2>1. MergeOf(Dated(A), MergedRanges(Dated(A)))
    BY <1>1, DatedAre, MergedRangesAre
  <2>2. EstimateExperienceYears(A) = Total(Spans(MergedRanges(Dated(A)))) + Stated(A)
    BY DEF EstimateExperienceYears, Dated, Total, Spans
  <2> QED BY <2>1, <2>2 DEF MergeOf
<1>2. YearsOf(Dated(R)) \in SUBSET YearsOf(Dated(S))
  BY DEF YearsOf, Dated
<1>3. PICK a \in Nat, b \in Nat : /\ a = Cardinality(YearsOf(Dated(R)))
                                  /\ b = Cardinality(YearsOf(Dated(S))) /\ a <= b
  BY <1>1, <1>2, CountGrows
<1>4. PICK c \in Nat, d \in Nat : c = Stated(R) /\ d = Stated(S) /\ c <= d
  <2>1. \A r \in S : r.stated \in Nat
    BY RoleFitAssumption
  <2>2. [r \in R |-> r.stated] \in [R -> Nat] /\ [r \in S |-> r.stated] \in [S -> Nat]
    BY <2>1
  <2>3. \A x \in R : [r \in R |-> r.stated][x] <= [r \in S |-> r.stated][x]
    BY <2>1
  <2>4. Stated(R) \in Nat /\ Stated(S) \in Nat /\ Stated(R) <= Stated(S)
    BY <2>2, <2>3, SumGrows
  <2> QED BY <2>4
<1>5. EstimateExperienceYears(R) = a + c /\ EstimateExperienceYears(S) = b + d
  BY <1>0, <1>1, <1>3, <1>4
<1> QED BY <1>3, <1>4, <1>5

LEMMA RelevantExperienceGrows ==
  ASSUME NEW p, NEW q, More(p, q), NEW j \in FitJobs
  PROVE  /\ RelevantExperience(p, j) \in Nat /\ RelevantExperience(q, j) \in Nat
         /\ RelevantExperience(p, j) <= RelevantExperience(q, j)
<1> DEFINE Met(x) == IF j.minYears = 0 THEN 90
                     ELSE Rounded(90 * Least(EstimateExperienceYears(x.roles), j.minYears),
                                  j.minYears)
           Titled(x) == IF \E r \in x.roles : r.title = j.title THEN 60
                        ELSE IF x.roles # {} THEN 40 ELSE 0
<1>1. PICK m \in Nat, n \in Nat : m = Met(p) /\ n = Met(q) /\ m <= n
  <2>0. j.minYears \in Nat
    BY JobFields
  <2>1. CASE j.minYears = 0
    BY <2>1
  <2>2. CASE j.minYears # 0
    <3>1. PICK a \in Nat, b \in Nat : /\ a = EstimateExperienceYears(p.roles)
                                      /\ b = EstimateExperienceYears(q.roles) /\ a <= b
      BY ProfileFields, YearsGrow DEF More
    <3>2. PICK c \in Nat, d \in Nat : c = Least(a, j.minYears) /\ d = Least(b, j.minYears) /\ c <= d
      BY <2>0, <3>1, LeastGrows
    <3>3. 90 * c \in Nat /\ 90 * d \in Nat /\ 90 * c <= 90 * d
      BY <3>2
    <3>4. Met(p) = Rounded(90 * c, j.minYears) /\ Met(q) = Rounded(90 * d, j.minYears)
      BY <2>2, <3>1, <3>2
    <3> QED BY <2>0, <2>2, <3>3, <3>4, RoundedGrows
  <2> QED BY <2>1, <2>2
<1>2. PICK t \in Nat, u \in Nat : t = Titled(p) /\ u = Titled(q) /\ t <= u
  BY DEF More
<1>3. RelevantExperience(p, j) = Least(m + t, 150) /\ RelevantExperience(q, j) = Least(n + u, 150)
  BY <1>1, <1>2 DEF RelevantExperience
<1> QED BY <1>1, <1>2, <1>3 DEF Least

LEMMA ResponsibilitiesGrow ==
  ASSUME NEW p, NEW q, More(p, q), NEW j \in FitJobs
  PROVE  /\ Responsibilities(p, j) \in Nat /\ Responsibilities(q, j) \in Nat
         /\ Responsibilities(p, j) <= Responsibilities(q, j)
<1>0. p \in ResumeProfile /\ q \in ResumeProfile
  BY DEF More
<1>1. CASE j.phrases = {}
  <2>1. PICK a \in Nat, b \in Nat : /\ a = Cardinality(p.bullets)
                                    /\ b = Cardinality(q.bullets) /\ a <= b
    BY <1>0, ProfileFields, CountGrows DEF More
  <2>2. PICK c \in Nat, d \in Nat : /\ c = Cardinality(p.projects)
                                    /\ d = Cardinality(q.projects) /\ c <= d
    BY <1>0, ProfileFields, CountGrows DEF More
  <2>3. /\ Responsibilities(p, j) = Least(15 * (a + c), ResponsibilityMax(j))
        /\ Responsibilities(q, j) = Least(15 * (b + d), ResponsibilityMax(j))
    BY <1>1, <2>1, <2>2 DEF Responsibilities, BulletCount
  <2>4. 15 * (a + c) \in Nat /\ 15 * (b + d) \in Nat /\ 15 * (a + c) <= 15 * (b + d)
    BY <2>1, <2>2
  <2> QED BY <2>3, <2>4, JobFields, LeastGrows
<1>2. CASE j.phrases # {}
  <2> DEFINE Found(x) == {f \in j.phrases : Covered(x, f)}
  <2>1. /\ Found(p) \in SUBSET Found(q) /\ Found(q) \in SUBSET j.phrases
    BY DEF More, Covered
  <2>2. IsFiniteSet(Found(q)) /\ IsFiniteSet(j.phrases)
    BY JobFields, FS_Subset
  <2>3. PICK a \in Nat, b \in Nat : /\ a = Cardinality(Found(p))
                                    /\ b = Cardinality(Found(q)) /\ a <= b
    BY <2>1, <2>2, CountGrows
  <2>4. PICK d \in Nat \ {0} : d = Cardinality(j.phrases)
    BY <1>2, <2>2, FS_CardinalityType, FS_EmptySet
  <2>5. PICK k \in Nat : k = ResponsibilityMax(j)
    BY JobFields
  <2>6. /\ Responsibilities(p, j) = Rounded(k * a, d)
        /\ Responsibilities(q, j) = Rounded(k * b, d)
    BY <1>2, <2>3, <2>4, <2>5 DEF Responsibilities
  <2>7. k * a \in Nat /\ k * b \in Nat /\ k * a <= k * b
    BY <2>3, <2>5, ScaledGrows
  <2> QED BY <2>4, <2>6, <2>7, RoundedGrows
<1> QED BY <1>1, <1>2

LEMMA ImpactGrows ==
  ASSUME NEW p, NEW q, More(p, q)
  PROVE  Impact(p) \in Nat /\ Impact(q) \in Nat /\ Impact(p) <= Impact(q)
<1>1. /\ IsFiniteSet(q.bullets \cap Measured) /\ IsFiniteSet(q.projects \cap Measured)
      /\ p.bullets \cap Measured \in SUBSET (q.bullets \cap Measured)
      /\ p.projects \cap Measured \in SUBSET (q.projects \cap Measured)
  BY ProfileFields, FS_Subset DEF More
<1>2. PICK a \in Nat, b \in Nat : /\ a = Cardinality(p.bullets \cap Measured)
                                  /\ b = Cardinality(q.bullets \cap Measured) /\ a <= b
  BY <1>1, CountGrows
<1>3. PICK c \in Nat, d \in Nat : /\ c = Cardinality(p.projects \cap Measured)
                                  /\ d = Cardinality(q.projects \cap Measured) /\ c <= d
  BY <1>1, CountGrows
<1>4. Impact(p) = Least(25 * (a + c), 100) /\ Impact(q) = Least(25 * (b + d), 100)
  BY <1>2, <1>3 DEF Impact, MeasuredCount
<1> QED BY <1>2, <1>3, <1>4 DEF Least

LEMMA FixedPartsGrow ==
  ASSUME NEW p, NEW q, More(p, q), NEW j
  PROVE  /\ Education(p, j) \in Nat /\ Education(q, j) \in Nat
         /\ Education(p, j) <= Education(q, j)
         /\ Readability(p) \in Nat /\ Readability(q) \in Nat
         /\ Readability(p) <= Readability(q)
<1>1. /\ Education(p, j) \in Nat /\ Education(q, j) \in Nat
      /\ Education(p, j) <= Education(q, j)
  BY DEF More, Education
<1>2. \A x : Readability(x) \in {100, 80, 60, 40}
  BY DEF Readability, Most
<1>3. Readability(p) <= Readability(q)
  BY DEF More, Readability, Most
<1> QED BY <1>1, <1>2, <1>3

LEMMA FitGrows ==
  ASSUME NEW p, NEW q, More(p, q), NEW j \in FitJobs
  PROVE  ScoreRoleFit(p, j) <= ScoreRoleFit(q, j)
<1> DEFINE F == [i \in 1 .. 7 |-> Categories(p, j)[i].score]
           G == [i \in 1 .. 7 |-> Categories(q, j)[i].score]
<1>1. \A i \in 1 .. 7 : F[i] \in Nat /\ G[i] \in Nat /\ F[i] <= G[i]
  BY RequiredSkillsGrow, PreferredSkillsGrow, RelevantExperienceGrows,
     ResponsibilitiesGrow, ImpactGrows, FixedPartsGrow DEF Categories
<1>2. F \in [1 .. 7 -> Nat] /\ G \in [1 .. 7 -> Nat] /\ IsFiniteSet(1 .. 7)
  <2>1. \A i \in 1 .. 7 : /\ Categories(p, j)[i].score \in Nat
                           /\ Categories(q, j)[i].score \in Nat
    BY <1>1
  <2>2. 1 \in Int /\ 7 \in Int
    OBVIOUS
  <2> QED BY <2>1, <2>2, FS_Interval
<1>3. /\ ScoreRoleFit(p, j) = Least(Rounded(SumFunction(F), 10), 100)
      /\ ScoreRoleFit(q, j) = Least(Rounded(SumFunction(G), 10), 100)
  BY DEF ScoreRoleFit
<1> HIDE DEF F, G
<1>4. PICK m \in Nat, n \in Nat : m = SumFunction(F) /\ n = SumFunction(G) /\ m <= n
  BY <1>1, <1>2, SumGrows
<1>5. /\ Rounded(m, 10) \in Nat /\ Rounded(n, 10) \in Nat
      /\ Rounded(m, 10) <= Rounded(n, 10)
  BY <1>4, RoundedGrows
<1> QED BY <1>3, <1>4, <1>5, LeastGrows

LEMMA HealthGrows ==
  ASSUME NEW p, NEW q, More(p, q)
  PROVE  ScoreResumeHealth(p) <= ScoreResumeHealth(q)
<1>0. p \in ResumeProfile /\ q \in ResumeProfile
  BY DEF More
<1>1. PICK a \in Nat, b \in Nat : a = ContactHealth(p) /\ b = ContactHealth(q) /\ a <= b
  <2> DEFINE Value(c) == CASE c = "email" -> 80 [] c = "phone" -> 40
                           [] c = "location" -> 30 [] c = "links" -> 50
  <2>1. IsFiniteSet(ContactFields)
    <3>1. IsFiniteSet({}) /\ ContactFields = (((({} \cup {"email"}) \cup {"phone"})
                                \cup {"location"}) \cup {"links"})
      BY FS_EmptySet DEF ContactFields
    <3> QED BY <3>1, FS_AddElement
  <2>2. /\ p.contact \subseteq q.contact /\ q.contact \in SUBSET ContactFields
        /\ IsFiniteSet(q.contact)
    BY <1>0, <2>1, ProfileFields, FS_Subset DEF More
  <2>3. \A c \in ContactFields : Value(c) \in Nat
    BY DEF ContactFields
  <2>4. /\ ContactHealth(p) = SumFunction([c \in p.contact |-> Value(c)])
        /\ ContactHealth(q) = SumFunction([c \in q.contact |-> Value(c)])
    BY DEF ContactHealth
  <2> HIDE DEF Value
  <2>5. /\ [c \in p.contact |-> Value(c)] \in [p.contact -> Nat]
        /\ [c \in q.contact |-> Value(c)] \in [q.contact -> Nat]
        /\ \A x \in p.contact : [c \in p.contact |-> Value(c)][x]
                                  <= [c \in q.contact |-> Value(c)][x]
    BY <2>2, <2>3
  <2>6. PICK F \in [p.contact -> Nat], G \in [q.contact -> Nat] :
          /\ ContactHealth(p) = SumFunction(F) /\ ContactHealth(q) = SumFunction(G)
          /\ \A x \in p.contact : F[x] <= G[x]
    BY <2>4, <2>5
  <2>7. /\ SumFunction(F) \in Nat /\ SumFunction(G) \in Nat
        /\ SumFunction(F) <= SumFunction(G)
    BY <2>2, <2>6, SumGrows
  <2> QED BY <2>6, <2>7
<1>2. PICK c \in Nat, d \in Nat : c = ExperienceHealth(p) /\ d = ExperienceHealth(q) /\ c <= d
  <2>1. \A x : ExperienceHealth(x) \in {0, 150, 200, 250, 300}
    BY DEF ExperienceHealth
  <2>2. ExperienceHealth(p) <= ExperienceHealth(q)
    BY DEF ExperienceHealth, More
  <2> QED BY <2>1, <2>2
<1>3. PICK e \in Nat, f \in Nat : /\ e = Least(60 * Cardinality(p.bullets \cap Measured), 250)
                                  /\ f = Least(60 * Cardinality(q.bullets \cap Measured), 250)
                                  /\ e <= f
  <2>1. /\ IsFiniteSet(q.bullets \cap Measured)
        /\ p.bullets \cap Measured \in SUBSET (q.bullets \cap Measured)
    BY <1>0, ProfileFields, FS_Subset DEF More
  <2>2. PICK m \in Nat, n \in Nat : /\ m = Cardinality(p.bullets \cap Measured)
                                    /\ n = Cardinality(q.bullets \cap Measured) /\ m <= n
    BY <2>1, CountGrows
  <2>3. 60 * m \in Nat /\ 60 * n \in Nat /\ 60 * m <= 60 * n
    BY <2>2
  <2>4. /\ Least(60 * m, 250) \in Nat /\ Least(60 * n, 250) \in Nat
        /\ Least(60 * m, 250) <= Least(60 * n, 250)
    <3>1. 250 \in Nat
      OBVIOUS
    <3> QED BY <2>3, <3>1, LeastGrows
  <2> QED BY <2>2, <2>4
<1>4. PICK g \in Nat, h \in Nat : /\ g = Least(15 * Cardinality(p.skills), 150)
                                  /\ h = Least(15 * Cardinality(q.skills), 150) /\ g <= h
  <2>1. PICK m \in Nat, n \in Nat : /\ m = Cardinality(p.skills)
                                    /\ n = Cardinality(q.skills) /\ m <= n
    BY <1>0, ProfileFields, CountGrows DEF More
  <2>2. 15 * m \in Nat /\ 15 * n \in Nat /\ 15 * m <= 15 * n
    BY <2>1
  <2>3. /\ Least(15 * m, 150) \in Nat /\ Least(15 * n, 150) \in Nat
        /\ Least(15 * m, 150) <= Least(15 * n, 150)
    <3>1. 150 \in Nat
      OBVIOUS
    <3> QED BY <2>2, <3>1, LeastGrows
  <2> QED BY <2>1, <2>3
<1>5. PICK k \in Nat, l \in Nat : /\ k = Least(20 * Cardinality(p.sections), 100)
                                  /\ l = Least(20 * Cardinality(q.sections), 100) /\ k <= l
  <2>1. PICK m \in Nat, n \in Nat : /\ m = Cardinality(p.sections)
                                    /\ n = Cardinality(q.sections) /\ m <= n
    BY <1>0, ProfileFields, CountGrows DEF More
  <2>2. 20 * m \in Nat /\ 20 * n \in Nat /\ 20 * m <= 20 * n
    BY <2>1
  <2>3. /\ Least(20 * m, 100) \in Nat /\ Least(20 * n, 100) \in Nat
        /\ Least(20 * m, 100) <= Least(20 * n, 100)
    <3>1. 100 \in Nat
      OBVIOUS
    <3> QED BY <2>2, <3>1, LeastGrows
  <2> QED BY <2>1, <2>3
<1>6. /\ ScoreResumeHealth(p) = Least(Rounded(a + c + e + g + k, 10), 100)
      /\ ScoreResumeHealth(q) = Least(Rounded(b + d + f + h + l, 10), 100)
  BY <1>1, <1>2, <1>3, <1>4, <1>5 DEF ScoreResumeHealth
<1>7. a + c + e + g + k \in Nat /\ b + d + f + h + l \in Nat
      /\ a + c + e + g + k <= b + d + f + h + l
  BY <1>1, <1>2, <1>3, <1>4, <1>5
<1>8. /\ Rounded(a + c + e + g + k, 10) \in Nat /\ Rounded(b + d + f + h + l, 10) \in Nat
      /\ Rounded(a + c + e + g + k, 10) <= Rounded(b + d + f + h + l, 10)
  BY <1>7, RoundedGrows
<1> QED BY <1>6, <1>8, LeastGrows

\* The stored scores are those of the stored profile.
RatingInv ==
    /\ profile \in ResumeProfile /\ fitJob \in FitJobs
    /\ rated = Rated(profile, fitJob)

LEMMA FiniteAdd ==
  ASSUME NEW S, NEW A \in Finite(S), NEW x \in S
  PROVE  A \cup {x} \in Finite(S)
  BY FS_AddElement DEF Finite

LEMMA ProfileImproves ==
  ASSUME RatingInv, RoleFitNext
  PROVE  More(profile, profile') /\ fitJob' = fitJob /\ rated' = Rated(profile', fitJob)
<1>0. profile \in ResumeProfile
  BY DEF RatingInv
<1>1. /\ profile.skills \in Finite(Terms) /\ profile.roles \in Finite(Roles)
      /\ profile.bullets \in Finite(Texts) /\ profile.projects \in Finite(Texts)
      /\ profile.achievements \in Finite(Texts) /\ profile.degrees \in Finite(Degrees)
  BY <1>0 DEF ResumeProfile
<1> USE DEF Improve
<1>2. ASSUME NEW t \in Taxonomy, AddSkill(t)
      PROVE  More(profile, profile')
  <2>1. profile.skills \cup {t} \in Finite(Terms)
    BY <1>1, FiniteAdd, RoleFitAssumption
  <2> QED BY <1>0, <1>2, <2>1 DEF AddSkill, More, ResumeProfile
<1>3. ASSUME NEW r \in Roles, AddRole(r)
      PROVE  More(profile, profile')
  <2>1. profile.roles \cup {r} \in Finite(Roles)
    BY <1>1, FiniteAdd
  <2> QED BY <1>0, <1>3, <2>1 DEF AddRole, More, ResumeProfile
<1>4. ASSUME NEW x \in Texts, AddBullet(x) PROVE More(profile, profile')
  <2>1. profile.bullets \cup {x} \in Finite(Texts)
    BY <1>1, FiniteAdd
  <2> QED BY <1>0, <1>4, <2>1 DEF AddBullet, More, ResumeProfile
<1>5. ASSUME NEW x \in Texts, AddProject(x) PROVE More(profile, profile')
  <2>1. profile.projects \cup {x} \in Finite(Texts)
    BY <1>1, FiniteAdd
  <2> QED BY <1>0, <1>5, <2>1 DEF AddProject, More, ResumeProfile
<1>6. ASSUME NEW x \in Texts, AddAchievement(x) PROVE More(profile, profile')
  <2>1. profile.achievements \cup {x} \in Finite(Texts)
    BY <1>1, FiniteAdd
  <2> QED BY <1>0, <1>6, <2>1 DEF AddAchievement, More, ResumeProfile
<1>7. ASSUME NEW d \in Degrees, AddDegree(d) PROVE More(profile, profile')
  <2>1. profile.degrees \cup {d} \in Finite(Degrees)
    BY <1>1, FiniteAdd
  <2> QED BY <1>0, <1>7, <2>1 DEF AddDegree, More, ResumeProfile
<1>8. ASSUME NEW c \in ContactFields, AddContact(c) PROVE More(profile, profile')
  BY <1>0, <1>8 DEF AddContact, More, ResumeProfile
<1>9. ASSUME NEW x \in Sections, AddSection(x) PROVE More(profile, profile')
  BY <1>0, <1>9 DEF AddSection, More, ResumeProfile
<1>10. More(profile, profile')
  BY <1>2, <1>3, <1>4, <1>5, <1>6, <1>7, <1>8, <1>9 DEF RoleFitNext
<1>11. fitJob' = fitJob /\ rated' = Rated(profile', fitJob)
  BY DEF RoleFitNext, AddSkill, AddRole, AddBullet, AddProject, AddAchievement,
         AddDegree, AddContact, AddSection
<1> QED BY <1>10, <1>11

LEMMA RatingStep == RatingInv /\ [RoleFitNext]_roleFitVars => RatingInv'
<1> SUFFICES ASSUME RatingInv, [RoleFitNext]_roleFitVars PROVE RatingInv'
  OBVIOUS
<1>1. CASE RoleFitNext
  BY <1>1, ProfileImproves DEF RatingInv, More
<1>2. CASE UNCHANGED roleFitVars
  BY <1>2 DEF RatingInv, roleFitVars
<1> QED BY <1>1, <1>2

\* Nothing that is added to a resume lowers its health or its fit for a job,
\* for any roles, texts, weights and jobs.
THEOREM ImprovementStaysGood == RoleFitSpec => ImprovementNeverHurts
<1> DEFINE Good == rated'.fit >= rated.fit /\ rated'.health >= rated.health
<1>1. RoleFitInit => RatingInv
  BY RoleFitAssumption DEF RoleFitInit, RatingInv
<1>2. RatingInv /\ [RoleFitNext]_roleFitVars => [Good]_roleFitVars
  <2> SUFFICES ASSUME RatingInv, RoleFitNext PROVE Good
    OBVIOUS
  <2>1. /\ rated = Rated(profile, fitJob) /\ rated' = Rated(profile', fitJob)
        /\ More(profile, profile') /\ fitJob \in FitJobs
    BY ProfileImproves DEF RatingInv
  <2>2. /\ ScoreRoleFit(profile, fitJob) <= ScoreRoleFit(profile', fitJob)
        /\ ScoreResumeHealth(profile) <= ScoreResumeHealth(profile')
    BY <2>1, FitGrows, HealthGrows
  <2>3. \A x : /\ Rated(x, fitJob).fit = ScoreRoleFit(x, fitJob)
               /\ Rated(x, fitJob).health = ScoreResumeHealth(x)
    BY DEF Rated
  <2> DEFINE f == ScoreRoleFit(profile, fitJob)
             g == ScoreRoleFit(profile', fitJob)
             h == ScoreResumeHealth(profile)
             k == ScoreResumeHealth(profile')
  <2>4. rated.fit = f /\ rated'.fit = g /\ rated.health = h /\ rated'.health = k
    BY <2>1, <2>3
  <2> QED BY <2>2, <2>4
<1> QED BY <1>1, <1>2, RatingStep, PTL DEF RoleFitSpec, ImprovementNeverHurts
-----------------------------------------------------------------------------
(***************************************************************************)
(* InterviewSignals.  The pillars are monotone in the positive signals,    *)
(* the only signals that lower one are among the others, and the rounding  *)
(* and the bounds of a level keep the order.                               *)
(***************************************************************************)
\* The evidence of b is that of a and positive signals.
Better(a, b) == a \subseteq b /\ b \ a \subseteq Positive

\* The last evaluation is of signals that are still there.
SignalsInv ==
    evaluation.decision # None =>
      /\ evaluation.signals \subseteq signals
      /\ evaluation.score = OverallScore(evaluation.signals)
      /\ evaluation.decision = Decision(evaluation.signals)

LEMMA PointsGrow ==
  ASSUME NEW a, NEW b, a \subseteq b, NEW names, NEW n \in Nat
  PROVE  /\ For(a, names, n) \in 0 .. n /\ For(b, names, n) \in 0 .. n
         /\ For(a, names, n) <= For(b, names, n)
  BY DEF For

LEMMA NegativesStay ==
  ASSUME NEW a, NEW b, Better(a, b), NEW names, names \cap Positive = {}, NEW n \in Nat
  PROVE  For(a, names, n) \in 0 .. n /\ For(b, names, n) = For(a, names, n)
  BY DEF For, Better

LEMMA LevelGrows ==
  ASSUME NEW m \in Int, NEW n \in Int, m <= n
  PROVE  Level(m) \in 1 .. 5 /\ Level(n) \in 1 .. 5 /\ Level(m) <= Level(n)
<1>1. (m + 5) \div 10 \in Int /\ (n + 5) \div 10 \in Int
      /\ (m + 5) \div 10 <= (n + 5) \div 10
  OBVIOUS
<1> QED BY <1>1 DEF Level

LEMMA LoweredGrows ==
  ASSUME NEW m \in 1 .. 5, NEW n \in 1 .. 5, m <= n, NEW p \in 0 .. 2
  PROVE  Lowered(m, p) \in 1 .. 5 /\ Lowered(n, p) \in 1 .. 5
         /\ Lowered(m, p) <= Lowered(n, p)
  BY DEF Lowered

LEMMA ProblemSolvingGrows ==
  ASSUME NEW a, NEW b, Better(a, b)
  PROVE  /\ ProblemSolving(a) \in 1 .. 5 /\ ProblemSolving(b) \in 1 .. 5
         /\ ProblemSolving(a) <= ProblemSolving(b)
<1>0. a \subseteq b
  BY DEF Better
<1>1. PICK x \in Int, y \in Int :
        /\ x = For(a, {"clarifying_questions_inquiry"}, 10)
        /\ y = For(b, {"clarifying_questions_inquiry"}, 10) /\ x <= y
  BY <1>0, PointsGrow
<1>2. PICK u \in Int, v \in Int : u = PassPoints(a) /\ v = PassPoints(b) /\ u <= v
  BY <1>0 DEF PassPoints, For
<1>3. PICK t \in Int : /\ t = For(a, {"runtime_execution_timeout"}, 10)
                       /\ t = For(b, {"runtime_execution_timeout"}, 10)
  BY NegativesStay DEF Positive
<1>4. PICK p \in 0 .. 2 : p = Penalty(a) /\ p = Penalty(b)
  BY NegativesStay DEF Positive, Penalty, Empty
<1>5. /\ Level(30 + x + u - t) \in 1 .. 5 /\ Level(30 + y + v - t) \in 1 .. 5
      /\ Level(30 + x + u - t) <= Level(30 + y + v - t)
  <2>1. 30 + x + u - t \in Int /\ 30 + y + v - t \in Int /\ 30 + x + u - t <= 30 + y + v - t
    BY <1>1, <1>2, <1>3
  <2> QED BY <2>1, LevelGrows
<1>6. /\ ProblemSolving(a) = Lowered(Level(30 + x + u - t), p)
      /\ ProblemSolving(b) = Lowered(Level(30 + y + v - t), p)
  BY <1>1, <1>2, <1>3, <1>4 DEF ProblemSolving
<1> QED BY <1>4, <1>5, <1>6, LoweredGrows

LEMMA CodingAlgorithmsGrows ==
  ASSUME NEW a, NEW b, Better(a, b)
  PROVE  /\ CodingAlgorithms(a) \in 1 .. 5 /\ CodingAlgorithms(b) \in 1 .. 5
         /\ CodingAlgorithms(a) <= CodingAlgorithms(b)
<1> DEFINE Simple == {"data_structure_hash_map", "data_structure_set"}
           Deep == {"data_structure_heap_queue", "algorithmic_dynamic_programming",
                    "algorithmic_binary_search", "algorithmic_two_pointers"}
           Passed == {"test_suite_all_passed"}
           Broken == {"compilation_syntax_error"}
<1>0. a \subseteq b
  BY DEF Better
<1>1. PICK x \in Int, y \in Int : x = For(a, Simple, 5) /\ y = For(b, Simple, 5) /\ x <= y
  BY <1>0, PointsGrow
<1>2. PICK u \in Int, v \in Int : u = For(a, Deep, 10) /\ v = For(b, Deep, 10) /\ u <= v
  BY <1>0, PointsGrow
<1>3. PICK f \in Int, g \in Int : f = For(a, Passed, 5) /\ g = For(b, Passed, 5) /\ f <= g
  BY <1>0, PointsGrow
<1>4. PICK c \in Int : c = ComplexityPenalty(a) /\ c = ComplexityPenalty(b)
  BY NegativesStay DEF Positive, ComplexityPenalty
<1>5. PICK e \in Int : e = For(a, Broken, 5) /\ e = For(b, Broken, 5)
  BY NegativesStay DEF Positive
<1>6. PICK p \in 0 .. 2 : p = Penalty(a) /\ p = Penalty(b)
  BY NegativesStay DEF Positive, Penalty, Empty
<1> DEFINE m == 30 + x + u + f - c - e
           n == 30 + y + v + g - c - e
<1>7. /\ CodingAlgorithms(a) = Lowered(Level(m), p)
      /\ CodingAlgorithms(b) = Lowered(Level(n), p)
  BY <1>1, <1>2, <1>3, <1>4, <1>5, <1>6 DEF CodingAlgorithms
<1>8. m \in Int /\ n \in Int /\ m <= n
  BY <1>1, <1>2, <1>3, <1>4, <1>5
<1> HIDE DEF m, n
<1>9. Level(m) \in 1 .. 5 /\ Level(n) \in 1 .. 5 /\ Level(m) <= Level(n)
  BY <1>8, LevelGrows
<1> QED BY <1>6, <1>7, <1>9, LoweredGrows

LEMMA SystemDesignGrows ==
  ASSUME NEW a, NEW b, a \subseteq b
  PROVE  /\ SystemDesign(a) \in 1 .. 5 /\ SystemDesign(b) \in 1 .. 5
         /\ SystemDesign(a) <= SystemDesign(b)
<1>1. PICK x \in Int, y \in Int :
        /\ x = For(a, {"structured_architecture_diagram"}, 15)
        /\ y = For(b, {"structured_architecture_diagram"}, 15) /\ x <= y
  BY PointsGrow
<1>2. PICK u \in Int, v \in Int :
        /\ u = For(a, {"technical_terminology_fluency"}, 5)
        /\ v = For(b, {"technical_terminology_fluency"}, 5) /\ u <= v
  BY PointsGrow
<1>3. 30 + x + u \in Int /\ 30 + y + v \in Int /\ 30 + x + u <= 30 + y + v
  BY <1>1, <1>2
<1>4. SystemDesign(a) = Level(30 + x + u) /\ SystemDesign(b) = Level(30 + y + v)
  BY <1>1, <1>2 DEF SystemDesign
<1> QED BY <1>3, <1>4, LevelGrows

LEMMA CommunicationGrows ==
  ASSUME NEW a, NEW b, a \subseteq b
  PROVE  /\ Communication(a) \in 1 .. 5 /\ Communication(b) \in 1 .. 5
         /\ Communication(a) <= Communication(b)
<1>1. PICK x \in Int, y \in Int :
        /\ x = For(a, {"balanced_dialogue_cadence"}, 8)
        /\ y = For(b, {"balanced_dialogue_cadence"}, 8) /\ x <= y
  BY PointsGrow
<1>2. PICK u \in Int, v \in Int :
        /\ u = For(a, {"technical_terminology_fluency"}, 6)
        /\ v = For(b, {"technical_terminology_fluency"}, 6) /\ u <= v
  BY PointsGrow
<1>3. PICK f \in Int, g \in Int :
        /\ f = For(a, {"clarifying_questions_inquiry"}, 6)
        /\ g = For(b, {"clarifying_questions_inquiry"}, 6) /\ f <= g
  BY PointsGrow
<1>4. /\ 30 + x + u + f \in Int /\ 30 + y + v + g \in Int
      /\ 30 + x + u + f <= 30 + y + v + g
  BY <1>1, <1>2, <1>3
<1>5. /\ Communication(a) = Level(30 + x + u + f)
      /\ Communication(b) = Level(30 + y + v + g)
  BY <1>1, <1>2, <1>3 DEF Communication
<1> QED BY <1>4, <1>5, LevelGrows

\* No positive signal lowers a pillar.
LEMMA PillarsGrow ==
  ASSUME NEW a, NEW b, Better(a, b)
  PROVE  \A i \in 1 .. 4 : /\ Pillars(a)[i] \in 1 .. 5 /\ Pillars(b)[i] \in 1 .. 5
                           /\ Pillars(a)[i] <= Pillars(b)[i]
<1>1. a \subseteq b
  BY DEF Better
<1> QED BY <1>1, ProblemSolvingGrows, CodingAlgorithmsGrows, SystemDesignGrows,
           CommunicationGrows DEF Pillars

\* The cap of an empty workspace is lifted by any other signal, and the levels
\* that are left without it are not below the cap.
LEMMA ScoreGrows ==
  ASSUME NEW a, NEW b, Better(a, b)
  PROVE  /\ OverallScore(a) \in Int /\ OverallScore(b) \in Int
         /\ OverallScore(a) <= OverallScore(b)
<1> DEFINE p == [i \in 1 .. 4 |-> Pillars(a)[i]]
           q == [i \in 1 .. 4 |-> Pillars(b)[i]]
<1>0. /\ \A i \in 1 .. 4 : p[i] = Pillars(a)[i] /\ q[i] = Pillars(b)[i]
      /\ \A i \in 1 .. 4 : p[i] \in 1 .. 5 /\ q[i] \in 1 .. 5 /\ p[i] <= q[i]
  BY PillarsGrow
<1> HIDE DEF p, q
<1>1. /\ 1 \in 1 .. 4 /\ 2 \in 1 .. 4 /\ 3 \in 1 .. 4 /\ 4 \in 1 .. 4
  OBVIOUS
<1>2. b = {Empty} => a = {} \/ a = {Empty}
  BY DEF Better
<1>3. a = {} => b # {Empty}
  BY DEF Better, Positive, Empty
<1>4. PICK m \in Int, n \in Int :
        /\ m = 5 * (p[1] + p[2] + p[3] + p[4]) /\ n = 5 * (q[1] + q[2] + q[3] + q[4])
        /\ m <= n
  BY <1>0, <1>1
<1>5. /\ OverallScore(a) = IF a = {Empty} /\ m > 25 THEN 25 ELSE m
      /\ OverallScore(b) = IF b = {Empty} /\ n > 25 THEN 25 ELSE n
  BY <1>0, <1>1, <1>4 DEF OverallScore
<1> QED BY <1>2, <1>3, <1>4, <1>5

LEMMA Ranks ==
  /\ Rank("REJECT") = 1 /\ Rank("LEAN_REJECT") = 2 /\ Rank("LEAN_HIRE") = 3
  /\ Rank("HIRE") = 4 /\ Rank("STRONG_HIRE") = 5
<1> DEFINE names == <<"REJECT", "LEAN_REJECT", "LEAN_HIRE", "HIRE", "STRONG_HIRE">>
<1>1. \A i, j \in 1 .. 5 : names[i] = names[j] => i = j
  OBVIOUS
<1>2. ASSUME NEW i \in 1 .. 5 PROVE Rank(names[i]) = i
  BY <1>1 DEF Rank
<1> QED BY <1>2

\* A higher score without a lower pillar is no worse a decision.
LEMMA DecisionImproves ==
  ASSUME NEW a, NEW b, Better(a, b)
  PROVE  Rank(Decision(a)) <= Rank(Decision(b))
<1>1. PICK m \in Int, n \in Int : m = OverallScore(a) /\ n = OverallScore(b) /\ m <= n
  BY ScoreGrows
<1>2. Competent(a) => Competent(b)
  BY PillarsGrow DEF Competent
<1>3. PICK c \in BOOLEAN, d \in BOOLEAN : c = Competent(a) /\ d = Competent(b) /\ (c => d)
  BY <1>2 DEF Competent
<1> DEFINE D(k, e) == CASE k >= 85 /\ e -> 5
                        [] k >= 70 /\ k < 85 /\ e -> 4
                        [] k >= 55 /\ (k < 70 \/ ~e) -> 3
                        [] k >= 40 /\ k < 55 -> 2
                        [] OTHER -> 1
<1>4. Rank(Decision(a)) = D(m, c) /\ Rank(Decision(b)) = D(n, d)
  BY <1>1, <1>3, Ranks DEF Decision
<1>5. D(m, c) <= D(n, d)
  BY <1>1, <1>3
<1> QED BY <1>4, <1>5

LEMMA SignalsInvHolds == SignalsInv /\ [SignalsNext]_signalVars => SignalsInv'
<1> SUFFICES ASSUME SignalsInv, [SignalsNext]_signalVars PROVE SignalsInv'
  OBVIOUS
<1>1. CASE signals \subseteq signals' /\ UNCHANGED evaluation
  BY <1>1 DEF SignalsInv
<1>2. ASSUME NEW s \in Slots, Evaluate(s) PROVE SignalsInv'
  BY <1>2 DEF SignalsInv, Evaluate
<1>3. CASE UNCHANGED signalData
  BY <1>1, <1>3 DEF signalData
<1> QED BY <1>1, <1>2, <1>3 DEF SignalsNext, BeginExtract, ExtractOnly, InsertSignals,
           FailInsert, BeginEvaluation, FailEvaluation, signalVars

THEOREM SignalsStayFair == SignalsSpec => PositiveSignalsNeverHurt
<1> DEFINE Fair ==
      evaluation.decision # None
        /\ evaluation'.signals \ evaluation.signals \subseteq Positive
      => /\ evaluation'.score >= evaluation.score
         /\ Rank(evaluation'.decision) >= Rank(evaluation.decision)
<1>1. SignalsInit => SignalsInv
  BY DEF SignalsInit, SignalsInv, NoEvaluation
<1>2. SignalsInv /\ [SignalsNext]_signalVars => [Fair]_signalVars
  <2> SUFFICES ASSUME SignalsInv, SignalsNext, evaluation.decision # None,
                      evaluation'.signals \ evaluation.signals \subseteq Positive
               PROVE  /\ evaluation'.score >= evaluation.score
                      /\ Rank(evaluation'.decision) >= Rank(evaluation.decision)
    OBVIOUS
  <2> DEFINE a == evaluation.signals
             b == evaluation'.signals
  <2>1. /\ evaluation.score = OverallScore(a) /\ evaluation.decision = Decision(a)
        /\ a \subseteq signals
    BY DEF SignalsInv
  <2>2. CASE UNCHANGED evaluation
    <3>1. Better(a, a)
      BY DEF Better
    <3> QED BY <2>1, <2>2, <3>1, ScoreGrows, DecisionImproves
  <2>3. ASSUME NEW s \in Slots, Evaluate(s)
        PROVE  /\ evaluation'.score >= evaluation.score
               /\ Rank(evaluation'.decision) >= Rank(evaluation.decision)
    <3>1. /\ b = signals /\ evaluation'.score = OverallScore(b)
          /\ evaluation'.decision = Decision(b)
      BY <2>3 DEF Evaluate
    <3>2. Better(a, b)
      BY <2>1, <3>1 DEF Better
    <3> QED BY <2>1, <3>1, <3>2, ScoreGrows, DecisionImproves
  <2> QED BY <2>2, <2>3 DEF SignalsNext, BeginExtract, ExtractOnly, InsertSignals,
             FailInsert, BeginEvaluation, FailEvaluation, signalData
<1> QED BY <1>1, <1>2, SignalsInvHolds, PTL DEF SignalsSpec, PositiveSignalsNeverHurt
=============================================================================
