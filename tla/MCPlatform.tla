------------------------------ MODULE MCPlatform ------------------------------
(***************************************************************************)
(* The parts of the platform that share no state with each other: learning *)
(* and competitions, job postings, the scores of resumes and interviews,   *)
(* the socket events of a room and the limits of its documents.  A         *)
(* behaviour is about one of them, which part names from the start; the    *)
(* variables of the others keep one initial value.                         *)
(***************************************************************************)
EXTENDS MCJobPosting, FocusSession, CompetitionLobby, RoleFit,
        InterviewSignals, SocketEvents, RoomLimits, TLC

CONSTANTS s2, f1, f2, host, cand, rec, stranger
VARIABLE part

TwoSlots == {s1, s2}
SlotSymmetry == Permutations(TwoSlots)

\* FocusSession and CompetitionLobby
TwoFocusSessions == {f1, f2}
Minutes == [f \in TwoFocusSessions |-> IF f = f1 THEN 1 ELSE 10]
TwoContestants == {host, cand}

\* RoleFit: one text for each combination that the scores tell apart.
KnownTerms == {"go", "sql", "api", "team", "lead"}
KnownMentions == [x \in {"led", "built", "cut"} |->
                    CASE x = "led" -> {"team"} [] x = "built" -> {"go", "api"}
                      [] x = "cut" -> {"api"}]
EarlyDev == [title |-> "dev", from |-> 2010, to |-> 2020, stated |-> 0]
ThreeRoles ==
    {EarlyDev, [title |-> "ops", from |-> 2012, to |-> 2014, stated |-> 0],
     [title |-> "ops", from |-> 0, to |-> 0, stated |-> 2]}
EmptyProfile ==
    [skills |-> {}, roles |-> {}, bullets |-> {}, projects |-> {},
     achievements |-> {}, degrees |-> {}, contact |-> {}, sections |-> {}]
FullProfile ==
    [skills |-> {"go"}, roles |-> {EarlyDev}, bullets |-> {"built", "cut"},
     projects |-> {"led", "cut"}, achievements |-> {}, degrees |-> {"bsc"},
     contact |-> {"email", "phone"}, sections |-> {"skills"}]
OpenJob ==
    [title |-> "dev", mustHave |-> {}, preferred |-> {}, phrases |-> {},
     minYears |-> 0, degrees |-> {}]
Weighed(t, w) == [term |-> t, weight |-> w]
StrictJob ==
    [title |-> "dev", mustHave |-> {Weighed("go", 5), Weighed("sql", 3)},
     preferred |-> {Weighed("api", 2)}, phrases |-> {{"go", "team", "lead"}},
     minYears |-> 9, degrees |-> {"bsc"}]
VagueJob ==
    [OpenJob EXCEPT !.preferred = {Weighed("sql", 2), Weighed("go", 2)},
                    !.phrases = {{"api", "team", "lead"}}]
ThreeJobs == {OpenJob, StrictJob, VagueJob}
TwoProfiles == {EmptyProfile, FullProfile}

\* InterviewSignals: one observation of each kind.
Unremarkable ==
    [blank |-> FALSE, patterns |-> {}, depth |-> 0, compileError |-> FALSE,
     timedOut |-> FALSE, passed |-> 0, total |-> 0, clarifications |-> 0,
     terminology |-> 0, own |-> 0, others |-> 0, boxes |-> 0, arrows |-> 0,
     blurs |-> 0]
SixObservations ==
    {[Unremarkable EXCEPT !.blank = TRUE],
     [Unremarkable EXCEPT !.patterns = {"data_structure_hash_map"},
                          !.depth = 2, !.passed = 1, !.total = 2],
     [Unremarkable EXCEPT !.patterns = {"algorithmic_two_pointers"},
                          !.depth = 1, !.passed = 2, !.total = 2],
     [Unremarkable EXCEPT !.depth = 3, !.compileError = TRUE,
                          !.timedOut = TRUE, !.total = 2],
     [Unremarkable EXCEPT !.clarifications = 1, !.terminology = 1,
                          !.own = 30, !.others = 30],
     [Unremarkable EXCEPT !.boxes = 3, !.arrows = 2, !.blurs = 6]}

\* SocketEvents and RoomLimits
ThreeUsers == {cand, rec, stranger}
OneRecruiter == {rec}
NewElements == {<<1>>, <<3, 1>>, <<2, 2, 1>>, <<5>>}
-----------------------------------------------------------------------------
Others(p) ==
    /\ p \notin {"assistant", "preview"} => draft = BlankForm
    /\ p # "fit" => profile = EmptyProfile /\ fitJob = OpenJob
    /\ p # "lobby" => lobby = NewLobby("QUIZ")
    /\ p # "sockets" => status = "LIVE"

PlatformInit ==
    /\ PostingInit /\ FocusInit /\ LobbyInit /\ RoleFitInit /\ SignalsInit
    /\ SocketInit /\ LimitsInit
    /\ part \in {"assistant", "preview", "focus", "lobby", "fit", "signals",
                 "sockets", "limits"}
    /\ Others(part)

\* Bound: the previews are not in progress two at a time, and the parts other
\* than the signals see three requests.
OneAtATime == \A s, t \in Slots : request'[s] # Idle /\ request'[t] # Idle => s = t
Three == count' <= 3

\* Bound: the events of one who takes no part come alone, and only the recruiter
\* asks for hints, who alone is answered.
FewEvents ==
    /\ \A u \in ThreeUsers \ OneRecruiter : hintCount'[u] = 0
    /\ \A s, t \in Slots :
         request'[s] # Idle /\ request'[s].by = stranger /\ request'[t] # Idle
           => s = t

PostingStep ==
    /\ \/ part = "assistant" /\ AssistantNext
       \/ part = "preview" /\ PreviewNext /\ OneAtATime
    /\ Three
    /\ UNCHANGED <<focusVars, lobbyVars, roleFitVars, signalData, socketData,
                   limitVars>>
FocusStep ==
    /\ part = "focus" /\ FocusNext
    /\ UNCHANGED <<postingData, lobbyVars, roleFitVars, signalData, socketData,
                   limitVars, requests>>
LobbyStep ==
    /\ part = "lobby" /\ LobbyNext
    /\ UNCHANGED <<postingData, focusVars, roleFitVars, signalData, socketData,
                   limitVars, requests>>
FitStep ==
    /\ part = "fit" /\ RoleFitNext
    /\ UNCHANGED <<postingData, focusVars, lobbyVars, signalData, socketData,
                   limitVars, requests>>
SignalStep ==
    /\ part = "signals" /\ SignalsNext
    /\ UNCHANGED <<postingData, focusVars, lobbyVars, roleFitVars, socketData,
                   limitVars>>
SocketStep ==
    /\ part = "sockets" /\ SocketNext /\ Three /\ FewEvents
    /\ UNCHANGED <<postingData, focusVars, lobbyVars, roleFitVars, signalData,
                   limitVars>>
LimitStep ==
    /\ part = "limits" /\ LimitsNext
    /\ UNCHANGED <<postingData, focusVars, lobbyVars, roleFitVars, signalData,
                   socketData, requests>>

PlatformNext ==
    /\ \/ PostingStep \/ FocusStep \/ LobbyStep \/ FitStep
       \/ SignalStep \/ SocketStep \/ LimitStep
    /\ UNCHANGED part

PlatformSpec ==
    PlatformInit /\ [][PlatformNext]_<<postingData, focusVars, lobbyVars,
                                       roleFitVars, signalData, socketData,
                                       limitVars, requests, part>>
=============================================================================
