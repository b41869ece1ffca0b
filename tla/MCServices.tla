------------------------------ MODULE MCServices ------------------------------
(***************************************************************************)
(* The parts that work with other processes: the terminals and their       *)
(* runner, the AI providers behind their breakers, the sandbox's child     *)
(* processes and the language servers.  A behaviour is about one of them,  *)
(* which part names from the start.                                        *)
(***************************************************************************)
EXTENDS SharedTerminal, AiCascade, CodeSandbox, LanguageServer

CONSTANTS s1, s2, r1, w1, user, outsider
VARIABLE part

TwoSlots == {s1, s2}
OneRoom == {r1}
TwoModels == <<"gemini-flash", "gemini-lite">>
SomeSetups == {{"gemini"}, {"openai"}}
TwoLanguages == [compiled : BOOLEAN]
OneSocket == {w1}
TwoEditors == {user, outsider}
OneInsider == {user}

allVars == <<terminalData, cascadeData, sandboxData, serverData, request,
             count, part>>

ServicesInit ==
    /\ TerminalInit /\ CascadeInit /\ SandboxInit /\ ServerInit
    /\ part \in {"terminal", "ai", "sandbox", "lsp"}

\* Bound: the sandbox and the language servers see one request at a time.
OneSlot == request'[s2] = Idle

\* Bound: the calls of one terminal fail.
OneFails == Cardinality(failed') <= 1

TerminalStep ==
    /\ part = "terminal" /\ TerminalNext /\ OneFails
    /\ UNCHANGED <<cascadeData, sandboxData, serverData>>
CascadeStep ==
    /\ part = "ai" /\ CascadeNext
    /\ UNCHANGED <<terminalData, sandboxData, serverData>>
SandboxStep ==
    /\ part = "sandbox" /\ SandboxNext /\ OneSlot /\ count' <= 1
    /\ UNCHANGED <<terminalData, cascadeData, serverData>>
ServerStep ==
    /\ part = "lsp" /\ ServerNext /\ OneSlot
    /\ UNCHANGED <<terminalData, cascadeData, sandboxData>>

ServicesNext ==
    /\ TerminalStep \/ CascadeStep \/ SandboxStep \/ ServerStep
    /\ UNCHANGED part

ServicesSpec ==
    /\ ServicesInit /\ [][ServicesNext]_allVars
    /\ TerminalFairness /\ CascadeFairness /\ SandboxFairness /\ ServerFairness
=============================================================================
