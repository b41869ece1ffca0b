------------------------------- MODULE AiCascade -------------------------------
(***************************************************************************)
(* The AI gateway (modules/ai).  A question is put to one provider after   *)
(* the other, each behind a circuit breaker that all questions share, and  *)
(* the first answer that satisfies the schema is the answer                *)
(* (aiService.js, provider.factory.js).  The Gemini provider in turn tries *)
(* its models, leaving out those that failed lately (geminiClient.js), and *)
(* goes on doing so when the breaker has given up on it.                   *)
(***************************************************************************)
EXTENDS Requests, SequencesExt

CONSTANTS
    Models,       \* Gemini's models, in the order they are tried
    UseLocal,     \* USE_LOCAL_LLM
    Preferences,  \* the providers that questions prefer
    Setups        \* the sets of providers that may be available

ASSUME CascadeAssumption ==
    /\ Len(Models) > 0
    /\ UseLocal \in BOOLEAN
    /\ Setups \subseteq SUBSET {"ollama", "gemini", "openai"}

VARIABLES
    breaker,      \* per provider: closed, open, half-open, or probing
    cooldown,     \* the models that failed in the last two minutes
    gemini,       \* per slot: the models its call to Gemini has still to try
    given         \* history: how the last question ended

cascadeData == <<breaker, cooldown, gemini, given>>
cascadeVars == <<cascadeData, request, count>>
-----------------------------------------------------------------------------
Mock == "mock"
Providers == {"ollama", "gemini", "openai", Mock}
Degraded == "emergency-fallback"

NoAnswer == [provider |-> None, chain |-> <<>>, tried |-> <<>>]

CascadeInit ==
    /\ breaker = [p \in Providers |-> "closed"]
    /\ cooldown = {}
    /\ gemini = [s \in Slots |-> <<>>]
    /\ given = NoAnswer
    /\ NoRequests

\* getProvidersCascade: a preferred provider first, the local rules last.
ProvidersCascade(preferred, available) ==
    LET order ==
          CASE preferred = "openai" -> <<"openai", "gemini", "ollama">>
            [] preferred = "gemini" -> <<"gemini", "ollama", "openai">>
            [] preferred \notin {"openai", "gemini"}
                 /\ (preferred = "ollama" \/ UseLocal)
                                    -> <<"ollama", "gemini", "openai">>
            [] OTHER                -> <<"gemini", "openai", "ollama">>
        present(i) == IF order[i] \in available THEN <<order[i]>> ELSE <<>>
    IN  present(1) \o present(2) \o present(3) \o <<Mock>>

\* A question; the providers with a key, or that answer a probe, are available.
\* A slot is used again when its last call to Gemini is over.
Ask(s, preferred, available) ==
    /\ gemini[s] = <<>>
    /\ Accept(s, [op |-> "ask", pc |-> "next", tried |-> <<>>,
                  chain |-> ProvidersCascade(preferred, available)])
    /\ UNCHANGED cascadeData

Current(s) == request[s].chain[Len(request[s].tried) + 1]
Exhausted(s) == Len(request[s].tried) = Len(request[s].chain)

\* The attempt at the current provider ended as o.
Tried(s, o) ==
    Hold(s, [request[s] EXCEPT !.pc = "next", !.tried = Append(@, o)])

\* getActiveChain never leaves Gemini without a model.
ActiveChain ==
    LET chain == SelectSeq(Models, LAMBDA m : m \notin cooldown)
    IN  IF chain = <<>> THEN SubSeq(Models, 1, 1) ELSE chain

\* A breaker that is open, or has let its one probe through, refuses.
Refuse(s) ==
    /\ At(s, "ask", "next") /\ ~Exhausted(s)
    /\ breaker[Current(s)] \in {"open", "probing"}
    /\ Tried(s, "refused")
    /\ UNCHANGED cascadeData

Fire(s) ==
    LET p == Current(s)
    IN  /\ At(s, "ask", "next") /\ ~Exhausted(s)
        /\ breaker[p] \in {"closed", "half-open"}
        /\ GoTo(s, "called")
        /\ breaker' = [breaker EXCEPT ![p] = IF @ = "half-open" THEN "probing"
                                             ELSE @]
        /\ gemini' = IF p = "gemini" THEN [gemini EXCEPT ![s] = ActiveChain]
                     ELSE gemini
        /\ UNCHANGED <<cooldown, given>>

\* Mutant: an answer that does not satisfy the schema ends the cascade.
CanAnswerAnything(s, outcome) == outcome \in {"valid", "invalid"}

\* What ends the cascade is an answer that parses and satisfies the schema.
CanAnswer(s, outcome) == outcome = "valid"

\* The provider answered: the breaker counts a success, whatever it said, and
\* closes; what a success of before does to an open one is left to opossum.
Answered(s, p, outcome) ==
    /\ \E state \in IF breaker[p] = "open" THEN {"open", "closed"}
                    ELSE {"closed"} :
         breaker' = [breaker EXCEPT ![p] = state]
    /\ IF CanAnswer(s, outcome)
       THEN /\ Respond(s)
            /\ given' = [provider |-> p, chain |-> request[s].chain,
                         tried |-> Append(request[s].tried, outcome)]
       ELSE Tried(s, outcome) /\ UNCHANGED given

Return(s) ==
    /\ At(s, "ask", "called") /\ Current(s) # "gemini"
    /\ \E outcome \in {"valid", "invalid"} : Answered(s, Current(s), outcome)
    /\ UNCHANGED <<cooldown, gemini>>

\* The call throws, or takes longer than the breaker's 15 s.  A probe that
\* fails opens the breaker again, and so does the share of failed calls.
Failed(s, p) ==
    /\ \E state \in IF breaker[p] = "closed" THEN {"closed", "open"}
                    ELSE {"open"} :
         breaker' = [breaker EXCEPT ![p] = state]
    /\ Tried(s, "failed")
    /\ UNCHANGED given

\* Mutant: Gemini, which has a fallback of its own, is not timed out.
GiveUpOnOthers(s) ==
    /\ At(s, "ask", "called") /\ Current(s) # "gemini"
    /\ Failed(s, Current(s))
    /\ UNCHANGED <<cooldown, gemini>>

\* Gemini's client does not learn of it.
GiveUp(s) ==
    /\ At(s, "ask", "called")
    /\ Failed(s, Current(s))
    /\ UNCHANGED <<cooldown, gemini>>

Waiting(s) == At(s, "ask", "called") /\ Current(s) = "gemini"

\* The model answers: the provider does, if somebody is still waiting.
ModelAnswers(s) ==
    /\ gemini[s] # <<>>
    /\ gemini' = [gemini EXCEPT ![s] = <<>>]
    /\ IF Waiting(s)
       THEN \E outcome \in {"valid", "invalid"} : Answered(s, "gemini", outcome)
       ELSE UNCHANGED <<breaker, given, request, count>>
    /\ UNCHANGED cooldown

\* 404, 429, 500, 503: this model rests, and the next one is tried, ...
ModelUnavailable(s) ==
    /\ gemini[s] # <<>>
    /\ cooldown' = cooldown \cup {Head(gemini[s])}
    /\ gemini' = [gemini EXCEPT ![s] = Tail(@)]
    /\ IF Tail(gemini[s]) = <<>> /\ Waiting(s) THEN Failed(s, "gemini")
       ELSE UNCHANGED <<breaker, given, request, count>>

\* ... any other error is thrown at once.
ModelRefuses(s) ==
    /\ gemini[s] # <<>>
    /\ gemini' = [gemini EXCEPT ![s] = <<>>]
    /\ IF Waiting(s) THEN Failed(s, "gemini")
       ELSE UNCHANGED <<breaker, given, request, count>>
    /\ UNCHANGED cooldown

\* Nobody answered: the schema's defaults, marked as degraded.  parseResume
\* throws instead, and the others return what is there: no data that was made
\* up, which mergeJobDraft leaves the draft alone for.
FallBack(s) ==
    /\ At(s, "ask", "next") /\ Exhausted(s)
    /\ Respond(s)
    /\ given' = [provider |-> Degraded, chain |-> request[s].chain,
                 tried |-> request[s].tried]
    /\ UNCHANGED <<breaker, cooldown, gemini>>

\* After 30 s an open breaker lets one call through.
ResetBreaker(p) ==
    /\ breaker[p] = "open"
    /\ breaker' = [breaker EXCEPT ![p] = "half-open"]
    /\ UNCHANGED <<cooldown, gemini, given, request, count>>

CoolDown(m) ==
    /\ m \in cooldown
    /\ cooldown' = cooldown \ {m}
    /\ UNCHANGED <<breaker, gemini, given, request, count>>

CascadeNext ==
    \/ \E s \in Slots :
         \/ \E preferred \in Preferences, available \in Setups :
              Ask(s, preferred, available)
         \/ Refuse(s) \/ Fire(s) \/ Return(s) \/ GiveUp(s) \/ FallBack(s)
         \/ ModelAnswers(s) \/ ModelUnavailable(s) \/ ModelRefuses(s)
    \/ \E p \in Providers : ResetBreaker(p)
    \/ \E m \in ToSet(Models) : CoolDown(m)

CascadeSpec == CascadeInit /\ [][CascadeNext]_cascadeVars

\* The breaker's timeout fires; that a provider or a model ever answers is not
\* assumed.
CascadeFairness ==
    \A s \in Slots :
      WF_cascadeVars(Refuse(s) \/ Fire(s) \/ GiveUp(s) \/ FallBack(s))
-----------------------------------------------------------------------------
\* A question is answered by the first provider that has an acceptable answer,
\* in the order of its cascade; it is degraded only if every one of them,
\* ending with the local rules, was refused by its breaker, failed, or gave an
\* answer that the schema rejects.
CascadeIsExhaustive ==
    LET n == Len(given.tried)
    IN  given # NoAnswer =>
          /\ Last(given.chain) = Mock
          /\ \A i \in 1 .. n : given.tried[i] = "valid" <=>
                                 i = n /\ given.provider = given.chain[i]
          /\ given.provider = Degraded => n = Len(given.chain)

\* No provider can keep a question waiting for ever.
QuestionIsAnswered ==
    \A s \in Slots : (request[s].op = "ask") ~> (request[s] = Idle)
=============================================================================
