---------------------------- MODULE SharedTerminal ----------------------------
(***************************************************************************)
(* The shared terminals of interview rooms.  The API server keeps a map of *)
(* terminals and polls their output every 200 ms (terminalService.js); the *)
(* shells run in another process with a map of its own                     *)
(* (terminal-runner/server.js).  The two talk HTTP, so that a call, its    *)
(* execution and the handling of its answer are steps of their own, polls  *)
(* of one terminal overlap, and any call may fail.                         *)
(***************************************************************************)
EXTENDS Requests, FiniteSetsExt

CONSTANTS
    Rooms,        \* the interviews
    MaxSessions,  \* the runner's limit
    MaxChunks,    \* bound on the chunks of output
    MaxPending,   \* the chunks the runner keeps of them: one megabyte
    MaxPolls      \* bound on the polls of one terminal under way

ASSUME TerminalAssumption ==
    MaxSessions \in Nat \ {0} /\ MaxPending \in Nat \ {0}

Terminals == 1 .. MaxRequests

VARIABLES
    activeTerminals,  \* the API server's map: the terminals in it
    shell,            \* per terminal: the runner's entry
    spawned,          \* the number of terminals so far
    asked,            \* per terminal: polls the runner has not seen yet
    answers,          \* per terminal: answers the API server has not seen yet
    emitted,          \* per terminal: what the room was sent, in order
    shownInput,       \* the inputs the other participants were shown
    typedInput,       \* the inputs the shells received
    deleting,         \* terminals whose DELETE is on its way
    failed            \* history: terminals one of whose calls failed

terminalData == <<activeTerminals, shell, spawned, asked, answers, emitted,
                  shownInput, typedInput, deleting, failed>>
terminalVars == <<terminalData, request, count>>
-----------------------------------------------------------------------------
\* clipped is history: the chunks that were dropped from the front.
NoShell == [room |-> None, alive |-> FALSE, pending |-> <<>>, produced |-> 0,
            clipped |-> {}]

\* An answer: output, or the 404 of a terminal the runner does not have.
Output(chunks) == [gone |-> FALSE, chunks |-> chunks]
Gone == [gone |-> TRUE, chunks |-> <<>>]

TerminalInit ==
    /\ activeTerminals = {}
    /\ shell = [t \in Terminals |-> NoShell]
    /\ spawned = 0
    /\ asked = [t \in Terminals |-> 0]
    /\ answers = [t \in Terminals |-> {}]
    /\ emitted = [t \in Terminals |-> <<>>]
    /\ shownInput = {}
    /\ typedInput = {}
    /\ deleting = {}
    /\ failed = {}
    /\ NoRequests

Alive == {t \in Terminals : shell[t].alive}

\* createTerminal joins the terminal the map holds for this interview, or
\* calls the runner.
OpenTerminal(s, room) ==
    /\ IF \E t \in activeTerminals : shell[t].room = room
       THEN Accept(s, Idle)
       ELSE Accept(s, [op |-> "open", pc |-> "posted", room |-> room])
    /\ UNCHANGED terminalData

\* The runner tests its limit before it has read the body: 429, or on it goes.
AdmitTerminal(s) ==
    /\ At(s, "open", "posted")
    /\ IF Cardinality(Alive) >= MaxSessions THEN Respond(s)
       ELSE GoTo(s, "admitted")
    /\ UNCHANGED terminalData

SpawnShell(s) ==
    LET t == spawned + 1
        room == request[s].room
    IN  /\ At(s, "open", "admitted")
        /\ Hold(s, [op |-> "open", pc |-> "spawned", room |-> room, id |-> t])
        /\ spawned' = t
        /\ shell' = [shell EXCEPT ![t] = [NoShell EXCEPT !.room = room,
                                                         !.alive = TRUE]]
        /\ UNCHANGED <<activeTerminals, asked, answers, emitted, shownInput,
                       typedInput, deleting, failed>>

\* The map's new entry and its first poll; the answer follows that.
AddTerminal(s) ==
    LET t == request[s].id
    IN  /\ At(s, "open", "spawned")
        /\ Respond(s)
        /\ activeTerminals' = activeTerminals \cup {t}
        /\ asked' = [asked EXCEPT ![t] = @ + 1]
        /\ UNCHANGED <<shell, spawned, answers, emitted, shownInput, typedInput,
                       deleting, failed>>

\* The runner's answer is lost, and with it the terminal's id.
LoseTerminal(s) ==
    /\ At(s, "open", "spawned")
    /\ Respond(s)
    /\ failed' = failed \cup {request[s].id}
    /\ UNCHANGED <<activeTerminals, shell, spawned, asked, answers, emitted,
                   shownInput, typedInput, deleting>>

\* Mutant: the runner is not told.
ForgottenOnly(t) ==
    activeTerminals' = activeTerminals \ {t} /\ UNCHANGED deleting

\* closeTerminalSession: the entry goes first, then the runner is told.
Closed(t) ==
    /\ activeTerminals' = activeTerminals \ {t}
    /\ deleting' = IF t \in activeTerminals THEN deleting \cup {t} ELSE deleting

CloseTerminal(t) ==
    /\ Answer
    /\ t \in activeTerminals
    /\ Closed(t)
    /\ UNCHANGED <<shell, spawned, asked, answers, emitted, shownInput,
                   typedInput, failed>>

DeleteShell(t) ==
    /\ t \in deleting
    /\ deleting' = deleting \ {t}
    /\ shell' = [shell EXCEPT ![t].alive = FALSE]
    /\ UNCHANGED <<activeTerminals, spawned, asked, answers, emitted,
                   shownInput, typedInput, failed, request, count>>

\* An error of the DELETE is logged.
LoseDelete(t) ==
    /\ t \in deleting
    /\ deleting' = deleting \ {t}
    /\ failed' = failed \cup {t}
    /\ UNCHANGED <<activeTerminals, shell, spawned, asked, answers, emitted,
                   shownInput, typedInput, request, count>>

\* The shell exits, or the runner restarts: the entry goes at once, and what
\* it had still to say with it.
ExitShell(t) ==
    /\ shell[t].alive
    /\ shell' = [shell EXCEPT ![t].alive = FALSE]
    /\ UNCHANGED <<activeTerminals, spawned, asked, answers, emitted,
                   shownInput, typedInput, deleting, failed, request, count>>
-----------------------------------------------------------------------------
\* slice(-maxOutputBytes) drops the oldest output.
Kept(output) == SubSeq(output, IF Len(output) > MaxPending THEN 2 ELSE 1,
                       Len(output))

Produced == MapThenSumSet(LAMBDA t : shell[t].produced, Terminals)

WriteOutput(t) ==
    LET q == shell[t]
        all == Append(q.pending, q.produced + 1)
    IN  /\ q.alive /\ Produced < MaxChunks
        /\ shell' = [shell EXCEPT
                       ![t].produced = @ + 1,
                       ![t].pending = Kept(all),
                       ![t].clipped = IF Kept(all) = all THEN @
                                      ELSE @ \cup {Head(all)}]
        /\ UNCHANGED <<activeTerminals, spawned, asked, answers, emitted,
                       shownInput, typedInput, deleting, failed, request,
                       count>>

\* The interval fires; it does not wait for the poll before.
SendPoll(t) ==
    /\ t \in activeTerminals
    /\ asked[t] + Cardinality(answers[t]) < MaxPolls
    /\ asked' = [asked EXCEPT ![t] = @ + 1]
    /\ UNCHANGED <<activeTerminals, shell, spawned, answers, emitted,
                   shownInput, typedInput, deleting, failed, request, count>>

\* Mutant: the runner answers with its buffer and keeps it.
TakeOutputKeeping(t) ==
    /\ asked[t] > 0
    /\ asked' = [asked EXCEPT ![t] = @ - 1]
    /\ answers' = [answers EXCEPT ![t] = @ \cup
                     {IF shell[t].alive THEN Output(shell[t].pending) ELSE Gone}]
    /\ UNCHANGED <<shell, activeTerminals, spawned, emitted, shownInput,
                   typedInput, deleting, failed, request, count>>

\* GET output empties the buffer into the answer; empty answers are all alike.
TakeOutput(t) ==
    /\ asked[t] > 0
    /\ asked' = [asked EXCEPT ![t] = @ - 1]
    /\ IF shell[t].alive
       THEN /\ answers' = [answers EXCEPT ![t] =
                               @ \cup {Output(shell[t].pending)}]
            /\ shell' = [shell EXCEPT ![t].pending = <<>>]
       ELSE /\ answers' = [answers EXCEPT ![t] = @ \cup {Gone}]
            /\ UNCHANGED shell
    /\ UNCHANGED <<activeTerminals, spawned, emitted, shownInput, typedInput,
                   deleting, failed, request, count>>

\* Mutant: every answer that is not output is only logged.
HandleAnswerLogging(t) ==
    \E a \in answers[t] :
      /\ answers' = [answers EXCEPT ![t] = @ \ {a}]
      /\ emitted' = [emitted EXCEPT ![t] = @ \o a.chunks]
      /\ UNCHANGED <<activeTerminals, deleting, shell, spawned, asked,
                     shownInput, typedInput, failed, request, count>>

\* The output goes to the room, after a close as well; a 404 closes.
HandleAnswer(t) ==
    \E a \in answers[t] :
      /\ answers' = [answers EXCEPT ![t] = @ \ {a}]
      /\ IF a.gone
         THEN Closed(t) /\ UNCHANGED emitted
         ELSE /\ emitted' = [emitted EXCEPT ![t] = @ \o a.chunks]
              /\ UNCHANGED <<activeTerminals, deleting>>
      /\ UNCHANGED <<shell, spawned, asked, shownInput, typedInput, failed,
                     request, count>>

\* The call fails before or after the runner saw it: the terminal is closed.
FailPoll(t) ==
    /\ \/ /\ asked[t] > 0
          /\ asked' = [asked EXCEPT ![t] = @ - 1]
          /\ UNCHANGED answers
       \/ \E a \in answers[t] : answers' = [answers EXCEPT ![t] = @ \ {a}]
                                /\ UNCHANGED asked
    /\ Closed(t)
    /\ failed' = failed \cup {t}
    /\ UNCHANGED <<shell, spawned, emitted, shownInput, typedInput, request,
                   count>>

\* An answer whose body cannot be parsed counts as one without output.
GarblePoll(t) ==
    /\ \E a \in answers[t] :
         ~a.gone /\ answers' = [answers EXCEPT ![t] = @ \ {a}]
    /\ failed' = failed \cup {t}
    /\ UNCHANGED <<activeTerminals, shell, spawned, asked, emitted, shownInput,
                   typedInput, deleting, request, count>>
-----------------------------------------------------------------------------
\* terminal_input: the entry is looked up, then the interview is loaded.
BeginInput(s, t) ==
    /\ t \in activeTerminals
    /\ Accept(s, [op |-> "input", pc |-> "found", id |-> t,
                  input |-> count + 1])
    /\ UNCHANGED terminalData

\* The others see the input, whether or not the terminal is still there.
RelayInput(s) ==
    /\ At(s, "input", "found")
    /\ shownInput' = shownInput \cup {request[s].input}
    /\ IF request[s].id \in activeTerminals THEN GoTo(s, "posted") ELSE Respond(s)
    /\ UNCHANGED <<activeTerminals, shell, spawned, asked, answers, emitted,
                   typedInput, deleting, failed>>

\* POST input: two of them arrive in any order.
WriteInput(s) ==
    /\ At(s, "input", "posted")
    /\ Respond(s)
    /\ typedInput' = IF shell[request[s].id].alive
                     THEN typedInput \cup {request[s].input} ELSE typedInput
    /\ UNCHANGED <<activeTerminals, shell, spawned, asked, answers, emitted,
                   shownInput, deleting, failed>>

\* The caller is refused, or a call of the request fails before it changes
\* anything; terminal_resize and /health change nothing that is kept here.
FailTerminal(s) ==
    /\ \/ At(s, "open", "posted") \/ At(s, "open", "admitted")
       \/ request[s].op = "input"
    /\ Respond(s)
    /\ UNCHANGED terminalData

PollStep(t) == SendPoll(t) \/ TakeOutput(t) \/ HandleAnswer(t)

TerminalNext ==
    \/ \E s \in Slots :
         \/ \E room \in Rooms : OpenTerminal(s, room)
         \/ AdmitTerminal(s) \/ SpawnShell(s) \/ AddTerminal(s)
         \/ LoseTerminal(s) \/ FailTerminal(s)
         \/ \E t \in Terminals : BeginInput(s, t)
         \/ RelayInput(s) \/ WriteInput(s)
    \/ \E t \in Terminals :
         \/ CloseTerminal(t) \/ DeleteShell(t) \/ LoseDelete(t) \/ ExitShell(t)
         \/ WriteOutput(t) \/ PollStep(t) \/ FailPoll(t) \/ GarblePoll(t)

TerminalSpec == TerminalInit /\ [][TerminalNext]_terminalVars

\* The interval fires, the runner serves, and calls return.
TerminalFairness ==
    \A t \in Terminals :
      /\ WF_terminalVars(SendPoll(t))
      /\ WF_terminalVars(TakeOutput(t))
      /\ WF_terminalVars(HandleAnswer(t))
-----------------------------------------------------------------------------
Chunks(output) == {output[i] : i \in DOMAIN output}
InFlight(t) == UNION {Chunks(a.chunks) : a \in answers[t]}

\* The room sees what happens in its shell.  Input was shown to the other
\* participants before the shell receives it.  Overlapping polls neither lose
\* nor repeat output: of a shell that is alive and none of whose calls failed,
\* every chunk is waiting in the runner, or on its way in one answer, or was
\* sent to the room once, unless the runner dropped it for want of space.
RoomSeesTerminal ==
    /\ typedInput \subseteq shownInput
    /\ \A t \in Alive \ failed :
         LET sent == Chunks(emitted[t])
             waiting == Chunks(shell[t].pending)
         IN  /\ sent \cup waiting \cup InFlight(t) \cup shell[t].clipped
                  = 1 .. shell[t].produced
             /\ Len(emitted[t]) = Cardinality(sent)
             /\ sent \cap (waiting \cup InFlight(t)) = {}
             /\ waiting \cap InFlight(t) = {}

Creating(t) == \E s \in Slots : At(s, "open", "spawned") /\ request[s].id = t

\* No shell is left to itself unless a call failed: each one is in the API
\* server's map, is about to be, or is about to be killed.  The limit is
\* exceeded at most by the requests the runner had admitted together.
ShellsAreAccounted ==
    /\ \A t \in Alive \ failed : t \in activeTerminals \cup deleting \/ Creating(t)
    /\ Cardinality(Alive) <= MaxSessions + Cardinality(Slots) - 1

\* A terminal whose shell is gone leaves the map, and the room can open
\* another one.
DeadTerminalIsForgotten ==
    \A t \in Terminals :
      (t \in activeTerminals /\ ~shell[t].alive) ~> (t \notin activeTerminals)
=============================================================================
