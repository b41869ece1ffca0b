--------------------------- MODULE LanguageServer ---------------------------
(***************************************************************************)
(* The language server gateway (lspGateway.js): a WebSocket of an          *)
(* interview participant is wired to a language server process of its own, *)
(* whose framed messages are put together again from the chunks in which   *)
(* its output arrives.                                                     *)
(***************************************************************************)
EXTENDS Requests, SequencesExt

CONSTANTS
    Sockets,      \* WebSocket connections
    Editors,      \* the participants who connect, and others who try
    Insiders,     \* those the session knows
    MaxReplies    \* bound on the messages of a server

ASSUME ServerAssumption == MaxReplies \in Nat /\ Insiders \subseteq Editors

VARIABLES
    socket,       \* per connection: "new", "open" or "closed"
    server,       \* per connection: its process
    written,      \* per process: the pieces of output so far
    taken,        \* per process: how many of them have been read
    stdoutBuffer, \* per connection: the pieces read and not used up
    received      \* per connection: the messages the client was sent

stream == <<written, taken, stdoutBuffer, received>>
serverData == <<socket, server, stream>>
serverVars == <<serverData, request, count>>
-----------------------------------------------------------------------------
\* A message is framed by a header, here its Content-Length and the empty line
\* that ends it, and the output may be cut between any two pieces.  Noise is a
\* header that ends without a Content-Length, what else a server may print.
Message == <<"length", "blank", "body">>
Noise == "noise"

ServerInit ==
    /\ socket = [c \in Sockets |-> "new"]
    /\ server = [c \in Sockets |-> "none"]
    /\ written = [c \in Sockets |-> <<>>]
    /\ taken = [c \in Sockets |-> 0]
    /\ stdoutBuffer = [c \in Sockets |-> <<>>]
    /\ received = [c \in Sockets |-> 0]
    /\ NoRequests

BeginUpgrade(s, c, u) ==
    /\ socket[c] = "new"
    /\ Accept(s, [op |-> "upgrade", pc |-> "lookup", by |-> u, socket |-> c])
    /\ UNCHANGED serverData

\* 401: no valid token, no such room, not a participant.
RefuseUpgrade(s) ==
    /\ At(s, "upgrade", "lookup")
    /\ Respond(s)
    /\ UNCHANGED serverData

\* getLanguageServerCommand.
HasServer(language) == language # "other"

\* connectLspSocket.  The process is started in the same step, and is known to
\* be missing (`error') only later; an unknown language has none.
Connect(s, language) ==
    LET c == request[s].socket
    IN  /\ At(s, "upgrade", "lookup")
        /\ request[s].by \in Insiders /\ socket[c] = "new"
        /\ socket' = [socket EXCEPT ![c] = "open"]
        /\ server' = [server EXCEPT ![c] = IF HasServer(language) THEN "running"
                                           ELSE "none"]
        /\ Respond(s)
        /\ UNCHANGED stream

MissServer(c) ==
    /\ server[c] = "running" /\ written[c] = <<>>
    /\ server' = [server EXCEPT ![c] = "none"]
    /\ UNCHANGED <<socket, stream, request, count>>

\* `exit': what it has written can still be read.
ExitServer(c) ==
    /\ server[c] \in {"running", "killed"}
    /\ server' = [server EXCEPT ![c] = "exited"]
    /\ UNCHANGED <<socket, stream, request, count>>

\* The messages that are whole, and the pieces a server may write next.
Whole(c) == Cardinality({i \in DOMAIN written[c] : written[c][i] = "body"})

Noisy(c) == \E i \in DOMAIN written[c] : written[c][i] = Noise

NextPieces(c) ==
    IF written[c] # <<>> /\ Last(written[c]) \in {"length", "blank"}
    THEN {Message[1 + SelectInSeq(Message, LAMBDA p : p = Last(written[c]))]}
    ELSE (IF Whole(c) < MaxReplies THEN {"length"} ELSE {})
           \cup (IF Noisy(c) THEN {} ELSE {Noise})

\* The server writes, piece by piece.  Bound: it is noisy once.
WritePiece(c, piece) ==
    /\ server[c] \in {"running", "killed"}
    /\ piece \in NextPieces(c)
    /\ written' = [written EXCEPT ![c] = Append(@, piece)]
    /\ UNCHANGED <<socket, server, taken, stdoutBuffer, received, request, count>>

\* What becomes of the bytes in the buffer: everything up to an empty line is a
\* header.  Without a Content-Length in it, the whole buffer is thrown away;
\* with one, the body is awaited, and the message taken.
RECURSIVE Decoded(_, _)
Decoded(pieces, sent) ==
    LET end == SelectInSeq(pieces, LAMBDA p : p \in {"blank", Noise})
        header == SubSeq(pieces, 1, end)
    IN  CASE end = 0                      -> [left |-> pieces, sent |-> sent]
          [] end > 0 /\ ~Contains(header, "length")
                                          -> [left |-> <<>>, sent |-> sent]
          [] Contains(header, "length") /\ Len(pieces) = end
                                          -> [left |-> pieces, sent |-> sent]
          [] OTHER -> Decoded(SubSeq(pieces, end + 2, Len(pieces)), sent + 1)

\* Mutant: what is left of a chunk is thrown away.
LeftThrown(pieces) == <<>>

Left(pieces) == Decoded(pieces, 0).left

\* Any number of pieces arrive as one chunk.  The messages that are whole are
\* sent on if the socket is open.
ReadChunk(c, n) ==
    LET pieces == stdoutBuffer[c] \o SubSeq(written[c], taken[c] + 1, taken[c] + n)
    IN  /\ taken[c] + n <= Len(written[c])
        /\ taken' = [taken EXCEPT ![c] = @ + n]
        /\ stdoutBuffer' = [stdoutBuffer EXCEPT ![c] = Left(pieces)]
        /\ received' = [received EXCEPT ![c] =
                          IF socket[c] = "open" THEN @ + Decoded(pieces, 0).sent
                          ELSE @]
        /\ UNCHANGED <<socket, server, written, request, count>>

Killed(c) == IF server[c] = "running" THEN "killed" ELSE server[c]

CloseSocket(c) ==
    /\ socket[c] = "open"
    /\ socket' = [socket EXCEPT ![c] = "closed"]
    /\ server' = [server EXCEPT ![c] = Killed(c)]
    /\ UNCHANGED <<stream, request, count>>

MaxPieces == 3 * MaxReplies + 1

ServerNext ==
    \/ \E s \in Slots :
         \/ \E c \in Sockets, u \in Editors : BeginUpgrade(s, c, u)
         \/ RefuseUpgrade(s) \/ \E l \in {"python", "other"} : Connect(s, l)
    \/ \E c \in Sockets :
         \/ MissServer(c) \/ ExitServer(c) \/ CloseSocket(c)
         \/ \E piece \in ToSet(Message) \cup {Noise} : WritePiece(c, piece)
         \/ \E n \in 1 .. MaxPieces : ReadChunk(c, n)

ServerFairness ==
    \A c \in Sockets : WF_serverVars(\E n \in 1 .. MaxPieces : ReadChunk(c, n))
-----------------------------------------------------------------------------
\* However its output is cut into chunks, every message a language server has
\* written whole reaches the editor, unless the editor has gone or the server
\* has written something that is no message, with which the gateway throws away
\* whatever it has: it writes boundedly many, and again and again none of them
\* is missing.
RepliesArrive ==
    \A c \in Sockets :
      []<>(received[c] = Whole(c) \/ Noisy(c) \/ socket[c] = "closed")

=============================================================================
