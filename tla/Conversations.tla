---------------------------- MODULE Conversations ----------------------------
(***************************************************************************)
(* The message thread of one application (message.controller.js): the      *)
(* seeker and the recruiter write, open the thread, which marks what they  *)
(* received as read, mark it without opening it, and look at the overview  *)
(* of their conversations.  The other participants' requests interleave    *)
(* with the database calls of each.                                        *)
(***************************************************************************)
EXTENDS Requests

Participants == {"seeker", "recruiter"}

VARIABLES
    thread,       \* the messages, oldest first: recipient, and whether read
    announced,    \* the messages whose event was emitted to the room
    shown,        \* history: per participant, the messages of the threads
                  \* that were answered
    unshown,      \* history: messages marked on request, or by an opening
                  \* that failed before it read the thread
    badge         \* per participant: the overview answered last

conversationVars ==
    <<thread, announced, shown, unshown, badge, request, count>>
-----------------------------------------------------------------------------
NoBadge == [latest |-> 0, unread |-> {}]

ConversationsInit ==
    /\ thread = <<>>
    /\ announced = {}
    /\ shown = [p \in Participants |-> {}]
    /\ unshown = {}
    /\ badge = [p \in Participants |-> NoBadge]
    /\ NoRequests

Unread(p) == {m \in DOMAIN thread : thread[m].to = p /\ ~thread[m].read}

\* updateMany over what the reader received and has not read.
MarkedRead(p) ==
    [m \in DOMAIN thread |->
       [thread[m] EXCEPT !.read = @ \/ m \in Unread(p)]]

\* sendApplicationMessage: the message is stored for the other participant,
SendMessage(s, p) ==
    /\ Accept(s, [op |-> "send", pc |-> "stored", message |-> Len(thread) + 1])
    /\ \E q \in Participants \ {p} :
         thread' = Append(thread, [to |-> q, read |-> FALSE])
    /\ UNCHANGED <<announced, shown, unshown, badge>>

\* and emitted once its sender's name has been looked up.
AnnounceMessage(s) ==
    /\ At(s, "send", "stored")
    /\ Respond(s)
    /\ announced' = announced \cup {request[s].message}
    /\ UNCHANGED <<thread, shown, unshown, badge>>

OpenThread(s, p) ==
    /\ Accept(s, [op |-> "open", pc |-> "authorized", by |-> p])
    /\ UNCHANGED <<thread, announced, shown, unshown, badge>>

\* getApplicationMessages marks, and tells the room if anything was unread, ...
MarkThread(s) ==
    LET p == request[s].by
    IN  /\ At(s, "open", "authorized")
        /\ Hold(s, [op |-> "open", pc |-> "marked", by |-> p,
                    marks |-> Unread(p)])
        /\ thread' = MarkedRead(p)
        /\ UNCHANGED <<announced, shown, unshown, badge>>

\* ... then reads the thread, ...
FindMessages(s) ==
    /\ At(s, "open", "marked")
    /\ Hold(s, [op |-> "open", pc |-> "read", by |-> request[s].by,
                marks |-> request[s].marks, messages |-> DOMAIN thread])
    /\ UNCHANGED <<thread, announced, shown, unshown, badge>>

\* Mutant: what is read is marked after it was loaded.
AnswerThreadMarking(s) ==
    LET q == request[s]
    IN  /\ At(s, "open", "read")
        /\ Respond(s)
        /\ shown' = [shown EXCEPT ![q.by] = @ \cup q.messages]
        /\ thread' = MarkedRead(q.by)
        /\ UNCHANGED <<announced, unshown, badge>>

\* ... and answers with it.
AnswerThread(s) ==
    LET q == request[s]
    IN  /\ At(s, "open", "read")
        /\ Respond(s)
        /\ shown' = [shown EXCEPT ![q.by] = @ \cup q.messages]
        /\ UNCHANGED <<thread, announced, unshown, badge>>

\* The thread cannot be read: 500, and what was marked stays marked.
FailThread(s) ==
    /\ At(s, "open", "marked")
    /\ Respond(s)
    /\ unshown' = unshown \cup request[s].marks
    /\ UNCHANGED <<thread, announced, shown, badge>>

\* markApplicationMessagesRead.
MarkOnly(p) ==
    /\ Answer
    /\ thread' = MarkedRead(p)
    /\ unshown' = unshown \cup Unread(p)
    /\ UNCHANGED <<announced, shown, badge>>

\* getUserConversations looks up the latest message, ...
BeginOverview(s, p) ==
    /\ Accept(s, [op |-> "overview", pc |-> "latest", by |-> p,
                  latest |-> Len(thread)])
    /\ UNCHANGED <<thread, announced, shown, unshown, badge>>

\* ... counts what is unread, and answers with both.
CountUnread(s) ==
    LET q == request[s]
    IN  /\ At(s, "overview", "latest")
        /\ Respond(s)
        /\ badge' = [badge EXCEPT ![q.by] = [latest |-> q.latest,
                                             unread |-> Unread(q.by)]]
        /\ UNCHANGED <<thread, announced, shown, unshown>>

\* A request that is refused or fails before it changes anything more.
FailConversation(s) ==
    /\ \/ At(s, "send", "stored") \/ At(s, "open", "authorized")
       \/ At(s, "overview", "latest")
    /\ Respond(s)
    /\ UNCHANGED <<thread, announced, shown, unshown, badge>>

ConversationsNext ==
    \/ \E s \in Slots :
         \/ \E p \in Participants :
              SendMessage(s, p) \/ OpenThread(s, p) \/ BeginOverview(s, p)
         \/ AnnounceMessage(s) \/ MarkThread(s) \/ FindMessages(s)
         \/ AnswerThread(s) \/ FailThread(s)
         \/ CountUnread(s) \/ FailConversation(s)
    \/ \E p \in Participants : MarkOnly(p)

ConversationsSpec == ConversationsInit /\ [][ConversationsNext]_conversationVars
-----------------------------------------------------------------------------
MarkedBy(s) ==
    IF request[s].op = "open" /\ request[s].pc \in {"marked", "read"}
    THEN request[s].marks ELSE {}

\* A message is marked as read only if its recipient was answered with it, is
\* about to be, or asked for the mark itself, or if the request that marked it
\* could not read the thread.
ReadWasShown ==
    \A m \in DOMAIN thread :
      thread[m].read => \/ m \in shown[thread[m].to] \cup unshown
                        \/ \E s \in Slots : m \in MarkedBy(s)

\* The two queries of an overview agree: if its latest message is still unread
\* by the one who asked, it was counted.
LatestUnreadIsCounted ==
    \A p \in Participants :
      badge[p].latest \in Unread(p) => badge[p].latest \in badge[p].unread

\* Read means shown, wherever the requests of the two interleave: nothing is
\* marked that was not shown, and an overview counts what it shows unread.
UnreadIsTruthful == ReadWasShown /\ LatestUnreadIsCounted
=============================================================================
