------------------------------- MODULE JobBoard -------------------------------
(***************************************************************************)
(* The list of jobs that seekers see (job.controller.js).  A page that was *)
(* read from the database is kept in Redis for a minute under one key      *)
(* (cache.service.js), and creating a job deletes what is kept.  Reading,  *)
(* storing, finding the keys and deleting them are awaits of their own,    *)
(* and each of them does nothing while Redis cannot be reached.            *)
(***************************************************************************)
EXTENDS Requests

CONSTANTS
    Pages,        \* the pages seekers ask for
    PageSize      \* the jobs of a page

ASSUME JobBoardAssumption ==
    Pages \subseteq Nat \ {0} /\ PageSize \in Nat \ {0}

VARIABLES
    jobs,         \* the number of jobs, which are created one after the other
    kept,         \* the list under jobs:public:all
    reachable     \* Redis answers

jobBoardVars == <<jobs, kept, reachable, request, count>>
-----------------------------------------------------------------------------
\* late and missed are history: the list was out of date when it was stored,
\* and a deletion that was due did not happen.
NoList == [page |-> 0, jobs |-> {}, late |-> FALSE, missed |-> FALSE]

JobBoardInit ==
    /\ jobs = 0
    /\ kept = NoList
    /\ reachable = TRUE
    /\ NoRequests

\* Newest first; jobs are neither changed nor removed.
JobsOf(page) ==
    {j \in 1 .. jobs : (jobs - j) \div PageSize = page - 1}

\* createJob, once the payload has been validated.
InsertJob(s) ==
    /\ Accept(s, [op |-> "create", pc |-> "inserted"])
    /\ jobs' = jobs + 1
    /\ UNCHANGED <<kept, reachable>>

\* A deletion that does not happen is logged, and the request goes on.
MissDeletion == kept' = [kept EXCEPT !.missed = kept # NoList]

\* Mutant: only the recruiters' lists are looked for.
FindKeysOfRecruiters(s) ==
    /\ At(s, "create", "inserted")
    /\ Respond(s)
    /\ UNCHANGED <<kept, jobs, reachable>>

\* invalidatePattern("jobs:*"): the keys first, ...
FindKeys(s) ==
    /\ At(s, "create", "inserted")
    /\ \/ ~reachable /\ Respond(s) /\ MissDeletion
       \/ reachable /\ kept = NoList /\ Respond(s) /\ UNCHANGED kept
       \/ reachable /\ kept # NoList /\ GoTo(s, "found") /\ UNCHANGED kept
    /\ UNCHANGED <<jobs, reachable>>

\* ... then what is under them.
DeleteKeys(s) ==
    /\ At(s, "create", "found")
    /\ Respond(s)
    /\ IF reachable THEN kept' = NoList ELSE MissDeletion
    /\ UNCHANGED <<jobs, reachable>>

\* getJobs answers with the list that is kept, whatever page it is.
AnswerFromCache ==
    /\ Answer
    /\ reachable /\ kept # NoList
    /\ UNCHANGED <<jobs, kept, reachable>>

BeginList(s, page) ==
    /\ ~reachable \/ kept = NoList
    /\ Accept(s, [op |-> "list", pc |-> "uncached", page |-> page])
    /\ UNCHANGED <<jobs, kept, reachable>>

ReadJobs(s) ==
    /\ At(s, "list", "uncached")
    /\ Hold(s, [op |-> "list", pc |-> "read", page |-> request[s].page,
                jobs |-> JobsOf(request[s].page)])
    /\ UNCHANGED <<jobs, kept, reachable>>

StoreList(s) ==
    LET q == request[s]
    IN  /\ At(s, "list", "read")
        /\ Respond(s)
        /\ kept' = IF reachable
                   THEN [page |-> q.page, jobs |-> q.jobs,
                         late |-> q.jobs # JobsOf(q.page), missed |-> FALSE]
                   ELSE kept
        /\ UNCHANGED <<jobs, reachable>>

\* After sixty seconds, or when Redis loses its data.
ExpireList ==
    /\ kept # NoList
    /\ kept' = NoList
    /\ UNCHANGED <<jobs, reachable, request, count>>

\* The client reconnects for as long as it takes.
Disconnect == reachable' = ~reachable /\ UNCHANGED <<jobs, kept, request, count>>

JobBoardNext ==
    \/ \E s \in Slots :
         \/ InsertJob(s) \/ FindKeys(s) \/ DeleteKeys(s)
         \/ \E page \in Pages : BeginList(s, page)
         \/ ReadJobs(s) \/ StoreList(s)
    \/ AnswerFromCache \/ ExpireList \/ Disconnect

JobBoardSpec == JobBoardInit /\ [][JobBoardNext]_jobBoardVars
-----------------------------------------------------------------------------
Creating == {s \in Slots : request[s].op = "create"}

\* The list that seekers are answered with is the current page, unless a job
\* is just being created, a deletion was missed while Redis was away, or the
\* list was stored by a request that had read it before a job was created:
\* that one is kept for its minute.
KeptListIsCurrent ==
    kept # NoList /\ Creating = {} /\ ~kept.late /\ ~kept.missed
      => kept.jobs = JobsOf(kept.page)
=============================================================================
