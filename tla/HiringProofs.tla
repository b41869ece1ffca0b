----------------------------- MODULE HiringProofs -----------------------------
(***************************************************************************)
(* What overlapping requests may not do to the documents of hiring, proved *)
(* for any number of requests, documents and pages: RecruiterLibrary,      *)
(* Invitations, JobBoard, Conversations, Assessments and JobPosting, each  *)
(* as a specification of its own.                                          *)
(***************************************************************************)
EXTENDS RecruiterLibrary, Invitations, JobBoard, Conversations, Assessments,
        JobPosting, SequenceTheorems, FiniteSetTheorems, TLAPS

Document == [there : BOOLEAN, text : Nat, usageCount : Nat]

LibraryTyped ==
    /\ item \in [Items -> Document]
    /\ uses \in [Items -> Nat]
    /\ DOMAIN request = Slots
    /\ \A s \in Slots : request[s].op = "update" =>
         request[s].item \in Items /\ request[s].copy \in Document

\* A document that was not created yet was not used: its count starts with the
\* history's.
LibraryInv ==
    /\ LibraryTyped
    /\ UpdatesLoseNothing
    /\ \A i \in Items \ removed : ~item[i].there => uses[i] = 0
-----------------------------------------------------------------------------
LEMMA LibraryStarts == LibraryInit => LibraryInv
  BY DEF LibraryInit, LibraryInv, LibraryTyped, UpdatesLoseNothing, NoRequests,
         Idle, Missing, Document

LEMMA LibraryStep == LibraryInv /\ [LibraryNext]_libraryVars => LibraryInv'
<1> SUFFICES ASSUME LibraryInv, [LibraryNext]_libraryVars PROVE LibraryInv'
  OBVIOUS
<1> USE DEF LibraryInv, LibraryTyped, Document
<1>1. ASSUME NEW s \in Slots, NEW i \in Items, BeginUpdate(s, i)
      PROVE LibraryInv'
  <2>1. request' = [request EXCEPT ![s] = [op |-> "update", pc |-> "loaded",
                                           item |-> i, copy |-> item[i]]]
    BY <1>1 DEF BeginUpdate, Accept
  <2> QED BY <1>1, <2>1 DEF BeginUpdate, UpdatesLoseNothing
<1>2. ASSUME NEW s \in Slots, SaveUpdate(s) PROVE LibraryInv'
  <2> DEFINE i == request[s].item
  <2>1. /\ i \in Items /\ request' = [request EXCEPT ![s] = Idle]
        /\ UNCHANGED <<uses, removed>>
    BY <1>2 DEF SaveUpdate, At, Respond
  <2>2. PICK text \in 1 .. 2 :
          item' = Saved(i, [request[s].copy EXCEPT !.text = text])
    BY <1>2 DEF SaveUpdate
  <2>3. [request[s].copy EXCEPT !.text = text].text = text
    BY <1>2 DEF SaveUpdate, At
  <2>4. item' \in [Items -> Document]
        /\ \A j \in Items : /\ item'[j].there = item[j].there
                            /\ item'[j].usageCount = item[j].usageCount
    BY <2>1, <2>2, <2>3 DEF Saved
  <2>5. LibraryTyped'
    BY <2>1, <2>4 DEF Idle
  <2> QED BY <2>1, <2>4, <2>5 DEF UpdatesLoseNothing
<1>3. ASSUME NEW i \in Items, CreateItem(i) PROVE LibraryInv'
  BY <1>3 DEF CreateItem, Answer, Fresh, UpdatesLoseNothing
<1>4. ASSUME NEW i \in Items, DeleteItem(i) PROVE LibraryInv'
  BY <1>4 DEF DeleteItem, Answer, Missing, UpdatesLoseNothing
<1>5. ASSUME NEW i \in Blocks, RecordUsage(i) PROVE LibraryInv'
  BY <1>5 DEF RecordUsage, Answer, UpdatesLoseNothing, Items
<1>6. ASSUME UNCHANGED libraryVars PROVE LibraryInv'
  BY <1>6 DEF libraryVars, UpdatesLoseNothing
<1> QED BY <1>1, <1>2, <1>3, <1>4, <1>5, <1>6 DEF LibraryNext

\* A recorded use survives the updates that overlap it, and no save of a copy
\* brings a deleted block or note back.
THEOREM LibraryLosesNothing == LibrarySpec => []UpdatesLoseNothing
<1>1. LibraryInv => UpdatesLoseNothing
  BY DEF LibraryInv
<1> QED BY <1>1, LibraryStarts, LibraryStep, PTL DEF LibrarySpec
-----------------------------------------------------------------------------
Invitation ==
    [audience : Invitees, used : BOOLEAN, revoked : BOOLEAN, opened : BOOLEAN,
     expired : BOOLEAN, known : SUBSET Nat]

InvitationsTyped ==
    /\ invites \in Seq(Invitation)
    /\ DOMAIN request = Slots
    /\ \A s \in Slots :
         /\ request[s].op = "invite" => /\ request[s].person \in Invitees
                                        /\ request[s].known \in SUBSET Nat
         /\ request[s].op \in {"validate", "accept"} =>
              /\ request[s].invite \in DOMAIN invites
              /\ request[s].copy \in Invitation

Settled(i) == i \in DOMAIN invites /\ (invites[i].revoked \/ invites[i].used)

\* What a request has revoked, or found used, is settled before it creates the
\* invitation that knows of it.
RotationInv ==
    /\ InvitationsTyped
    /\ \A j \in DOMAIN invites : \A i \in invites[j].known : Settled(i)
    /\ \A s \in Slots : request[s].op = "invite" =>
         \A i \in request[s].known : Settled(i)

\* No step goes back on an invitation, or leaves the sequence shorter.
LEMMA SettledStays ==
  ASSUME RotationInv, DOMAIN invites \subseteq DOMAIN invites',
         \A i \in DOMAIN invites :
           /\ invites[i].revoked => invites'[i].revoked
           /\ invites[i].used => invites'[i].used
  PROVE  \A i : Settled(i) => Settled(i)'
  BY DEF Settled

LEMMA InvitationsStart == InvitationsInit => RotationInv
  BY DEF InvitationsInit, RotationInv, InvitationsTyped, NoRequests, Idle

LEMMA SaveKeeps ==
  ASSUME NEW s \in Slots, NEW op \in {"validate", "accept"}, NEW edit,
         RotationInv, SaveInvite(s, op, edit), edit \in Invitation,
         edit.used \in {request[s].copy.used, TRUE}
  PROVE  RotationInv'
<1> DEFINE n == request[s].invite
           written == Written(n, request[s].copy, edit)
<1>1. /\ n \in DOMAIN invites /\ request[s].copy \in Invitation
      /\ request' = [request EXCEPT ![s] = Idle]
      /\ invites' = IF invites[n].expired THEN invites ELSE written
  BY DEF SaveInvite, At, Respond, RotationInv, InvitationsTyped
<1>2. invites \in Seq(Invitation) /\ DOMAIN invites = 1 .. Len(invites)
  BY DEF RotationInv, InvitationsTyped
<1>3. /\ written \in Seq(Invitation) /\ DOMAIN written = DOMAIN invites
      /\ \A i \in DOMAIN invites :
           /\ written[i].revoked = invites[i].revoked
           /\ invites[i].used => written[i].used
           /\ written[i].known = invites[i].known
  <2> DEFINE used == IF edit.used = request[s].copy.used THEN invites[n].used
                     ELSE edit.used
             opened == IF edit.opened = request[s].copy.opened
                       THEN invites[n].opened ELSE edit.opened
             marked == [invites[n] EXCEPT !.used = used, !.opened = opened]
  <2>0. invites[n] \in Invitation
    BY <1>1, <1>2, ElementOfSeq
  <2>1. used \in BOOLEAN /\ opened \in BOOLEAN /\ (invites[n].used => used)
    <3>1. /\ invites[n].used \in BOOLEAN /\ invites[n].opened \in BOOLEAN
          /\ edit.used \in BOOLEAN /\ edit.opened \in BOOLEAN
      <4> HIDE DEF n
      <4> QED BY <2>0 DEF Invitation
    <3>2. edit.used = request[s].copy.used \/ edit.used = TRUE
      OBVIOUS
    <3> QED BY <3>1, <3>2, Zenon
  <2>2. written = [invites EXCEPT ![n] = marked]
    BY <1>1, <1>2 DEF Written, Invitation
  <2>3. /\ marked \in Invitation /\ marked.revoked = invites[n].revoked
        /\ marked.used = used /\ marked.known = invites[n].known
    <3> HIDE DEF used, opened, n
    <3> QED BY <2>0, <2>1 DEF Invitation
  <2> HIDE DEF marked, used, opened, written
  <2> QED BY <1>1, <1>2, <2>1, <2>2, <2>3
<1>4. InvitationsTyped'
  <2> HIDE DEF written
  <2> QED BY <1>1, <1>2, <1>3 DEF RotationInv, InvitationsTyped, Idle
<1>5. \A i : Settled(i) => Settled(i)'
  <2> HIDE DEF written
  <2> QED BY <1>1, <1>2, <1>3, SettledStays
<1> HIDE DEF written
<1> QED BY <1>1, <1>3, <1>4, <1>5 DEF RotationInv, InvitationsTyped, Idle

LEMMA RotationStep ==
  RotationInv /\ [InvitationsNext]_invitationVars => RotationInv'
<1> SUFFICES ASSUME RotationInv, [InvitationsNext]_invitationVars
             PROVE  RotationInv'
  OBVIOUS
<1>0. InvitationsTyped /\ DOMAIN invites = 1 .. Len(invites)
  BY DEF RotationInv, InvitationsTyped
<1>1. ASSUME NEW s \in Slots, NEW p \in Invitees, RevokePrevious(s, p)
      PROVE RotationInv'
  <2> DEFINE made == [op |-> "invite", pc |-> "revoked", person |-> p,
                      known |-> Of(p)]
             revoked(i) == invites[i].revoked \/ (i \in Of(p) /\ ~invites[i].used)
  <2>1. /\ request' = [request EXCEPT ![s] = made]
        /\ invites' = [i \in DOMAIN invites |->
                         [invites[i] EXCEPT !.revoked = revoked(i)]]
    BY <1>1 DEF RevokePrevious, Accept
  <2>2. \A i \in DOMAIN invites : invites[i] \in Invitation
    BY <1>0 DEF InvitationsTyped
  <2>3. \A i \in DOMAIN invites : revoked(i) \in BOOLEAN
    BY <2>2 DEF Invitation
  <2>4. \A i \in DOMAIN invites :
          /\ invites'[i] \in Invitation /\ invites'[i].revoked = revoked(i)
          /\ invites'[i].used = invites[i].used
          /\ invites'[i].known = invites[i].known
    <3> HIDE DEF revoked
    <3> QED BY <2>1, <2>2, <2>3 DEF Invitation
  <2>5. DOMAIN invites' = DOMAIN invites /\ invites' \in Seq(Invitation)
    <3> HIDE DEF revoked
    <3>1. invites' \in [DOMAIN invites -> Invitation]
      BY <2>1, <2>4, Zenon
    <3>2. Len(invites) \in Nat
      BY <1>0 DEF InvitationsTyped
    <3> QED BY <1>0, <3>1, <3>2, SeqDef
  <2>6. /\ Of(p) \in SUBSET Nat /\ \A i \in Of(p) : Settled(i)'
    <3>1. Of(p) \subseteq DOMAIN invites /\ DOMAIN invites \in SUBSET Nat
      BY <1>0 DEF Of, InvitationsTyped
    <3>2. \A i \in Of(p) : revoked(i) \/ invites[i].used
      OBVIOUS
    <3> HIDE DEF revoked
    <3> QED BY <2>4, <2>5, <3>1, <3>2, Zenon DEF Settled
  <2>7. \A i : Settled(i) => Settled(i)'
    BY <2>4, <2>5, SettledStays
  <2>8. /\ request'[s] = made /\ DOMAIN request' = Slots
        /\ \A o \in Slots \ {s} : request'[o] = request[o]
    BY <1>0, <2>1 DEF InvitationsTyped
  <2>9. InvitationsTyped'
    BY <1>0, <2>5, <2>6, <2>8 DEF InvitationsTyped
  <2> QED BY <2>4, <2>5, <2>6, <2>7, <2>8, <2>9 DEF RotationInv
<1>2. ASSUME NEW s \in Slots, CreateInvite(s) PROVE RotationInv'
  <2> DEFINE new == NewInvite(request[s].person, request[s].known)
  <2>1. /\ request[s].op = "invite" /\ request' = [request EXCEPT ![s] = Idle]
        /\ invites' = Append(invites, new)
    BY <1>2 DEF CreateInvite, At, Respond
  <2>2. new \in Invitation /\ new.known = request[s].known
    BY <1>0, <2>1 DEF InvitationsTyped, NewInvite, Invitation
  <2> HIDE DEF new
  <2>3. /\ invites' \in Seq(Invitation)
        /\ DOMAIN invites' = DOMAIN invites \cup {Len(invites) + 1}
        /\ \A i \in DOMAIN invites : invites'[i] = invites[i]
        /\ invites'[Len(invites) + 1] = new
    BY <1>0, <2>1, <2>2 DEF InvitationsTyped
  <2>4. \A i : Settled(i) => Settled(i)'
    BY <2>3, SettledStays
  <2>5. InvitationsTyped'
    BY <1>0, <2>1, <2>3 DEF InvitationsTyped, Idle
  <2> QED BY <1>0, <2>1, <2>2, <2>3, <2>4, <2>5
          DEF RotationInv, InvitationsTyped, Idle
<1>3. ASSUME NEW s \in Slots, NEW op \in {"validate", "accept"},
             LoadInvite(s, op)
      PROVE RotationInv'
  <2>1. PICK i \in DOMAIN invites :
          request' = [request EXCEPT ![s] = [op |-> op, pc |-> "loaded",
                                             invite |-> i, copy |-> invites[i]]]
    BY <1>3 DEF LoadInvite, Accept
  <2>2. invites' = invites /\ invites[i] \in Invitation
    BY <1>0, <1>3 DEF LoadInvite, InvitationsTyped
  <2> QED BY <1>0, <2>1, <2>2 DEF RotationInv, InvitationsTyped, Settled
<1>4. ASSUME NEW s \in Slots, SaveOpened(s) PROVE RotationInv'
  <2> DEFINE copy == request[s].copy
             edit == [copy EXCEPT !.opened = TRUE]
  <2>1. SaveInvite(s, "validate", edit) /\ copy \in Invitation
    BY <1>0, <1>4 DEF SaveOpened, SaveInvite, At, InvitationsTyped
  <2>2. edit \in Invitation /\ edit.used = copy.used
    BY <2>1 DEF Invitation
  <2> QED BY <2>1, <2>2, SaveKeeps
<1>5. ASSUME NEW s \in Slots, SaveUsed(s) PROVE RotationInv'
  <2> DEFINE copy == request[s].copy
             edit == [copy EXCEPT !.used = TRUE]
  <2>1. SaveInvite(s, "accept", edit) /\ copy \in Invitation
    BY <1>0, <1>5 DEF SaveUsed, SaveInvite, At, InvitationsTyped
  <2>2. edit \in Invitation /\ edit.used = TRUE
    BY <2>1 DEF Invitation
  <2> QED BY <2>1, <2>2, SaveKeeps
<1>6. ASSUME NEW n \in DOMAIN invites, Expire(n) PROVE RotationInv'
  <2>1. \A i \in DOMAIN invites : invites[i] \in Invitation
    BY <1>0 DEF InvitationsTyped
  <2>2. \A i \in DOMAIN invites :
          /\ invites'[i] \in Invitation
          /\ invites'[i].revoked = invites[i].revoked
          /\ invites'[i].used = invites[i].used
          /\ invites'[i].known = invites[i].known
    BY <1>6, <2>1 DEF Expire, Invitation
  <2>3. /\ DOMAIN invites' = DOMAIN invites /\ invites' \in Seq(Invitation)
        /\ request' = request
    <3>1. request' = request /\ Len(invites) \in Nat
      BY <1>0, <1>6 DEF Expire, InvitationsTyped
    <3>2. invites \in [DOMAIN invites -> Invitation]
      BY <1>0, <2>1, SeqDef DEF InvitationsTyped
    <3>3. invites' \in [DOMAIN invites -> Invitation]
      BY <1>6, <2>2, <3>2 DEF Expire
    <3> QED BY <1>0, <3>1, <3>3, SeqDef
  <2>4. \A i : Settled(i) => Settled(i)'
    BY <2>2, <2>3, SettledStays
  <2> QED BY <1>0, <2>2, <2>3, <2>4 DEF RotationInv, InvitationsTyped
<1>7. ASSUME UNCHANGED invitationVars PROVE RotationInv'
  BY <1>0, <1>7 DEF invitationVars, RotationInv, InvitationsTyped, Settled
<1> QED BY <1>1, <1>2, <1>3, <1>4, <1>5, <1>6, <1>7 DEF InvitationsNext

\* Whoever opens or accepts a link while it is rotated: what an invitation
\* replaced stays revoked or used, for any number of people and requests.
THEOREM RotationStaysFinal == InvitationsSpec => []RotationIsFinal
<1>1. RotationInv => RotationIsFinal
  BY DEF RotationInv, RotationIsFinal, Settled
<1> QED BY <1>1, InvitationsStart, RotationStep, PTL DEF InvitationsSpec
-----------------------------------------------------------------------------
List == [page : Nat, jobs : SUBSET Nat, late : BOOLEAN, missed : BOOLEAN]

JobBoardTyped ==
    /\ jobs \in Nat
    /\ kept \in List
    /\ DOMAIN request = Slots
    /\ \A s \in Slots : request[s].op = "list" =>
         /\ request[s].page \in Pages
         /\ request[s].pc = "read" => request[s].jobs \in SUBSET Nat

ListInv == JobBoardTyped /\ KeptListIsCurrent

LEMMA JobBoardStarts == JobBoardInit => ListInv
  BY DEF JobBoardInit, ListInv, JobBoardTyped, KeptListIsCurrent, NoRequests,
         Idle, NoList, List

LEMMA MissedDeletion ==
  ASSUME kept \in List, MissDeletion
  PROVE  kept' \in List /\ (kept' = NoList \/ kept'.missed)
<1>1. CASE kept = NoList
  <2>1. (kept # NoList) = FALSE
    BY <1>1
  <2>2. kept' = [NoList EXCEPT !.missed = FALSE]
    BY <1>1, <2>1, Zenon DEF MissDeletion
  <2> QED BY <1>1, <2>2 DEF NoList
<1>2. CASE kept # NoList
  <2>1. (kept # NoList) = TRUE
    BY <1>2
  <2>2. kept' = [kept EXCEPT !.missed = TRUE]
    BY <2>1, Zenon DEF MissDeletion
  <2> QED BY <2>2 DEF List
<1> QED BY <1>1, <1>2

LEMMA ListStep == ListInv /\ [JobBoardNext]_jobBoardVars => ListInv'
<1> SUFFICES ASSUME ListInv, [JobBoardNext]_jobBoardVars PROVE ListInv'
  OBVIOUS
<1>0. JobBoardTyped
  BY DEF ListInv
<1>1. ASSUME NEW s \in Slots, InsertJob(s) PROVE ListInv'
  <2>1. /\ request' = [request EXCEPT ![s] = [op |-> "create", pc |-> "inserted"]]
        /\ jobs' = jobs + 1 /\ kept' = kept
    BY <1>1 DEF InsertJob, Accept
  <2>2. s \in Creating'
    BY <1>0, <2>1 DEF Creating, JobBoardTyped
  <2> QED BY <1>0, <2>1, <2>2 DEF ListInv, JobBoardTyped, KeptListIsCurrent
\* Whoever leaves the creating requests has emptied what is kept, found it
\* empty, or marked it.
<1>2. ASSUME NEW s \in Slots, FindKeys(s) \/ DeleteKeys(s),
             request' = [request EXCEPT ![s] = Idle]
      PROVE ListInv'
  <2>1. /\ kept' \in {kept, NoList} \/ MissDeletion
        /\ kept' # NoList => kept'.missed
        /\ jobs' = jobs
    <3>1. MissDeletion => kept' = NoList \/ kept'.missed
      BY <1>0, MissedDeletion DEF JobBoardTyped
    <3>2. CASE FindKeys(s)
      <4>1. request[s] # Idle /\ request[s].pc = "inserted"
        BY <3>2 DEF FindKeys, At, Idle
      <4>2. request' # [request EXCEPT ![s].pc = "found"]
        BY <1>0, <1>2, <4>1 DEF JobBoardTyped, Idle
      <4> QED BY <3>1, <3>2, <4>2 DEF FindKeys, GoTo
    <3>3. CASE DeleteKeys(s)
      BY <3>1, <3>3 DEF DeleteKeys
    <3> QED BY <1>2, <3>2, <3>3
  <2>2. kept' \in List
    <3>1. kept \in List /\ NoList \in List
      BY <1>0 DEF JobBoardTyped, List, NoList
    <3> QED BY <2>1, <3>1, MissedDeletion
  <2>3. KeptListIsCurrent'
    BY <2>1 DEF KeptListIsCurrent
  <2> QED BY <1>0, <1>2, <2>1, <2>2, <2>3 DEF ListInv, JobBoardTyped, Idle
<1>3. ASSUME NEW s \in Slots, FindKeys(s),
             request' # [request EXCEPT ![s] = Idle]
      PROVE ListInv'
  <2>1. /\ request' = [request EXCEPT ![s].pc = "found"]
        /\ request[s].op = "create" /\ UNCHANGED <<jobs, kept>>
    BY <1>3 DEF FindKeys, Respond, GoTo, At
  <2>2. request'[s].op = "create" /\ s \in Creating'
    BY <1>0, <2>1 DEF Creating, JobBoardTyped
  <2> QED BY <1>0, <2>1, <2>2 DEF ListInv, JobBoardTyped, KeptListIsCurrent
<1>4. ASSUME NEW s \in Slots, NEW page \in Pages, BeginList(s, page)
      PROVE ListInv'
  <2>1. /\ request[s] = Idle
        /\ request' = [request EXCEPT ![s] = [op |-> "list", pc |-> "uncached",
                                              page |-> page]]
        /\ UNCHANGED <<jobs, kept>>
    BY <1>4 DEF BeginList, Accept
  <2>2. Creating' = Creating
    BY <1>0, <2>1 DEF Creating, Idle, JobBoardTyped
  <2> QED BY <1>0, <2>1, <2>2
          DEF ListInv, JobBoardTyped, KeptListIsCurrent, JobsOf
<1>5. ASSUME NEW s \in Slots, ReadJobs(s) PROVE ListInv'
  <2> DEFINE read == [op |-> "list", pc |-> "read", page |-> request[s].page,
                      jobs |-> JobsOf(request[s].page)]
  <2>1. /\ request[s].op = "list" /\ request' = [request EXCEPT ![s] = read]
        /\ UNCHANGED <<jobs, kept>>
    BY <1>5 DEF ReadJobs, At, Hold
  <2>2. Creating' = Creating
    BY <1>0, <2>1 DEF Creating, JobBoardTyped
  <2>3. JobsOf(request[s].page) \in SUBSET Nat
    BY <1>0 DEF JobsOf, JobBoardTyped
  <2> QED BY <1>0, <2>1, <2>2, <2>3
          DEF ListInv, JobBoardTyped, KeptListIsCurrent, JobsOf
<1>6. ASSUME NEW s \in Slots, StoreList(s) PROVE ListInv'
  <2> DEFINE q == request[s]
  <2>1. /\ q.op = "list" /\ q.page \in Pages /\ q.jobs \in SUBSET Nat
        /\ request' = [request EXCEPT ![s] = Idle] /\ jobs' = jobs
        /\ kept' = IF reachable
                   THEN [page |-> q.page, jobs |-> q.jobs,
                         late |-> q.jobs # JobsOf(q.page), missed |-> FALSE]
                   ELSE kept
    BY <1>0, <1>6 DEF StoreList, At, Respond, JobBoardTyped
  <2>2. q.page \in Nat
    BY <2>1, JobBoardAssumption
  <2>3. Creating' = Creating /\ \A n : JobsOf(n)' = JobsOf(n)
    BY <1>0, <2>1 DEF Creating, Idle, JobBoardTyped, JobsOf
  <2>4. kept' \in List
    BY <1>0, <2>1, <2>2 DEF JobBoardTyped, List
  <2>5. KeptListIsCurrent'
    BY <2>1, <2>3 DEF ListInv, KeptListIsCurrent
  <2> QED BY <1>0, <2>1, <2>4, <2>5 DEF ListInv, JobBoardTyped, Idle
<1>7. ASSUME AnswerFromCache \/ Disconnect \/ UNCHANGED jobBoardVars
      PROVE ListInv'
  BY <1>7 DEF AnswerFromCache, Answer, Disconnect, jobBoardVars, ListInv,
              JobBoardTyped, KeptListIsCurrent, Creating, JobsOf
<1>8. ASSUME ExpireList PROVE ListInv'
  BY <1>8 DEF ExpireList, ListInv, JobBoardTyped, KeptListIsCurrent, List, NoList
<1>9. ASSUME NEW s \in Slots, DeleteKeys(s)
      PROVE request' = [request EXCEPT ![s] = Idle]
  BY <1>9 DEF DeleteKeys, Respond
<1> QED
  BY <1>1, <1>2, <1>3, <1>4, <1>5, <1>6, <1>7, <1>8, <1>9 DEF JobBoardNext

\* Wherever Redis comes and goes between the calls, what seekers are answered
\* with is the current page unless the exceptions the history names.
THEOREM ListStaysCurrent == JobBoardSpec => []KeptListIsCurrent
<1>1. ListInv => KeptListIsCurrent
  BY DEF ListInv
<1> QED BY <1>1, JobBoardStarts, ListStep, PTL DEF JobBoardSpec
-----------------------------------------------------------------------------
Message == [to : Participants, read : BOOLEAN]

ConversationsTyped ==
    /\ thread \in Seq(Message)
    /\ shown \in [Participants -> SUBSET Nat]
    /\ badge \in [Participants -> [latest : 0 .. Len(thread), unread : SUBSET Nat]]
    /\ DOMAIN request = Slots

\* An overview under way knows no message that is not there; an opening has
\* marked messages of its own that it will answer with.
ConversationsHold ==
    \A s \in Slots : LET q == request[s] IN
      /\ q.op \in {"open", "overview"} => q.by \in Participants
      /\ q.op = "overview" => q.latest \in 0 .. Len(thread)
      /\ \A m \in MarkedBy(s) : m \in DOMAIN thread /\ thread[m].to = q.by
      /\ q.op = "open" /\ q.pc = "read" =>
           /\ q.messages \in SUBSET Nat
           /\ q.marks \subseteq q.messages

ConversationInv == ConversationsTyped /\ ConversationsHold /\ UnreadIsTruthful

LEMMA ConversationsStart == ConversationsInit => ConversationInv
<1> SUFFICES ASSUME ConversationsInit PROVE ConversationInv
  OBVIOUS
<1> USE DEF ConversationsInit, NoRequests, Idle, NoBadge
<1>1. ConversationsTyped
  BY EmptySeq DEF ConversationsTyped
<1>2. ConversationsHold
  BY DEF ConversationsHold, MarkedBy
<1>3. UnreadIsTruthful
  BY DEF UnreadIsTruthful, ReadWasShown, LatestUnreadIsCounted, Unread
<1> QED BY <1>1, <1>2, <1>3 DEF ConversationInv

\* A request moves on without a mark, and leaves the messages alone.
LEMMA ConversationMoves ==
  ASSUME ConversationInv, NEW s \in Slots, NEW q,
         request' = [request EXCEPT ![s] = q], MarkedBy(s) = {},
         UNCHANGED <<thread, shown, unshown, badge>>,
         q.op \in {"open", "overview"} => q.by \in Participants,
         q.op = "overview" => q.latest \in 0 .. Len(thread),
         ~(q.op = "open" /\ q.pc \in {"marked", "read"})
  PROVE  ConversationInv'
<1>1. ConversationsTyped'
  BY DEF ConversationInv, ConversationsTyped
<1>2. \A t \in Slots : /\ request'[t] = IF t = s THEN q ELSE request[t]
                       /\ MarkedBy(t)' = MarkedBy(t)
  BY DEF ConversationInv, ConversationsTyped, MarkedBy
<1>3. ConversationsHold'
  <2>1. ASSUME NEW t \in Slots
        PROVE  LET r == request'[t] IN
                 /\ r.op \in {"open", "overview"} => r.by \in Participants
                 /\ r.op = "overview" => r.latest \in 0 .. Len(thread')
                 /\ \A m \in MarkedBy(t)' : m \in DOMAIN thread' /\ thread'[m].to = r.by
                 /\ r.op = "open" /\ r.pc = "read" =>
                      /\ r.messages \in SUBSET Nat
                      /\ r.marks \subseteq r.messages
    BY <1>2 DEF ConversationInv, ConversationsHold
  <2> QED BY <2>1 DEF ConversationsHold
<1>4. UnreadIsTruthful'
  BY <1>2 DEF ConversationInv, UnreadIsTruthful, ReadWasShown,
              LatestUnreadIsCounted, Unread
<1> QED BY <1>1, <1>3, <1>4 DEF ConversationInv

LEMMA SendKeeps ==
  ASSUME ConversationInv, NEW s \in Slots, NEW p \in Participants, SendMessage(s, p)
  PROVE  ConversationInv'
<1>1. PICK q \in Participants : thread' = Append(thread, [to |-> q, read |-> FALSE])
  BY DEF SendMessage
<1> DEFINE n == Len(thread)
           new == [to |-> q, read |-> FALSE]
<1>2. thread \in Seq(Message) /\ n \in Nat /\ new \in Message
  BY DEF ConversationInv, ConversationsTyped, Message
<1>3. /\ thread' \in Seq(Message) /\ Len(thread') = n + 1
      /\ DOMAIN thread = 1 .. n /\ DOMAIN thread' = 1 .. n + 1
      /\ \A m \in 1 .. n : thread'[m] = thread[m]
      /\ thread'[n + 1] = new
  <2> HIDE DEF new
  <2> QED BY <1>1, <1>2, AppendProperties DEF new
<1>4. /\ request[s] = Idle /\ UNCHANGED <<shown, unshown, badge>>
      /\ request' = [request EXCEPT ![s] = [op |-> "send", pc |-> "stored",
                                            message |-> n + 1]]
  BY DEF SendMessage, Accept
<1>5. \A t \in Slots : /\ t # s => request'[t] = request[t]
                       /\ request'[s].op = "send"
                       /\ MarkedBy(t)' = MarkedBy(t)
  BY <1>4 DEF ConversationInv, ConversationsTyped, MarkedBy, Idle
<1>6. 0 .. n \subseteq 0 .. Len(thread')
  BY <1>2, <1>3
<1>7. ConversationsTyped'
  BY <1>3, <1>4, <1>6 DEF ConversationInv, ConversationsTyped
<1>8. ConversationsHold'
  <2>1. ASSUME NEW t \in Slots
        PROVE  LET r == request'[t] IN
                 /\ r.op \in {"open", "overview"} => r.by \in Participants
                 /\ r.op = "overview" => r.latest \in 0 .. Len(thread')
                 /\ \A m \in MarkedBy(t)' : m \in DOMAIN thread' /\ thread'[m].to = r.by
                 /\ r.op = "open" /\ r.pc = "read" =>
                      /\ r.messages \in SUBSET Nat
                      /\ r.marks \subseteq r.messages
    <3>1. CASE t = s
      BY <1>4, <1>5, <3>1 DEF MarkedBy, Idle
    <3>2. CASE t # s
      BY <1>2, <1>3, <1>5, <1>6, <3>2 DEF ConversationInv, ConversationsHold
    <3> QED BY <3>1, <3>2
  <2> QED BY <2>1 DEF ConversationsHold
<1>9. ReadWasShown'
  <2>1. ASSUME NEW m \in DOMAIN thread', thread'[m].read
        PROVE  \/ m \in shown[thread'[m].to] \cup unshown
               \/ \E t \in Slots : m \in MarkedBy(t)'
    <3>1. m \in 1 .. n
      BY <1>2, <1>3, <2>1
    <3> QED BY <1>3, <1>5, <2>1, <3>1
            DEF ConversationInv, UnreadIsTruthful, ReadWasShown
  <2> QED BY <1>4, <2>1 DEF ReadWasShown
<1>10. LatestUnreadIsCounted'
  <2>1. ASSUME NEW x \in Participants, badge[x].latest \in Unread(x)'
        PROVE  badge[x].latest \in badge[x].unread
    <3>1. badge[x].latest \in 0 .. n
      BY DEF ConversationInv, ConversationsTyped
    <3>2. badge[x].latest \in Unread(x)
      BY <1>2, <1>3, <2>1, <3>1 DEF Unread
    <3> QED BY <3>2 DEF ConversationInv, UnreadIsTruthful, LatestUnreadIsCounted
  <2> QED BY <1>4, <2>1 DEF LatestUnreadIsCounted
<1> QED BY <1>7, <1>8, <1>9, <1>10 DEF ConversationInv, UnreadIsTruthful

\* updateMany marks what is unread, and changes nothing else of the thread.
LEMMA MarkedThread ==
  ASSUME ConversationsTyped, NEW p \in Participants, thread' = MarkedRead(p)
  PROVE  /\ thread' \in Seq(Message) /\ Len(thread') = Len(thread)
         /\ DOMAIN thread' = DOMAIN thread
         /\ \A m \in DOMAIN thread :
              /\ thread'[m].to = thread[m].to
              /\ thread'[m].read = (thread[m].read \/ m \in Unread(p))
<1>1. thread \in Seq(Message) /\ Len(thread) \in Nat
      /\ DOMAIN thread = 1 .. Len(thread)
  BY DEF ConversationsTyped
<1>2. \A m \in DOMAIN thread : thread[m] \in Message
  BY <1>1, ElementOfSeq
<1>3. ASSUME NEW m \in DOMAIN thread
      PROVE  /\ thread'[m] \in Message
             /\ thread'[m].to = thread[m].to
             /\ thread'[m].read = (thread[m].read \/ m \in Unread(p))
  <2>1. thread'[m] = [thread[m] EXCEPT !.read = thread[m].read \/ m \in Unread(p)]
    BY DEF MarkedRead
  <2> QED BY <1>2, <2>1 DEF Message
<1>4. DOMAIN thread' = 1 .. Len(thread)
  BY <1>1 DEF MarkedRead
<1>5. thread' \in Seq(Message) /\ Len(thread') = Len(thread)
  <2>1. thread' = [m \in 1 .. Len(thread) |-> thread'[m]]
    BY <1>1 DEF MarkedRead
  <2> QED BY <1>1, <1>3, <2>1, IsASeq, LenProperties
<1> QED BY <1>1, <1>3, <1>4, <1>5

\* Marking keeps the overviews truthful.
LEMMA MarkingCounts ==
  ASSUME ConversationInv, NEW p \in Participants, thread' = MarkedRead(p),
         UNCHANGED badge
  PROVE  LatestUnreadIsCounted'
<1>1. \A x \in Participants : Unread(x)' \subseteq Unread(x)
  BY MarkedThread DEF ConversationInv, Unread
<1> QED BY <1>1 DEF ConversationInv, UnreadIsTruthful, LatestUnreadIsCounted

LEMMA OpeningKeeps ==
  ASSUME ConversationInv, NEW s \in Slots,
         MarkThread(s) \/ FindMessages(s) \/ AnswerThread(s) \/ FailThread(s)
  PROVE  ConversationInv'
<1> DEFINE p == request[s].by
<1>0. /\ p \in Participants /\ request[s].op = "open"
      /\ ConversationsTyped /\ DOMAIN request = Slots
  BY DEF MarkThread, FindMessages, AnswerThread, FailThread, At, ConversationInv,
         ConversationsHold, ConversationsTyped
<1>1. CASE MarkThread(s)
  <2>1. /\ request' = [request EXCEPT ![s] = [op |-> "open", pc |-> "marked",
                                              by |-> p, marks |-> Unread(p)]]
        /\ thread' = MarkedRead(p) /\ UNCHANGED <<shown, unshown, badge>>
        /\ MarkedBy(s) = {}
    BY <1>1 DEF MarkThread, Hold, At, MarkedBy
  <2>2. \A t \in Slots : /\ t # s => /\ request'[t] = request[t]
                                     /\ MarkedBy(t)' = MarkedBy(t)
                         /\ request'[s].op = "open" /\ request'[s].pc = "marked"
                         /\ request'[s].by = p /\ MarkedBy(s)' = Unread(p)
    BY <1>0, <2>1 DEF MarkedBy
  <2>3. ConversationsTyped'
    BY <1>0, <2>1, MarkedThread DEF ConversationsTyped
  <2>4. ConversationsHold'
    <3>1. ASSUME NEW t \in Slots
          PROVE  LET r == request'[t] IN
                   /\ r.op \in {"open", "overview"} => r.by \in Participants
                   /\ r.op = "overview" => r.latest \in 0 .. Len(thread')
                   /\ \A m \in MarkedBy(t)' : m \in DOMAIN thread' /\ thread'[m].to = r.by
                   /\ r.op = "open" /\ r.pc = "read" =>
                        /\ r.messages \in SUBSET Nat
                        /\ r.marks \subseteq r.messages
      <4>1. CASE t = s
        BY <1>0, <2>1, <2>2, <4>1, MarkedThread DEF Unread
      <4>2. CASE t # s
        BY <1>0, <2>1, <2>2, <4>2, MarkedThread DEF ConversationInv, ConversationsHold
      <4> QED BY <4>1, <4>2
    <3> QED BY <3>1 DEF ConversationsHold
  <2>5. ReadWasShown'
    <3>1. ASSUME NEW m \in DOMAIN thread, thread'[m].read
          PROVE  \/ m \in shown[thread[m].to] \cup unshown
                 \/ \E t \in Slots : m \in MarkedBy(t)'
      <4>1. CASE m \in Unread(p)
        BY <2>2, <4>1
      <4>2. CASE thread[m].read
        <5>1. CASE m \in shown[thread[m].to] \cup unshown
          BY <5>1
        <5>2. ASSUME NEW t \in Slots, m \in MarkedBy(t)
              PROVE  \E x \in Slots : m \in MarkedBy(x)'
          BY <2>1, <2>2, <5>2
        <5> QED BY <4>2, <5>1, <5>2 DEF ConversationInv, UnreadIsTruthful, ReadWasShown
      <4> QED BY <1>0, <2>1, <3>1, <4>1, <4>2, MarkedThread
    <3> QED BY <1>0, <2>1, <3>1, MarkedThread DEF ReadWasShown
  <2> QED BY <2>1, <2>3, <2>4, <2>5, MarkingCounts, <1>0
          DEF ConversationInv, UnreadIsTruthful
<1>2. CASE FindMessages(s)
  <2>1. /\ request' = [request EXCEPT ![s] =
             [op |-> "open", pc |-> "read", by |-> p,
              marks |-> request[s].marks, messages |-> DOMAIN thread]]
        /\ request[s].pc = "marked"
        /\ UNCHANGED <<thread, shown, unshown, badge>>
    BY <1>2 DEF FindMessages, Hold, At
  <2>2. \A t \in Slots : /\ t # s => request'[t] = request[t]
                         /\ MarkedBy(t)' = MarkedBy(t)
    BY <1>0, <2>1 DEF MarkedBy
  <2>3. LET r == request'[s]
        IN  /\ r.op = "open" /\ r.by = p
            /\ r.messages = DOMAIN thread /\ r.marks = MarkedBy(s)
    BY <1>0, <2>1 DEF MarkedBy
  <2>4. DOMAIN thread \in SUBSET Nat
    BY <1>0 DEF ConversationsTyped
  <2>5. ConversationsTyped'
    BY <1>0, <2>1 DEF ConversationsTyped
  <2>6. ConversationsHold'
    <3>1. ASSUME NEW t \in Slots
          PROVE  LET r == request'[t] IN
                   /\ r.op \in {"open", "overview"} => r.by \in Participants
                   /\ r.op = "overview" => r.latest \in 0 .. Len(thread')
                   /\ \A m \in MarkedBy(t)' : m \in DOMAIN thread' /\ thread'[m].to = r.by
                   /\ r.op = "open" /\ r.pc = "read" =>
                        /\ r.messages \in SUBSET Nat
                        /\ r.marks \subseteq r.messages
      <4>1. CASE t = s
        BY <1>0, <2>1, <2>2, <2>3, <2>4, <4>1 DEF ConversationInv, ConversationsHold
      <4>2. CASE t # s
        BY <2>1, <2>2, <4>2 DEF ConversationInv, ConversationsHold
      <4> QED BY <4>1, <4>2
    <3> QED BY <3>1 DEF ConversationsHold
  <2>7. UnreadIsTruthful'
    BY <2>1, <2>2 DEF ConversationInv, UnreadIsTruthful, ReadWasShown,
                      LatestUnreadIsCounted, Unread
  <2> QED BY <2>5, <2>6, <2>7 DEF ConversationInv
<1>3. CASE AnswerThread(s) \/ FailThread(s)
  <2>1. /\ request' = [request EXCEPT ![s] = Idle] /\ UNCHANGED <<thread, badge>>
        /\ MarkedBy(s) = request[s].marks
        /\ \/ /\ request[s].pc = "read" /\ UNCHANGED unshown
              /\ shown' = [shown EXCEPT ![p] = @ \cup request[s].messages]
           \/ unshown' = unshown \cup request[s].marks /\ UNCHANGED shown
    BY <1>0, <1>3 DEF AnswerThread, FailThread, Respond, At, MarkedBy
  <2>2. \A t \in Slots : /\ t # s => /\ request'[t] = request[t]
                                     /\ MarkedBy(t)' = MarkedBy(t)
                         /\ request'[s] = Idle /\ MarkedBy(s)' = {}
    BY <1>0, <2>1 DEF MarkedBy, Idle
  <2>3. \A m \in MarkedBy(s) : m \in DOMAIN thread /\ thread[m].to = p
    BY DEF ConversationInv, ConversationsHold
  <2>4. /\ shown \in [Participants -> SUBSET Nat]
        /\ shown' \in [Participants -> SUBSET Nat]
        /\ \A x \in Participants : shown[x] \subseteq shown'[x]
        /\ unshown \subseteq unshown'
        /\ \A m \in MarkedBy(s) : m \in shown'[p] \cup unshown'
    BY <1>0, <2>1, SMTT(30) DEF ConversationInv, ConversationsTyped, ConversationsHold
  <2>5. ConversationsTyped'
    BY <1>0, <2>1, <2>4 DEF ConversationsTyped
  <2>6. ConversationsHold'
    <3>1. ASSUME NEW t \in Slots
          PROVE  LET r == request'[t] IN
                   /\ r.op \in {"open", "overview"} => r.by \in Participants
                   /\ r.op = "overview" => r.latest \in 0 .. Len(thread')
                   /\ \A m \in MarkedBy(t)' : m \in DOMAIN thread' /\ thread'[m].to = r.by
                   /\ r.op = "open" /\ r.pc = "read" =>
                        /\ r.messages \in SUBSET Nat
                        /\ r.marks \subseteq r.messages
      <4>1. CASE t = s
        BY <2>2, <4>1 DEF Idle
      <4>2. CASE t # s
        BY <2>1, <2>2, <4>2 DEF ConversationInv, ConversationsHold
      <4> QED BY <4>1, <4>2
    <3> QED BY <3>1 DEF ConversationsHold
  <2>7. ReadWasShown'
    <3>1. ASSUME NEW m \in DOMAIN thread, thread[m].read
          PROVE  \/ m \in shown'[thread[m].to] \cup unshown'
                 \/ \E t \in Slots : m \in MarkedBy(t)'
      <4>0. thread[m].to \in Participants
        <5>1. thread \in Seq(Message) /\ DOMAIN thread = 1 .. Len(thread)
          BY <1>0 DEF ConversationsTyped
        <5>2. thread[m] \in Message
          BY <5>1, ElementOfSeq
        <5> QED BY <5>2 DEF Message
      <4>1. CASE m \in shown[thread[m].to] \cup unshown
        BY <2>4, <4>0, <4>1
      <4>2. ASSUME NEW t \in Slots, m \in MarkedBy(t)
            PROVE  \/ m \in shown'[thread[m].to] \cup unshown'
                   \/ \E x \in Slots : m \in MarkedBy(x)'
        BY <2>2, <2>3, <2>4, <4>2
      <4> QED BY <3>1, <4>1, <4>2 DEF ConversationInv, UnreadIsTruthful, ReadWasShown
    <3> QED BY <2>1, <3>1 DEF ReadWasShown
  <2>8. LatestUnreadIsCounted'
    BY <2>1 DEF ConversationInv, UnreadIsTruthful, LatestUnreadIsCounted, Unread
  <2> QED BY <2>5, <2>6, <2>7, <2>8 DEF ConversationInv, UnreadIsTruthful
<1> QED BY <1>1, <1>2, <1>3

LEMMA MarkOnlyKeeps ==
  ASSUME ConversationInv, NEW p \in Participants, MarkOnly(p)
  PROVE  ConversationInv'
<1>1. /\ thread' = MarkedRead(p) /\ unshown' = unshown \cup Unread(p)
      /\ UNCHANGED <<request, shown, badge>>
      /\ ConversationsTyped
  BY DEF MarkOnly, Answer, ConversationInv
<1>2. ConversationsTyped'
  BY <1>1, MarkedThread DEF ConversationsTyped
<1>3. \A t \in Slots : MarkedBy(t)' = MarkedBy(t)
  BY <1>1 DEF MarkedBy
<1>4. ConversationsHold'
  <2>1. \A t \in Slots : \A m \in MarkedBy(t)' :
          m \in DOMAIN thread' /\ thread'[m].to = request'[t].by
    BY <1>1, <1>3, MarkedThread DEF ConversationInv, ConversationsHold
  <2>2. Len(thread') = Len(thread)
    BY <1>1, MarkedThread
  <2> QED BY <1>1, <2>1, <2>2 DEF ConversationInv, ConversationsHold
<1>5. ReadWasShown'
  <2>1. ASSUME NEW m \in DOMAIN thread, thread'[m].read
        PROVE  \/ m \in shown[thread[m].to] \cup unshown'
               \/ \E t \in Slots : m \in MarkedBy(t)'
    <3>1. CASE m \in Unread(p)
      BY <1>1, <3>1
    <3>2. CASE thread[m].read
      BY <1>1, <1>3, <3>2 DEF ConversationInv, UnreadIsTruthful, ReadWasShown
    <3> QED BY <1>1, <2>1, <3>1, <3>2, MarkedThread
  <2> QED BY <1>1, <2>1, MarkedThread DEF ReadWasShown
<1> QED BY <1>1, <1>2, <1>4, <1>5, MarkingCounts DEF ConversationInv, UnreadIsTruthful

LEMMA OverviewKeeps ==
  ASSUME ConversationInv, NEW s \in Slots, CountUnread(s)
  PROVE  ConversationInv'
<1> DEFINE q == request[s]
           new == [latest |-> q.latest, unread |-> Unread(q.by)]
<1>1. /\ q.by \in Participants /\ q.op = "overview" /\ q.latest \in 0 .. Len(thread)
      /\ request' = [request EXCEPT ![s] = Idle]
      /\ badge' = [badge EXCEPT ![q.by] = new]
      /\ UNCHANGED <<thread, shown, unshown>>
      /\ MarkedBy(s) = {}
  BY DEF CountUnread, Respond, At, ConversationInv, ConversationsHold, MarkedBy
<1>2. new \in [latest : 0 .. Len(thread), unread : SUBSET Nat]
  BY <1>1 DEF ConversationInv, ConversationsTyped, Unread
<1>3. \A t \in Slots : /\ request'[t] = IF t = s THEN Idle ELSE request[t]
                       /\ MarkedBy(t)' = MarkedBy(t)
  BY <1>1 DEF ConversationInv, ConversationsTyped, MarkedBy, Idle
<1>4. ConversationsTyped'
  BY <1>1, <1>2 DEF ConversationInv, ConversationsTyped
<1>5. ConversationsHold'
  <2>1. ASSUME NEW t \in Slots
        PROVE  LET r == request'[t] IN
                 /\ r.op \in {"open", "overview"} => r.by \in Participants
                 /\ r.op = "overview" => r.latest \in 0 .. Len(thread')
                 /\ \A m \in MarkedBy(t)' : m \in DOMAIN thread' /\ thread'[m].to = r.by
                 /\ r.op = "open" /\ r.pc = "read" =>
                      /\ r.messages \in SUBSET Nat
                      /\ r.marks \subseteq r.messages
    BY <1>1, <1>3 DEF ConversationInv, ConversationsHold, Idle
  <2> QED BY <2>1 DEF ConversationsHold
<1>6. ReadWasShown'
  BY <1>1, <1>3 DEF ConversationInv, UnreadIsTruthful, ReadWasShown
<1>7. LatestUnreadIsCounted'
  BY <1>1 DEF ConversationInv, ConversationsTyped, UnreadIsTruthful,
              LatestUnreadIsCounted, Unread
<1> QED BY <1>4, <1>5, <1>6, <1>7 DEF ConversationInv, UnreadIsTruthful

LEMMA ConversationStep ==
  ConversationInv /\ [ConversationsNext]_conversationVars => ConversationInv'
<1> SUFFICES ASSUME ConversationInv, [ConversationsNext]_conversationVars
             PROVE  ConversationInv'
  OBVIOUS
<1>0. Idle.op = "idle"
  BY DEF Idle
<1>1. ASSUME NEW s \in Slots, NEW p \in Participants, OpenThread(s, p)
      PROVE  ConversationInv'
  <2> DEFINE q == [op |-> "open", pc |-> "authorized", by |-> p]
  <2>1. request' = [request EXCEPT ![s] = q] /\ MarkedBy(s) = {}
        /\ UNCHANGED <<thread, shown, unshown, badge>>
    BY <1>0, <1>1 DEF OpenThread, Accept, MarkedBy
  <2>2. q.op = "open" /\ q.pc = "authorized" /\ q.by = p
    OBVIOUS
  <2> HIDE DEF q
  <2> QED BY <2>1, <2>2, ConversationMoves
<1>2. ASSUME NEW s \in Slots, NEW p \in Participants, BeginOverview(s, p)
      PROVE  ConversationInv'
  <2> DEFINE q == [op |-> "overview", pc |-> "latest", by |-> p, latest |-> Len(thread)]
  <2>1. request' = [request EXCEPT ![s] = q] /\ MarkedBy(s) = {}
        /\ UNCHANGED <<thread, shown, unshown, badge>>
    BY <1>0, <1>2 DEF BeginOverview, Accept, MarkedBy
  <2>2. q.op = "overview" /\ q.by = p /\ q.latest \in 0 .. Len(thread)
    BY DEF ConversationInv, ConversationsTyped
  <2> HIDE DEF q
  <2> QED BY <2>1, <2>2, ConversationMoves
<1>3. ASSUME NEW s \in Slots, AnnounceMessage(s) \/ FailConversation(s)
      PROVE  ConversationInv'
  <2>1. request' = [request EXCEPT ![s] = Idle] /\ MarkedBy(s) = {}
        /\ UNCHANGED <<thread, shown, unshown, badge>>
    BY <1>3 DEF AnnounceMessage, FailConversation, Respond, At, MarkedBy
  <2> QED BY <1>0, <2>1, ConversationMoves
<1>4. CASE UNCHANGED conversationVars
  BY <1>4 DEF conversationVars, ConversationInv, ConversationsTyped, ConversationsHold,
              MarkedBy, UnreadIsTruthful, ReadWasShown, LatestUnreadIsCounted, Unread
<1> QED BY <1>1, <1>2, <1>3, <1>4, SendKeeps, OpeningKeeps, MarkOnlyKeeps, OverviewKeeps
        DEF ConversationsNext

\* Read means shown, for any number of messages and of requests of the two:
\* what is marked as read was answered, or is about to be, or was marked on
\* request, and an overview that shows an unread message has counted it.
THEOREM UnreadStaysTruthful == ConversationsSpec => []UnreadIsTruthful
<1>1. ConversationInv => UnreadIsTruthful
  BY DEF ConversationInv
<1> QED BY <1>1, ConversationsStart, ConversationStep, PTL DEF ConversationsSpec
-----------------------------------------------------------------------------
Assessing == {"evaluate", "score"}
Record == [by : Evaluators, rating : Nat \ {0}]
Writing == [op : Assessing,
            pc : {"authorized", "inserting", "retrying", "found", "stored"},
            by : Evaluators, number : Nat, before : SUBSET Nat,
            completed : BOOLEAN, found : Record \cup {Nothing}]
KeyOf(s) == IF request[s].op = "score" THEN Card ELSE request[s].by

AssessmentsTyped ==
    /\ evaluation \in [Evaluators -> Record \cup {Nothing}]
    /\ scorecard \in Record \cup {Nothing}
    /\ completed \in BOOLEAN
    /\ request \in [Slots -> {Idle} \cup Writing]

\* A record is the one of its key, and there is one if a write was answered.
RecordsOwned ==
    /\ \A e \in Evaluators : evaluation[e] # Nothing => evaluation[e].by = e
    /\ scorecard # Nothing => scorecard.by = Lead
    /\ \A k \in Keys : answered[k] # {} => RecordOf(k) # Nothing

\* A write is the only one of its number until it is answered, and begins when
\* every earlier one of its record is answered or under way.
WritesNumbered ==
    /\ count \in Nat
    /\ answered \in [Keys -> SUBSET (1 .. count)]
    /\ outdated \in [Keys -> SUBSET (1 .. count)]
    /\ \A k \in Keys : outdated[k] \subseteq answered[k]
    /\ \A s \in Slots : request[s].op \in Assessing =>
         /\ request[s].op = "score" => request[s].by = Lead
         /\ request[s].number \in 1 .. count
         /\ \A k \in Keys : request[s].number \notin answered[k]
         /\ request[s].before \subseteq answered[KeyOf(s)]
         /\ \A t \in Slots : request[t].op \in Assessing
              /\ request[t].number = request[s].number => t = s

\* No record is of a write that another one replaced, or is about to replace,
\* and the card that was found is still there.
WritesStand ==
    /\ \A k \in Keys : RecordOf(k).rating \notin outdated[k]
    /\ \A s \in Slots : request[s].op \in Assessing =>
         /\ request[s].pc = "stored" =>
              /\ RecordOf(KeyOf(s)) # Nothing
              /\ RecordOf(KeyOf(s)).rating \notin request[s].before
         /\ request[s].found # Nothing => scorecard # Nothing

AssessmentInv == AssessmentsTyped /\ RecordsOwned /\ WritesNumbered /\ WritesStand

LEMMA AssessmentsStart == AssessmentsInit => AssessmentInv
<1> SUFFICES ASSUME AssessmentsInit PROVE AssessmentInv
  OBVIOUS
<1> USE DEF AssessmentsInit, NoRequests, Idle, Assessing, Nothing
<1>1. AssessmentsTyped /\ RecordsOwned
  BY DEF AssessmentsTyped, RecordsOwned, RecordOf
<1>2. WritesNumbered
  BY DEF WritesNumbered
<1>3. WritesStand
  BY DEF WritesStand
<1> QED BY <1>1, <1>2, <1>3 DEF AssessmentInv

LEMMA KeysApart ==
  /\ \A e \in Evaluators : e # Card /\ e \in Keys /\ RecordOf(e) = evaluation[e]
  /\ Card \in Keys /\ RecordOf(Card) = scorecard
  /\ Nothing \notin Record
  /\ Lead \in Evaluators
<1>1. Nothing.rating = 0
  BY DEF Nothing
<1> QED BY <1>1, AssessmentAssumption DEF Keys, Card, RecordOf, Record

\* A write is stored under its key, which nobody else's write is stored under.
LEMMA StoreKeeps ==
  ASSUME AssessmentInv, NEW s \in Slots, request[s].op \in Assessing,
         NEW k \in Keys, k = KeyOf(s),
         GoTo(s, "stored"), UNCHANGED <<completed, answered, outdated>>,
         RecordOf(k)' \in Record,
         RecordOf(k)'.by = request[s].by,
         RecordOf(k)'.rating = request[s].number,
         evaluation' \in [Evaluators -> Record \cup {Nothing}],
         scorecard' \in Record \cup {Nothing},
         \A x \in Keys : x # k => RecordOf(x)' = RecordOf(x)
  PROVE  AssessmentInv'
<1>0. /\ request[s] \in Writing /\ request \in [Slots -> {Idle} \cup Writing]
      /\ Idle.op \notin Assessing
  BY DEF AssessmentInv, AssessmentsTyped, Idle, Assessing
<1>1. /\ UNCHANGED count
      /\ \A t \in Slots : t # s => request'[t] = request[t]
      /\ request'[s] = [request[s] EXCEPT !.pc = "stored"]
      /\ request'[s] \in Writing
      /\ AssessmentsTyped'
  <2>1. /\ request' = [request EXCEPT ![s].pc = "stored"] /\ UNCHANGED count
    BY DEF GoTo
  <2>2. [request[s] EXCEPT !.pc = "stored"] \in Writing
    BY <1>0 DEF Writing
  <2> QED BY <1>0, <2>1, <2>2 DEF AssessmentInv, AssessmentsTyped
<1>2. \A t \in Slots : /\ request'[t].op = request[t].op
                       /\ request'[t].op \in Assessing =>
                            /\ request'[t].by = request[t].by
                            /\ request'[t].number = request[t].number
                            /\ request'[t].before = request[t].before
                            /\ request'[t].found = request[t].found
                       /\ KeyOf(t)' = KeyOf(t)
  BY <1>0, <1>1 DEF KeyOf, Writing
<1>3. WritesNumbered'
  <2>1. ASSUME NEW t \in Slots, request'[t].op \in Assessing
        PROVE  /\ request'[t].op = "score" => request'[t].by = Lead
               /\ request'[t].number \in 1 .. count
               /\ \A x \in Keys : request'[t].number \notin answered[x]
               /\ request'[t].before \subseteq answered[KeyOf(t)]
               /\ \A u \in Slots : request'[u].op \in Assessing
                    /\ request'[u].number = request'[t].number => u = t
    BY <1>2, <2>1 DEF AssessmentInv, WritesNumbered
  <2> QED BY <1>1, <1>2, <2>1 DEF AssessmentInv, WritesNumbered
<1>4. RecordsOwned'
  <2>1. \A e \in Evaluators : evaluation'[e] # Nothing => evaluation'[e].by = e
    BY KeysApart DEF AssessmentInv, RecordsOwned, WritesNumbered, KeyOf, RecordOf
  <2>2. scorecard' # Nothing => scorecard'.by = Lead
    <3>1. CASE k = Card
      <4>1. request[s].by = Lead
        BY <1>0, <3>1, KeysApart DEF AssessmentInv, WritesNumbered, KeyOf, Writing
      <4> QED BY <3>1, <4>1 DEF RecordOf
    <3>2. CASE k # Card
      BY <3>2, KeysApart DEF AssessmentInv, RecordsOwned, RecordOf
    <3> QED BY <3>1, <3>2
  <2>3. \A x \in Keys : answered[x] # {} => RecordOf(x)' # Nothing
    BY KeysApart DEF AssessmentInv, RecordsOwned
  <2> QED BY <2>1, <2>2, <2>3 DEF RecordsOwned
<1>5. WritesStand'
  <2>1. \A x \in Keys : RecordOf(x)'.rating \notin outdated[x]
    BY DEF AssessmentInv, WritesNumbered, WritesStand
  <2>2. ASSUME NEW t \in Slots, request'[t].op \in Assessing
        PROVE  /\ request'[t].pc = "stored" =>
                    /\ RecordOf(KeyOf(t))' # Nothing
                    /\ RecordOf(KeyOf(t))'.rating \notin request'[t].before
               /\ request'[t].found # Nothing => scorecard' # Nothing
    <3>0. request[t].op \in Assessing /\ request[t] \in Writing
      BY <1>0, <1>2, <2>2
    <3>1. /\ KeyOf(t) \in Keys /\ KeyOf(t)' = KeyOf(t)
          /\ request'[t].before = request[t].before
          /\ request[t].before \subseteq answered[KeyOf(t)]
      BY <1>2, <2>2, <3>0, KeysApart DEF AssessmentInv, Writing, WritesNumbered, KeyOf
    <3>2. request'[t].found # Nothing => scorecard' # Nothing
      BY <1>2, <2>2, KeysApart DEF AssessmentInv, WritesStand, RecordOf
    <3>3. CASE KeyOf(t) = k
      <4>1. RecordOf(KeyOf(t))' = RecordOf(k)'
        BY <3>1, <3>3 DEF RecordOf
      <4>2. request[s].number \notin answered[k]
        BY DEF AssessmentInv, WritesNumbered
      <4> QED BY <3>1, <3>2, <3>3, <4>1, <4>2, KeysApart
    <3>4. CASE KeyOf(t) # k
      <4>1. RecordOf(KeyOf(t))' = RecordOf(KeyOf(t))
        BY <3>1, <3>4 DEF RecordOf
      <4>2. t # s /\ request'[t] = request[t]
        BY <1>1, <3>4
      <4> QED BY <2>2, <3>2, <4>1, <4>2 DEF AssessmentInv, WritesStand
    <3> QED BY <3>3, <3>4
  <2> QED BY <2>1, <2>2 DEF WritesStand
<1> QED BY <1>1, <1>3, <1>4, <1>5 DEF AssessmentInv

LEMMA RequestSteps ==
  ASSUME AssessmentInv, NEW s \in Slots, request[s].op \in Assessing,
         NEW q, request' = [request EXCEPT ![s] = q], UNCHANGED count,
         UNCHANGED <<evaluation, scorecard, answered, outdated>>,
         completed' \in BOOLEAN, q \in {Idle} \cup Writing,
         q.op \in Assessing =>
           /\ q.op = request[s].op /\ q.by = request[s].by
           /\ q.number = request[s].number /\ q.before = request[s].before
           /\ q.pc # "stored" /\ q.found \in {request[s].found, scorecard}
  PROVE  AssessmentInv'
<1>1. /\ AssessmentsTyped'
      /\ \A t \in Slots : request'[t] = IF t = s THEN q ELSE request[t]
      /\ \A x \in Keys : RecordOf(x)' = RecordOf(x)
  BY DEF AssessmentInv, AssessmentsTyped, RecordOf
<1>2. ASSUME NEW t \in Slots, request'[t].op \in Assessing
      PROVE  /\ request[t].op \in Assessing
             /\ request'[t].op = request[t].op
             /\ request'[t].by = request[t].by
             /\ request'[t].number = request[t].number
             /\ request'[t].before = request[t].before
             /\ request'[t].pc = "stored" => request'[t] = request[t]
             /\ request'[t].found \in {request[t].found, scorecard}
             /\ KeyOf(t)' = KeyOf(t)
  BY <1>1, <1>2 DEF KeyOf
<1>3. RecordsOwned'
  BY <1>1 DEF AssessmentInv, RecordsOwned
<1>4. WritesNumbered'
  <2>1. ASSUME NEW t \in Slots, request'[t].op \in Assessing
        PROVE  /\ request'[t].op = "score" => request'[t].by = Lead
               /\ request'[t].number \in 1 .. count
               /\ \A x \in Keys : request'[t].number \notin answered[x]
               /\ request'[t].before \subseteq answered[KeyOf(t)]
               /\ \A u \in Slots : request'[u].op \in Assessing
                    /\ request'[u].number = request'[t].number => u = t
    BY <1>2, <2>1 DEF AssessmentInv, WritesNumbered
  <2> QED BY <1>1, <1>2, <2>1 DEF AssessmentInv, WritesNumbered
<1>5. WritesStand'
  <2>1. ASSUME NEW t \in Slots, request'[t].op \in Assessing
        PROVE  /\ request'[t].pc = "stored" =>
                    /\ RecordOf(KeyOf(t))' # Nothing
                    /\ RecordOf(KeyOf(t))'.rating \notin request'[t].before
               /\ request'[t].found # Nothing => scorecard' # Nothing
    <3>1. RecordOf(KeyOf(t))' = RecordOf(KeyOf(t))
      BY <1>2, <2>1 DEF RecordOf
    <3> QED BY <1>2, <2>1, <3>1 DEF AssessmentInv, WritesStand
  <2> QED BY <1>1, <2>1 DEF AssessmentInv, WritesStand
<1> QED BY <1>1, <1>3, <1>4, <1>5 DEF AssessmentInv

\* A new write, of which nothing was said yet.
LEMMA BeginKeeps ==
  ASSUME AssessmentInv, NEW s \in Slots, NEW e \in Evaluators, NEW k \in Keys,
         NEW op \in Assessing, k = IF op = "score" THEN Card ELSE e,
         op = "score" => e = Lead,
         Accept(s, Write(op, e, k)), UNCHANGED <<records, answered, outdated>>
  PROVE  AssessmentInv'
<1> DEFINE n == count + 1
           q == Write(op, e, k)
<1>1. /\ request[s] = Idle /\ count' = n /\ n \in Nat /\ count \in Nat
      /\ request' = [request EXCEPT ![s] = q]
      /\ UNCHANGED <<evaluation, scorecard, completed, answered, outdated>>
  BY DEF Accept, records, AssessmentInv, WritesNumbered
<1>2. /\ q \in Writing /\ q.op = op /\ q.by = e /\ q.number = n
      /\ q.before = answered[k] /\ q.found = Nothing /\ q.pc = "authorized"
  <2>1. answered[k] \in SUBSET Nat /\ completed \in BOOLEAN
    BY DEF AssessmentInv, AssessmentsTyped, WritesNumbered
  <2> QED BY <1>1, <2>1 DEF Write, Writing
<1> HIDE DEF q
<1>3. /\ AssessmentsTyped'
      /\ \A t \in Slots : request'[t] = IF t = s THEN q ELSE request[t]
      /\ \A x \in Keys : RecordOf(x)' = RecordOf(x)
      /\ Idle.op \notin Assessing
  BY <1>1, <1>2 DEF AssessmentInv, AssessmentsTyped, RecordOf, Idle, Assessing
<1>4. RecordsOwned'
  BY <1>1, <1>3 DEF AssessmentInv, RecordsOwned
<1>5. WritesNumbered'
  <2>1. 1 .. count \subseteq 1 .. n /\ n \in 1 .. n /\ n \notin 1 .. count
    BY <1>1
  <2> HIDE DEF n
  <2>2. /\ answered' \in [Keys -> SUBSET (1 .. n)]
        /\ outdated' \in [Keys -> SUBSET (1 .. n)]
    BY <1>1, <2>1 DEF AssessmentInv, WritesNumbered
  <2>3. \A x \in Keys : n \notin answered[x]
    BY <2>1 DEF AssessmentInv, WritesNumbered
  <2>4. ASSUME NEW t \in Slots, request'[t].op \in Assessing
        PROVE  /\ request'[t].op = "score" => request'[t].by = Lead
               /\ request'[t].number \in 1 .. n
               /\ \A x \in Keys : request'[t].number \notin answered[x]
               /\ request'[t].before \subseteq answered[KeyOf(t)']
               /\ \A u \in Slots : request'[u].op \in Assessing
                    /\ request'[u].number = request'[t].number => u = t
    <3>1. CASE t = s
      BY <1>2, <1>3, <2>1, <2>3, <3>1 DEF KeyOf, AssessmentInv, WritesNumbered
    <3>2. CASE t # s
      BY <1>2, <1>3, <2>1, <2>4, <3>2 DEF KeyOf, AssessmentInv, WritesNumbered
    <3> QED BY <3>1, <3>2
  <2> QED BY <1>1, <2>2, <2>4 DEF AssessmentInv, WritesNumbered
<1>6. WritesStand'
  <2>1. ASSUME NEW t \in Slots, request'[t].op \in Assessing
        PROVE  /\ request'[t].pc = "stored" =>
                    /\ RecordOf(KeyOf(t))' # Nothing
                    /\ RecordOf(KeyOf(t))'.rating \notin request'[t].before
               /\ request'[t].found # Nothing => scorecard' # Nothing
    <3>1. CASE t = s
      BY <1>2, <1>3, <3>1
    <3>2. CASE t # s
      <4>1. RecordOf(KeyOf(t))' = RecordOf(KeyOf(t))
        BY <1>1, <1>3, <3>2 DEF RecordOf, KeyOf
      <4> QED BY <1>1, <1>3, <2>1, <3>2, <4>1 DEF AssessmentInv, WritesStand
    <3> QED BY <3>1, <3>2
  <2> QED BY <1>1, <1>3, <2>1 DEF AssessmentInv, WritesStand
<1> QED BY <1>3, <1>4, <1>5, <1>6 DEF AssessmentInv

\* An answered write replaces those that were answered before it began.
LEMMA CompleteKeeps ==
  ASSUME AssessmentInv, NEW s \in Slots, request[s].op \in Assessing,
         request[s].pc = "stored", Respond(s), Finish(s, KeyOf(s)),
         completed' = (completed \/ ~request[s].completed),
         UNCHANGED <<evaluation, scorecard>>
  PROVE  AssessmentInv'
<1> DEFINE k == KeyOf(s)
           n == request[s].number
<1>1. /\ request[s] \in Writing /\ k \in Keys
      /\ Idle.op \notin Assessing /\ n \in 1 .. count
      /\ request[s].before \subseteq answered[k]
  BY KeysApart DEF AssessmentInv, AssessmentsTyped, WritesNumbered, KeyOf, Writing,
                   Idle, Assessing
<1>2. /\ request' = [request EXCEPT ![s] = Idle] /\ UNCHANGED count
      /\ answered' = [answered EXCEPT ![k] = @ \cup {n}]
      /\ outdated' = [outdated EXCEPT ![k] = @ \cup request[s].before]
  BY DEF Respond, Finish
<1> HIDE DEF k, n
<1>3. /\ AssessmentsTyped'
      /\ \A t \in Slots : request'[t] = IF t = s THEN Idle ELSE request[t]
      /\ \A x \in Keys :
           /\ RecordOf(x)' = RecordOf(x)
           /\ answered'[x] = IF x = k THEN answered[x] \cup {n} ELSE answered[x]
           /\ outdated'[x] = IF x = k THEN outdated[x] \cup request[s].before
                             ELSE outdated[x]
  BY <1>1, <1>2 DEF AssessmentInv, AssessmentsTyped, WritesNumbered, RecordOf
<1>4. RecordOf(k) # Nothing /\ RecordOf(k).rating \notin request[s].before
  BY DEF k, AssessmentInv, WritesStand
<1>5. RecordsOwned'
  BY <1>3, <1>4 DEF AssessmentInv, RecordsOwned
<1>6. WritesNumbered'
  <2>1. /\ answered' \in [Keys -> SUBSET (1 .. count)]
        /\ outdated' \in [Keys -> SUBSET (1 .. count)]
        /\ \A x \in Keys : outdated'[x] \subseteq answered'[x]
    BY <1>1, <1>2, <1>3 DEF AssessmentInv, WritesNumbered
  <2>2. ASSUME NEW t \in Slots, request'[t].op \in Assessing
        PROVE  /\ request'[t].op = "score" => request'[t].by = Lead
               /\ request'[t].number \in 1 .. count
               /\ \A x \in Keys : request'[t].number \notin answered'[x]
               /\ request'[t].before \subseteq answered'[KeyOf(t)']
               /\ \A u \in Slots : request'[u].op \in Assessing
                    /\ request'[u].number = request'[t].number => u = t
    <3>1. /\ t # s /\ request'[t] = request[t] /\ request[t].op \in Assessing
          /\ request[t] \in Writing
      BY <1>1, <1>3, <2>2 DEF AssessmentInv, AssessmentsTyped
    <3>2. KeyOf(t)' = KeyOf(t) /\ KeyOf(t) \in Keys
      BY <3>1, KeysApart DEF KeyOf, Writing
    <3>3. request[t].number # n
      BY <3>1 DEF n, AssessmentInv, WritesNumbered
    <3>4. \A u \in Slots : request'[u].op \in Assessing => request'[u] = request[u]
      BY <1>1, <1>3
    <3>5. \A x \in Keys : request[t].number \notin answered'[x]
      <4>1. \A x \in Keys : request[t].number \notin answered[x]
        BY <3>1 DEF AssessmentInv, WritesNumbered
      <4>2. \A x \in Keys : answered'[x] \subseteq answered[x] \cup {n}
        BY <1>3
      <4> QED BY <3>3, <4>1, <4>2
    <3>6. request[t].before \subseteq answered'[KeyOf(t)]
      <4>1. request[t].before \subseteq answered[KeyOf(t)]
        BY <3>1 DEF AssessmentInv, WritesNumbered
      <4>2. answered[KeyOf(t)] \subseteq answered'[KeyOf(t)]
        BY <1>3, <3>2
      <4> QED BY <4>1, <4>2
    <3>7. /\ request[t].op = "score" => request[t].by = Lead
          /\ request[t].number \in 1 .. count
          /\ \A u \in Slots : request'[u].op \in Assessing
               /\ request'[u].number = request[t].number => u = t
      BY <3>1, <3>4 DEF AssessmentInv, WritesNumbered
    <3> QED BY <3>1, <3>2, <3>5, <3>6, <3>7
  <2> QED BY <1>2, <2>1, <2>2 DEF AssessmentInv, WritesNumbered
<1>7. WritesStand'
  <2>1. ASSUME NEW t \in Slots, request'[t].op \in Assessing
        PROVE  /\ request'[t].pc = "stored" =>
                    /\ RecordOf(KeyOf(t))' # Nothing
                    /\ RecordOf(KeyOf(t))'.rating \notin request'[t].before
               /\ request'[t].found # Nothing => scorecard' # Nothing
    <3>1. request'[t] = request[t]
      BY <1>1, <1>3, <2>1
    <3>2. RecordOf(KeyOf(t))' = RecordOf(KeyOf(t))
      BY <3>1 DEF RecordOf, KeyOf
    <3> QED BY <2>1, <3>1, <3>2 DEF AssessmentInv, WritesStand
  <2>2. \A x \in Keys : RecordOf(x)'.rating \notin outdated'[x]
    BY <1>3, <1>4 DEF AssessmentInv, WritesStand
  <2> QED BY <2>1, <2>2 DEF WritesStand
<1> QED BY <1>3, <1>5, <1>6, <1>7 DEF AssessmentInv

\* An update in one step, numbered like a write.
LEMMA UpdateKeeps ==
  ASSUME AssessmentInv, NEW e \in Evaluators, UpdateEvaluation(e)
  PROVE  AssessmentInv'
<1> DEFINE n == count + 1
           r == [evaluation[e] EXCEPT !.rating = n]
<1>1. /\ count' = n /\ n \in Nat \ {0} /\ count \in Nat /\ evaluation[e] \in Record
      /\ evaluation' = [evaluation EXCEPT ![e] = r]
      /\ answered' = [answered EXCEPT ![e] = @ \cup {n}]
      /\ outdated' = [outdated EXCEPT ![e] = @ \cup answered[e]]
      /\ UNCHANGED <<scorecard, completed, request>>
  BY DEF UpdateEvaluation, Answer, AssessmentInv, AssessmentsTyped, WritesNumbered
<1>2. r \in Record /\ r.by = evaluation[e].by /\ r.rating = n
  BY <1>1 DEF Record
<1>3. 1 .. count \subseteq 1 .. n /\ n \in 1 .. n /\ n \notin 1 .. count
  BY <1>1
<1> HIDE DEF n, r
<1>4. /\ AssessmentsTyped'
      /\ \A x \in Keys :
           /\ RecordOf(x)' = IF x = e THEN r ELSE RecordOf(x)
           /\ answered'[x] = IF x = e THEN answered[x] \cup {n} ELSE answered[x]
           /\ outdated'[x] = IF x = e THEN outdated[x] \cup answered[x] ELSE outdated[x]
           /\ answered[x] \subseteq 1 .. count
  BY <1>1, <1>2, KeysApart DEF AssessmentInv, AssessmentsTyped, WritesNumbered, RecordOf,
                               Keys
<1>5. RecordsOwned'
  BY <1>1, <1>2, <1>4, KeysApart, ZenonT(30) DEF AssessmentInv, AssessmentsTyped, RecordsOwned
<1>6. WritesNumbered'
  <2>1. /\ answered' \in [Keys -> SUBSET (1 .. n)]
        /\ outdated' \in [Keys -> SUBSET (1 .. n)]
        /\ \A x \in Keys : outdated'[x] \subseteq answered'[x]
    BY <1>1, <1>3, <1>4, KeysApart DEF AssessmentInv, WritesNumbered
  <2>2. ASSUME NEW t \in Slots, request[t].op \in Assessing
        PROVE  /\ request[t].number \in 1 .. n
               /\ \A x \in Keys : request[t].number \notin answered'[x]
               /\ request[t].before \subseteq answered'[KeyOf(t)]
    <3>1. KeyOf(t) \in Keys
      BY <2>2, KeysApart DEF KeyOf, AssessmentInv, AssessmentsTyped, Writing, Idle,
                             Assessing
    <3>2. /\ request[t].number \in 1 .. count
          /\ \A x \in Keys : request[t].number \notin answered[x]
          /\ request[t].before \subseteq answered[KeyOf(t)]
      BY <2>2 DEF AssessmentInv, WritesNumbered
    <3>3. \A x \in Keys : /\ answered[x] \subseteq answered'[x]
                          /\ answered'[x] \subseteq answered[x] \cup {n}
      BY <1>4
    <3> QED BY <1>3, <3>1, <3>2, <3>3
  <2>3. \A t \in Slots : KeyOf(t)' = KeyOf(t)
    BY <1>1 DEF KeyOf
  <2> QED BY <1>1, <2>1, <2>2, <2>3 DEF AssessmentInv, WritesNumbered
<1>7. WritesStand'
  <2>1. \A x \in Keys : RecordOf(x)'.rating \notin outdated'[x]
    <3>1. ASSUME NEW x \in Keys PROVE RecordOf(x)'.rating \notin outdated'[x]
      <4>1. CASE x = e
        <5>1. n \notin answered[x] /\ outdated[x] \subseteq answered[x]
          BY <1>3, <1>4 DEF AssessmentInv, WritesNumbered
        <5> QED BY <1>2, <1>4, <4>1, <5>1
      <4>2. CASE x # e
        BY <1>4, <4>2 DEF AssessmentInv, WritesStand
      <4> QED BY <4>1, <4>2
    <3> QED BY <3>1
  <2>2. ASSUME NEW t \in Slots, request[t].op \in Assessing, request[t].pc = "stored"
        PROVE  /\ RecordOf(KeyOf(t))' # Nothing
               /\ RecordOf(KeyOf(t))'.rating \notin request[t].before
    <3>1. KeyOf(t) \in Keys /\ KeyOf(t)' = KeyOf(t)
      BY <1>1, <2>2, KeysApart DEF KeyOf, AssessmentInv, AssessmentsTyped, Writing, Idle,
                                   Assessing
    <3>2. request[t].before \subseteq 1 .. count
      BY <1>4, <2>2, <3>1 DEF AssessmentInv, WritesNumbered
    <3>3. RecordOf(KeyOf(t))' = IF KeyOf(t) = e THEN r ELSE RecordOf(KeyOf(t))
      BY <1>4, <3>1 DEF RecordOf
    <3> QED BY <1>2, <1>3, <2>2, <3>2, <3>3, KeysApart DEF AssessmentInv, WritesStand
  <2> QED BY <1>1, <2>1, <2>2 DEF AssessmentInv, WritesStand
<1> QED BY <1>4, <1>5, <1>6, <1>7 DEF AssessmentInv

LEMMA AssessmentStep ==
  AssessmentInv /\ [AssessmentsNext]_assessmentVars => AssessmentInv'
<1> SUFFICES ASSUME AssessmentInv, [AssessmentsNext]_assessmentVars
             PROVE  AssessmentInv'
  OBVIOUS
<1>0. /\ Idle.op \notin Assessing /\ \A s \in Slots : request[s].op \in Assessing => request[s] \in Writing
      /\ completed \in BOOLEAN
  BY DEF AssessmentInv, AssessmentsTyped, Idle, Assessing
<1>1. ASSUME NEW s \in Slots, NEW e \in Evaluators, BeginEvaluate(s, e)
      PROVE  AssessmentInv'
  <2>1. "evaluate" \in Assessing /\ e \in Keys
    BY KeysApart DEF Assessing
  <2> QED BY <1>1, <2>1, BeginKeeps DEF BeginEvaluate
<1>2. ASSUME NEW s \in Slots, BeginScore(s) PROVE AssessmentInv'
  <2>1. "score" \in Assessing /\ Card \in Keys /\ Lead \in Evaluators
    BY KeysApart DEF Assessing
  <2> QED BY <1>2, <2>1, BeginKeeps DEF BeginScore
<1>3. ASSUME NEW s \in Slots, request[s].op = "evaluate", StoreEvaluation(s)
      PROVE  AssessmentInv'
  <2> DEFINE e == request[s].by
  <2>1. /\ e \in Evaluators /\ request[s].number \in Nat \ {0} /\ KeyOf(s) = e
        /\ request[s].op \in Assessing
    BY <1>0, <1>3 DEF Assessing, Writing, KeyOf, AssessmentInv, WritesNumbered
  <2>2. /\ GoTo(s, "stored") /\ UNCHANGED <<completed, answered, outdated, scorecard>>
        /\ evaluation' = [evaluation EXCEPT ![e] = WrittenBy(s)]
    BY <1>3 DEF StoreEvaluation, Filter
  <2>3. /\ WrittenBy(s) \in Record /\ WrittenBy(s).by = e
        /\ WrittenBy(s).rating = request[s].number
    BY <2>1 DEF WrittenBy, Record
  <2> HIDE DEF e
  <2>4. /\ evaluation' \in [Evaluators -> Record \cup {Nothing}]
        /\ scorecard' \in Record \cup {Nothing}
        /\ \A x \in Keys : RecordOf(x)' = IF x = e THEN WrittenBy(s) ELSE RecordOf(x)
    BY <2>1, <2>2, <2>3, KeysApart DEF AssessmentInv, AssessmentsTyped, RecordOf, Keys
  <2> QED BY <2>1, <2>2, <2>3, <2>4, KeysApart, StoreKeeps DEF e
<1>4. ASSUME NEW s \in Slots, SaveCard(s) PROVE AssessmentInv'
  <2> DEFINE q == request[s]
             new == IF q.found = Nothing THEN WrittenBy(s)
                    ELSE [scorecard EXCEPT !.rating = q.number]
  <2>1. /\ q.op = "score" /\ q.op \in Assessing /\ q.by = Lead
        /\ q.number \in Nat \ {0} /\ KeyOf(s) = Card /\ GoTo(s, "stored")
        /\ scorecard' = new
        /\ UNCHANGED <<evaluation, completed, answered, outdated>>
    BY <1>0, <1>4 DEF SaveCard, At, Assessing, Writing, KeyOf, AssessmentInv,
                      WritesNumbered
  <2>2. new \in Record /\ new.by = Lead /\ new.rating = q.number
    <3>1. CASE q.found = Nothing
      BY <2>1, <3>1, KeysApart DEF WrittenBy, Record
    <3>2. CASE q.found # Nothing
      <4>1. scorecard \in Record /\ scorecard.by = Lead
        BY <2>1, <3>2 DEF AssessmentInv, AssessmentsTyped, RecordsOwned, WritesStand
      <4> QED BY <2>1, <3>2, <4>1 DEF Record
    <3> QED BY <3>1, <3>2
  <2> HIDE DEF new
  <2>3. \A x \in Keys : RecordOf(x)' = IF x = Card THEN new ELSE RecordOf(x)
    BY <2>1 DEF RecordOf
  <2>4. /\ evaluation' \in [Evaluators -> Record \cup {Nothing}]
        /\ scorecard' \in Record \cup {Nothing}
    BY <2>1, <2>2 DEF AssessmentInv, AssessmentsTyped
  <2> QED BY <2>1, <2>2, <2>3, <2>4, KeysApart, StoreKeeps
<1>5. ASSUME NEW s \in Slots, UpsertMissed(s) \/ UpsertLoses(s) \/ FindCard(s)
      PROVE  AssessmentInv'
  <2>0. request[s] \in Writing /\ request[s].op \in Assessing
    BY <1>0, <1>5 DEF UpsertMissed, UpsertLoses, FindCard, At, Assessing
  <2>1. PICK pc \in {"inserting", "retrying", "found"},
             found \in {request[s].found, scorecard} :
          request' = [request EXCEPT ![s] =
                        [request[s] EXCEPT !.pc = pc, !.found = found]]
    <3>1. CASE FindCard(s)
      BY <3>1 DEF FindCard, Hold
    <3>2. ASSUME NEW pc \in {"inserting", "retrying"}, GoTo(s, pc)
          PROVE  request' = [request EXCEPT ![s] =
                               [request[s] EXCEPT !.pc = pc, !.found = request[s].found]]
      <4>1. [request[s] EXCEPT !.pc = pc, !.found = request[s].found]
              = [request[s] EXCEPT !.pc = pc]
        BY <2>0 DEF Writing
      <4> QED BY <3>2, <4>1 DEF GoTo
    <3> QED BY <1>5, <3>1, <3>2 DEF UpsertMissed, UpsertLoses
  <2>2. UNCHANGED <<evaluation, scorecard, completed, answered, outdated, count>>
    BY <1>5 DEF UpsertMissed, UpsertLoses, FindCard, GoTo, Hold, records
  <2> DEFINE q == [request[s] EXCEPT !.pc = pc, !.found = found]
  <2>3. /\ q \in Writing /\ q.op = request[s].op /\ q.by = request[s].by
        /\ q.number = request[s].number /\ q.before = request[s].before
        /\ q.pc = pc /\ q.found = found
    BY <2>0 DEF Writing, AssessmentInv, AssessmentsTyped
  <2> HIDE DEF q
  <2> QED BY <1>0, <2>0, <2>1, <2>2, <2>3, RequestSteps DEF q
<1>6. ASSUME NEW s \in Slots, CompleteEvaluate(s) \/ CompleteScore(s)
      PROVE  AssessmentInv'
  <2>1. request[s].op \in Assessing /\ request[s].pc = "stored" /\ Respond(s)
        /\ Finish(s, KeyOf(s)) /\ UNCHANGED <<evaluation, scorecard>>
        /\ completed' = (completed \/ ~request[s].completed)
    BY <1>6 DEF CompleteEvaluate, CompleteScore, At, KeyOf, Assessing
  <2> QED BY <2>1, CompleteKeeps
<1>7. ASSUME NEW s \in Slots, FailAssessment(s) PROVE AssessmentInv'
  <2>1. /\ request[s].op \in Assessing /\ request' = [request EXCEPT ![s] = Idle]
        /\ UNCHANGED <<count, evaluation, scorecard, completed, answered, outdated>>
    BY <1>7 DEF FailAssessment, Respond, records, Assessing
  <2> QED BY <1>0, <2>1, RequestSteps
<1>8. ASSUME NEW e \in Evaluators, UpdateEvaluation(e) PROVE AssessmentInv'
  BY <1>8, UpdateKeeps
<1>9. CASE UNCHANGED assessmentVars
  BY <1>9 DEF assessmentVars, records, AssessmentInv, AssessmentsTyped, RecordsOwned,
              WritesNumbered, WritesStand, RecordOf, KeyOf
<1>10. ASSUME NEW s \in Slots, UpsertFound(s) \/ UpsertInserts(s) \/ Retry(s)
       PROVE  AssessmentInv'
  BY <1>3, <1>10 DEF UpsertFound, UpsertInserts, Retry, At
<1> QED BY <1>1, <1>2, <1>4, <1>5, <1>6, <1>7, <1>8, <1>9, <1>10 DEF AssessmentsNext

\* An evaluation or scorecard that was answered stands under its author's name,
\* with the rating of no write that another one has replaced, for any number of
\* evaluators and of requests that race to create the record or update it.
THEOREM AssessmentsStand == AssessmentsSpec => []AnsweredAssessmentStands
<1>1. AssessmentInv => AnsweredAssessmentStands
  BY KeysApart DEF AssessmentInv, RecordsOwned, WritesStand, RecordOf, Keys,
                   AnsweredAssessmentStands
<1> QED BY <1>1, AssessmentsStart, AssessmentStep, PTL DEF AssessmentsSpec
-----------------------------------------------------------------------------
DraftOK(d) == DOMAIN d = Fields /\ d.tier \in Tiers /\ CriteriaAreValid(d)

AnswerOK(raw) ==
    /\ "minCgpa" \in DOMAIN raw => raw.minCgpa.n \in Int
    /\ "minYears" \in DOMAIN raw => raw.minYears \in Int
    /\ "tier" \in DOMAIN raw => raw.tier \in Tiers

\* What a preview counts in a given pool of seekers.
MatchingIn(pool, d, dropped) ==
    {k \in Seekers :
       /\ HasSkillOf(d, pool[k])
       /\ "minCgpa" \in dropped \/ d.minCgpa = 0 \/ pool[k].cgpa >= d.minCgpa
       /\ "tier" \in dropped \/ TierIsCounted(pool[k].tier, d.tier)}

\* The first count is of the pool; so are the others while it stays.
CountsInv(r) ==
    /\ DOMAIN r = {"op", "pc", "draft", "counts", "pool", "still"}
    /\ DraftOK(r.draft) /\ r.still \in BOOLEAN
    /\ r.counts \in Seq(SUBSET Seekers) /\ Len(r.counts) <= 4
    /\ Len(r.counts) >= 1 => r.counts[1] = MatchingIn(r.pool, r.draft, {})
    /\ r.still => \A i \in 1 .. Len(r.counts) :
                    r.counts[i] = MatchingIn(r.pool, r.draft, Dropped[i])

PostingInv ==
    /\ DraftOK(draft) /\ DOMAIN request = Slots
    /\ MergeIsSafe /\ PreviewCountsTheEligible
    /\ \A s \in Slots : request[s].op = "preview" => CountsInv(request[s])
-----------------------------------------------------------------------------
LEMMA ClampedIn == \A n \in Int : Clamped(n, 1000) \in 0 .. 1000 /\ Clamped(n, 60) \in 0 .. 60
  BY DEF Clamped

LEMMA CoercedIsNumber == \A n \in Int : CoerceCgpa(Bare(n)) \in Int
<1> SUFFICES ASSUME NEW n \in Int PROVE CoerceCgpa(Bare(n)) \in Int
  OBVIOUS
<1>1. PICK a \in Int : a = RoundedTo(5 * n, 2)
  BY DEF RoundedTo
<1>2. PICK b \in Int : b = RoundedTo(10 * n, 95)
  BY DEF RoundedTo
<1>3. PICK x \in Int : x = Clamped(a, 1000)
  BY DEF Clamped
<1>4. PICK y \in Int : y = Clamped(b, 1000)
  BY DEF Clamped
<1>5. CoerceCgpa(Bare(n)) \in {x, n, y, Null}
  BY <1>1, <1>2, <1>3, <1>4 DEF CoerceCgpa, Bare, Grade
<1> QED BY <1>5 DEF Null

LEMMA MergedDraft ==
  ASSUME NEW d, DraftOK(d), NEW raw, AnswerOK(raw), NEW m, m = MergeJobDraft(d, raw)
  PROVE  DraftOK(m) /\ \A f \in Fields \ DOMAIN raw : m[f] = d[f]
<1>1. DOMAIN m = Fields
      /\ \A f \in Fields : m[f] = IF f \in DOMAIN raw THEN Normalize(f, raw[f]) ELSE d[f]
  BY DEF MergeJobDraft
<1>2. {"minCgpa", "minYears", "tier"} \subseteq Fields
  BY DEF Fields, Criteria
<1>3. ASSUME "minCgpa" \in DOMAIN raw PROVE Normalize("minCgpa", raw["minCgpa"]) \in 0 .. 1000
  <2>1. PICK v : v = raw["minCgpa"] /\ v.n \in Int
    BY <1>3 DEF AnswerOK
  <2>2. Normalize("minCgpa", v) = IF v.form = "bare" THEN Clamped(v.n, 1000) ELSE 0
    BY DEF Normalize
  <2> QED BY <2>1, <2>2, ClampedIn, SMTT(30)
<1>4. ASSUME "minYears" \in DOMAIN raw PROVE Normalize("minYears", raw["minYears"]) \in 0 .. 60
  <2>1. PICK v \in Int : v = raw["minYears"]
    BY <1>4 DEF AnswerOK
  <2>2. Normalize("minYears", v) = Clamped(v, 60)
    BY DEF Normalize
  <2> QED BY <2>1, <2>2, ClampedIn
<1>5. ASSUME "tier" \in DOMAIN raw PROVE Normalize("tier", raw["tier"]) \in Tiers
  <2>1. Normalize("tier", raw["tier"]) = raw["tier"]
    BY DEF Normalize
  <2> QED BY <1>5, <2>1 DEF AnswerOK
<1>6. m["minCgpa"] \in 0 .. 1000 /\ m["minYears"] \in 0 .. 60 /\ m["tier"] \in Tiers
  BY <1>1, <1>2, <1>3, <1>4, <1>5 DEF DraftOK, CriteriaAreValid
<1> QED BY <1>1, <1>6 DEF DraftOK, CriteriaAreValid

LEMMA RulesAnswerIsOK ==
  ASSUME NEW d, DraftOK(d), NEW message \in Messages
  PROVE  AnswerOK(RulesAnswer(d, message))
<1>1. message.minCgpa \in Int /\ message.minYears \in Int
  BY PostingAssumption
<1>2. PICK grade : grade = IF message.minCgpa = Null THEN 0
                           ELSE CoerceCgpa(Bare(message.minCgpa))
  OBVIOUS
<1>3. grade \in Int
  BY <1>1, <1>2, CoercedIsNumber
<1>4. PICK raw : raw = RulesAnswer(d, message)
  OBVIOUS
<1>5. raw.minCgpa = Bare(grade) /\ raw.tier = d.tier
      /\ raw.minYears = IF message.minYears = Null THEN 0 ELSE message.minYears
  BY <1>2, <1>4 DEF RulesAnswer
<1>6. raw.minCgpa.n = grade
  BY <1>5 DEF Bare, Grade
<1> QED BY <1>1, <1>3, <1>4, <1>5, <1>6 DEF AnswerOK, DraftOK

\* Nothing but the draft and what the assistant did has changed.
LEMMA AssistedKeeps ==
  ASSUME PostingInv, NEW by, NEW raw, AnswerOK(raw), NEW asked, Assisted(by, raw, asked)
  PROVE  PostingInv'
<1>1. /\ draft' = MergeJobDraft(draft, raw)
      /\ assisted' = [by |-> by, mentioned |-> DOMAIN raw, asked |-> asked,
                      before |-> draft, after |-> draft']
      /\ UNCHANGED <<request, preview>>
  BY DEF Assisted, Answer
<1>2. DraftOK(draft') /\ \A f \in Fields \ DOMAIN raw : draft'[f] = draft[f]
  BY <1>1, MergedDraft DEF PostingInv
<1>3. MergeIsSafe'
  <2>1. /\ assisted'.mentioned = DOMAIN raw /\ assisted'.before = draft
        /\ assisted'.after = draft'
    BY <1>1
  <2> QED BY <1>2, <2>1 DEF MergeIsSafe, DraftOK, CriteriaAreValid
<1>4. DraftOK(draft)'
  BY <1>2 DEF DraftOK, CriteriaAreValid
<1>5. PreviewCountsTheEligible'
  BY <1>1 DEF PostingInv, PreviewCountsTheEligible
<1>6. \A s \in Slots : (request[s].op = "preview" => CountsInv(request[s]))'
  BY <1>1 DEF PostingInv, CountsInv
<1> QED BY <1>1, <1>3, <1>4, <1>5, <1>6 DEF PostingInv

SafeMerge(a) ==
    a # NotAssisted =>
      /\ \A f \in Fields \ a.mentioned : a.after[f] = a.before[f]
      /\ CriteriaAreValid(a.after)

LEMMA MergeStays ==
  ASSUME MergeIsSafe, assisted' = assisted PROVE MergeIsSafe'
<1>1. SafeMerge(assisted)
  BY DEF MergeIsSafe, SafeMerge
<1>2. SafeMerge(assisted')
  BY <1>1
<1> QED BY <1>2 DEF MergeIsSafe, SafeMerge, CriteriaAreValid

LEMMA EditDraftKeeps ==
  ASSUME PostingInv, NEW f \in Fields, NEW d \in Drafts, EditDraft(f, d)
  PROVE  PostingInv'
<1>1. /\ draft' = [draft EXCEPT ![f] = d[f]]
      /\ UNCHANGED <<request, preview, assisted>>
  BY DEF EditDraft
<1>2. DraftOK(draft')
  <2>1. DOMAIN draft' = Fields
        /\ \A g \in Fields : draft'[g] = IF g = f THEN d[f] ELSE draft[g]
    BY <1>1 DEF PostingInv, DraftOK
  <2>2. {"minCgpa", "minYears", "tier"} \subseteq Fields
    BY DEF Fields, Criteria
  <2>3. d["tier"] \in Tiers /\ d["minCgpa"] \in 0 .. 1000 /\ d["minYears"] \in 0 .. 60
    BY PostingAssumption
  <2>4. /\ draft["tier"] \in Tiers /\ draft["minCgpa"] \in 0 .. 1000
        /\ draft["minYears"] \in 0 .. 60
    BY DEF PostingInv, DraftOK, CriteriaAreValid
  <2>5. /\ draft'["tier"] \in Tiers /\ draft'["minCgpa"] \in 0 .. 1000
        /\ draft'["minYears"] \in 0 .. 60
    BY <2>1, <2>2, <2>3, <2>4
  <2> QED BY <2>1, <2>5 DEF DraftOK, CriteriaAreValid
<1>3. MergeIsSafe'
  BY <1>1, MergeStays DEF PostingInv
<1>5. PreviewCountsTheEligible'
  BY <1>1 DEF PostingInv, PreviewCountsTheEligible
<1>6. \A s \in Slots : (request[s].op = "preview" => CountsInv(request[s]))'
  BY <1>1 DEF PostingInv, CountsInv
<1> QED BY <1>1, <1>2, <1>3, <1>5, <1>6 DEF PostingInv

LEMMA UnsetIsIndifferent ==
  ASSUME NEW d, DraftOK(d), NEW dropped \in SUBSET {"minCgpa", "tier"},
         {f \in dropped : d[f] # Unset[f]} = {}, NEW pool
  PROVE  MatchingIn(pool, d, dropped) = MatchingIn(pool, d, {})
<1>1. /\ "minCgpa" \in dropped => d.minCgpa = 0
      /\ "tier" \in dropped => d.tier = "any"
  <2>1. Unset["minCgpa"] = 0 /\ Unset["tier"] = "any"
    BY DEF Unset
  <2> QED BY <2>1
<1>2. ASSUME NEW k \in Seekers
      PROVE  k \in MatchingIn(pool, d, dropped) <=> k \in MatchingIn(pool, d, {})
  BY <1>1 DEF MatchingIn, TierIsCounted
<1> QED BY <1>2 DEF MatchingIn

LEMMA DroppedAre == \A i \in 1 .. 4 : Dropped[i] \in SUBSET {"minCgpa", "tier"}
  BY DEF Dropped

LEMMA DraftStays ==
  ASSUME PostingInv, draft' = draft, assisted' = assisted
  PROVE  DraftOK(draft)' /\ MergeIsSafe'
<1>1. DraftOK(draft)'
  BY DEF PostingInv, DraftOK, CriteriaAreValid
<1> QED BY <1>1, MergeStays DEF PostingInv

\* One request goes on with what it holds.
LEMMA PreviewMoves ==
  ASSUME PostingInv, NEW s \in Slots, NEW q, request' = [request EXCEPT ![s] = q],
         q.op = "preview" => CountsInv(q), UNCHANGED <<draft, assisted, preview>>
  PROVE  PostingInv'
<1>0. draft' = draft /\ assisted' = assisted /\ preview' = preview
  OBVIOUS
<1>1. /\ DraftOK(draft)' /\ MergeIsSafe' /\ DOMAIN request' = Slots
  BY <1>0, DraftStays DEF PostingInv
<1>4. PreviewCountsTheEligible'
  BY <1>0 DEF PostingInv, PreviewCountsTheEligible
<1>2. ASSUME NEW t \in Slots, request'[t].op = "preview" PROVE CountsInv(request'[t])
  BY <1>2 DEF PostingInv
<1>3. \A t \in Slots : (request[t].op = "preview" => CountsInv(request[t]))'
  BY <1>2 DEF CountsInv
<1> QED BY <1>1, <1>3, <1>4 DEF PostingInv

LEMMA BeginPreviewKeeps ==
  ASSUME PostingInv, NEW s \in Slots, BeginPreview(s)
  PROVE  PostingInv'
<1>1. PICK q : q = [op |-> "preview", pc |-> "counting", draft |-> draft,
                    counts |-> <<>>, pool |-> seeker, still |-> TRUE]
  OBVIOUS
<1>2. request' = [request EXCEPT ![s] = q] /\ UNCHANGED <<draft, assisted, preview>>
  BY <1>1 DEF BeginPreview, Accept, postingData
<1>3. /\ DOMAIN q = {"op", "pc", "draft", "counts", "pool", "still"}
      /\ q.draft = draft /\ q.counts = <<>> /\ q.still = TRUE
  BY <1>1
<1>4. DraftOK(draft) /\ Len(q.counts) = 0 /\ q.counts \in Seq(SUBSET Seekers)
  BY <1>3 DEF PostingInv
<1>5. CountsInv(q)
  <2>1. DraftOK(q.draft) /\ q.still \in BOOLEAN
    BY <1>3, <1>4, Zenon
  <2>2. ASSUME NEW i \in 1 .. Len(q.counts) PROVE FALSE
    BY <1>4
  <2>3. Len(q.counts) <= 4 /\ ~(Len(q.counts) >= 1)
    BY <1>4
  <2>4. q.still => \A i \in 1 .. Len(q.counts) :
                    q.counts[i] = MatchingIn(q.pool, q.draft, Dropped[i])
    BY <2>2
  <2> QED BY <1>3, <1>4, <2>1, <2>3, <2>4, Zenon DEF CountsInv
<1> QED BY <1>2, <1>5, PreviewMoves

LEMMA CountSeekersKeeps ==
  ASSUME PostingInv, NEW s \in Slots, CountSeekers(s)
  PROVE  PostingInv'
<1>1. PICK r : r = request[s]
  OBVIOUS
<1>2. PICK d, i : d = r.draft /\ i = Len(r.counts) + 1
  OBVIOUS
<1>3. PICK c : c = IF i > 1 /\ {f \in Dropped[i] : d[f] # Unset[f]} = {} THEN r.counts[1]
                   ELSE Matching(d, Dropped[i])
  OBVIOUS
<1>4. PICK q : q = [r EXCEPT !.counts = Append(@, c), !.pool = IF i = 1 THEN seeker ELSE @,
                             !.still = i = 1 \/ (@ /\ r.pool = seeker)]
  OBVIOUS
<1>5. /\ r.op = "preview" /\ CountsInv(r) /\ i <= 4 /\ request' = [request EXCEPT ![s] = q]
      /\ UNCHANGED <<draft, assisted, preview>>
  BY <1>1, <1>2, <1>3, <1>4 DEF CountSeekers, At, Hold, postingData, PostingInv
<1>6. /\ i \in 1 .. 4 /\ DraftOK(d) /\ r.still \in BOOLEAN
      /\ r.counts \in Seq(SUBSET Seekers) /\ Len(r.counts) = i - 1
      /\ DOMAIN r = {"op", "pc", "draft", "counts", "pool", "still"}
      /\ i > 1 => r.counts[1] = MatchingIn(r.pool, d, {})
  BY <1>2, <1>5 DEF CountsInv
<1>7. /\ DOMAIN q = {"op", "pc", "draft", "counts", "pool", "still"}
      /\ q.op = "preview" /\ q.draft = d
  BY <1>2, <1>4, <1>5, <1>6
<1>8. q.counts = Append(r.counts, c)
  BY <1>4, <1>6
<1>9. q.pool = IF i = 1 THEN seeker ELSE r.pool
  BY <1>4, <1>6
<1>10. q.still = (i = 1 \/ (r.still /\ r.pool = seeker))
  BY <1>4, <1>6
<1>11. Matching(d, Dropped[i]) = MatchingIn(seeker, d, Dropped[i])
  BY DEF Matching, MatchingIn
<1>12. c \in SUBSET Seekers
  BY <1>3, <1>6 DEF Matching, MatchingIn
<1>13. /\ q.counts \in Seq(SUBSET Seekers) /\ Len(q.counts) = i
       /\ q.counts[i] = c /\ \A j \in 1 .. i - 1 : q.counts[j] = r.counts[j]
  BY <1>6, <1>8, <1>12
<1>14. q.counts[1] = MatchingIn(q.pool, d, {})
  <2>1. CASE i = 1
    <3>1. Dropped[1] = {}
      BY DEF Dropped
    <3> QED BY <1>3, <1>9, <1>11, <1>13, <2>1, <3>1
  <2>2. CASE i # 1
    BY <1>6, <1>9, <1>13, <2>2
  <2> QED BY <2>1, <2>2
<1>15. ASSUME q.still, NEW j \in 1 .. i
       PROVE  q.counts[j] = MatchingIn(q.pool, d, Dropped[j])
  <2>1. q.pool = seeker
    BY <1>9, <1>10, <1>15
  <2>2. CASE j = i
    <3>1. CASE i > 1 /\ {f \in Dropped[i] : d[f] # Unset[f]} = {}
      <4>1. c = MatchingIn(seeker, d, {})
        BY <1>3, <1>6, <1>9, <2>1, <3>1
      <4>2. MatchingIn(seeker, d, Dropped[i]) = MatchingIn(seeker, d, {})
        BY <1>6, <3>1, DroppedAre, UnsetIsIndifferent
      <4> QED BY <1>13, <2>1, <2>2, <4>1, <4>2
    <3>2. CASE ~(i > 1 /\ {f \in Dropped[i] : d[f] # Unset[f]} = {})
      BY <1>3, <1>11, <1>13, <2>1, <2>2, <3>2
    <3> QED BY <3>1, <3>2
  <2>3. CASE j # i
    <3>1. j \in 1 .. i - 1 /\ i # 1
      BY <1>6, <2>3
    <3>2. r.still /\ r.pool = q.pool
      BY <1>9, <1>10, <1>15, <3>1
    <3>3. r.counts[j] = MatchingIn(r.pool, d, Dropped[j])
      BY <1>2, <1>5, <1>6, <3>1, <3>2 DEF CountsInv
    <3> QED BY <1>13, <3>1, <3>2, <3>3
  <2> QED BY <2>2, <2>3
<1>16. q.still \in BOOLEAN
  BY <1>10
<1>17. CountsInv(q)
  BY <1>6, <1>7, <1>13, <1>14, <1>15, <1>16 DEF CountsInv
<1> QED BY <1>5, <1>17, PreviewMoves

-----------------------------------------------------------------------------
\* What PreviewCountsTheEligible says of a preview.
TellsTheEligible(p) ==
    LET d == [p.draft EXCEPT !.minYears = 0, !.degree = ""]
        skilled == {k \in Seekers : HasSkillOf(d, p.pool[k])}
        eligible == {k \in skilled : Eligible(d, p.pool[k])}
        without(f) == {k \in skilled : Eligible([d EXCEPT ![f] = Unset[f]], p.pool[k])}
        second == {k \in Seekers : p.pool[k].tier = "tier2"}
    IN  /\ p.matching \subseteq eligible
        /\ eligible \ p.matching \subseteq (IF d.tier = "tier1" THEN second ELSE {})
        /\ p.still /\ d.tier # "tier1" =>
             /\ p.filteredByCgpa = Cardinality(without("minCgpa") \ eligible)
             /\ p.filteredByTier = Cardinality(without("tier") \ eligible)

LEMMA PreviewIs == PreviewCountsTheEligible <=> (preview # NoPreview => TellsTheEligible(preview))
  BY DEF PreviewCountsTheEligible, TellsTheEligible

LEMMA PreviewIsNext == TellsTheEligible(preview') => PreviewCountsTheEligible'
  BY DEF PreviewCountsTheEligible, TellsTheEligible

\* How many more S has than T.
LEMMA Outnumbers ==
  ASSUME NEW S, NEW T \in SUBSET S, IsFiniteSet(S)
  PROVE  Cardinality(S \ T) = IF Cardinality(S) > Cardinality(T)
                              THEN Cardinality(S) - Cardinality(T) ELSE 0
<1>1. IsFiniteSet(T) /\ IsFiniteSet(S \ T) /\ S \cap T = T
  BY FS_Subset
<1>2. Cardinality(S) \in Nat /\ Cardinality(T) \in Nat /\ Cardinality(S \ T) \in Nat
  BY <1>1, FS_CardinalityType
<1>3. Cardinality(S \ T) = Cardinality(S) - Cardinality(T)
  BY <1>1, FS_Difference
<1> QED BY <1>2, <1>3

\* getAtsEligibility against the clauses of the preview, with a criterion
\* that is left out or not set.
LEMMA ClausesAgree ==
  ASSUME NEW cgpa, NEW min \in Nat, NEW tier, NEW wanted \in Tiers
  PROVE  /\ (min > 0 => cgpa >= min) <=> (min = 0 \/ cgpa >= min)
         /\ TierIsCounted(tier, wanted) =>
              (wanted # "any" => tier = "tier2" \/ TierRank(tier) >= TierRank(wanted))
         /\ (wanted # "any" => tier = "tier2" \/ TierRank(tier) >= TierRank(wanted)) =>
              TierIsCounted(tier, wanted) \/ (wanted = "tier1" /\ tier = "tier2")
<1>1. TierRank("tier1") = 3 /\ TierRank("tier2") = 2 /\ TierRank("tier3") = 1
  BY DEF TierRank
<1>2. tier \notin {"tier1", "tier2", "tier3"} => TierRank(tier) = 0
  BY DEF TierRank
<1> QED BY <1>1, <1>2 DEF Tiers, TierIsCounted

LEMMA NoMinimum == \A x : x = 0 => ~(x > 0)
<1> SUFFICES ASSUME NEW x, x = 0 PROVE ~(x > 0)
  OBVIOUS
<1>1. ~(0 > 0)
  OBVIOUS
<1> QED BY <1>1, Zenon

\* The criteria of a preview are the grade and the tier: e is d as it is judged.
Judges(d, e, p) ==
    /\ e.tier = d.tier /\ e.minCgpa = d.minCgpa
    /\ HasSkillOf(e, p) <=> HasSkillOf(d, p)
    /\ Eligible(e, p) <=>
         /\ d.minCgpa = 0 \/ p.cgpa >= d.minCgpa
         /\ d.tier # "any" => p.tier = "tier2" \/ TierRank(p.tier) >= TierRank(d.tier)
    /\ Eligible([e EXCEPT !["minCgpa"] = Unset["minCgpa"]], p) <=>
         (d.tier # "any" => p.tier = "tier2" \/ TierRank(p.tier) >= TierRank(d.tier))
    /\ Eligible([e EXCEPT !["tier"] = Unset["tier"]], p) <=>
         (d.minCgpa = 0 \/ p.cgpa >= d.minCgpa)

LEMMA EligibleIs ==
  ASSUME NEW d, DraftOK(d), NEW p, NEW e, e = [d EXCEPT !.minYears = 0, !.degree = ""]
  PROVE  Judges(d, e, p)
<1>1. {"minCgpa", "tier", "minYears", "degree", "skills"} \subseteq Fields
  BY DEF Fields, Criteria
<1>2. /\ DOMAIN e = Fields
      /\ e.tier = d.tier /\ e.minCgpa = d.minCgpa /\ e.skills = d.skills
  BY <1>1 DEF DraftOK
<1>3. e.minYears = 0 /\ e.degree = ""
  BY <1>1 DEF DraftOK
<1>4. PICK min \in Nat : min = d.minCgpa
  BY SMTT(30) DEF DraftOK, CriteriaAreValid
<1>5. PICK wanted \in Tiers : wanted = d.tier
  BY DEF DraftOK
<1>6. (min > 0 => p.cgpa >= min) <=> (min = 0 \/ p.cgpa >= min)
  BY ClausesAgree
<1>7. Eligible(e, p) <=> /\ min > 0 => p.cgpa >= min
                         /\ wanted # "any" =>
                              p.tier = "tier2" \/ TierRank(p.tier) >= TierRank(wanted)
  BY <1>2, <1>3, <1>4, <1>5 DEF Eligible
<1>8. PICK c : c = [e EXCEPT !["minCgpa"] = Unset["minCgpa"]]
  OBVIOUS
<1>9. c.minCgpa = 0 /\ c.tier = wanted /\ c.minYears = 0 /\ c.degree = ""
  BY <1>1, <1>2, <1>3, <1>5, <1>8 DEF Unset
<1>10. Eligible(c, p) <=>
         (wanted # "any" => p.tier = "tier2" \/ TierRank(p.tier) >= TierRank(wanted))
  <2>1. ~(c.minCgpa > 0) /\ ~(c.minYears > 0)
    BY <1>9, NoMinimum, Zenon
  <2> QED BY <1>9, <2>1, Zenon DEF Eligible
<1>11. PICK t : t = [e EXCEPT !["tier"] = Unset["tier"]]
  OBVIOUS
<1>12. t.minCgpa = min /\ t.tier = "any" /\ t.minYears = 0 /\ t.degree = ""
  BY <1>1, <1>2, <1>3, <1>4, <1>11 DEF Unset
<1>13. Eligible(t, p) <=> (min > 0 => p.cgpa >= min)
  <2>1. ~(t.minYears > 0)
    BY <1>12, NoMinimum, Zenon
  <2> QED BY <1>12, <2>1, Zenon DEF Eligible
<1>14. HasSkillOf(e, p) <=> HasSkillOf(d, p)
  BY <1>2 DEF HasSkillOf
<1> QED BY <1>2, <1>4, <1>5, <1>6, <1>7, <1>8, <1>10, <1>11, <1>13, <1>14 DEF Judges

LEMMA CountsTell ==
  ASSUME NEW r, CountsInv(r), Len(r.counts) = 4,
         NEW n, n = [i \in 1 .. 4 |-> Cardinality(r.counts[i])],
         NEW p, p = [draft |-> r.draft, matching |-> r.counts[1],
                     pool |-> r.pool, still |-> r.still,
                     filteredByCgpa |-> IF n[2] > n[1] THEN n[2] - n[1] ELSE 0,
                     filteredByTier |-> IF n[3] > n[1] THEN n[3] - n[1] ELSE 0]
  PROVE  TellsTheEligible(p)
<1> DEFINE meets(k) == r.draft.minCgpa = 0 \/ r.pool[k].cgpa >= r.draft.minCgpa
           ranks(k) == r.draft.tier # "any" =>
                         \/ r.pool[k].tier = "tier2"
                         \/ TierRank(r.pool[k].tier) >= TierRank(r.draft.tier)
           skilled == {k \in Seekers : HasSkillOf(r.draft, r.pool[k])}
           eligible == {k \in skilled : meets(k) /\ ranks(k)}
<1>1. PICK c, t : /\ c = IF n[2] > n[1] THEN n[2] - n[1] ELSE 0
                  /\ t = IF n[3] > n[1] THEN n[3] - n[1] ELSE 0
  OBVIOUS
<1>2. /\ p.draft = r.draft /\ p.matching = r.counts[1] /\ p.pool = r.pool
      /\ p.still = r.still /\ p.filteredByCgpa = c /\ p.filteredByTier = t
  BY <1>1
<1>3. PICK d : d = [r.draft EXCEPT !.minYears = 0, !.degree = ""]
  OBVIOUS
<1>4. DraftOK(r.draft)
  BY DEF CountsInv
<1>5. /\ d.tier = r.draft.tier
      /\ \A k \in Seekers :
           /\ HasSkillOf(d, r.pool[k]) <=> HasSkillOf(r.draft, r.pool[k])
           /\ Eligible(d, r.pool[k]) <=> meets(k) /\ ranks(k)
           /\ Eligible([d EXCEPT !["minCgpa"] = Unset["minCgpa"]], r.pool[k]) <=> ranks(k)
           /\ Eligible([d EXCEPT !["tier"] = Unset["tier"]], r.pool[k]) <=> meets(k)
  <2>1. \A q : Judges(r.draft, d, q)
    BY <1>3, <1>4, EligibleIs
  <2>2. d.tier = r.draft.tier
    BY <2>1 DEF Judges
  <2>3. ASSUME NEW k \in Seekers
        PROVE  /\ HasSkillOf(d, r.pool[k]) <=> HasSkillOf(r.draft, r.pool[k])
               /\ Eligible(d, r.pool[k]) <=> meets(k) /\ ranks(k)
               /\ Eligible([d EXCEPT !["minCgpa"] = Unset["minCgpa"]], r.pool[k]) <=> ranks(k)
               /\ Eligible([d EXCEPT !["tier"] = Unset["tier"]], r.pool[k]) <=> meets(k)
    <3>1. Judges(r.draft, d, r.pool[k])
      BY <2>1
    <3> QED BY <3>1, Zenon DEF Judges
  <2> HIDE DEF meets, ranks
  <2> QED BY <2>2, <2>3
<1>6. /\ {k \in Seekers : HasSkillOf(d, r.pool[k])} = skilled
      /\ {k \in skilled : Eligible(d, r.pool[k])} = eligible
      /\ {k \in skilled : Eligible([d EXCEPT !["minCgpa"] = Unset["minCgpa"]], r.pool[k])}
           = {k \in skilled : ranks(k)}
      /\ {k \in skilled : Eligible([d EXCEPT !["tier"] = Unset["tier"]], r.pool[k])}
           = {k \in skilled : meets(k)}
  <2> HIDE DEF meets, ranks
  <2> QED BY <1>5
<1>7. \A k \in Seekers :
        /\ TierIsCounted(r.pool[k].tier, r.draft.tier) => ranks(k)
        /\ ranks(k) => \/ TierIsCounted(r.pool[k].tier, r.draft.tier)
                       \/ r.draft.tier = "tier1" /\ r.pool[k].tier = "tier2"
  <2>1. r.draft.tier \in Tiers
    BY <1>4, Zenon DEF DraftOK
  <2> QED BY <2>1, ClausesAgree
<1>8. r.counts[1] = {k \in skilled : meets(k) /\ TierIsCounted(r.pool[k].tier, r.draft.tier)}
  BY DEF CountsInv, MatchingIn
<1>9. r.counts[1] \subseteq eligible
  BY <1>7, <1>8
<1>10. eligible \ r.counts[1] \subseteq
         (IF d.tier = "tier1" THEN {k \in Seekers : r.pool[k].tier = "tier2"} ELSE {})
  BY <1>5, <1>7, <1>8
<1>11. ASSUME r.still, d.tier # "tier1"
       PROVE  /\ c = Cardinality({k \in skilled : ranks(k)} \ eligible)
              /\ t = Cardinality({k \in skilled : meets(k)} \ eligible)
  <2>1. r.counts[1] = eligible
    BY <1>5, <1>7, <1>8, <1>11
  <2>2. /\ r.counts[2] = MatchingIn(r.pool, r.draft, {"minCgpa"})
        /\ r.counts[3] = MatchingIn(r.pool, r.draft, {"tier"})
    BY <1>11 DEF CountsInv, Dropped
  <2>3. r.counts[2] = {k \in skilled : ranks(k)}
    BY <1>5, <1>7, <1>11, <2>2 DEF MatchingIn
  <2>4. r.counts[3] = {k \in skilled : meets(k)}
    BY <2>2 DEF MatchingIn
  <2>5. /\ IsFiniteSet(r.counts[2]) /\ IsFiniteSet(r.counts[3])
        /\ eligible \subseteq r.counts[2] /\ eligible \subseteq r.counts[3]
    <3>1. r.counts[2] \in SUBSET Seekers /\ r.counts[3] \in SUBSET Seekers
      BY <2>3, <2>4
    <3> QED BY <2>3, <2>4, <3>1, PostingAssumption, FS_Subset
  <2> HIDE DEF eligible
  <2>6. n[1] = Cardinality(eligible) /\ n[2] = Cardinality(r.counts[2])
        /\ n[3] = Cardinality(r.counts[3])
    <3>1. \A i \in 1 .. 4 : n[i] = Cardinality(r.counts[i])
      OBVIOUS
    <3> QED BY <2>1, <3>1
  <2>7. Cardinality(r.counts[2] \ eligible) = c
    BY <1>1, <2>5, <2>6, Outnumbers
  <2>8. Cardinality(r.counts[3] \ eligible) = t
    BY <1>1, <2>5, <2>6, Outnumbers
  <2> QED BY <2>3, <2>4, <2>7, <2>8
<1> HIDE DEF skilled, eligible, meets, ranks
<1>12. TellsTheEligible(p)
  BY <1>2, <1>3, <1>5, <1>6, <1>9, <1>10, <1>11, ZenonT(30) DEF TellsTheEligible
<1> QED BY <1>12

LEMMA AnswerPreviewKeeps ==
  ASSUME PostingInv, NEW s \in Slots, AnswerPreview(s)
  PROVE  PostingInv'
<1>1. PICK r, n : r = request[s] /\ n = [i \in 1 .. 4 |-> Cardinality(r.counts[i])]
  OBVIOUS
<1>2. /\ CountsInv(r) /\ Len(r.counts) = 4
      /\ request' = [request EXCEPT ![s] = Idle] /\ UNCHANGED <<draft, assisted>>
      /\ preview' = [draft |-> r.draft, matching |-> r.counts[1],
                     pool |-> r.pool, still |-> r.still,
                     filteredByCgpa |-> IF n[2] > n[1] THEN n[2] - n[1] ELSE 0,
                     filteredByTier |-> IF n[3] > n[1] THEN n[3] - n[1] ELSE 0]
  BY <1>1 DEF AnswerPreview, At, Respond, PostingInv
<1>3. PICK p : p = preview'
  OBVIOUS
<1>4. TellsTheEligible(p)
  BY <1>1, <1>2, <1>3, CountsTell
<1>5. PreviewCountsTheEligible'
  BY <1>3, <1>4, PreviewIsNext
<1>6. DraftOK(draft)' /\ MergeIsSafe' /\ DOMAIN request' = Slots
  BY <1>2, DraftStays DEF PostingInv
<1>7. ASSUME NEW x \in Slots, request'[x].op = "preview" PROVE CountsInv(request'[x])
  BY <1>2, <1>7 DEF PostingInv, Idle
<1>8. \A x \in Slots : (request[x].op = "preview" => CountsInv(request[x]))'
  BY <1>7 DEF CountsInv
<1> QED BY <1>5, <1>6, <1>8 DEF PostingInv

LEMMA PostingStarts == PostingInit => PostingInv
  BY PostingAssumption
     DEF PostingInit, PostingInv, DraftOK, CriteriaAreValid, MergeIsSafe,
         PreviewCountsTheEligible, NoRequests, Idle

LEMMA PostingStep == PostingInv /\ [PostingNext]_postingVars => PostingInv'
<1> SUFFICES ASSUME PostingInv, [PostingNext]_postingVars PROVE PostingInv'
  OBVIOUS
<1>1. ASSUME UNCHANGED <<draft, assisted, preview, request>> PROVE PostingInv'
  <2>1. draft' = draft /\ assisted' = assisted /\ preview' = preview /\ request' = request
    BY <1>1
  <2>2. DraftOK(draft)' /\ MergeIsSafe' /\ DOMAIN request' = Slots
    BY <2>1, DraftStays DEF PostingInv
  <2>3. PreviewCountsTheEligible'
    BY <2>1 DEF PostingInv, PreviewCountsTheEligible
  <2>4. \A x \in Slots : (request[x].op = "preview" => CountsInv(request[x]))'
    BY <2>1 DEF PostingInv, CountsInv
  <2> QED BY <2>2, <2>3, <2>4 DEF PostingInv
<1>2. ASSUME NEW raw \in RawAnswers, AssistByModel(raw) PROVE PostingInv'
  <2>1. AnswerOK(raw) /\ Assisted("model", raw, DOMAIN raw)
    BY <1>2, PostingAssumption DEF AssistByModel, AnswerOK
  <2> QED BY <2>1, AssistedKeeps
<1>3. ASSUME NEW message \in Messages, AssistByRules(message) PROVE PostingInv'
  <2>1. AnswerOK(RulesAnswer(draft, message))
    BY RulesAnswerIsOK DEF PostingInv
  <2> QED BY <1>3, <2>1, AssistedKeeps DEF AssistByRules
<1>4. ASSUME AssistByNobody \/ UNCHANGED postingVars PROVE PostingInv'
  <2>1. UNCHANGED <<draft, assisted, preview, request>>
    BY <1>4 DEF AssistByNobody, Answer, postingData, postingVars
  <2> QED BY <1>1, <2>1
<1>5. ASSUME NEW k \in Seekers, NEW r \in SeekerResumes, ReadByModel(k, r) \/ ReadByRules(k, r)
      PROVE  PostingInv'
  <2>1. UNCHANGED <<draft, assisted, preview, request>>
    BY <1>5 DEF ReadByModel, ReadByRules, Answer
  <2> QED BY <1>1, <2>1
<1> QED BY <1>2, <1>3, <1>4, <1>5, EditDraftKeeps, BeginPreviewKeeps, CountSeekersKeeps,
           AnswerPreviewKeeps
        DEF PostingNext, AssistantNext, PreviewNext

\* Whatever the assistant answers, coerced and merged as it is, the draft
\* keeps what it does not mention and stays one that createJob accepts
\* (jobLogic.js mergeJobDraft, job.controller.js generateJob).
THEOREM MergeStaysSafe == PostingSpec => []MergeIsSafe
<1>1. PostingInv => MergeIsSafe
  BY DEF PostingInv
<1> QED BY <1>1, PostingStarts, PostingStep, PTL DEF PostingSpec

\* For any number of seekers, resumes read between the counts and previews at
\* once, the preview counts those who may apply, up to the second tier
\* (job.controller.js candidatePoolPreview against jobLogic.js
\* getAtsEligibility).
THEOREM PreviewStaysRight == PostingSpec => []PreviewCountsTheEligible
<1>1. PostingInv => PreviewCountsTheEligible
  BY DEF PostingInv
<1> QED BY <1>1, PostingStarts, PostingStep, PTL DEF PostingSpec
=============================================================================
