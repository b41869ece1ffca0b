----------------------------- MODULE Invitations -----------------------------
(***************************************************************************)
(* The invitations to one interview (interview.controller.js).  Creating   *)
(* one revokes the ones that the same person has not used; opening and     *)
(* accepting one load the document, and save what they changed after       *)
(* another await.  MongoDB removes what has expired.                       *)
(***************************************************************************)
EXTENDS Requests

CONSTANTS Invitees    \* the participants invitations are made out to

VARIABLE
    invites           \* the invitations, oldest first

invitationVars == <<invites, request, count>>
-----------------------------------------------------------------------------
\* known is history: the earlier invitations of the same person that the
\* request which created this one had revoked, or found used.
NewInvite(p, known) ==
    [audience |-> p, used |-> FALSE, revoked |-> FALSE, opened |-> FALSE,
     expired |-> FALSE, known |-> known]

InvitationsInit ==
    /\ invites = <<>>
    /\ NoRequests

Of(p) == {i \in DOMAIN invites : invites[i].audience = p}

\* createInterviewInvite: updateMany, by the lead recruiter only.
RevokePrevious(s, p) ==
    /\ Accept(s, [op |-> "invite", pc |-> "revoked", person |-> p,
                  known |-> Of(p)])
    /\ invites' = [i \in DOMAIN invites |->
                     [invites[i] EXCEPT
                        !.revoked = @ \/ (i \in Of(p) /\ ~invites[i].used)]]

CreateInvite(s) ==
    /\ At(s, "invite", "revoked")
    /\ Respond(s)
    /\ invites' = Append(invites, NewInvite(request[s].person, request[s].known))

\* What validate and accept look for.
Valid(i) == ~invites[i].revoked /\ ~invites[i].expired

\* The user who asks is the one the invitation is made out to.
LoadInvite(s, op) ==
    /\ \E i \in DOMAIN invites :
         /\ Valid(i)
         /\ Accept(s, [op |-> op, pc |-> "loaded", invite |-> i,
                       copy |-> invites[i]])
    /\ UNCHANGED invites

\* Mutant: the whole copy is written back.
WrittenWhole(i, copy, edit) == [invites EXCEPT ![i] = edit]

\* save() writes the fields the handler changed.
Written(i, copy, edit) ==
    [invites EXCEPT ![i].used = IF edit.used = copy.used THEN @ ELSE edit.used,
                    ![i].opened = IF edit.opened = copy.opened THEN @
                                  ELSE edit.opened]

\* The copy is saved, or the document has expired since: 500.
SaveInvite(s, op, edit) ==
    LET q == request[s]
    IN  /\ At(s, op, "loaded")
        /\ Respond(s)
        /\ invites' = IF invites[q.invite].expired THEN invites
                      ELSE Written(q.invite, q.copy, edit)

\* validateInterviewInvite, by anyone who has the link.
SaveOpened(s) == SaveInvite(s, "validate", [request[s].copy EXCEPT !.opened = TRUE])

\* acceptInterviewInvite, again and again until the invitation is revoked.
SaveUsed(s) == SaveInvite(s, "accept", [request[s].copy EXCEPT !.used = TRUE])

\* The index on expiresAt.
Expire(i) ==
    /\ ~invites[i].expired
    /\ invites' = [invites EXCEPT ![i].expired = TRUE]
    /\ UNCHANGED <<request, count>>

InvitationsNext ==
    \/ \E s \in Slots :
         \/ \E p \in Invitees : RevokePrevious(s, p)
         \/ CreateInvite(s)
         \/ LoadInvite(s, "validate") \/ SaveOpened(s)
         \/ LoadInvite(s, "accept") \/ SaveUsed(s)
    \/ \E i \in DOMAIN invites : Expire(i)

InvitationsSpec == InvitationsInit /\ [][InvitationsNext]_invitationVars
-----------------------------------------------------------------------------
\* Rotation is final: an invitation that an earlier request had created when a
\* new one was made out to the same person is revoked for good, or was used
\* before; no later save of a copy brings it back.  Two that nobody has used
\* are open at once only if the requests that created them overlapped.
RotationIsFinal ==
    \A j \in DOMAIN invites : \A i \in invites[j].known :
      invites[i].revoked \/ invites[i].used
=============================================================================
