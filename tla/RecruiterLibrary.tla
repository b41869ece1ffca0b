--------------------------- MODULE RecruiterLibrary ---------------------------
(***************************************************************************)
(* The requirement blocks a recruiter keeps (block.controller.js) and the  *)
(* private notes of an interview team (interviewNote.controller.js).  Both *)
(* are loaded, changed and saved by an update, deleted by a query, and the *)
(* use of a block is counted by an increment in the database.              *)
(***************************************************************************)
EXTENDS Requests

CONSTANTS
    Blocks,       \* the custom blocks that are ever created
    Notes         \* the notes that are ever created

ASSUME LibraryAssumption == Blocks \cap Notes = {}

VARIABLES
    item,         \* per block or note: its document
    uses,         \* history: how often its use was recorded
    removed       \* history: the ones that were deleted

libraryVars == <<item, uses, removed, request, count>>
-----------------------------------------------------------------------------
Items == Blocks \cup Notes

Missing == [there |-> FALSE, text |-> 0, usageCount |-> 0]
Fresh == [there |-> TRUE, text |-> 0, usageCount |-> 0]

LibraryInit ==
    /\ item = [i \in Items |-> Missing]
    /\ uses = [i \in Items |-> 0]
    /\ removed = {}
    /\ NoRequests

\* createBlock, and create of a note by a member of the team.
CreateItem(i) ==
    /\ Answer
    /\ ~item[i].there /\ i \notin removed
    /\ item' = [item EXCEPT ![i] = Fresh]
    /\ UNCHANGED <<uses, removed>>

\* updateBlock and update find the document, of this recruiter or session, ...
BeginUpdate(s, i) ==
    /\ item[i].there
    /\ Accept(s, [op |-> "update", pc |-> "loaded", item |-> i, copy |-> item[i]])
    /\ UNCHANGED <<item, uses, removed>>

\* Mutant: the whole copy is written back, and inserted if it is gone.
SavedWhole(i, copy) == [item EXCEPT ![i] = copy]

\* ... and save() writes the fields they changed, if it is still there: the
\* error of a document that is gone is a 500.
Saved(i, copy) ==
    IF item[i].there THEN [item EXCEPT ![i].text = copy.text] ELSE item

SaveUpdate(s) ==
    /\ At(s, "update", "loaded")
    /\ Respond(s)
    /\ \E text \in 1 .. 2 :
         item' = Saved(request[s].item, [request[s].copy EXCEPT !.text = text])
    /\ UNCHANGED <<uses, removed>>

\* deleteBlock and remove; 404 when nothing was deleted.
DeleteItem(i) ==
    /\ Answer
    /\ item[i].there
    /\ item' = [item EXCEPT ![i] = Missing]
    /\ removed' = removed \cup {i}
    /\ UNCHANGED uses

\* recordUsage answers with success whether the block is there or not.
RecordUsage(i) ==
    /\ Answer
    /\ item' = IF item[i].there
               THEN [item EXCEPT ![i].usageCount = @ + 1] ELSE item
    /\ uses' = IF item[i].there THEN [uses EXCEPT ![i] = @ + 1] ELSE uses
    /\ UNCHANGED removed

LibraryNext ==
    \/ \E s \in Slots :
         \/ \E i \in Items : BeginUpdate(s, i)
         \/ SaveUpdate(s)
    \/ \E i \in Items : CreateItem(i) \/ DeleteItem(i)
    \/ \E i \in Blocks : RecordUsage(i)

LibrarySpec == LibraryInit /\ [][LibraryNext]_libraryVars
-----------------------------------------------------------------------------
\* An update that began before it loses nothing: a block that is there counts
\* every recorded use, and what was deleted does not come back.
UpdatesLoseNothing ==
    \A i \in Items :
      /\ item[i].there => item[i].usageCount = uses[i]
      /\ i \in removed => ~item[i].there
=============================================================================
