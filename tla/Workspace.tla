------------------------------ MODULE Workspace ------------------------------
(***************************************************************************)
(* The files of a coding room: a map from paths to entries and a text per  *)
(* path, in one shared document (coding.controller.js).  Participants      *)
(* create, delete, move and edit files while checkpoints are taken of them *)
(* and restored (checkpointService.js).  A handler changes the document in *)
(* one transaction, between awaits.  A text is the set of the edits that   *)
(* are in it; YjsRoom says how the document is shared and stored.          *)
(***************************************************************************)
EXTENDS Requests

CONSTANTS
    Paths,        \* the paths in use
    Root, Src,    \* those of the solution: /solution.py and /src/solution.py
    MaxTyped,     \* bound on the edits
    MaxCaptures   \* bound on the checkpoints

ASSUME WorkspaceAssumption ==
    /\ {Root, Src} \subseteq Paths
    /\ {MaxTyped, MaxCaptures} \subseteq Nat

VARIABLES
    entry,        \* per path: "none", "file" or "directory"
    content,      \* per path: the edits in its text; a path without an entry
                  \* has a text, too
    typed,        \* the number of edits so far; edit 0 is the template
    fileLock,     \* the requests for a new file, in the order they are served
    captures,     \* the checkpoints: the text of each path they list
    removed,      \* history: the edits that a deletion or restoration took away
    stray         \* history: the edits of texts that had no entry

workspaceData == <<entry, content, typed, fileLock, captures, removed, stray>>
workspaceVars == <<workspaceData, request, count>>
-----------------------------------------------------------------------------
Files == {p \in Paths : entry[p] = "file"}

\* A room that is opened for the first time.
WorkspaceInit ==
    /\ entry = [p \in Paths |-> IF p = Root THEN "file" ELSE "none"]
    /\ content = [p \in Paths |-> IF p = Root THEN {0} ELSE {}]
    /\ typed = 0 /\ fileLock = <<>> /\ captures = <<>>
    /\ removed = {} /\ stray = {}
    /\ NoRequests

\* A participant edits a text, which need not be listed: editors show the
\* solution before there is an entry, and see a deletion late.
TypeText(p) ==
    /\ typed < MaxTyped
    /\ typed' = typed + 1
    /\ content' = [content EXCEPT ![p] = @ \cup {typed'}]
    /\ stray' = IF entry[p] = "none" THEN stray \cup {typed'} ELSE stray
    /\ UNCHANGED <<entry, fileLock, captures, removed, request, count>>

\* createFile, authorized and validated, joins the queue of withFileLock.
BeginCreate(s, p) ==
    /\ Accept(s, [op |-> "create", pc |-> "waiting", path |-> p])
    /\ fileLock' = Append(fileLock, s)
    /\ UNCHANGED <<entry, content, typed, captures, removed, stray>>

\* Mutant: whatever is no file is free.
CanCreateInDirectory(p) == entry[p] # "file"

CanCreate(p) == entry[p] = "none"

\* The text of a new file is emptied first; its initial content is an edit.
CreateFile(s) ==
    LET p == request[s].path
    IN  /\ At(s, "create", "waiting") /\ Head(fileLock) = s
        /\ CanCreate(p)
        /\ entry' = [entry EXCEPT ![p] = "file"]
        /\ \/ content' = [content EXCEPT ![p] = {}] /\ UNCHANGED typed
           \/ /\ typed < MaxTyped /\ typed' = typed + 1
              /\ content' = [content EXCEPT ![p] = {typed'}]
        /\ GoTo(s, "created")
        /\ UNCHANGED <<fileLock, captures, removed, stray>>

RefuseFile(s) ==
    /\ At(s, "create", "waiting") /\ Head(fileLock) = s
    /\ ~CanCreate(request[s].path)
    /\ Respond(s)
    /\ fileLock' = Tail(fileLock)
    /\ UNCHANGED <<entry, content, typed, captures, removed, stray>>

\* 201 once the event is stored and the document written, 500 if one of the
\* two fails; the file stays.
FinishFile(s) ==
    /\ At(s, "create", "created")
    /\ Respond(s)
    /\ fileLock' = Tail(fileLock)
    /\ UNCHANGED <<entry, content, typed, captures, removed, stray>>

\* deleteFile takes directories, too, and leaves what is below them.
DeleteFile(p) ==
    /\ Answer
    /\ entry[p] # "none"
    /\ entry' = [entry EXCEPT ![p] = "none"]
    /\ content' = [content EXCEPT ![p] = {}]
    /\ removed' = removed \cup content[p]
    /\ UNCHANGED <<typed, fileLock, captures, stray>>

\* renameFile
RenameFile(p, q) ==
    /\ Answer
    /\ entry[p] # "none" /\ entry[q] = "none"
    /\ entry' = [entry EXCEPT ![p] = "none", ![q] = entry[p]]
    /\ content' = [content EXCEPT ![p] = {}, ![q] = content[p]]
    /\ UNCHANGED <<typed, fileLock, captures, removed, stray>>

\* createDirectory replaces the entry of a file and leaves its text.
CreateDirectory(p) ==
    /\ Answer
    /\ entry' = [entry EXCEPT ![p] = "directory"]
    /\ UNCHANGED <<content, typed, fileLock, captures, removed, stray>>

\* The room is collected and opened again: without entries it gets the default
\* one, and the template if the text of it is empty.
ReopenRoom ==
    /\ \A p \in Paths : entry[p] = "none"
    /\ entry' = [entry EXCEPT ![Root] = "file"]
    /\ content' = [content EXCEPT ![Root] = IF @ = {} THEN {0} ELSE @]
    /\ stray' = stray \ content[Root]
    /\ UNCHANGED <<typed, fileLock, captures, removed, request, count>>

\* createCheckpoint lists the files, the text of the solution if no file is
\* one, and an empty solution if there is nothing.
Captured ==
    LET solution == IF content[Src] # {} THEN Src ELSE Root
    IN  CASE {Root, Src} \cap Files # {} -> Files
          [] {Root, Src} \cap Files = {} /\ content[solution] # {} ->
               Files \cup {solution}
          [] OTHER -> IF Files = {} THEN {Src} ELSE Files

\* It does so before it asks for the last checkpoint's number.
BeginCapture(s) ==
    /\ Accept(s, [op |-> "capture", pc |-> "captured",
                  files |-> [p \in Captured |-> content[p]]])
    /\ UNCHANGED workspaceData

StoreCapture(s) ==
    /\ At(s, "capture", "captured")
    /\ Len(captures) < MaxCaptures
    /\ Respond(s)
    /\ captures' = Append(captures, request[s].files)
    /\ UNCHANGED <<entry, content, typed, fileLock, removed, stray>>

FailCapture(s) ==
    /\ At(s, "capture", "captured")
    /\ Respond(s)
    /\ UNCHANGED workspaceData

\* restoreCheckpoint empties the texts of files, not of directories.
RestoreCheckpoint(k) ==
    LET files == captures[k]
        back == UNION {files[p] : p \in DOMAIN files}
        shown == UNION {content[p] : p \in {q \in Paths : entry[q] # "none"}}
    IN  /\ Answer
        /\ content' = [p \in Paths |->
                         IF p \in DOMAIN files THEN files[p]
                         ELSE IF p \in Files THEN {} ELSE content[p]]
        /\ entry' = [p \in Paths |->
                       IF p \in DOMAIN files THEN "file" ELSE "none"]
        /\ removed' = (removed \cup shown) \ back
        /\ stray' = stray \ back
        /\ UNCHANGED <<typed, fileLock, captures>>

WorkspaceNext ==
    \/ \E s \in Slots :
         \/ \E p \in Paths : BeginCreate(s, p)
         \/ CreateFile(s) \/ RefuseFile(s) \/ FinishFile(s)
         \/ BeginCapture(s) \/ StoreCapture(s) \/ FailCapture(s)
    \/ \E p \in Paths :
         \/ TypeText(p) \/ DeleteFile(p) \/ CreateDirectory(p)
         \/ \E q \in Paths : RenameFile(p, q)
    \/ \E k \in DOMAIN captures : RestoreCheckpoint(k)
    \/ ReopenRoom

WorkspaceSpec == WorkspaceInit /\ [][WorkspaceNext]_workspaceVars
-----------------------------------------------------------------------------
Listed(m) == \E p \in Paths : entry[p] # "none" /\ m \in content[p]

\* No work is lost: what was typed into a file is under some entry until its
\* file is deleted or a checkpoint from before is restored, however often it
\* is moved, checkpointed or covered by a directory.  And none appears where it
\* was not typed: what was left in the text of a path without an entry is not
\* in the file that is created there, or moved there, later.
WorkIsKept ==
    /\ \A m \in 1 .. typed : m \notin removed \cup stray => Listed(m)
    /\ \A p \in Files : content[p] \cap stray = {}
=============================================================================
