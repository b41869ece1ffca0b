------------------------------- MODULE RoomLimits -------------------------------
(***************************************************************************)
(* What the server enforces on a room's documents after every update       *)
(* (yjsCoordinator.js): the length of texts, the paths of the filesystem,  *)
(* and the number and sizes of whiteboard elements, oldest first.  A       *)
(* server knows a text as such once one of its own handlers has opened it; *)
(* YjsRoom says how updates arrive, are stored and are lost.               *)
(***************************************************************************)
EXTENDS Integers, Sequences, Functions

CONSTANTS
    Files,        \* file names
    BadFiles,     \* those that traverse paths
    Lengths,      \* lengths a text is edited to
    Batches,      \* sequences of the sizes of new elements, as an update brings
    MaxText,      \* MAX_YTEXT_SIZE
    MaxElements,  \* MAX_WHITEBOARD_ELEMENTS
    MaxElement,   \* MAX_WHITEBOARD_ELEMENT_SIZE
    MaxTotal      \* MAX_WHITEBOARD_TOTAL_SIZE

ASSUME LimitAssumption ==
    /\ BadFiles \subseteq Files
    /\ Lengths \subseteq Nat /\ Batches \subseteq Seq(Nat)
    /\ {MaxText, MaxElements, MaxElement, MaxTotal} \subseteq Nat

VARIABLES
    text,         \* per file: the length of its text
    opened,       \* the files whose text is a Y.Text to the server
    listed,       \* the files in the filesystem map
    board,        \* the sizes of the whiteboard's elements, oldest first
    arrived       \* history: the board an update made, before the limits

limitVars == <<text, opened, listed, board, arrived>>
-----------------------------------------------------------------------------
Total(b) == SumFunction(b)

LimitsInit ==
    /\ text = [f \in Files |-> 0]
    /\ opened = {} /\ listed = {}
    /\ board = <<>> /\ arrived = <<>>

\* enforceYTextSizeLimit passes over the texts that were never opened.
Truncated(t) ==
    [f \in Files |-> IF f \in opened /\ t[f] > MaxText THEN MaxText ELSE t[f]]

\* sanitizeFilesystemPaths removes a traversing file and empties its text,
\* which opens it.
Sanitized(t, files) == [f \in Files |-> IF f \in files \cap BadFiles THEN 0 ELSE t[f]]

Newest(b, n) == SubSeq(b, Len(b) - n + 1, Len(b))

Counted(b) == IF Len(b) > MaxElements THEN Newest(b, MaxElements) ELSE b

\* Mutant: the elements that are too large stay.
FittingAll(b) == b

Fitting(b) ==
    LET kept[n \in 0 .. Len(b)] ==
          IF n = 0 THEN <<>>
          ELSE IF b[n] > MaxElement THEN kept[n - 1]
               ELSE Append(kept[n - 1], b[n])
    IN  kept[Len(b)]

\* The oldest go until `size', less what has gone, is in bounds.
Shrunk(b, size) ==
    LET enough == {k \in 0 .. Len(b) : size - Total(SubSeq(b, 1, k)) <= MaxTotal}
        k == IF enough = {} THEN Len(b)
             ELSE CHOOSE i \in enough : \A j \in enough : i <= j
    IN  Newest(b, Len(b) - k)

\* enforceWhiteboardSizeLimit: the size that is brought down is the one from
\* before the elements that are too large were removed.
Limited(b) == Shrunk(Fitting(Counted(b)), Total(Counted(b)))

\* An update of a document, and the limits in the handler of its event.
Update(t, files, b) ==
    /\ text' = Sanitized(Truncated(t), files)
    /\ listed' = files \ BadFiles
    /\ opened' = opened \cup (files \cap BadFiles)
    /\ arrived' = b
    /\ board' = Limited(b)

EditText(f, n) == Update([text EXCEPT ![f] = n], listed, board)
ListFile(f) == f \notin listed /\ Update(text, listed \cup {f}, board)
AddElements(batch) == Update(text, listed, board \o batch)
ResizeElement(i, n) == Update(text, listed, [board EXCEPT ![i] = n])

\* A handler of the server calls getText, which is no update.
OpenText(f) ==
    /\ f \notin opened
    /\ opened' = opened \cup {f}
    /\ UNCHANGED <<text, listed, board, arrived>>

LimitsNext ==
    \/ \E f \in Files : ListFile(f) \/ OpenText(f)
                          \/ \E n \in Lengths : EditText(f, n)
    \/ \E batch \in Batches : AddElements(batch)
    \/ \E i \in DOMAIN board, n \in Lengths : ResizeElement(i, n)

LimitsSpec == LimitsInit /\ [][LimitsNext]_limitVars
-----------------------------------------------------------------------------
\* Three limits that are enforced one after another, the last on a stale size,
\* leave a whiteboard within all of them, which is the newest part of what
\* arrived; and no more than needed has gone if no element was too large.
LimitsAreTight ==
    LET fitting == Fitting(arrived)
    IN  /\ Len(board) <= MaxElements /\ Total(board) <= MaxTotal
        /\ \A i \in DOMAIN board : board[i] <= MaxElement
        /\ listed \cap BadFiles = {}
        /\ Len(board) <= Len(fitting) /\ board = Newest(fitting, Len(board))
        /\ fitting = arrived /\ Len(board) < Len(arrived) =>
             LET one == Newest(arrived, Len(board) + 1)
             IN  Len(one) > MaxElements \/ Total(one) > MaxTotal
=============================================================================
