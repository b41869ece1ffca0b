---------------------------- MODULE ArchiveProofs ----------------------------
(***************************************************************************)
(* What is kept of an interview, proved for any number of readers, events, *)
(* files, edits and checkpoints: the cached replays (ReplayCache), the     *)
(* files of the workspace (Workspace) and what the events of its sockets   *)
(* leave in its timeline (SocketEvents), each a specification of its own.  *)
(***************************************************************************)
EXTENDS ReplayCache, Workspace, SocketEvents, SequenceTheorems,
        FiniteSetTheorems, TLAPS

ReaderStates == {"idle", "loaded", "missed", "built"}
Held == [pc : ReaderStates, key : Keys \cup {ManifestOfId}, completed : BOOLEAN,
         closing : Nat, timeline : Nat]

\* A reader that holds the session as completed has read, if it has read the
\* timeline, every event recorded until that completion, which is in the past.
Faithful(q) ==
    q.pc # "idle" /\ q.completed =>
      /\ q.closing <= timeline
      /\ q.pc = "built" => q.timeline >= q.closing

\* Readers of a deleted manifest hold the session as completed, unless they
\* crossed the deletion.
Agrees(q) == q.pc # "idle" /\ q.key = ManifestOfId => q.completed

HeldReplaysFaithful == \A r \in Readers : Faithful(reader[r])

ManifestReadersAgree ==
    /\ clean => completed
    /\ clean /\ ~crossed => \A r \in Readers : Agrees(reader[r])

ReplayInv ==
    /\ ReplayTypeOK /\ ReplaysAreFaithful
    /\ HeldReplaysFaithful /\ ManifestReadersAgree /\ closing <= timeline
-----------------------------------------------------------------------------
LEMMA ReplayStarts == ReplayInit => ReplayInv
<1> SUFFICES ASSUME ReplayInit PROVE ReplayInv
  OBVIOUS
<1> USE DEF ReplayInit, Nothing, NoReader
<1>1. ReplayTypeOK
  BY DEF ReplayTypeOK, Replay
<1>2. ReplaysAreFaithful
  BY DEF ReplaysAreFaithful, ManifestReflectsCompletion, CompletedReplayHasEvents
<1>3. HeldReplaysFaithful /\ ManifestReadersAgree /\ closing <= timeline
  BY DEF HeldReplaysFaithful, ManifestReadersAgree, Faithful, Agrees
<1> QED BY <1>1, <1>2, <1>3 DEF ReplayInv

\* A reader moves on, and the cache stays.
LEMMA ReaderMoves ==
  ASSUME ReplayInv, NEW r \in Readers, NEW q \in Held,
         reader' = [reader EXCEPT ![r] = q],
         UNCHANGED <<session, timeline, cache, connected, writer, past>>,
         Faithful(q), clean /\ ~crossed => Agrees(q)
  PROVE  ReplayInv'
<1> USE DEF session, past
<1>1. ReplayTypeOK'
  BY DEF ReplayInv, ReplayTypeOK, Held, ReaderStates
<1>2. ReplaysAreFaithful' /\ (closing <= timeline)'
  BY DEF ReplayInv, ReplaysAreFaithful, ManifestReflectsCompletion,
         CompletedReplayHasEvents
<1>3. \A x \in Readers : reader'[x] = IF x = r THEN q ELSE reader[x]
  BY DEF ReplayInv, ReplayTypeOK
<1>4. HeldReplaysFaithful'
  BY <1>3 DEF ReplayInv, HeldReplaysFaithful, Faithful
<1>5. ManifestReadersAgree'
  BY <1>3 DEF ReplayInv, ManifestReadersAgree, Agrees
<1> QED BY <1>1, <1>2, <1>4, <1>5 DEF ReplayInv

LEMMA ReaderStepKeeps ==
  ASSUME ReplayInv, NEW r \in Readers,
         \/ \E k \in Keys : LoadSession(r, k)
         \/ LookUp(r) \/ ReadTimeline(r) \/ FailRead(r)
  PROVE  ReplayInv'
<1> DEFINE q == reader[r]
<1>1. /\ q \in Held /\ completed \in BOOLEAN /\ timeline \in Nat
      /\ closing \in Nat /\ closing <= timeline /\ (clean => completed)
      /\ Faithful(q) /\ (clean /\ ~crossed => Agrees(q))
  BY DEF ReplayInv, ReplayTypeOK, ManifestReadersAgree, HeldReplaysFaithful,
         Held, ReaderStates
<1>2. NoReader \in Held /\ Faithful(NoReader) /\ Agrees(NoReader)
  BY DEF NoReader, Held, ReaderStates, Faithful, Agrees
<1>3. CASE AnswerReader(r)
           /\ UNCHANGED <<session, timeline, cache, connected, writer, past>>
  BY <1>2, <1>3, ReaderMoves DEF AnswerReader
<1>4. ASSUME NEW k \in Keys, LoadSession(r, k) PROVE ReplayInv'
  <2> DEFINE new == [NoReader EXCEPT !.pc = "loaded", !.key = k,
                       !.completed = completed, !.closing = closing]
  <2>1. new \in Held /\ new.pc = "loaded" /\ new.completed = completed
        /\ new.closing = closing
    BY <1>1 DEF NoReader, Held, ReaderStates
  <2>2. reader' = [reader EXCEPT ![r] = new]
        /\ UNCHANGED <<session, timeline, cache, connected, writer, past>>
    BY <1>4 DEF LoadSession
  <2> HIDE DEF new
  <2>3. Faithful(new) /\ (clean => Agrees(new))
    BY <1>1, <2>1 DEF Faithful, Agrees
  <2> QED BY <2>1, <2>2, <2>3, ReaderMoves
<1>5. CASE LookUp(r) /\ ~Found(reader[r].key)
  <2> DEFINE new == [q EXCEPT !.pc = "missed"]
  <2>1. new \in Held /\ new.pc = "missed" /\ new.completed = q.completed
        /\ new.key = q.key /\ new.closing = q.closing
    BY <1>1 DEF Held, ReaderStates
  <2>2. reader' = [reader EXCEPT ![r] = new] /\ q.pc = "loaded"
        /\ UNCHANGED <<session, timeline, cache, connected, writer, past>>
    BY <1>5 DEF LookUp
  <2> HIDE DEF new
  <2>3. Faithful(new) /\ (clean /\ ~crossed => Agrees(new))
    BY <1>1, <2>1, <2>2 DEF Faithful, Agrees
  <2> QED BY <2>1, <2>2, <2>3, ReaderMoves
<1>6. CASE ReadTimeline(r)
  <2> DEFINE new == [q EXCEPT !.pc = "built", !.timeline = timeline]
  <2>1. new \in Held /\ new.pc = "built" /\ new.completed = q.completed
        /\ new.key = q.key /\ new.closing = q.closing /\ new.timeline = timeline
    BY <1>1 DEF Held, ReaderStates
  <2>2. reader' = [reader EXCEPT ![r] = new] /\ q.pc = "missed"
        /\ UNCHANGED <<session, timeline, cache, connected, writer, past>>
    BY <1>6 DEF ReadTimeline
  <2> HIDE DEF new
  <2>3. Faithful(new) /\ (clean /\ ~crossed => Agrees(new))
    BY <1>1, <2>1, <2>2 DEF Faithful, Agrees
  <2> QED BY <2>1, <2>2, <2>3, ReaderMoves
<1> QED BY <1>3, <1>4, <1>5, <1>6 DEF LookUp, FailRead

LEMMA FillKeeps ==
  ASSUME ReplayInv, NEW r \in Readers, FillCache(r) PROVE ReplayInv'
<1> DEFINE q == reader[r]
<1>1. /\ q.pc = "built" /\ q.completed \in BOOLEAN /\ q.timeline \in Nat
      /\ q.closing \in Nat
      /\ reader' = [reader EXCEPT ![r] = NoReader]
      /\ cache' = IF connected THEN [cache EXCEPT ![q.key] = Built(q)] ELSE cache
      /\ UNCHANGED <<session, timeline, connected, writer, past>>
  BY DEF FillCache, AnswerReader, ReplayInv, ReplayTypeOK
<1>2. /\ Built(q) \in Replay
      /\ Built(q).completed => Built(q).timeline >= Built(q).closing
      /\ clean /\ ~crossed /\ q.key = ManifestOfId => Built(q).completed
  BY <1>1 DEF Built, Replay, ReplayInv, HeldReplaysFaithful,
              ManifestReadersAgree, Faithful, Agrees
<1> HIDE DEF q
<1>3. ReplayTypeOK'
  BY <1>1, <1>2 DEF ReplayInv, ReplayTypeOK, past, session, NoReader
<1>4. ReplaysAreFaithful'
  BY <1>1, <1>2 DEF ReplayInv, ReplayTypeOK, ReplaysAreFaithful, session,
     ManifestReflectsCompletion, CompletedReplayHasEvents, past
<1>5. HeldReplaysFaithful' /\ ManifestReadersAgree' /\ (closing <= timeline)'
  BY <1>1 DEF ReplayInv, ReplayTypeOK, HeldReplaysFaithful, session,
     ManifestReadersAgree, past, NoReader, Faithful, Agrees
<1> QED BY <1>3, <1>4, <1>5 DEF ReplayInv

\* A save of the session, as completed or not, of whatever copy.
LEMMA SaveKeeps ==
  ASSUME ReplayInv, NEW done \in BOOLEAN, SaveStatus(done),
         UNCHANGED <<timeline, cache, connected, reader, crossed>>,
         writer' \in [Writers -> {"idle", "transition", "evaluation",
                                  "invalidating"}]
  PROVE  ReplayInv'
<1> USE DEF ReplayInv, SaveStatus
<1>1. ReplayTypeOK' /\ (closing <= timeline)'
  BY DEF ReplayTypeOK
<1>2. ReplaysAreFaithful'
  BY DEF ReplaysAreFaithful, ManifestReflectsCompletion, CompletedReplayHasEvents
<1>3. HeldReplaysFaithful'
  BY DEF HeldReplaysFaithful, Faithful
<1>4. ManifestReadersAgree'
  BY DEF ManifestReadersAgree, Agrees
<1> QED BY <1>1, <1>2, <1>3, <1>4

LEMMA InvalidationKeeps ==
  ASSUME ReplayInv, NEW w \in Writers, InvalidateReplayManifest(w)
  PROVE  ReplayInv'
<1>1. writer' \in [Writers -> {"idle", "transition", "evaluation", "invalidating"}]
  BY DEF ReplayInv, ReplayTypeOK, InvalidateReplayManifest
<1>2. CASE connected
  <2>1. /\ cache' = [k \in Keys |-> IF k = InvalidatedKey THEN Nothing ELSE cache[k]]
        /\ clean' = completed /\ crossed' = Late
        /\ UNCHANGED <<session, timeline, connected, reader>>
    BY <1>2 DEF InvalidateReplayManifest
  <2>2. crossed' \in BOOLEAN
    BY <2>1 DEF Late
  <2>3. ReplayTypeOK'
    BY <1>1, <2>1, <2>2 DEF ReplayInv, ReplayTypeOK, session, Nothing, Replay
  <2>4. ReplaysAreFaithful'
    BY <2>1 DEF ReplayInv, ReplaysAreFaithful, ManifestReflectsCompletion,
                CompletedReplayHasEvents, InvalidatedKey, Nothing
  <2>5. HeldReplaysFaithful' /\ (closing <= timeline)'
    BY <2>1 DEF ReplayInv, HeldReplaysFaithful, Faithful, session
  <2>6. ~crossed' => \A r \in Readers : Agrees(reader[r])
    BY <2>1 DEF Late, Agrees
  <2>7. ManifestReadersAgree'
    BY <2>1, <2>6 DEF ManifestReadersAgree, Agrees, session
  <2> QED BY <2>3, <2>4, <2>5, <2>7 DEF ReplayInv
<1>3. CASE ~connected
  <2>1. UNCHANGED <<session, timeline, connected, reader, cache, past>>
    BY <1>3 DEF InvalidateReplayManifest
  <2> QED BY <1>1, <2>1 DEF ReplayInv, ReplayTypeOK, ReplaysAreFaithful,
        ManifestReflectsCompletion, CompletedReplayHasEvents, session, past,
        HeldReplaysFaithful, ManifestReadersAgree, Faithful, Agrees
<1> QED BY <1>2, <1>3

LEMMA WriterStepKeeps ==
  ASSUME ReplayInv, NEW w \in Writers, WriterStep(w) PROVE ReplayInv'
<1>1. writer \in [Writers -> {"idle", "transition", "evaluation", "invalidating"}]
  BY DEF ReplayInv, ReplayTypeOK
<1>2. ASSUME writer' \in [Writers -> {"idle", "transition", "evaluation",
                                      "invalidating"}],
             UNCHANGED <<session, timeline, cache, connected, reader, past>>
      PROVE  ReplayInv'
  BY <1>2 DEF ReplayInv, ReplayTypeOK, ReplaysAreFaithful, session, past,
     ManifestReflectsCompletion, CompletedReplayHasEvents, HeldReplaysFaithful,
     ManifestReadersAgree, Faithful, Agrees
<1>3. CASE BeginTransition(w) \/ BeginEvaluation(w)
  BY <1>1, <1>2, <1>3 DEF BeginTransition, BeginEvaluation, LoadCopy
<1>4. CASE SaveTransition(w)
  <2>1. /\ writer' \in [Writers -> {"idle", "transition", "evaluation",
                                     "invalidating"}]
        /\ UNCHANGED <<timeline, cache, connected, reader, crossed>>
    BY <1>1, <1>4 DEF SaveTransition
  <2>2. ASSUME NEW done \in BOOLEAN, SaveStatus(done) PROVE ReplayInv'
    BY <2>1, <2>2, SaveKeeps
  <2>3. CASE UNCHANGED <<session, clean>>
    BY <1>2, <2>1, <2>3 DEF past
  <2> QED BY <1>4, <2>2, <2>3 DEF SaveTransition
<1>5. CASE CompleteByEvaluation(w)
  <2>1. /\ writer' \in [Writers -> {"idle", "transition", "evaluation",
                                     "invalidating"}]
        /\ SaveStatus(TRUE)
        /\ UNCHANGED <<timeline, cache, connected, reader, crossed>>
    BY <1>1, <1>5 DEF CompleteByEvaluation
  <2> QED BY <2>1, SaveKeeps
<1>6. CASE InvalidateReplayManifest(w)
  BY <1>6, InvalidationKeeps
<1>7. CASE FailWrite(w)
  BY <1>1, <1>2, <1>7 DEF FailWrite
<1> QED BY <1>3, <1>4, <1>5, <1>6, <1>7 DEF WriterStep

LEMMA ExpiryKeeps ==
  ASSUME ReplayInv, NEW k \in Keys, Expire(k) PROVE ReplayInv'
<1>1. /\ cache' = [cache EXCEPT ![k] = Nothing]
      /\ crossed' = (crossed /\ (k = ManifestOfId => Late))
      /\ UNCHANGED <<session, timeline, connected, reader, writer, clean>>
  BY DEF Expire
<1>2. ReplayTypeOK'
  <2>1. crossed' \in BOOLEAN
    BY <1>1
  <2> QED BY <1>1, <2>1 DEF ReplayInv, ReplayTypeOK, session, Nothing, Replay
<1>3. CASE k = ManifestOfId
  <2>1. ReplaysAreFaithful'
    BY <1>1, <1>3 DEF ReplayInv, ReplayTypeOK, ReplaysAreFaithful, Nothing,
       ManifestReflectsCompletion, CompletedReplayHasEvents
  <2>2. ~crossed' => ~crossed \/ \A r \in Readers : Agrees(reader[r])
    BY <1>1, <1>3 DEF Late, Agrees
  <2> QED BY <1>1, <1>2, <2>1, <2>2 DEF ReplayInv, HeldReplaysFaithful,
        ManifestReadersAgree, Faithful, Agrees, session
<1>4. CASE k # ManifestOfId
  <2>1. crossed' = crossed
    BY <1>1, <1>4 DEF ReplayInv, ReplayTypeOK
  <2>2. ReplaysAreFaithful'
    BY <1>1, <1>4, <2>1 DEF ReplayInv, ReplayTypeOK, ReplaysAreFaithful, Nothing,
       ManifestReflectsCompletion, CompletedReplayHasEvents
  <2> QED BY <1>1, <1>2, <2>1, <2>2 DEF ReplayInv, HeldReplaysFaithful,
        ManifestReadersAgree, Faithful, Agrees, session
<1> QED BY <1>3, <1>4

LEMMA ReplayStep == ReplayInv /\ [ReplayNext]_replayVars => ReplayInv'
<1> SUFFICES ASSUME ReplayInv, [ReplayNext]_replayVars PROVE ReplayInv'
  OBVIOUS
<1>1. CASE RecordEvent
  <2>1. timeline' = timeline + 1 /\ timeline \in Nat
        /\ UNCHANGED <<session, cache, connected, reader, writer, past>>
    BY <1>1 DEF RecordEvent, ReplayInv, ReplayTypeOK
  <2>2. HeldReplaysFaithful'
    BY <2>1 DEF ReplayInv, ReplayTypeOK, HeldReplaysFaithful, Faithful
  <2> QED BY <2>1, <2>2 DEF ReplayInv, ReplayTypeOK, ReplaysAreFaithful,
        ManifestReflectsCompletion, CompletedReplayHasEvents, session, past,
        ManifestReadersAgree, Agrees
<1>2. ASSUME NEW w \in Writers, WriterStep(w) PROVE ReplayInv'
  BY <1>2, WriterStepKeeps
<1>3. ASSUME NEW k \in Keys, Expire(k) PROVE ReplayInv'
  BY <1>3, ExpiryKeeps
<1>4. ASSUME NEW r \in Readers,
             \/ \E k \in Keys : LoadSession(r, k)
             \/ ReaderStep(r) \/ FailRead(r)
      PROVE  ReplayInv'
  BY <1>4, ReaderStepKeeps, FillKeeps DEF ReaderStep
<1>5. CASE CacheOutage \/ UNCHANGED replayVars
  <2>1. connected' \in BOOLEAN
        /\ UNCHANGED <<session, timeline, cache, reader, writer, past>>
    BY <1>5 DEF CacheOutage, replayVars, ReplayInv, ReplayTypeOK
  <2>2. ReplayTypeOK'
    BY <2>1 DEF ReplayInv, ReplayTypeOK, session, past
  <2> QED BY <2>1, <2>2 DEF ReplayInv, session, past, ReplaysAreFaithful,
        ManifestReflectsCompletion, CompletedReplayHasEvents,
        HeldReplaysFaithful, ManifestReadersAgree, Faithful, Agrees
<1> QED BY <1>1, <1>2, <1>3, <1>4, <1>5 DEF ReplayNext

\* The cached replays are faithful, however the requests that complete the
\* session and take its completion back overlap: the manifest of an evaluated
\* session shows it as completed for as long as it is, but for readers that
\* crossed its deletion, and every replay of a completed session has all the
\* events recorded until it was.
THEOREM ReplaysStayFaithful == ReplaySpec => []ReplaysAreFaithful
<1>1. ReplayInv => ReplaysAreFaithful
  BY DEF ReplayInv
<1> QED BY <1>1, ReplayStarts, ReplayStep, PTL DEF ReplaySpec
-----------------------------------------------------------------------------
Snapshot == UNION {[ps -> SUBSET Nat] : ps \in SUBSET Paths}
Creation == [op : {"create"}, pc : {"waiting", "created"}, path : Paths]
Capture == [op : {"capture"}, pc : {"captured"}, files : Snapshot]

WorkspaceTyped ==
    /\ entry \in [Paths -> {"none", "file", "directory"}]
    /\ content \in [Paths -> SUBSET Nat]
    /\ typed \in Nat
    /\ captures \in Seq(Snapshot)
    /\ request \in [Slots -> {Idle} \cup Creation \cup Capture]

Until(texts) == \A p \in DOMAIN texts : texts[p] \subseteq 0 .. typed

\* No text has an edit that was not made yet, nor has one that was captured.
EditsWereMade ==
    /\ Until(content)
    /\ \A k \in DOMAIN captures : Until(captures[k])
    /\ \A s \in Slots : request[s].op = "capture" => Until(request[s].files)
    /\ stray \subseteq 1 .. typed

WorkInv == WorkspaceTyped /\ EditsWereMade /\ WorkIsKept

LEMMA WorkStarts == WorkspaceInit => WorkInv
<1> SUFFICES ASSUME WorkspaceInit PROVE WorkInv
  OBVIOUS
<1> USE DEF WorkspaceInit, NoRequests, Idle
<1>1. WorkspaceTyped
  <2>1. captures \in Seq(Snapshot)
    BY EmptySeq
  <2> QED BY <2>1 DEF WorkspaceTyped
<1>2. EditsWereMade
  BY DEF EditsWereMade, Until
<1>3. WorkIsKept
  BY DEF WorkIsKept
<1> QED BY <1>1, <1>2, <1>3 DEF WorkInv

\* A request comes, moves on or is answered, and the files stay.
LEMMA RequestKeeps ==
  ASSUME WorkInv, NEW s \in Slots, NEW r \in {Idle} \cup Creation \cup Capture,
         request' = [request EXCEPT ![s] = r],
         r.op = "capture" => Until(r.files),
         UNCHANGED <<entry, content, typed, captures, removed, stray>>
  PROVE  WorkInv'
<1>1. WorkspaceTyped'
  BY DEF WorkInv, WorkspaceTyped
<1>2. EditsWereMade'
  BY DEF WorkInv, WorkspaceTyped, EditsWereMade, Until
<1>3. WorkIsKept'
  BY DEF WorkInv, WorkIsKept, Listed, Files
<1> QED BY <1>1, <1>2, <1>3 DEF WorkInv

\* What captures and requests hold was made, whatever else is made.
LEMMA MadeStays ==
  ASSUME WorkInv, typed' \in Nat, typed <= typed',
         UNCHANGED <<captures, request>>
  PROVE  /\ \A k \in DOMAIN captures' : Until(captures[k])'
         /\ \A s \in Slots : request'[s].op = "capture" => Until(request[s].files)'
<1>1. 0 .. typed \subseteq 0 .. typed'
  BY DEF WorkInv, WorkspaceTyped
<1> QED BY <1>1 DEF WorkInv, EditsWereMade, Until

LEMMA TypeTextKeeps ==
  ASSUME WorkInv, NEW p \in Paths, TypeText(p) PROVE WorkInv'
<1> DEFINE m == typed + 1
<1>1. /\ typed' = m /\ m \in Nat /\ typed \in Nat
      /\ content' = [content EXCEPT ![p] = @ \cup {m}]
      /\ stray' = IF entry[p] = "none" THEN stray \cup {m} ELSE stray
      /\ UNCHANGED <<entry, fileLock, captures, removed, request, count>>
  BY DEF TypeText, WorkInv, WorkspaceTyped
<1>2. \A q \in Paths : /\ content[q] \subseteq 0 .. typed
                       /\ content[q] \in SUBSET Nat
                       /\ content'[q] = IF q = p THEN content[q] \cup {m} ELSE content[q]
  BY <1>1 DEF WorkInv, WorkspaceTyped, EditsWereMade, Until
<1>3. WorkspaceTyped'
  BY <1>1 DEF WorkInv, WorkspaceTyped
<1>4. EditsWereMade'
  <2>1. \A q \in Paths : content'[q] \subseteq 0 .. m
    <3>1. 0 .. typed \subseteq 0 .. m /\ m \in 0 .. m
      BY <1>1
    <3> HIDE DEF m
    <3> QED BY <1>2, <3>1
  <2>2. stray' \subseteq 1 .. m
    BY <1>1 DEF WorkInv, EditsWereMade
  <2>3. DOMAIN content' = Paths
    BY <1>3 DEF WorkspaceTyped
  <2> QED BY <1>1, <2>1, <2>2, <2>3, MadeStays DEF EditsWereMade, Until
<1>5. ASSUME NEW x \in 1 .. m, x \notin removed' \cup stray' PROVE Listed(x)'
  <2>1. CASE x = m
    BY <1>1, <1>2, <1>5, <2>1 DEF Listed
  <2>2. CASE x # m
    <3>1. x \in 1 .. typed /\ x \notin removed \cup stray
      BY <1>1, <1>5, <2>2
    <3> QED BY <1>1, <1>2, <3>1 DEF WorkInv, WorkIsKept, Listed
  <2> QED BY <2>1, <2>2
<1>6. ASSUME NEW q \in Files' PROVE content'[q] \cap stray' = {}
  <2>1. q \in Files /\ q \in Paths /\ entry[q] = "file"
    BY <1>1, <1>6 DEF Files
  <2>2. content[q] \cap stray = {}
    BY <2>1 DEF WorkInv, WorkIsKept
  <2>3. m \notin content[q] /\ m \notin stray
    <3>1. m \notin 0 .. typed /\ m \notin 1 .. typed
      BY <1>1
    <3> HIDE DEF m
    <3> QED BY <1>2, <2>1, <3>1 DEF WorkInv, EditsWereMade
  <2> QED BY <1>1, <1>2, <2>1, <2>2, <2>3
<1> QED BY <1>1, <1>3, <1>4, <1>5, <1>6 DEF WorkInv, WorkIsKept

LEMMA CreateFileKeeps ==
  ASSUME WorkInv, NEW s \in Slots, CreateFile(s) PROVE WorkInv'
<1> DEFINE p == request[s].path
<1>1. /\ p \in Paths /\ entry[p] = "none" /\ request[s] \in Creation
      /\ entry' = [entry EXCEPT ![p] = "file"]
      /\ request' = [request EXCEPT ![s].pc = "created"]
      /\ UNCHANGED <<captures, removed, stray>>
  BY DEF CreateFile, At, GoTo, CanCreate, WorkInv, WorkspaceTyped, Creation,
         Capture, Idle
<1>2. PICK new \in SUBSET Nat :
        /\ content' = [content EXCEPT ![p] = new]
        /\ typed' \in Nat /\ typed <= typed'
        /\ new \subseteq (typed + 1) .. typed' /\ (typed + 1) .. typed' \subseteq new
  <2>1. typed \in Nat
    BY DEF WorkInv, WorkspaceTyped
  <2>2. CASE content' = [content EXCEPT ![p] = {}] /\ UNCHANGED typed
    <3>1. (typed + 1) .. typed' = {} /\ typed' \in Nat /\ typed <= typed'
      BY <2>1, <2>2
    <3> QED BY <2>2, <3>1
  <2>3. CASE typed' = typed + 1 /\ content' = [content EXCEPT ![p] = {typed'}]
    <3>1. (typed + 1) .. typed' = {typed'} /\ typed' \in Nat /\ typed <= typed'
      BY <2>1, <2>3
    <3> QED BY <2>3, <3>1
  <2> QED BY <2>2, <2>3 DEF CreateFile
<1>3. /\ typed \in Nat /\ 0 .. typed \subseteq 0 .. typed'
      /\ \A q \in Paths : /\ content[q] \subseteq 0 .. typed
                          /\ content'[q] = IF q = p THEN new ELSE content[q]
                          /\ entry'[q] = IF q = p THEN "file" ELSE entry[q]
  BY <1>1, <1>2 DEF WorkInv, WorkspaceTyped, EditsWereMade, Until
<1>4. WorkspaceTyped'
  <2>1. [request[s] EXCEPT !.pc = "created"] \in Creation
    BY <1>1 DEF Creation
  <2> QED BY <1>1, <1>2, <2>1 DEF WorkInv, WorkspaceTyped
<1>5. EditsWereMade'
  <2>1. \A q \in Paths : content'[q] \subseteq 0 .. typed'
    <3>1. (typed + 1) .. typed' \subseteq 0 .. typed'
      BY <1>2, <1>3
    <3>2. new \subseteq 0 .. typed' /\ 0 .. typed \subseteq 0 .. typed'
      BY <1>2, <1>3, <3>1
    <3>3. ASSUME NEW q \in Paths PROVE content'[q] \subseteq 0 .. typed'
      <4>1. content'[q] = new \/ content'[q] = content[q]
        BY <1>3
      <4>2. content[q] \subseteq 0 .. typed
        BY <1>3
      <4> QED BY <3>2, <4>1, <4>2
    <3> QED BY <3>3
  <2>2. \A x \in Slots : request'[x].op = "capture" =>
          request'[x] = request[x] /\ request[x].op = "capture"
    BY <1>1 DEF Creation, WorkInv, WorkspaceTyped
  <2>3. stray' \subseteq 1 .. typed'
    BY <1>1, <1>2, <1>3 DEF WorkInv, EditsWereMade
  <2>4. DOMAIN content' = Paths
    BY <1>4 DEF WorkspaceTyped
  <2> QED BY <1>1, <1>3, <2>1, <2>2, <2>3, <2>4 DEF WorkInv, EditsWereMade, Until
<1>6. ASSUME NEW x \in 1 .. typed', x \notin removed' \cup stray' PROVE Listed(x)'
  <2>1. CASE x \in new
    BY <1>1, <1>3, <2>1 DEF Listed
  <2>2. CASE x \notin new
    <3>1. x \in 1 .. typed
      BY <1>2, <1>3, <2>2
    <3>2. PICK q \in Paths : entry[q] # "none" /\ x \in content[q]
      BY <1>1, <1>6, <3>1 DEF WorkInv, WorkIsKept, Listed
    <3> QED BY <1>1, <1>3, <3>2 DEF Listed
  <2> QED BY <2>1, <2>2
<1>7. ASSUME NEW q \in Files' PROVE content'[q] \cap stray' = {}
  <2>1. CASE q = p
    BY <1>1, <1>2, <1>3, <2>1 DEF WorkInv, EditsWereMade
  <2>2. CASE q # p
    BY <1>1, <1>3, <1>7, <2>2 DEF Files, WorkInv, WorkIsKept
  <2> QED BY <2>1, <2>2
<1> QED BY <1>4, <1>5, <1>6, <1>7 DEF WorkInv, WorkIsKept

\* Requests that change entries and texts and make no edit.
LEMMA FilesKeep ==
  ASSUME WorkInv, UNCHANGED <<typed, captures, request>>,
         entry' \in [Paths -> {"none", "file", "directory"}],
         content' \in [Paths -> SUBSET (0 .. typed)], stray' \subseteq stray,
         \A x \in 1 .. typed : x \notin removed' \cup stray' => Listed(x)',
         \A p \in Files' : content'[p] \cap stray' = {}
  PROVE  WorkInv'
<1>1. WorkspaceTyped'
  BY DEF WorkInv, WorkspaceTyped
<1>2. EditsWereMade'
  BY DEF WorkInv, EditsWereMade, Until
<1> QED BY <1>1, <1>2 DEF WorkInv, WorkIsKept

LEMMA TextsInUse ==
  ASSUME WorkInv
  PROVE  /\ typed \in Nat /\ stray \subseteq 1 .. typed
         /\ entry \in [Paths -> {"none", "file", "directory"}]
         /\ content \in [Paths -> SUBSET (0 .. typed)]
  BY DEF WorkInv, WorkspaceTyped, EditsWereMade, Until

LEMMA EntriesKeep ==
  ASSUME WorkInv, NEW p \in Paths,
         DeleteFile(p) \/ CreateDirectory(p) \/ \E q \in Paths : RenameFile(p, q)
  PROVE  WorkInv'
<1>1. CASE DeleteFile(p)
  <2>1. /\ entry' = [entry EXCEPT ![p] = "none"]
        /\ content' = [content EXCEPT ![p] = {}]
        /\ removed' = removed \cup content[p]
        /\ UNCHANGED <<typed, captures, request, stray>>
    BY <1>1 DEF DeleteFile, Answer
  <2>2. \A x \in 1 .. typed : x \notin removed' \cup stray' => Listed(x)'
    BY <2>1, TextsInUse DEF WorkInv, WorkIsKept, Listed
  <2>3. \A q \in Files' : content'[q] \cap stray' = {}
    BY <2>1, TextsInUse DEF WorkInv, WorkIsKept, Files
  <2> QED BY <2>1, <2>2, <2>3, TextsInUse, FilesKeep
<1>2. CASE CreateDirectory(p)
  <2>1. /\ entry' = [entry EXCEPT ![p] = "directory"]
        /\ UNCHANGED <<content, typed, captures, request, removed, stray>>
    BY <1>2 DEF CreateDirectory, Answer
  <2>2. \A x \in 1 .. typed : x \notin removed' \cup stray' => Listed(x)'
    BY <2>1, TextsInUse DEF WorkInv, WorkIsKept, Listed
  <2>3. \A q \in Files' : content'[q] \cap stray' = {}
    BY <2>1, TextsInUse DEF WorkInv, WorkIsKept, Files
  <2> QED BY <2>1, <2>2, <2>3, TextsInUse, FilesKeep
<1>3. ASSUME NEW q \in Paths, RenameFile(p, q) PROVE WorkInv'
  <2>1. /\ entry[p] # "none" /\ entry[q] = "none" /\ p # q
        /\ entry' = [entry EXCEPT ![p] = "none", ![q] = entry[p]]
        /\ content' = [content EXCEPT ![p] = {}, ![q] = content[p]]
        /\ UNCHANGED <<typed, captures, request, removed, stray>>
    BY <1>3 DEF RenameFile, Answer
  <2>2. \A x \in Paths :
          /\ entry'[x] = IF x = q THEN entry[p] ELSE IF x = p THEN "none" ELSE entry[x]
          /\ content'[x] = IF x = q THEN content[p] ELSE IF x = p THEN {} ELSE content[x]
    BY <2>1, TextsInUse
  <2>3. ASSUME NEW x \in 1 .. typed, x \notin removed' \cup stray' PROVE Listed(x)'
    <3>1. PICK f \in Paths : entry[f] # "none" /\ x \in content[f]
      BY <2>1, <2>3 DEF WorkInv, WorkIsKept, Listed
    <3>2. CASE f = p
      BY <2>1, <2>2, <3>1, <3>2 DEF Listed
    <3>3. CASE f # p
      BY <2>1, <2>2, <3>1, <3>3 DEF Listed
    <3> QED BY <3>2, <3>3
  <2>4. \A x \in Files' : content'[x] \cap stray' = {}
    BY <2>1, <2>2, ZenonT(30) DEF WorkInv, WorkIsKept, Files
  <2> QED BY <2>1, <2>2, <2>3, <2>4, TextsInUse, FilesKeep
<1> QED BY <1>1, <1>2, <1>3

LEMMA ReopenKeeps ==
  ASSUME WorkInv, ReopenRoom PROVE WorkInv'
<1>1. /\ \A p \in Paths : entry[p] = "none"
      /\ entry' = [entry EXCEPT ![Root] = "file"]
      /\ content' = [content EXCEPT ![Root] = IF content[Root] = {} THEN {0}
                                              ELSE content[Root]]
      /\ stray' = stray \ content[Root] /\ Root \in Paths
      /\ UNCHANGED <<typed, captures, request, removed>>
  BY WorkspaceAssumption DEF ReopenRoom
<1>2. ASSUME NEW x \in 1 .. typed, x \notin removed' \cup stray' PROVE Listed(x)'
  <2>1. x \in content[Root]
    BY <1>1, <1>2 DEF WorkInv, WorkIsKept, Listed
  <2> QED BY <1>1, <2>1, TextsInUse DEF Listed
<1>3. \A p \in Files' : p = Root
  BY <1>1, TextsInUse DEF Files
<1>4. content'[Root] \cap stray' = {} /\ content' \in [Paths -> SUBSET (0 .. typed)]
  BY <1>1, TextsInUse
<1> QED BY <1>1, <1>2, <1>3, <1>4, TextsInUse, FilesKeep

LEMMA RestoreKeeps ==
  ASSUME WorkInv, NEW k \in DOMAIN captures, RestoreCheckpoint(k) PROVE WorkInv'
<1> DEFINE files == captures[k]
           back == UNION {files[p] : p \in DOMAIN files}
           shown == UNION {content[p] : p \in {q \in Paths : entry[q] # "none"}}
<1>1. DOMAIN files \subseteq Paths
      /\ \A p \in DOMAIN files : files[p] \subseteq 0 .. typed
  <2>1. files \in Snapshot
    BY ElementOfSeq, SeqDef DEF WorkInv, WorkspaceTyped
  <2>2. Until(files)
    BY DEF WorkInv, EditsWereMade
  <2> QED BY <2>1, <2>2 DEF Snapshot, Until
<1>2. /\ content' = [p \in Paths |-> IF p \in DOMAIN files THEN files[p]
                                     ELSE IF p \in Files THEN {} ELSE content[p]]
      /\ entry' = [p \in Paths |-> IF p \in DOMAIN files THEN "file" ELSE "none"]
      /\ removed' = (removed \cup shown) \ back
      /\ stray' = stray \ back
      /\ UNCHANGED <<typed, captures, request>>
  BY DEF RestoreCheckpoint, Answer
<1>3. ASSUME NEW x \in 1 .. typed, x \notin removed' \cup stray' PROVE Listed(x)'
  <2>1. CASE x \in back
    <3>1. PICK p \in DOMAIN files : x \in files[p]
      BY <2>1
    <3> QED BY <1>1, <1>2, <3>1 DEF Listed
  <2>2. CASE x \notin back
    <3>1. x \notin removed \cup stray /\ x \notin shown
      BY <1>2, <1>3, <2>2
    <3> QED BY <3>1 DEF WorkInv, WorkIsKept, Listed
  <2> QED BY <2>1, <2>2
<1>4. ASSUME NEW p \in Files' PROVE content'[p] \cap stray' = {}
  <2>1. p \in Paths /\ p \in DOMAIN files
    BY <1>2, <1>4 DEF Files
  <2>2. content'[p] = files[p] /\ files[p] \subseteq back
    BY <1>2, <2>1
  <2> QED BY <1>2, <2>2
<1>5. content' \in [Paths -> SUBSET (0 .. typed)]
      /\ entry' \in [Paths -> {"none", "file", "directory"}]
  BY <1>1, <1>2, TextsInUse
<1> HIDE DEF back, shown, files
<1> QED BY <1>2, <1>3, <1>4, <1>5, FilesKeep

LEMMA CaptureKeeps ==
  ASSUME WorkInv, NEW s \in Slots,
         BeginCapture(s) \/ StoreCapture(s) \/ FailCapture(s)
  PROVE  WorkInv'
<1>0. Idle \in {Idle} \cup Creation \cup Capture /\ Idle.op = "idle"
  BY DEF Idle
<1>1. CASE BeginCapture(s)
  <2> DEFINE files == [p \in Captured |-> content[p]]
             r == [op |-> "capture", pc |-> "captured", files |-> files]
  <2>1. Captured \subseteq Paths
    BY WorkspaceAssumption DEF Captured, Files
  <2>2. files \in Snapshot /\ Until(files)
    BY <2>1, TextsInUse DEF Snapshot, Until
  <2>3. r \in Capture /\ r.op = "capture" /\ r.files = files
    BY <2>2 DEF Capture
  <2>4. request' = [request EXCEPT ![s] = r]
        /\ UNCHANGED <<entry, content, typed, captures, removed, stray>>
    BY <1>1 DEF BeginCapture, Accept, workspaceData
  <2> HIDE DEF r, files
  <2> QED BY <2>2, <2>3, <2>4, RequestKeeps
<1>2. CASE FailCapture(s)
  BY <1>0, <1>2, RequestKeeps DEF FailCapture, Respond, workspaceData
<1>3. CASE StoreCapture(s)
  <2> DEFINE files == request[s].files
  <2>1. /\ files \in Snapshot /\ Until(files)
        /\ captures' = Append(captures, files)
        /\ request' = [request EXCEPT ![s] = Idle]
        /\ UNCHANGED <<entry, content, typed, removed, stray>>
    BY <1>3 DEF StoreCapture, At, Respond, WorkInv, WorkspaceTyped, EditsWereMade,
                Capture, Creation, Idle
  <2>2. captures \in Seq(Snapshot)
    BY DEF WorkInv, WorkspaceTyped
  <2> HIDE DEF files
  <2>3. /\ captures' \in Seq(Snapshot)
        /\ \A k \in DOMAIN captures' :
             \/ k \in DOMAIN captures /\ captures'[k] = captures[k]
             \/ captures'[k] = files
    BY <2>1, <2>2, AppendProperties
  <2>4. WorkspaceTyped'
    BY <2>1, <2>3 DEF WorkInv, WorkspaceTyped
  <2>5. EditsWereMade'
    BY <1>0, <2>1, <2>3 DEF WorkInv, WorkspaceTyped, EditsWereMade, Until
  <2>6. WorkIsKept'
    BY <2>1 DEF WorkInv, WorkIsKept, Listed, Files
  <2> QED BY <2>4, <2>5, <2>6 DEF WorkInv
<1> QED BY <1>1, <1>2, <1>3

LEMMA WorkStep == WorkInv /\ [WorkspaceNext]_workspaceVars => WorkInv'
<1> SUFFICES ASSUME WorkInv, [WorkspaceNext]_workspaceVars PROVE WorkInv'
  OBVIOUS
<1>1. ASSUME NEW s \in Slots, NEW p \in Paths, BeginCreate(s, p) PROVE WorkInv'
  <2> DEFINE r == [op |-> "create", pc |-> "waiting", path |-> p]
  <2>1. r \in Creation /\ r.op = "create"
    BY DEF Creation
  <2>2. request' = [request EXCEPT ![s] = r]
        /\ UNCHANGED <<entry, content, typed, captures, removed, stray>>
    BY <1>1 DEF BeginCreate, Accept
  <2> HIDE DEF r
  <2> QED BY <2>1, <2>2, RequestKeeps
<1>2. ASSUME NEW s \in Slots, RefuseFile(s) \/ FinishFile(s) PROVE WorkInv'
  <2>1. Idle \in {Idle} \cup Creation \cup Capture /\ Idle.op = "idle"
    BY DEF Idle
  <2> QED BY <1>2, <2>1, RequestKeeps DEF RefuseFile, FinishFile, Respond
<1>3. CASE UNCHANGED workspaceVars
  <2>1. WorkspaceTyped'
    BY <1>3 DEF workspaceVars, workspaceData, WorkInv, WorkspaceTyped
  <2>2. EditsWereMade'
    BY <1>3 DEF workspaceVars, workspaceData, WorkInv, EditsWereMade, Until
  <2>3. WorkIsKept'
    BY <1>3 DEF workspaceVars, workspaceData, WorkInv, WorkIsKept, Listed, Files
  <2> QED BY <2>1, <2>2, <2>3 DEF WorkInv
<1> QED BY <1>1, <1>2, <1>3, TypeTextKeeps, CreateFileKeeps, EntriesKeep, ReopenKeeps,
           RestoreKeeps, CaptureKeeps
        DEF WorkspaceNext

\* No edit made in a file is lost, however files are moved, covered, captured
\* and restored, unless it was deleted or an older checkpoint came back; and
\* none that was left in the text of a missing path turns up in a file.
THEOREM WorkStaysKept == WorkspaceSpec => []WorkIsKept
<1>1. WorkInv => WorkIsKept
  BY DEF WorkInv
<1> QED BY <1>1, WorkStarts, WorkStep, PTL DEF WorkspaceSpec
-----------------------------------------------------------------------------
\* Events.  Where one is says what is known of it.
Event == [op : {"join", "relay", "proctor", "chunk", "focus", "signal", "hint"},
          pc : {"lookup", "create", "emit", "record"}, by : Users, id : Nat \cup EventIds]

\* The candidate's requests that may yet record a focus event.
Asking(i) ==
    {s \in Slots : /\ At(s, "focus", "lookup") \/ At(s, "focus", "create")
                   /\ request[s].by = Candidate /\ request[s].id = i}

SocketTyped ==
    /\ request \in [Slots -> {Idle} \cup Event]
    /\ recorded \in [EventIds -> Nat] /\ forgotten \in [EventIds -> Nat]
    /\ count \in Nat /\ timers \subseteq Users \X Nat
    /\ \A s \in Slots : request[s].op = "focus" => request[s].id \in EventIds
    /\ \A t \in told : t.op = "focus" => t.id \in EventIds

\* A focus event that is remembered is asked for, recorded or failed once.
TimelineInv ==
    /\ \A i \in EventIds :
         recorded[i] + Cardinality(Asking(i))
           <= forgotten[i] + (IF <<Candidate, i>> \in remembered THEN 1 ELSE 0)
    /\ \A s \in Slots :
         /\ At(s, "focus", "create") => request[s].by = Candidate
         /\ At(s, "focus", "emit") => recorded[request[s].id] > 0
         /\ At(s, "chunk", "record") => request[s].id \in ToldOf("chunk")
    /\ TimelineAgreesWithRoom

\* The request of a running timer is the last of its user, and has not been
\* answered; what is answered was not replaced.
HintsInv ==
    /\ pending \in [Users -> 0 .. count] /\ superseded \subseteq 0 .. count
    /\ \A t \in timers : t[2] = pending[t[1]] /\ t[2] # 0
    /\ \A u, v \in Users : pending[u] = pending[v] /\ pending[u] # 0 => u = v
    /\ \A u \in Users : pending[u] # 0 =>
         /\ pending[u] \notin superseded /\ pending[u] \notin ToldOf("hint")
         /\ \A s \in Slots : request[s].op = "hint" => request[s].id # pending[u]
    /\ \A s \in Slots : request[s].op = "hint" =>
         request[s].id \in (1 .. count) \ superseded
    /\ ToldOf("hint") \subseteq (1 .. count) \ superseded

FreshOps == {"join", "relay", "proctor", "chunk", "signal"}

SlotEvent(s) ==
    \/ \E u \in Users :
         \/ \E op \in {"join", "relay", "proctor", "chunk"} : Begin(s, op, u)
         \/ \E i \in EventIds : BeginFocus(s, u, i)
         \/ BeginSignal(s, u)
    \/ FinishJoin(s) \/ Relay(s) \/ CheckFocus(s) \/ RecordFocus(s)
    \/ TellFocus(s) \/ CheckProctor(s) \/ RecordProctor(s)
    \/ SkipProctor(s) \/ TellProctor(s) \/ BroadcastChunk(s) \/ RecordChunk(s)
    \/ TellSignal(s) \/ TellHint(s) \/ FailEvent(s)
    \/ \E t \in timers : FireHint(s, t)

UserEvent ==
    \/ MoveSession
    \/ \E u \in Users : LeaveInterview(u) \/ Reconnect(u) \/ NextSecond(u)
                          \/ NextMinute(u) \/ LimitSignal(u) \/ RequestHint(u)
    \/ \E u \in Users, i \in EventIds : ForgetFocus(u, i)

LEMMA SocketStarts == SocketInit => SocketTyped /\ TimelineInv /\ HintsInv
<1> SUFFICES ASSUME SocketInit PROVE SocketTyped /\ TimelineInv /\ HintsInv
  OBVIOUS
<1>1. /\ request = [s \in Slots |-> Idle] /\ count = 0 /\ told = {} /\ kept = {}
      /\ timers = {} /\ superseded = {} /\ pending = [u \in Users |-> 0]
      /\ recorded = [i \in EventIds |-> 0] /\ forgotten = [i \in EventIds |-> 0]
      /\ remembered = {}
  BY DEF SocketInit, NoRequests
<1>2. \A op : ToldOf(op) = {}
  BY <1>1 DEF ToldOf
<1>3. \A s \in Slots : request[s].op = "idle"
  BY <1>1 DEF Idle
<1>4. \A i \in EventIds : Asking(i) = {} /\ Cardinality(Asking(i)) = 0
  BY <1>3, FS_EmptySet DEF Asking, At
<1>5. SocketTyped
  BY <1>1, <1>3 DEF SocketTyped
<1>6. TimelineInv
  BY <1>1, <1>2, <1>3, <1>4 DEF TimelineInv, TimelineAgreesWithRoom, At
<1>7. HintsInv
  BY <1>1, <1>2, <1>3 DEF HintsInv
<1> QED BY <1>5, <1>6, <1>7

LEMMA EventTypes ==
  ASSUME SocketTyped, NEW s \in Slots
  PROVE  /\ request[s].op # "idle" => request[s] \in Event
         /\ request[s] # Idle => request[s].op # "idle" /\ request[s].pc # "idle"
  BY DEF SocketTyped, Event, Idle

\* Where the event of a slot goes.
EventGoes(s, r) ==
    \/ r = Idle
    \/ \E op \in FreshOps, u \in Users : r = Lookup(op, u, count + 1)
    \/ \E u \in Users, i \in EventIds :
         r = Lookup("focus", u, i) /\ BeginFocus(s, u, i)
    \/ \E t \in timers : r = Lookup("hint", t[1], t[2]) /\ FireHint(s, t)
    \/ /\ CheckFocus(s) /\ request[s].by = Candidate
       /\ r = [request[s] EXCEPT !.pc = "create"]
    \/ RecordFocus(s) /\ r = [request[s] EXCEPT !.pc = "emit"]
    \/ /\ BroadcastChunk(s) /\ Tell(s)
       /\ r = [request[s] EXCEPT !.pc = "record"]
    \/ /\ request[s].op = "proctor"
       /\ \E p \in {"create", "emit"} : r = [request[s] EXCEPT !.pc = p]

LEMMA WhereEventsGo ==
  ASSUME SocketTyped, NEW s \in Slots, SlotEvent(s)
  PROVE  \E r \in {Idle} \cup Event :
           /\ request' = [request EXCEPT ![s] = r]
           /\ EventGoes(s, r)
<1>0. \A e \in Event : \A p \in {"create", "emit", "record"} : [e EXCEPT !.pc = p] \in Event
  BY DEF Event
<1>1. CASE request' = [request EXCEPT ![s] = Idle]
  BY <1>1 DEF EventGoes
<1>2. ASSUME NEW op \in FreshOps, NEW u \in Users,
             request' = [request EXCEPT ![s] = Lookup(op, u, count + 1)]
      PROVE  Lookup(op, u, count + 1) \in Event
  <2>1. PICK n \in Nat : n = count + 1
    BY DEF SocketTyped
  <2>2. Lookup(op, u, n) \in Event
    BY DEF Lookup, Event, FreshOps
  <2> QED BY <2>1, <2>2
<1>3. ASSUME NEW u \in Users, NEW op \in {"join", "relay", "proctor", "chunk"}, Begin(s, op, u)
      PROVE  \E f \in FreshOps, v \in Users :
               request' = [request EXCEPT ![s] = Lookup(f, v, count + 1)]
  BY <1>3 DEF Begin, Accept, FreshOps
<1>4. ASSUME NEW u \in Users, BeginSignal(s, u)
      PROVE  \E f \in FreshOps, v \in Users :
               request' = [request EXCEPT ![s] = Lookup(f, v, count + 1)]
  BY <1>4 DEF BeginSignal, Accept, FreshOps
<1>5. ASSUME NEW u \in Users, NEW i \in EventIds, BeginFocus(s, u, i)
      PROVE  /\ Lookup("focus", u, i) \in Event
             /\ request' = [request EXCEPT ![s] = Lookup("focus", u, i)]
  BY <1>5 DEF BeginFocus, Accept, Lookup, Event
<1>6. ASSUME NEW t \in timers, FireHint(s, t)
      PROVE  /\ Lookup("hint", t[1], t[2]) \in Event
             /\ request' = [request EXCEPT ![s] = Lookup("hint", t[1], t[2])]
  <2>1. t[1] \in Users /\ t[2] \in Nat
    BY DEF SocketTyped
  <2> QED BY <1>6, <2>1 DEF FireHint, Hold, Lookup, Event
<1>7. CASE CheckFocus(s) /\ ~(request' = [request EXCEPT ![s] = Idle])
  <2>1. /\ request[s].by = Candidate /\ request[s] \in Event
        /\ request' = [request EXCEPT ![s] = [request[s] EXCEPT !.pc = "create"]]
    BY <1>7, EventTypes DEF CheckFocus, GoTo, Respond, At
  <2> QED BY <1>0, <1>7, <2>1 DEF EventGoes
<1>8. CASE RecordFocus(s)
  <2>1. /\ request[s] \in Event
        /\ request' = [request EXCEPT ![s] = [request[s] EXCEPT !.pc = "emit"]]
    BY <1>8, EventTypes DEF RecordFocus, GoTo, At
  <2> QED BY <1>0, <1>8, <2>1 DEF EventGoes
<1>9. CASE BroadcastChunk(s) /\ ~(request' = [request EXCEPT ![s] = Idle])
  <2>1. /\ request[s] \in Event /\ Tell(s)
        /\ request' = [request EXCEPT ![s] = [request[s] EXCEPT !.pc = "record"]]
    BY <1>9, EventTypes DEF BroadcastChunk, GoTo, Respond, At
  <2> QED BY <1>0, <1>9, <2>1 DEF EventGoes
<1>10. CASE (CheckProctor(s) \/ RecordProctor(s) \/ SkipProctor(s))
            /\ ~(request' = [request EXCEPT ![s] = Idle])
  <2>1. /\ request[s].op = "proctor" /\ request[s] \in Event
        /\ \E p \in {"create", "emit"} :
             request' = [request EXCEPT ![s] = [request[s] EXCEPT !.pc = p]]
    BY <1>10, EventTypes DEF CheckProctor, RecordProctor, SkipProctor, GoTo, Respond, At
  <2> QED BY <1>0, <2>1 DEF EventGoes
<1>11. CASE FinishJoin(s) \/ Relay(s) \/ TellFocus(s) \/ TellProctor(s) \/ RecordChunk(s)
            \/ TellSignal(s) \/ TellHint(s) \/ FailEvent(s)
  BY <1>1, <1>11 DEF FinishJoin, Relay, TellFocus, TellProctor, RecordChunk, TellSignal,
                     TellHint, FailEvent, Respond
<1> QED BY <1>1, <1>2, <1>3, <1>4, <1>5, <1>6, <1>7, <1>8, <1>9, <1>10, <1>11
        DEF SlotEvent, EventGoes

LEMMA WhatSlotsChange ==
  ASSUME NEW s \in Slots, SlotEvent(s)
  PROVE  /\ count' = count \/ count' = count + 1
         /\ forgotten' = forgotten
         /\ remembered' = remembered \/ \E u \in Users, i \in EventIds : BeginFocus(s, u, i)
         /\ recorded' = recorded \/ RecordFocus(s)
         /\ \/ told' = told
            \/ Tell(s) /\ (request[s].op = "focus" => At(s, "focus", "emit"))
         /\ \/ kept' = kept
            \/ (RecordChunk(s) \/ RecordProctor(s)) /\ told' = told
         /\ superseded' = superseded
         /\ \/ pending' = pending /\ timers' = timers
            \/ \E t \in timers : FireHint(s, t)
<1>1. CASE UNCHANGED socketData /\ (count' = count \/ count' = count + 1)
  BY <1>1 DEF socketData, focusState, hintTimers
<1>2. CASE \E u \in Users, i \in EventIds : BeginFocus(s, u, i)
  <2>1. /\ count' = count + 1
        /\ recorded' = recorded /\ forgotten' = forgotten /\ kept' = kept /\ told' = told
        /\ pending' = pending /\ timers' = timers /\ superseded' = superseded
    BY <1>2 DEF BeginFocus, Accept, hintTimers
  <2> QED BY <1>2, <2>1
<1>3. CASE \E u \in Users : BeginSignal(s, u)
  BY <1>3 DEF BeginSignal, Accept, hintTimers, focusState
<1>4. CASE FinishJoin(s) \/ Relay(s) \/ TellFocus(s) \/ TellProctor(s) \/ BroadcastChunk(s)
           \/ TellSignal(s) \/ TellHint(s)
  <2>1. \/ told' = told
        \/ Tell(s) /\ (request[s].op = "focus" => At(s, "focus", "emit"))
    BY <1>4 DEF FinishJoin, Relay, TellFocus, TellProctor, BroadcastChunk, TellSignal, TellHint, At
  <2>2. /\ count' = count /\ kept' = kept
        /\ UNCHANGED <<focusState, hintTimers>>
    BY <1>4 DEF FinishJoin, Relay, TellFocus, TellProctor, BroadcastChunk, TellSignal, TellHint,
                Respond, GoTo
  <2>3. /\ remembered' = remembered /\ recorded' = recorded /\ forgotten' = forgotten
        /\ pending' = pending /\ timers' = timers /\ superseded' = superseded
    BY <2>2 DEF hintTimers, focusState
  <2> QED BY <2>1, <2>2, <2>3
<1>5. CASE RecordFocus(s) \/ RecordChunk(s) \/ RecordProctor(s)
  BY <1>5 DEF RecordFocus, RecordChunk, RecordProctor, Respond, GoTo, hintTimers, focusState
<1>6. CASE \E t \in timers : FireHint(s, t)
  BY <1>6 DEF FireHint, Hold, focusState
<1>7. ASSUME \/ \E u \in Users, op \in {"join", "relay", "proctor", "chunk"} : Begin(s, op, u)
             \/ CheckFocus(s) \/ CheckProctor(s) \/ SkipProctor(s) \/ FailEvent(s)
      PROVE  UNCHANGED socketData /\ (count' = count \/ count' = count + 1)
  BY <1>7 DEF Begin, Accept, CheckFocus, CheckProctor, SkipProctor, FailEvent, Respond, GoTo
<1> QED BY <1>1, <1>2, <1>3, <1>4, <1>5, <1>6, <1>7 DEF SlotEvent

LEMMA WhatUsersChange ==
  ASSUME UserEvent
  PROVE  /\ count' = count \/ count' = count + 1
         /\ UNCHANGED <<request, told, kept, recorded>>
         /\ UNCHANGED <<remembered, forgotten>>
            \/ \E u \in Users, i \in EventIds : ForgetFocus(u, i)
         /\ UNCHANGED <<pending, timers, superseded>> \/ \E u \in Users : RequestHint(u)
<1>1. CASE MoveSession
  BY <1>1 DEF MoveSession, focusState, hintTimers, requests
<1>2. CASE \E u \in Users : LeaveInterview(u) \/ Reconnect(u) \/ NextSecond(u)
                              \/ NextMinute(u) \/ LimitSignal(u)
  BY <1>2 DEF LeaveInterview, Reconnect, NextSecond, NextMinute, LimitSignal, Answer,
              focusState, hintTimers, requests
<1>3. CASE \E u \in Users : RequestHint(u)
  BY <1>3 DEF RequestHint, Answer, focusState
<1>4. CASE \E u \in Users, i \in EventIds : ForgetFocus(u, i)
  BY <1>4 DEF ForgetFocus, hintTimers, requests
<1> QED BY <1>1, <1>2, <1>3, <1>4 DEF UserEvent

LEMMA SocketSteps ==
  ASSUME [SocketNext]_socketVars
  PROVE  \/ UNCHANGED socketVars \/ UserEvent \/ \E s \in Slots : SlotEvent(s)
  BY DEF SocketNext, UserEvent, SlotEvent

LEMMA SocketTypedStep == ASSUME SocketTyped, [SocketNext]_socketVars PROVE SocketTyped'
<1>0. count' \in Nat \/ UNCHANGED socketVars
  <2>1. count' = count \/ count' = count + 1 \/ UNCHANGED socketVars
    BY SocketSteps, WhatSlotsChange, WhatUsersChange
  <2> QED BY <2>1 DEF SocketTyped
<1>1. CASE UNCHANGED socketVars
  BY <1>1 DEF socketVars, socketData, requests, focusState, hintTimers, SocketTyped
<1>2. ASSUME ~UNCHANGED socketVars, UserEvent PROVE SocketTyped'
  <2>1. forgotten' \in [EventIds -> Nat]
    <3>1. CASE \E u \in Users, i \in EventIds : ForgetFocus(u, i)
      <4>1. PICK i \in EventIds : forgotten' = [forgotten EXCEPT ![i] = @ + 1]
        BY <3>1 DEF ForgetFocus
      <4>2. PICK n \in Nat : n = forgotten[i] + 1
        BY DEF SocketTyped
      <4> QED BY <4>1, <4>2 DEF SocketTyped
    <3> QED BY <1>2, <3>1, WhatUsersChange DEF SocketTyped
  <2>2. timers' \subseteq Users \X Nat
    <3>1. CASE \E u \in Users : RequestHint(u)
      <4>1. PICK u \in Users : timers' = Running(u) \cup {<<u, count + 1>>}
        BY <3>1 DEF RequestHint
      <4>2. count + 1 \in Nat
        BY DEF SocketTyped
      <4> QED BY <4>1, <4>2 DEF SocketTyped, Running
    <3> QED BY <1>2, <3>1, WhatUsersChange DEF SocketTyped
  <2> QED BY <1>0, <1>2, <2>1, <2>2, WhatUsersChange DEF SocketTyped
<1>3. ASSUME ~UNCHANGED socketVars, NEW s \in Slots, SlotEvent(s) PROVE SocketTyped'
  <2>1. PICK r \in {Idle} \cup Event :
          /\ request' = [request EXCEPT ![s] = r]
          /\ r.op = "focus" => r.id \in EventIds
    <3>1. PICK r \in {Idle} \cup Event :
           /\ request' = [request EXCEPT ![s] = r]
           /\ EventGoes(s, r)
      BY <1>3, WhereEventsGo
    <3>2. CASE \E p \in {"create", "emit", "record"} : r = [request[s] EXCEPT !.pc = p]
      <4>1. CASE request[s] \in Event
        <5>1. r.op = request[s].op /\ r.id = request[s].id
          BY <3>2, <4>1 DEF Event
        <5> QED BY <3>1, <5>1 DEF SocketTyped
      <4>2. CASE request[s] = Idle
        <5>1. r.op = "idle"
          BY <3>2, <4>2 DEF Idle
        <5> QED BY <3>1, <5>1
      <4> QED BY <4>1, <4>2 DEF SocketTyped
    <3>3. CASE ~\E p \in {"create", "emit", "record"} : r = [request[s] EXCEPT !.pc = p]
      <4>1. \/ r = Idle
            \/ \E op \in FreshOps, u \in Users : r = Lookup(op, u, count + 1)
            \/ \E u \in Users, i \in EventIds : r = Lookup("focus", u, i)
            \/ \E t \in timers : r = Lookup("hint", t[1], t[2])
        BY <3>1, <3>3 DEF EventGoes
      <4>2. \A op, u, i : Lookup(op, u, i).op = op /\ Lookup(op, u, i).id = i
        BY DEF Lookup
      <4>3. r.op = "focus" => r.id \in EventIds
        BY <4>1, <4>2 DEF FreshOps, Idle
      <4> QED BY <3>1, <4>3
    <3> QED BY <3>1, <3>2, <3>3
  <2>2. /\ request' \in [Slots -> {Idle} \cup Event]
        /\ \A q \in Slots : request'[q].op = "focus" => request'[q].id \in EventIds
    BY <2>1 DEF SocketTyped
  <2>3. recorded' \in [EventIds -> Nat]
    <3>1. CASE RecordFocus(s)
      <4>1. PICK i \in EventIds : i = request[s].id
        BY <3>1 DEF RecordFocus, At, SocketTyped
      <4>2. PICK n \in Nat : n = recorded[i] + 1
        BY DEF SocketTyped
      <4> QED BY <3>1, <4>1, <4>2 DEF RecordFocus, SocketTyped
    <3> QED BY <1>3, <3>1, WhatSlotsChange DEF SocketTyped
  <2>4. timers' \subseteq Users \X Nat
    <3>1. CASE \E t \in timers : FireHint(s, t)
      BY <3>1 DEF FireHint, SocketTyped
    <3> QED BY <1>3, <3>1, WhatSlotsChange DEF SocketTyped
  <2>5. \A t \in told' : t.op = "focus" => t.id \in EventIds
    <3>1. CASE Tell(s)
      BY <3>1 DEF Tell, SocketTyped
    <3> QED BY <1>3, <3>1, WhatSlotsChange DEF SocketTyped
  <2> QED BY <1>0, <1>3, <2>2, <2>3, <2>4, <2>5, WhatSlotsChange DEF SocketTyped
<1> QED BY <1>1, <1>2, <1>3, SocketSteps

\* Who may yet record an event, after a step.
LEMMA AskingGoesOn ==
  ASSUME SocketTyped, NEW s \in Slots, NEW r \in {Idle} \cup Event,
         request' = [request EXCEPT ![s] = r], NEW i \in EventIds
  PROVE  /\ Asking(i)' \subseteq Asking(i) \cup {s}
         /\ s \in Asking(i)' =>
              /\ r.op = "focus" /\ r.pc \in {"lookup", "create"}
              /\ r.by = Candidate /\ r.id = i
<1>1. /\ request'[s] = r
      /\ \A q \in Slots : q # s => request'[q] = request[q]
  BY DEF SocketTyped
<1> QED BY <1>1 DEF Asking, At

LEMMA TimelineCounts ==
  ASSUME SocketTyped, TimelineInv, SocketTyped', [SocketNext]_socketVars, NEW i \in EventIds
  PROVE  (recorded[i] + Cardinality(Asking(i))
            <= forgotten[i] + (IF <<Candidate, i>> \in remembered THEN 1 ELSE 0))'
<1>0. /\ recorded[i] + Cardinality(Asking(i))
           <= forgotten[i] + (IF <<Candidate, i>> \in remembered THEN 1 ELSE 0)
      /\ recorded[i] \in Nat /\ forgotten[i] \in Nat
      /\ recorded'[i] \in Nat /\ forgotten'[i] \in Nat
  BY DEF TimelineInv, SocketTyped
<1>f. \A Q \in SUBSET Slots : IsFiniteSet(Q) /\ Cardinality(Q) \in Nat
  BY FS_Subset, FS_CardinalityType, SlotsAssumption
<1>a. /\ IsFiniteSet(Asking(i)) /\ Cardinality(Asking(i)) \in Nat
      /\ Asking(i)' \in SUBSET Slots /\ Cardinality(Asking(i)') \in Nat
  BY <1>f DEF Asking
<1>1. ASSUME Asking(i)' \subseteq Asking(i), recorded'[i] = recorded[i],
             forgotten'[i] = forgotten[i],
             <<Candidate, i>> \in remembered => <<Candidate, i>> \in remembered'
      PROVE  recorded'[i] + Cardinality(Asking(i)')
               <= forgotten'[i] + (IF <<Candidate, i>> \in remembered' THEN 1 ELSE 0)
  <2>1. Cardinality(Asking(i)') <= Cardinality(Asking(i))
    BY <1>1, <1>a, FS_Subset
  <2> QED BY <1>0, <1>1, <1>a, <2>1
<1>2. CASE UNCHANGED socketVars
  <2>1. Asking(i)' = Asking(i) /\ UNCHANGED <<recorded, forgotten, remembered>>
    BY <1>2 DEF socketVars, socketData, requests, focusState, Asking, At
  <2> QED BY <1>1, <2>1
<1>3. CASE UserEvent
  <2>1. Asking(i)' = Asking(i) /\ recorded' = recorded
    BY <1>3, WhatUsersChange DEF Asking, At
  <2>2. CASE \E u \in Users, j \in EventIds : ForgetFocus(u, j)
    <3>1. PICK u \in Users, j \in EventIds : ForgetFocus(u, j)
      BY <2>2
    <3>2. CASE j = i
      <4>1. forgotten'[i] = forgotten[i] + 1
        BY <3>1, <3>2 DEF ForgetFocus, SocketTyped
      <4> QED BY <1>0, <1>a, <2>1, <4>1
    <3>3. CASE j # i
      <4>1. forgotten'[i] = forgotten[i] /\ remembered' = remembered \ {<<u, j>>}
        BY <3>1, <3>3 DEF ForgetFocus, SocketTyped
      <4>2. <<Candidate, i>> \in remembered => <<Candidate, i>> \in remembered'
        BY <3>3, <4>1
      <4> QED BY <1>1, <2>1, <4>1, <4>2
    <3> QED BY <3>2, <3>3
  <2>3. CASE UNCHANGED <<remembered, forgotten>>
    BY <1>1, <2>1, <2>3
  <2> QED BY <1>3, <2>2, <2>3, WhatUsersChange
<1>4. ASSUME NEW s \in Slots, SlotEvent(s)
      PROVE  recorded'[i] + Cardinality(Asking(i)')
               <= forgotten'[i] + (IF <<Candidate, i>> \in remembered' THEN 1 ELSE 0)
  <2>1. PICK r \in {Idle} \cup Event :
          request' = [request EXCEPT ![s] = r] /\ EventGoes(s, r)
    BY <1>4, WhereEventsGo
  <2>2. /\ Asking(i)' \subseteq Asking(i) \cup {s}
        /\ s \in Asking(i)' =>
             /\ r.op = "focus" /\ r.pc \in {"lookup", "create"}
             /\ r.by = Candidate /\ r.id = i
    BY <2>1, AskingGoesOn, ZenonT(90)
  <2>3. forgotten' = forgotten
    BY <1>4, WhatSlotsChange
  <2>4. CASE \E u \in Users, j \in EventIds : BeginFocus(s, u, j)
    <3>1. PICK u \in Users, j \in EventIds : BeginFocus(s, u, j)
      BY <2>4
    <3>2. /\ <<u, j>> \notin remembered /\ remembered' = remembered \cup {<<u, j>>}
          /\ request' = [request EXCEPT ![s] = Lookup("focus", u, j)]
          /\ recorded' = recorded
      BY <3>1 DEF BeginFocus, Accept, Remembered
    <3>3. s \in Asking(i)' => u = Candidate /\ j = i
      <4>1. request'[s] = Lookup("focus", u, j)
        BY <3>2 DEF SocketTyped
      <4> QED BY <4>1 DEF Asking, Lookup
    <3>4. CASE u = Candidate /\ j = i
      <4>1. Cardinality(Asking(i)') <= Cardinality(Asking(i)) + 1
        <5>1. /\ IsFiniteSet(Asking(i) \cup {s})
              /\ Cardinality(Asking(i) \cup {s}) <= Cardinality(Asking(i)) + 1
          BY <1>a, FS_AddElement, SMTT(30)
        <5>2. /\ Cardinality(Asking(i)') <= Cardinality(Asking(i) \cup {s})
              /\ Cardinality(Asking(i) \cup {s}) \in Nat
          BY <2>2, <5>1, FS_Subset, FS_CardinalityType
        <5> QED BY <1>a, <5>1, <5>2
      <4>2. <<Candidate, i>> \notin remembered /\ <<Candidate, i>> \in remembered'
        BY <3>2, <3>4
      <4> QED BY <1>0, <1>a, <2>3, <3>2, <4>1, <4>2
    <3>5. CASE ~(u = Candidate /\ j = i)
      <4>1. Asking(i)' \subseteq Asking(i)
        BY <2>2, <3>3, <3>5
      <4> QED BY <1>1, <2>3, <3>2, <4>1
    <3> QED BY <3>4, <3>5
  <2>5. CASE RecordFocus(s)
    <3>1. /\ recorded' = [recorded EXCEPT ![request[s].id] = @ + 1]
          /\ remembered' = remembered /\ At(s, "focus", "create")
          /\ request' = [request EXCEPT ![s].pc = "emit"]
      BY <2>5 DEF RecordFocus, GoTo
    <3>2. request[s].by = Candidate /\ request[s].id \in EventIds
      BY <3>1 DEF TimelineInv, SocketTyped, At
    <3>3. s \notin Asking(i)'
      <4>1. request[s] \in Event
        BY <3>1, EventTypes DEF At
      <4>2. request'[s].pc = "emit"
        BY <3>1, <4>1 DEF SocketTyped, Event
      <4> QED BY <4>2 DEF Asking, At
    <3>4. CASE request[s].id = i
      <4>1. s \in Asking(i)
        BY <3>1, <3>2, <3>4 DEF Asking
      <4>2. Cardinality(Asking(i)') <= Cardinality(Asking(i)) - 1
        <5>1. /\ IsFiniteSet(Asking(i) \ {s})
              /\ Cardinality(Asking(i) \ {s}) = Cardinality(Asking(i)) - 1
          BY <1>a, <4>1, FS_RemoveElement
        <5> QED BY <2>2, <3>3, <5>1, FS_Subset
      <4>3. recorded'[i] = recorded[i] + 1
        BY <3>1, <3>4 DEF SocketTyped
      <4> QED BY <1>0, <1>a, <2>3, <3>1, <4>2, <4>3
    <3>5. CASE request[s].id # i
      <4>1. recorded'[i] = recorded[i]
        BY <3>1, <3>5 DEF SocketTyped
      <4> QED BY <1>1, <2>2, <2>3, <3>1, <3>3, <4>1
    <3> QED BY <3>4, <3>5
  <2>6. CASE /\ ~\E u \in Users, j \in EventIds : BeginFocus(s, u, j)
             /\ ~RecordFocus(s)
    <3>1. recorded' = recorded /\ remembered' = remembered
      BY <1>4, <2>6, WhatSlotsChange
    <3>2. s \in Asking(i)' => s \in Asking(i)
      <4> SUFFICES ASSUME s \in Asking(i)' PROVE s \in Asking(i)
        OBVIOUS
      <4>1. r.op = "focus" /\ r.by = Candidate /\ r.id = i /\ r.pc # "record"
        BY <2>2
      <4>2. \/ \E op \in FreshOps \cup {"hint"} : \E u, n : r = Lookup(op, u, n)
            \/ CheckFocus(s) /\ r = [request[s] EXCEPT !.pc = "create"]
            \/ \E p \in {"create", "emit", "record"} :
                 /\ r = [request[s] EXCEPT !.pc = p]
                 /\ request[s].op = "proctor" \/ p = "record"
        BY <2>1, <2>6, <4>1 DEF EventGoes, Idle
      <4>3. CASE CheckFocus(s) /\ r = [request[s] EXCEPT !.pc = "create"]
        <5>1. At(s, "focus", "lookup") /\ request[s] \in Event
          BY <4>3, EventTypes DEF CheckFocus, At
        <5>2. r.by = request[s].by /\ r.id = request[s].id
          BY <4>3, <5>1 DEF Event
        <5> QED BY <4>1, <5>1, <5>2 DEF Asking
      <4>4. ~\E op \in FreshOps \cup {"hint"} : \E u, n : r = Lookup(op, u, n)
        BY <4>1 DEF Lookup, FreshOps
      <4>5. ~\E p \in {"create", "emit", "record"} :
                 /\ r = [request[s] EXCEPT !.pc = p]
                 /\ request[s].op = "proctor" \/ p = "record"
        <5>1. CASE request[s] = Idle
          BY <4>1, <5>1 DEF Idle
        <5>2. CASE request[s] \in Event
          BY <4>1, <5>2 DEF Event
        <5> QED BY <5>1, <5>2 DEF SocketTyped
      <4> QED BY <4>2, <4>3, <4>4, <4>5
    <3> QED BY <1>1, <2>2, <2>3, <3>1, <3>2
  <2> QED BY <2>4, <2>5, <2>6
<1> QED BY <1>2, <1>3, <1>4, SocketSteps

\* What was told stays told, and what was recorded stays recorded.
LEMMA HistoryGrows ==
  ASSUME SocketTyped, [SocketNext]_socketVars
  PROVE  /\ told \subseteq told'
         /\ \A op : ToldOf(op) \subseteq ToldOf(op)'
         /\ \A i \in EventIds : recorded[i] <= recorded'[i]
<1>1. told \subseteq told'
  <2>1. CASE UNCHANGED socketVars
    BY <2>1 DEF socketVars, socketData
  <2>2. CASE \E s \in Slots : SlotEvent(s)
    BY <2>2, WhatSlotsChange DEF Tell
  <2> QED BY <2>1, <2>2, SocketSteps, WhatUsersChange
<1>2. \A i \in EventIds : recorded[i] <= recorded'[i]
  <2> SUFFICES ASSUME NEW i \in EventIds PROVE recorded[i] <= recorded'[i]
    OBVIOUS
  <2>0. recorded[i] \in Nat
    BY DEF SocketTyped
  <2>1. CASE recorded' = recorded
    BY <2>0, <2>1
  <2>2. ASSUME NEW s \in Slots, RecordFocus(s) PROVE recorded[i] <= recorded'[i]
    <3>1. recorded' = [recorded EXCEPT ![request[s].id] = @ + 1]
      BY <2>2 DEF RecordFocus
    <3>2. recorded'[i] = recorded[i] \/ recorded'[i] = recorded[i] + 1
      BY <3>1 DEF SocketTyped
    <3> QED BY <2>0, <3>2
  <2>3. UNCHANGED socketVars => recorded' = recorded
    BY DEF socketVars, socketData, focusState
  <2> QED BY <2>1, <2>2, <2>3, SocketSteps, WhatUsersChange, WhatSlotsChange
<1>3. \A op : ToldOf(op) \subseteq ToldOf(op)'
  BY <1>1 DEF ToldOf
<1> QED BY <1>1, <1>2, <1>3

\* What a slot at work on a focus event or a chunk has behind it.
SlotInv(s) ==
    /\ At(s, "focus", "create") => request[s].by = Candidate
    /\ At(s, "focus", "emit") => recorded[request[s].id] > 0
    /\ At(s, "chunk", "record") => request[s].id \in ToldOf("chunk")

LEMMA SlotsGoOn ==
  ASSUME SocketTyped, SocketTyped', TimelineInv, [SocketNext]_socketVars
  PROVE  \A s \in Slots : SlotInv(s)'
<1>0. \A s \in Slots : SlotInv(s)
  BY DEF TimelineInv, SlotInv
<1>1. ASSUME NEW s \in Slots, request'[s] = request[s] PROVE SlotInv(s)'
  <2>1. At(s, "focus", "create")' => request'[s].by = Candidate
    BY <1>0, <1>1 DEF SlotInv, At
  <2>2. At(s, "focus", "emit")' => recorded'[request'[s].id] > 0
    <3> SUFFICES ASSUME At(s, "focus", "emit")' PROVE recorded'[request'[s].id] > 0
      OBVIOUS
    <3>1. recorded[request[s].id] > 0 /\ request[s].id \in EventIds
      BY <1>0, <1>1 DEF SlotInv, At, SocketTyped
    <3>2. PICK i \in EventIds : i = request[s].id
      BY <3>1
    <3>3. recorded[i] <= recorded'[i] /\ recorded[i] \in Nat /\ recorded'[i] \in Nat
      BY HistoryGrows DEF SocketTyped
    <3> QED BY <1>1, <3>1, <3>2, <3>3
  <2>3. At(s, "chunk", "record")' => request'[s].id \in ToldOf("chunk")'
    BY <1>0, <1>1, HistoryGrows DEF SlotInv, At
  <2> QED BY <2>1, <2>2, <2>3 DEF SlotInv
<1>2. ASSUME NEW s \in Slots, SlotEvent(s) PROVE SlotInv(s)'
  <2>1. PICK r \in {Idle} \cup Event :
          request' = [request EXCEPT ![s] = r] /\ EventGoes(s, r)
    BY <1>2, WhereEventsGo
  <2>2. request'[s] = r
    BY <2>1 DEF SocketTyped
  <2>3. CASE r = Idle \/ \E op, u, n : r = Lookup(op, u, n)
    BY <2>2, <2>3 DEF SlotInv, At, Idle, Lookup
  <2>4. CASE CheckFocus(s) /\ request[s].by = Candidate /\ r = [request[s] EXCEPT !.pc = "create"]
    <3>1. At(s, "focus", "lookup") /\ request[s] \in Event
      BY <2>4, EventTypes DEF CheckFocus, At
    <3>2. r.op = "focus" /\ r.pc = "create" /\ r.by = Candidate
      BY <2>4, <3>1 DEF Event, At
    <3> QED BY <2>2, <3>2 DEF SlotInv, At
  <2>5. CASE RecordFocus(s) /\ r = [request[s] EXCEPT !.pc = "emit"]
    <3>1. At(s, "focus", "create") /\ request[s] \in Event
      BY <2>5, EventTypes DEF RecordFocus, At
    <3>2. r.op = "focus" /\ r.pc = "emit" /\ r.id = request[s].id
      BY <2>5, <3>1 DEF Event, At
    <3>3. PICK i \in EventIds : i = request[s].id
      BY <3>1 DEF At, SocketTyped
    <3>4. recorded'[i] = recorded[i] + 1 /\ recorded[i] \in Nat
      BY <2>5, <3>3 DEF RecordFocus, SocketTyped
    <3> QED BY <2>2, <3>2, <3>3, <3>4 DEF SlotInv, At
  <2>6. CASE BroadcastChunk(s) /\ Tell(s) /\ r = [request[s] EXCEPT !.pc = "record"]
    <3>1. At(s, "chunk", "lookup") /\ request[s] \in Event
      BY <2>6, EventTypes DEF BroadcastChunk, At
    <3>2. r.op = "chunk" /\ r.pc = "record" /\ r.id = request[s].id
      BY <2>6, <3>1 DEF Event, At
    <3>3. request[s].id \in ToldOf("chunk")'
      <4>1. [op |-> request[s].op, by |-> request[s].by, id |-> request[s].id] \in told'
        BY <2>6 DEF Tell
      <4> QED BY <3>1, <4>1 DEF ToldOf, At
    <3> QED BY <2>2, <3>2, <3>3 DEF SlotInv, At
  <2>7. CASE /\ request[s].op = "proctor"
             /\ \E p \in {"create", "emit"} : r = [request[s] EXCEPT !.pc = p]
    <3>1. r.op = "proctor"
      BY <2>7, EventTypes DEF Event
    <3> QED BY <2>2, <3>1 DEF SlotInv, At
  <2> QED BY <2>1, <2>3, <2>4, <2>5, <2>6, <2>7 DEF EventGoes
<1>3. CASE UNCHANGED socketVars
  BY <1>1, <1>3 DEF socketVars, requests
<1>4. CASE UserEvent
  BY <1>1, <1>4, WhatUsersChange
<1>5. ASSUME NEW s \in Slots, SlotEvent(s) PROVE \A q \in Slots : SlotInv(q)'
  <2>1. \A q \in Slots : q # s => request'[q] = request[q]
    BY <1>5, WhereEventsGo DEF SocketTyped
  <2> QED BY <1>1, <1>2, <1>5, <2>1
<1> QED BY <1>3, <1>4, <1>5, SocketSteps

LEMMA RoomAgreesStep ==
  ASSUME SocketTyped, SocketTyped', TimelineInv, [SocketNext]_socketVars
  PROVE  TimelineAgreesWithRoom'
<1>1. \A i \in EventIds : recorded'[i] <= forgotten'[i] + 1
  <2> SUFFICES ASSUME NEW i \in EventIds PROVE recorded'[i] <= forgotten'[i] + 1
    OBVIOUS
  <2>1. recorded'[i] + Cardinality(Asking(i)')
          <= forgotten'[i] + (IF <<Candidate, i>> \in remembered' THEN 1 ELSE 0)
    BY TimelineCounts
  <2>2. Cardinality(Asking(i)') \in Nat
    <3>1. \A Q \in SUBSET Slots : Cardinality(Q) \in Nat
      BY FS_Subset, FS_CardinalityType, SlotsAssumption
    <3> QED BY <3>1 DEF Asking
  <2>3. recorded'[i] \in Nat /\ forgotten'[i] \in Nat
    BY DEF SocketTyped
  <2> QED BY <2>1, <2>2, <2>3
<1>2. \A i \in ToldOf("focus")' : recorded'[i] > 0
  <2> SUFFICES ASSUME NEW t \in told', t.op = "focus" PROVE recorded'[t.id] > 0
    BY DEF ToldOf
  <2>0. PICK i \in EventIds : i = t.id
    BY DEF SocketTyped
  <2>1. CASE t \in told
    <3>1. recorded[i] > 0
      BY <2>0, <2>1 DEF TimelineInv, TimelineAgreesWithRoom, ToldOf
    <3>2. recorded[i] <= recorded'[i] /\ recorded[i] \in Nat /\ recorded'[i] \in Nat
      BY HistoryGrows DEF SocketTyped
    <3> QED BY <2>0, <3>1, <3>2
  <2>2. ASSUME NEW s \in Slots, SlotEvent(s), t \notin told PROVE recorded'[t.id] > 0
    <3>1. Tell(s) /\ (request[s].op = "focus" => At(s, "focus", "emit"))
      BY <2>2, WhatSlotsChange
    <3>2. t.op = request[s].op /\ t.id = request[s].id
      BY <2>2, <3>1 DEF Tell
    <3>3. At(s, "focus", "emit")
      BY <3>1, <3>2
    <3>4. recorded[i] > 0
      BY <2>0, <3>2, <3>3 DEF TimelineInv
    <3>5. recorded[i] <= recorded'[i] /\ recorded[i] \in Nat /\ recorded'[i] \in Nat
      BY HistoryGrows DEF SocketTyped
    <3> QED BY <2>0, <3>4, <3>5
  <2>3. CASE UNCHANGED socketVars
    BY <2>1, <2>3 DEF socketVars, socketData
  <2> QED BY <2>1, <2>2, <2>3, SocketSteps, WhatUsersChange
<1>3. \A k \in kept' : k.op = "chunk" => k.id \in ToldOf("chunk")'
  <2> SUFFICES ASSUME NEW k \in kept', k.op = "chunk" PROVE k.id \in ToldOf("chunk")'
    OBVIOUS
  <2>1. CASE k \in kept
    BY <2>1, HistoryGrows DEF TimelineInv, TimelineAgreesWithRoom
  <2>2. ASSUME NEW s \in Slots, SlotEvent(s), k \notin kept PROVE k.id \in ToldOf("chunk")'
    <3>1. RecordChunk(s) \/ RecordProctor(s)
      BY <2>2, WhatSlotsChange
    <3>2. Keep(s) /\ (At(s, "chunk", "record") \/ At(s, "proctor", "create"))
      BY <3>1 DEF RecordChunk, RecordProctor
    <3>3. k.op = request[s].op /\ k.id = request[s].id
      BY <2>2, <3>2 DEF Keep
    <3>4. At(s, "chunk", "record")
      BY <3>2, <3>3 DEF At
    <3> QED BY <3>3, <3>4, HistoryGrows DEF TimelineInv
  <2>3. CASE UNCHANGED socketVars
    BY <2>1, <2>3 DEF socketVars, socketData
  <2> QED BY <2>1, <2>2, <2>3, SocketSteps, WhatUsersChange
<1> QED BY <1>1, <1>2, <1>3 DEF TimelineAgreesWithRoom

LEMMA TimelineStep ==
  ASSUME SocketTyped, SocketTyped', TimelineInv, [SocketNext]_socketVars
  PROVE  TimelineInv'
<1>1. \A i \in EventIds :
        (recorded[i] + Cardinality(Asking(i))
           <= forgotten[i] + (IF <<Candidate, i>> \in remembered THEN 1 ELSE 0))'
  BY TimelineCounts
<1>2. \A s \in Slots : SlotInv(s)'
  BY SlotsGoOn
<1>3. TimelineAgreesWithRoom'
  BY RoomAgreesStep
<1> QED BY <1>1, <1>2, <1>3 DEF TimelineInv, SlotInv

\* A focus event is recorded once for each time it was forgotten and once more,
\* whatever is resent; the room is told of nothing the timeline lacks, and the
\* timeline holds no chunk the room was not told.
THEOREM TimelineStaysTrue == SocketSpec => []TimelineAgreesWithRoom
<1>1. SocketInit => SocketTyped /\ TimelineInv
  BY SocketStarts
<1>2. SocketTyped /\ TimelineInv /\ [SocketNext]_socketVars => SocketTyped' /\ TimelineInv'
  BY SocketTypedStep, TimelineStep
<1>3. TimelineInv => TimelineAgreesWithRoom
  BY DEF TimelineInv
<1> QED BY <1>1, <1>2, <1>3, PTL DEF SocketSpec

\* A step that starts and fires no timer, and answers only what is asked.
LEMMA HintsLast ==
  ASSUME SocketTyped, HintsInv, count' = count \/ count' = count + 1,
         pending' = pending, timers' = timers, superseded' = superseded,
         \A q \in Slots : request'[q].op = "hint" =>
           request[q].op = "hint" /\ request'[q].id = request[q].id,
         \A n \in ToldOf("hint")' : \/ n \in ToldOf("hint")
                                    \/ \E q \in Slots : request[q].op = "hint" /\ request[q].id = n
  PROVE  HintsInv'
<1>0. 0 .. count \subseteq 0 .. count' /\ 1 .. count \subseteq 1 .. count'
  BY DEF SocketTyped
<1>1. pending' \in [Users -> 0 .. count'] /\ superseded' \subseteq 0 .. count'
  BY <1>0 DEF HintsInv
<1>2. /\ \A t \in timers' : t[2] = pending'[t[1]] /\ t[2] # 0
      /\ \A u, v \in Users : pending'[u] = pending'[v] /\ pending'[u] # 0 => u = v
  BY DEF HintsInv
<1>3. \A u \in Users : pending'[u] # 0 =>
        /\ pending'[u] \notin superseded' /\ pending'[u] \notin ToldOf("hint")'
        /\ \A s \in Slots : request'[s].op = "hint" => request'[s].id # pending'[u]
  BY DEF HintsInv
<1>4. \A s \in Slots : request'[s].op = "hint" =>
        request'[s].id \in (1 .. count') \ superseded'
  BY <1>0 DEF HintsInv
<1>5. ToldOf("hint")' \subseteq (1 .. count') \ superseded'
  BY <1>0 DEF HintsInv
<1> QED BY <1>1, <1>2, <1>3, <1>4, <1>5 DEF HintsInv

LEMMA HintFires ==
  ASSUME SocketTyped, HintsInv, NEW s \in Slots, NEW t \in timers, FireHint(s, t)
  PROVE  HintsInv'
<1>0. /\ timers' = timers \ {t} /\ pending' = [pending EXCEPT ![t[1]] = 0]
      /\ request' = [request EXCEPT ![s] = Lookup("hint", t[1], t[2])]
      /\ count' = count /\ superseded' = superseded /\ ToldOf("hint")' = ToldOf("hint")
  BY DEF FireHint, Hold, ToldOf
<1>1. PICK u \in Users, n \in Nat : t = <<u, n>>
  BY DEF SocketTyped
<1>2. n = pending[u] /\ n # 0 /\ n \in 1 .. count /\ n \notin superseded
  <2>1. n = pending[u] /\ n # 0
    BY <1>1 DEF HintsInv
  <2>2. pending[u] \in 0 .. count /\ pending[u] \notin superseded
    BY <2>1 DEF HintsInv
  <2> QED BY <2>1, <2>2 DEF SocketTyped
<1>3. /\ pending' \in [Users -> 0 .. count']
      /\ pending'[u] = 0 /\ \A v \in Users \ {u} : pending'[v] = pending[v]
  BY <1>0, <1>1 DEF HintsInv, SocketTyped
<1>4. /\ request'[s].op = "hint" /\ request'[s].id = n
      /\ \A q \in Slots \ {s} : request'[q] = request[q]
  BY <1>0, <1>1 DEF Lookup, SocketTyped
<1>5. \A x \in timers' : x[2] = pending'[x[1]] /\ x[2] # 0
  <2> SUFFICES ASSUME NEW x \in timers, x # t
               PROVE  x[2] = pending'[x[1]] /\ x[2] # 0
    BY <1>0
  <2>1. PICK v \in Users, m \in Nat : x = <<v, m>>
    BY DEF SocketTyped
  <2>2. m = pending[v] /\ m # 0
    BY <2>1 DEF HintsInv
  <2>3. v # u
    BY <1>1, <1>2, <2>1, <2>2
  <2> QED BY <1>3, <2>1, <2>2, <2>3
<1>6. \A v, w \in Users : pending'[v] = pending'[w] /\ pending'[v] # 0 => v = w
  BY <1>3 DEF HintsInv
<1>7. \A v \in Users : pending'[v] # 0 =>
        /\ pending'[v] \notin superseded' /\ pending'[v] \notin ToldOf("hint")'
        /\ \A q \in Slots : request'[q].op = "hint" => request'[q].id # pending'[v]
  <2> SUFFICES ASSUME NEW v \in Users, pending'[v] # 0
               PROVE  /\ pending'[v] \notin superseded /\ pending'[v] \notin ToldOf("hint")
                      /\ \A q \in Slots : request'[q].op = "hint" => request'[q].id # pending'[v]
    BY <1>0
  <2>1. v # u /\ pending'[v] = pending[v]
    BY <1>3
  <2>2. pending[v] # n
    BY <1>2, <2>1 DEF HintsInv
  <2> QED BY <1>4, <2>1, <2>2 DEF HintsInv
<1>8. \A q \in Slots : request'[q].op = "hint" =>
        request'[q].id \in (1 .. count') \ superseded'
  BY <1>0, <1>2, <1>4 DEF HintsInv
<1>9. superseded' \subseteq 0 .. count' /\ ToldOf("hint")' \subseteq (1 .. count') \ superseded'
  BY <1>0 DEF HintsInv
<1> QED BY <1>3, <1>5, <1>6, <1>7, <1>8, <1>9 DEF HintsInv

LEMMA HintIsAsked ==
  ASSUME SocketTyped, HintsInv, NEW u \in Users, RequestHint(u)
  PROVE  HintsInv'
<1>0. /\ timers' = Running(u) \cup {<<u, count + 1>>}
      /\ pending' = [pending EXCEPT ![u] = count + 1]
      /\ superseded' = superseded \cup ({pending[u]} \ {0})
      /\ count' = count + 1 /\ request' = request /\ ToldOf("hint")' = ToldOf("hint")
  BY DEF RequestHint, Answer, ToldOf
<1>1. PICK n \in Nat : n = count + 1
  BY DEF SocketTyped
<1>2. /\ pending' = [pending EXCEPT ![u] = n] /\ count' = n /\ n # 0 /\ n \notin 0 .. count
      /\ \A m \in 0 .. count : m # n /\ m \in 0 .. n
      /\ \A m \in 1 .. count : m # n /\ m \in 1 .. n
  BY <1>0, <1>1 DEF SocketTyped
<1>3. /\ pending \in [Users -> 0 .. count] /\ superseded \subseteq 0 .. count
      /\ \A v, w \in Users : pending[v] = pending[w] /\ pending[v] # 0 => v = w
  BY DEF HintsInv
<1>4. pending'[u] = n /\ \A v \in Users \ {u} : pending'[v] = pending[v]
  BY <1>2, <1>3
<1>5. pending' \in [Users -> 0 .. count'] /\ superseded' \subseteq 0 .. count'
  <2>1. n \in 0 .. n
    BY <1>1
  <2>2. pending' \in [Users -> 0 .. n]
    BY <1>2, <1>3, <2>1
  <2>3. superseded' \subseteq 0 .. n
    BY <1>0, <1>2, <1>3
  <2> QED BY <1>2, <2>2, <2>3
<1>6. \A x \in timers' : x[2] = pending'[x[1]] /\ x[2] # 0
  <2>1. ASSUME NEW x \in timers, x # <<u, pending[u]>>
        PROVE  x[2] = pending'[x[1]] /\ x[2] # 0
    <3>1. PICK v \in Users, m \in Nat : x = <<v, m>>
      BY DEF SocketTyped
    <3>2. m = pending[v] /\ m # 0
      BY <3>1 DEF HintsInv
    <3> QED BY <1>4, <2>1, <3>1, <3>2
  <2>2. <<u, n>>[2] = pending'[<<u, n>>[1]] /\ <<u, n>>[2] # 0
    BY <1>2, <1>4
  <2> QED BY <1>0, <1>1, <2>1, <2>2 DEF Running
<1>7. \A v, w \in Users : pending'[v] = pending'[w] /\ pending'[v] # 0 => v = w
  BY <1>2, <1>3, <1>4
<1>8. \A v \in Users : pending'[v] # 0 =>
        /\ pending'[v] \notin superseded' /\ pending'[v] \notin ToldOf("hint")'
        /\ \A q \in Slots : request'[q].op = "hint" => request'[q].id # pending'[v]
  <2> SUFFICES ASSUME NEW v \in Users, pending'[v] # 0
               PROVE  /\ pending'[v] \notin superseded' /\ pending'[v] \notin ToldOf("hint")
                      /\ \A q \in Slots : request[q].op = "hint" => request[q].id # pending'[v]
    BY <1>0
  <2>1. CASE v = u
    <3>1. n \notin superseded'
      BY <1>0, <1>2, <1>3
    <3>2. n \notin ToldOf("hint") /\ \A q \in Slots : request[q].op = "hint" => request[q].id # n
      BY <1>2 DEF HintsInv
    <3> QED BY <1>4, <2>1, <3>1, <3>2
  <2>2. CASE v # u
    <3>1. pending'[v] = pending[v] /\ pending[v] # pending[u]
      BY <1>3, <1>4, <2>2
    <3> QED BY <1>0, <3>1 DEF HintsInv
  <2> QED BY <2>1, <2>2
<1>9. \A q \in Slots : request'[q].op = "hint" =>
        request'[q].id \in (1 .. count') \ superseded'
  <2> SUFFICES ASSUME NEW q \in Slots, request[q].op = "hint"
               PROVE  request[q].id \in 1 .. n /\ request[q].id \notin superseded'
    BY <1>0, <1>2
  <2>1. request[q].id \in 1 .. count /\ request[q].id \notin superseded
    BY DEF HintsInv
  <2>2. pending[u] # 0 => request[q].id # pending[u]
    BY DEF HintsInv
  <2> QED BY <1>0, <1>2, <2>1, <2>2
<1>10. ToldOf("hint")' \subseteq (1 .. count') \ superseded'
  <2> SUFFICES ASSUME NEW m \in ToldOf("hint") PROVE m \in 1 .. n /\ m \notin superseded'
    BY <1>0, <1>2
  <2>1. m \in 1 .. count /\ m \notin superseded
    BY DEF HintsInv
  <2>2. pending[u] # 0 => m # pending[u]
    BY DEF HintsInv
  <2> QED BY <1>0, <1>2, <2>1, <2>2
<1> QED BY <1>5, <1>6, <1>7, <1>8, <1>9, <1>10 DEF HintsInv

LEMMA HintsStep ==
  ASSUME SocketTyped, HintsInv, [SocketNext]_socketVars
  PROVE  HintsInv'
<1>1. CASE UNCHANGED socketVars
  <2>1. /\ UNCHANGED <<count, pending, timers, superseded, request>>
        /\ ToldOf("hint")' = ToldOf("hint")
    BY <1>1 DEF socketVars, socketData, requests, hintTimers, ToldOf
  <2> QED BY <2>1, HintsLast
<1>2. CASE UserEvent
  <2>1. CASE \E u \in Users : RequestHint(u)
    BY <2>1, HintIsAsked
  <2>2. CASE UNCHANGED <<pending, timers, superseded>>
    <3>1. (count' = count \/ count' = count + 1) /\ request' = request
          /\ ToldOf("hint")' = ToldOf("hint")
      BY <1>2, WhatUsersChange DEF ToldOf
    <3> QED BY <2>2, <3>1, HintsLast
  <2> QED BY <1>2, <2>1, <2>2, WhatUsersChange
<1>3. ASSUME NEW s \in Slots, SlotEvent(s) PROVE HintsInv'
  <2>1. CASE \E t \in timers : FireHint(s, t)
    BY <2>1, HintFires
  <2>2. CASE ~\E t \in timers : FireHint(s, t)
    <3>1. /\ count' = count \/ count' = count + 1
          /\ pending' = pending /\ timers' = timers /\ superseded' = superseded
      BY <1>3, <2>2, WhatSlotsChange
    <3>2. PICK r \in {Idle} \cup Event :
            request' = [request EXCEPT ![s] = r] /\ EventGoes(s, r)
      BY <1>3, WhereEventsGo
    <3>3. r.op = "hint" => request[s].op = "hint" /\ r.id = request[s].id
      <4>1. \/ r = Idle
            \/ \E op \in FreshOps \cup {"focus"} : \E u, n : r = Lookup(op, u, n)
            \/ \E p \in {"create", "emit", "record"} : r = [request[s] EXCEPT !.pc = p]
        BY <2>2, <3>2 DEF EventGoes
      <4>2. CASE request[s] \in Event
        BY <4>1, <4>2 DEF Event, Lookup, Idle, FreshOps
      <4>3. CASE request[s] = Idle
        BY <4>1, <4>3 DEF Lookup, Idle, FreshOps
      <4> QED BY <4>2, <4>3 DEF SocketTyped
    <3>4. \A q \in Slots : request'[q].op = "hint" =>
            request[q].op = "hint" /\ request'[q].id = request[q].id
      BY <3>2, <3>3 DEF SocketTyped
    <3>5. \A n \in ToldOf("hint")' : \/ n \in ToldOf("hint")
                                     \/ \E q \in Slots : request[q].op = "hint" /\ request[q].id = n
      <4> SUFFICES ASSUME NEW t \in told', t.op = "hint", t \notin told
                   PROVE  request[s].op = "hint" /\ request[s].id = t.id
        BY DEF ToldOf
      <4> QED BY <1>3, WhatSlotsChange DEF Tell
    <3> QED BY <3>1, <3>4, <3>5, HintsLast
  <2> QED BY <2>1, <2>2
<1> QED BY <1>1, <1>2, <1>3, SocketSteps

\* Of a burst of requests for a hint only the last is answered, whatever the
\* timers of the others and the lookups of the session do in between.
THEOREM LatestStaysHinted == SocketSpec => []OnlyTheLatestIsHinted
<1>1. SocketInit => SocketTyped /\ HintsInv
  BY SocketStarts
<1>2. SocketTyped /\ HintsInv /\ [SocketNext]_socketVars => SocketTyped' /\ HintsInv'
  BY SocketTypedStep, HintsStep
<1>3. HintsInv => OnlyTheLatestIsHinted
  BY DEF HintsInv, OnlyTheLatestIsHinted
<1> QED BY <1>1, <1>2, <1>3, PTL DEF SocketSpec
=============================================================================
