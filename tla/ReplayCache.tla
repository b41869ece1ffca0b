----------------------------- MODULE ReplayCache -----------------------------
(***************************************************************************)
(* The replay of one interview session (replay.controller.js): manifests   *)
(* and frames are computed from the session and its timeline, and kept in  *)
(* Redis under the identifier by which the caller named the session, its   *)
(* _id or its roomKey.  A reader loads the session, looks into the cache,  *)
(* reads the timeline and fills the cache, an await each; meanwhile the    *)
(* session is completed, by an evaluation that then deletes the manifest   *)
(* of the _id, or by a status or stage request that deletes nothing.  Such *)
(* a request may also take the completion back: it saves the copy of the   *)
(* session that it loaded before.                                          *)
(***************************************************************************)
EXTENDS Naturals

CONSTANTS
    Readers,    \* slots for the requests that read a replay
    Writers,    \* slots for those that evaluate it or set its status or stage
    Keys,       \* the cache keys in use
    MaxReplayEvents  \* bound on the events of the timeline

ManifestOfId == "manifest of _id"

ASSUME ReplayAssumption ==
    /\ Keys \subseteq {ManifestOfId, "manifest of roomKey", "frame"}
    /\ MaxReplayEvents \in Nat

VARIABLES
    completed,  \* the stored session is COMPLETED
    closing,    \* history: the number of events when it was last saved so
    timeline,   \* the number of events on the timeline
    cache,      \* per key: what Redis holds
    connected,  \* redis.status = "connected"
    reader,     \* per slot: where its handler is and what it has read
    writer,     \* per slot: where its handler is, with the copy it loaded
    clean,      \* history: COMPLETED since an evaluation deleted its manifest
    crossed     \* history: a reader crossed that with an incomplete copy

session == <<completed, closing>>
past == <<clean, crossed>>
replayVars == <<session, timeline, cache, connected, reader, writer, past>>
-----------------------------------------------------------------------------
Nothing == [held |-> FALSE, completed |-> FALSE, closing |-> 0, timeline |-> 0]
Replay == [held : BOOLEAN, completed : BOOLEAN, closing : Nat, timeline : Nat]

NoReader == [pc |-> "idle", key |-> ManifestOfId, completed |-> FALSE,
             closing |-> 0, timeline |-> 0]

ReplayInit ==
    /\ completed = FALSE
    /\ closing = 0
    /\ timeline = 0
    /\ cache = [k \in Keys |-> Nothing]
    /\ connected = TRUE
    /\ reader = [r \in Readers |-> NoReader]
    /\ writer = [w \in Writers |-> "idle"]
    /\ clean = FALSE
    /\ crossed = FALSE

AnswerReader(r) == reader' = [reader EXCEPT ![r] = NoReader]

\* authorizeParticipant loads the session before anything else.
LoadSession(r, k) ==
    /\ reader[r].pc = "idle"
    /\ reader' = [reader EXCEPT ![r] = [NoReader EXCEPT
                    !.pc = "loaded", !.key = k,
                    !.completed = completed, !.closing = closing]]
    /\ UNCHANGED <<session, timeline, cache, connected, writer, past>>

\* cacheService.get: without Redis, nothing is found.
Found(k) == connected /\ cache[k].held

LookUp(r) ==
    /\ reader[r].pc = "loaded"
    /\ IF Found(reader[r].key)
       THEN AnswerReader(r)
       ELSE reader' = [reader EXCEPT ![r].pc = "missed"]
    /\ UNCHANGED <<session, timeline, cache, connected, writer, past>>

ReadTimeline(r) ==
    /\ reader[r].pc = "missed"
    /\ reader' = [reader EXCEPT ![r].pc = "built", ![r].timeline = timeline]
    /\ UNCHANGED <<session, timeline, cache, connected, writer, past>>

\* Mutant: the session is loaded again when the answer is built.
BuiltFromReload(q) ==
    [held |-> TRUE, completed |-> completed, closing |-> closing,
     timeline |-> q.timeline]

\* What the handler computes from what it has read.
Built(q) ==
    [held |-> TRUE, completed |-> q.completed, closing |-> q.closing,
     timeline |-> q.timeline]

\* cacheService.set, with a time to live, and the response.
FillCache(r) ==
    LET q == reader[r]
    IN  /\ q.pc = "built"
        /\ cache' = IF connected THEN [cache EXCEPT ![q.key] = Built(q)] ELSE cache
        /\ AnswerReader(r)
        /\ UNCHANGED <<session, timeline, connected, writer, past>>

FailRead(r) ==
    /\ reader[r].pc # "idle"
    /\ AnswerReader(r)
    /\ UNCHANGED <<session, timeline, cache, connected, writer, past>>
-----------------------------------------------------------------------------
\* TimelineEvent.create, by any handler, before or after the completion.
RecordEvent ==
    /\ timeline < MaxReplayEvents
    /\ timeline' = timeline + 1
    /\ UNCHANGED <<session, cache, connected, reader, writer, past>>

\* A status or stage request, or an evaluation, loads a session that is not
\* COMPLETED; of one that is, the first two are refused and the last neither
\* saves the session nor deletes anything.
LoadCopy(w, request) ==
    /\ writer[w] = "idle"
    /\ ~completed
    /\ writer' = [writer EXCEPT ![w] = request]
    /\ UNCHANGED <<session, timeline, cache, connected, reader, past>>

BeginTransition(w) == LoadCopy(w, "transition")

BeginEvaluation(w) == LoadCopy(w, "evaluation")

\* The status that is saved, whatever the stored one has become meanwhile.
SaveStatus(done) ==
    /\ completed' = done
    /\ closing' = IF done THEN timeline ELSE 0
    /\ clean' = (clean /\ done)

\* A request saves its copy with another status, or with its stage alone.
SaveTransition(w) ==
    /\ writer[w] = "transition"
    /\ writer' = [writer EXCEPT ![w] = "idle"]
    /\ \/ \E done \in BOOLEAN : SaveStatus(done)
       \/ UNCHANGED <<session, clean>>
    /\ UNCHANGED <<timeline, cache, connected, reader, crossed>>

\* An evaluation saves its copy as completed ...
CompleteByEvaluation(w) ==
    /\ writer[w] = "evaluation"
    /\ writer' = [writer EXCEPT ![w] = "invalidating"]
    /\ SaveStatus(TRUE)
    /\ UNCHANGED <<timeline, cache, connected, reader, crossed>>

InvalidatedKey == ManifestOfId

\* Readers about to fill the deleted entry with the session of before.
Late == \E r \in Readers : /\ reader[r].pc # "idle"
                           /\ reader[r].key = ManifestOfId
                           /\ ~reader[r].completed

\* ... and deletes the cached manifest, if Redis is there.
InvalidateReplayManifest(w) ==
    /\ writer[w] = "invalidating"
    /\ writer' = [writer EXCEPT ![w] = "idle"]
    /\ IF connected
       THEN /\ cache' = [k \in Keys |-> IF k = InvalidatedKey
                                        THEN Nothing ELSE cache[k]]
            /\ clean' = completed
            /\ crossed' = Late
       ELSE UNCHANGED <<cache, past>>
    /\ UNCHANGED <<session, timeline, connected, reader>>

\* An awaited call throws, or the server stops.
FailWrite(w) ==
    /\ writer[w] # "idle"
    /\ writer' = [writer EXCEPT ![w] = "idle"]
    /\ UNCHANGED <<session, timeline, cache, connected, reader, past>>
-----------------------------------------------------------------------------
\* Every entry is set with a time to live: 300 s, or 60 s for a frame.
Expires(k) == TRUE

Expire(k) ==
    /\ cache[k].held
    /\ Expires(k)
    /\ cache' = [cache EXCEPT ![k] = Nothing]
    /\ crossed' = (crossed /\ (k = ManifestOfId => Late))
    /\ UNCHANGED <<session, timeline, connected, reader, writer, clean>>

\* Redis is lost, or found again with what has not expired.
CacheOutage ==
    /\ connected' = ~connected
    /\ UNCHANGED <<session, timeline, cache, reader, writer, past>>

ReaderStep(r) == LookUp(r) \/ ReadTimeline(r) \/ FillCache(r)

WriterStep(w) ==
    \/ BeginTransition(w)
    \/ SaveTransition(w)
    \/ BeginEvaluation(w)
    \/ CompleteByEvaluation(w)
    \/ InvalidateReplayManifest(w)
    \/ FailWrite(w)

ReplayNext ==
    \/ \E r \in Readers :
         \/ \E k \in Keys : LoadSession(r, k)
         \/ ReaderStep(r)
         \/ FailRead(r)
    \/ RecordEvent
    \/ \E w \in Writers : WriterStep(w)
    \/ \E k \in Keys : Expire(k)
    \/ CacheOutage

ReplaySpec == ReplayInit /\ [][ReplayNext]_replayVars
-----------------------------------------------------------------------------
ReplayTypeOK ==
    /\ completed \in BOOLEAN
    /\ closing \in Nat
    /\ timeline \in Nat
    /\ cache \in [Keys -> Replay]
    /\ connected \in BOOLEAN
    /\ reader \in [Readers -> [pc : {"idle", "loaded", "missed", "built"},
                               key : Keys \cup {ManifestOfId},
                               completed : BOOLEAN, closing : Nat, timeline : Nat]]
    /\ writer \in [Writers -> {"idle", "transition", "evaluation", "invalidating"}]
    /\ clean \in BOOLEAN
    /\ crossed \in BOOLEAN

\* "Fresh replay must reflect the completed session": from the deletion by an
\* evaluation on, and until a stale copy takes the completion back, the manifest
\* cached under the _id is of the completed session, however often it was taken
\* back before.  One that a reader crossing the deletion puts there is gone when
\* an entry has expired after the last such reader.
ManifestReflectsCompletion ==
    clean /\ ~crossed /\ ManifestOfId \in Keys =>
      (cache[ManifestOfId].held => cache[ManifestOfId].completed)

\* A replay that shows the session as completed has every event recorded until
\* the completion that its reader saw was saved, whatever other copies have been
\* saved since: the timeline is read after the session.
CompletedReplayHasEvents ==
    \A k \in Keys : cache[k].held /\ cache[k].completed
                      => cache[k].timeline >= cache[k].closing

\* The cached replays are faithful to the session: no evaluated session keeps
\* the manifest of before, and no complete replay lacks an event.
ReplaysAreFaithful == ManifestReflectsCompletion /\ CompletedReplayHasEvents
=============================================================================
