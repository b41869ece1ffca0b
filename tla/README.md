# Jobly API: specifications, model checking and proofs

The Jobly API (`src/src/`) is a Node.js server of a hiring platform: jobs and
applications, resume parsing and scoring, a live interview room (shared code
workspace, whiteboard, terminal, timeline, replay) and a learning hub (focus
sessions, competitions). It keeps its data in MongoDB through Mongoose, uses
Redis for counters and caches, and talks to AI providers, to child processes
and to a terminal runner in another process (`src/terminal-runner/`). One
process serves HTTP, Socket.IO and raw WebSockets; everything in it is `async`:
a handler is a sequence of atomic stretches with an `await` between them, and
handlers interleave at every `await`. That is where this program is hard to get
right and hard to test, and what most of these modules are about. The rest are
about pure algorithms whose boundaries are easy to get wrong.

`tlc -config X.cfg M.tla` checks a run, `tlapm M.tla` the proofs.
`PROJECT.json` lists the runs, maps every definition to the lines it models,
gives for every checked property a plausible bug of the code that breaks it (an
operator that stands beside the definition it replaces), and lists the
findings, the hazards and the theorems.

## 1. Inventory

Paths are relative to `src/src/` unless they start with `src/`.

| Part | State | Hard about it | Correct when |
|---|---|---|---|
| **Interview session** `controllers/interview.controller.js`, `models/InterviewSession.js` | one document: status, stage, dates, execution counter, last result, recording | every handler saves a copy it loaded some awaits ago; sandbox answers out of order | status, stage and dates agree; terminal is terminal; newest result shown; nothing lost |
| **Invitations, assessments** interview and evaluation controllers | invites, evaluations, scorecards | load and save; upsert and retry; unique indexes | revoked is revoked; answered ratings stand |
| **Timeline, checkpoints, snapshots** `models/TimelineEvent.js`, `services/checkpointService.js`, `controllers/whiteboard.controller.js` | three numbered collections | three ways to take a number; Redis comes and goes; a record and its event are two writes | numbers order the records; an event finds its record |
| **Replay** `controllers/replay.controller.js` | two caches in Redis | read session, read cache, fill cache: three awaits | a completed session is replayed as completed |
| **Yjs rooms** `infrastructure/realtime/yjsCoordinator.js`, `yjsWebSocket.js` | shared documents, their sockets, timers; the state in MongoDB | creation locks, messages before listeners exist, timers, crashes, failed loads and writes; limits enforced on a stale size | one document per room; edits reach the others and the store; limits hold |
| **Coding workspace** `controllers/coding.controller.js`, `services/checkpointService.js` | a map of paths and a text per path | file locks that not all handlers take; texts without an entry | no work lost, none out of place |
| **Terminals** `infrastructure/terminal/terminalService.js`, `src/terminal-runner/server.js` | terminals of the API, shells of the runner | two processes, overlapping polls, capacity test before an await | output shown once; shells accounted for |
| **Code sandbox, language servers** `infrastructure/sandbox`, `infrastructure/lsp` | child processes | output, exit, close and time limit race; chunks cut anywhere | a verdict is true; a run ends; a reply arrives |
| **Socket events** `infrastructure/realtime/socketio.js` | rate, dedup and debounce maps | marks kept before the write they stand for | recorded once; told only what is recorded |
| **Resume pipeline, applications** `controllers/resume`, `application`, `ats`; `workers/resume.processor.js` | upload, profile, application, analysis | any await may fail; three writers of one application | the record tells what happened; score and analysis belong together |
| **Jobs** `controllers/job.controller.js`, `utils/jobLogic.js`, `modules/ai/schemas.js` | jobs, a cached list, a draft | stale page stored after the deletion; loose answers merged as they came | list current; draft safe; preview right |
| **Messages, library** `controllers/message`, `block`, `interviewNote` | threads, blocks, notes | several queries per request; saves of stale copies | nothing read that was not shown; no count lost |
| **AI gateway** `modules/ai` | one breaker per provider, failed models | abandoned calls go on; half-open probes | the first acceptable answer, or degraded after all failed |
| **Scores** `modules/ats`, `modules/signals` | none; signals accumulate | merging of ranges, gates, caps, rounding | better evidence never lowers a score |
| **Learning** `controllers/learn`, `competition` | focus sessions, points, streak; lobby | two writes per completion; stale lobby documents | each completion pays; no player twice, no point lost |
| **The rest** search, integrity, study, rate limits, dashboards, auth, scripts | documents, counters | see section 7 | |

How they interact: the interview, evaluation, coding and whiteboard handlers
all write the same session document, each through Mongoose, which saves the
modified paths of the copy and checks no version. Checkpoint restore and the
file handlers edit the shared document that WebSocket clients edit. Completion
deletes one replay cache key. Uploads, applications and analyses all write one
application. The assistant's draft is what the preview counts by and what
`createJob` checks. The terminal's output goes to the room by Socket.IO.

The hazards, each at its line with the properties that would catch it, are
`hazards` in `PROJECT.json`.

## 2. Modules

| Module | Models | Variables and the code's state |
|---|---|---|
| `Requests` | HTTP requests that run from await to await | `request` per slot what a handler has read and where it is |
| `InterviewSession` | one session document and the requests that write it | `doc`; `life` handlers between load and save (`base` loaded, `copy` edited); `exec` running executions; `clock` |
| `ExecutionLog` | what executing code promises, abstractly | implemented by `InterviewSession` (`Log`) |
| `SessionRecords` | numbering of events, checkpoints, snapshots | `counter`, `ready` Redis; `whiteboardSequence` |
| `ReplayCache` | cached manifests and frames, and the requests that complete the session or take that back | `cache` Redis; `reader`, `writer` handlers; `completed` the stored status, `timeline` |
| `Workspace` | files of a coding room, with checkpoints | `entry` the filesystem map; `content` the texts; `fileLock`; `captures` |
| `YjsRoom` | the two shared documents of a room, sockets, timers, handlers, MongoDB, crashes | `roomOf` the maps `roomDocs`, `whiteboardDocs`; `y` their entries; `creators` the locks; `stored`, `inflight` MongoDB; `replica` clients |
| `RoomLimits` | what is enforced after every update | texts, listed paths, whiteboard elements by size |
| `SocketEvents` | the events of a room | `rooms`, the rate, dedup and debounce maps, the timeline, `told` |
| `SharedTerminal` | terminals of the API and of the runner | `activeTerminals` the terminals in the API's map; `shell` the runner's sessions; calls and answers on their way |
| `CodeSandbox` | test runs | `process` the child, with what it has started; `workspaces` temporary directories |
| `LanguageServer` | language servers and the framing of their output | `socket`, `server`, `stdoutBuffer`; `written`, `taken` pieces of output; `received` messages sent on |
| `AiCascade` | providers, breakers, Gemini's models | `breaker`, `cooldown`, calls that go on after a time-out |
| `ResumePipeline` | one seeker's uploads, application, analyses | `upload`, the profile, the application, its analyses |
| `JobBoard` | the cached list of jobs | `jobs`, `kept` the cache, `reachable` Redis |
| `JobPosting` | form, assistant, preview | `draft`, `seeker` |
| `Conversations` | the messages of one application | `thread`, `announced` |
| `Invitations`, `Assessments`, `RecruiterLibrary` | the documents they are named for | `invites`; `evaluation`, `scorecard`; `item` |
| `RoleFit`, `InterviewSignals` | the scores, with the evidence that grows | `profile`, `rated`; `signals`, `evaluation` |
| `FocusSession`, `CompetitionLobby` | sessions with points and streak; one lobby | `session`, `user`; `lobby`; `req` the handlers |
| `…Proofs` | theorems: rooms (`YjsRoom`), archive, hiring, resume, services and platform after the parts of the runs they prove for every instance | |
| `MC…` | instances for TLC; `MCSessions`, `MCArchive`, `MCHiring`, `MCPlatform`, `MCServices` hold several parts | `part` |

Conventions:

- What a handler does between two awaits that matter is one action. An error
  response that changes nothing is the absence of the action, or frees the slot.
- A save writes the fields in which the copy differs from what was loaded;
  array elements go by index.
- Every handler whose awaited calls can fail has a `Fail…` action; where an error
  is swallowed, the failure is the step that writes nothing.
- History variables (marked so where they are declared) are read by no guard;
  they let a property say "until two requests overlap …" of the whole model
  instead of restricting the model.
- Data is abstracted: an edit of a Yjs document is a set element and merging is
  union; a result or a rating is the number of the request it came from; a text
  is the set of terms found in it; grades are integers in hundredths.
- Parts that share no state are checked in one run: the first state says which part
  a behaviour is about, and the others stand still. It only saves TLC from
  interleaving what cannot interact.

Some places where the shape of a module is not obvious:

- `YjsRoom`: `GetOrCreate` is the coordinator's function up to its first await,
  `FinishCreate` the rest, with everybody who waited for the lock. A message or a
  close that comes before the listeners are attached is dropped, because the
  code awaits the document first. The shutdown handler flushes nothing, so a
  restart is a `Crash`. `CollectRoom` asks, as the code does, only that the
  room's own timer is armed and no socket is there: a handler may hold the document,
  its edit may wait for a persist timer, which the collection cancels, and its
  write may be in flight. The history variable `cut` names the documents that were
  collected like that, and the handler goes on with a Y.Doc that nobody else
  can reach. Timing is used in two guards: a write issued by the debounce is over
  before the debounce fires again (3 s), and what was scheduled or sent before the
  last socket left is over before the room is collected (30 min); `touched` says
  that a handler has used the document since, and then nothing is assumed.
- `ReplayCache`: completion is not permanent. A status or stage request saves the
  copy it loaded, so a COMPLETED session can become LIVE again
  (`interview.controller.js:633`, `:717`), after which a reader caches it as such.
  Every entry carries the number of events at the completion its reader saw.
- `SharedTerminal`: a call, its execution by the runner and the handling of its
  answer are three steps. Polls do not wait for each other, so answers overtake
  each other; any of the three may fail.
- `CodeSandbox`: whatever the command or a compiler has started (`g++` runs `cc1plus`,
  a candidate's program may fork) shares its output; SIGKILL reaches the command
  alone, and `close` waits for the rest, in any language.
- `LanguageServer`: a message is three pieces, and the output may be cut between any
  two. A header without a Content-Length throws away the whole buffer, whatever
  else is in it.
- `RoleFit` and `InterviewSignals` write the scores as the code computes them, in
  tenths of a point, on profiles and observations that cover every branch.
- `Workspace`: a path without an entry has a text too, as `getText` gives
  one for any name; `stray` remembers what was typed there.

## 3. Runs

| Run | Bounds | Shows |
|---|---|---|
| Sessions | 2 writers of all 4 endpoints and 3 instants, or 3 executions with 2 stale recorders | status and dates agree however saves interleave; until two requests overlap, stage and status agree and only an evaluation leaves a terminal status; executions implement `ExecutionLog` |
| RoomRestarts | 1 client, 2 handlers, 2 edits, 2 documents ever, every fault | one document per room that contains what is stored, and unsaved work is scheduled, unless a load or write failed or the document was collected while in use |
| RoomLive | 2 clients, 2 edits, crashes, fairness | an edit of a client that stays connected reaches MongoDB; an unused room is due for collection |
| Archive | 2 requests at a time; 2 records of each kind, 3 events; 2 readers, 2 writers, 2 keys, 1 event; 4 workspace requests on 3 paths, 2 edits, 1 checkpoint | numbers unique (checkpoints until two overlap, events while Redis stays); events find their records; replays are of the session as it is; no work lost or misplaced |
| Hiring | 2 slots, 4 requests, 2 files; 2 pages; 2 invitees; 2 evaluators; 1 block and 1 note | the record of an upload tells what happened and is settled; score and analysis belong together and to the profile; the kept list is current; a message marked as read was shown, and the latest unread one counted; rotation is final; answered ratings stand; no count lost |
| Platform | 2 slots; 2 focus sessions, 3 ticks; host and 1 player; 2 seekers of 4 resumes; 3 jobs, 2 profiles, 3 additions; 6 observations, 4 requests; 3 users, limits 1, 1, 2 | rewards are of completed sessions and add up; the lobby is sound; the preview counts who could apply; what nobody mentioned stays in the draft; adding to a resume, or positive evidence, never lowers a score; timeline and room agree; only the latest request is hinted; the limits hold and take no more than needed |
| Services | 2 slots, 2 requests; 1 room, runner limit 1, 2 chunks, 2 polls; 2 Gemini models; compiled and interpreted languages, test lists of 0 and 3 with the cap at 2; 1 socket, 2 replies of 3 pieces and one malformed header | output shown once, and a dead terminal forgotten; shells accounted for; cascade tries all in order and answers; verdicts are true, and runs end unless what they started holds on; replies arrive unless a malformed header came |
| SessionStaleTerminal *(violation)* | 2 writers | overlapping requests take a COMPLETED session back |
| RoomSharedTimer *(violation)* | 1 client of each document | the two documents of a room share a timer, and an edit of the code is never written |
| RoomBroadcast *(violation)* | 2 clients | an edit is echoed to its author instead of the other client |
| FocusDoubleComplete *(violation)* | 2 requests | two overlapping completions are both paid |
| AssistantKeepsCriteria *(violation)* | 1 assistant request | the local rules wipe criteria nobody mentioned |

Why the bounds are enough to be of use: a lost update, a double reward or a stale
save needs two handlers and one document, so every module has two slots; the third
and fourth request set up what the two race for, or look at it afterwards. An order
of answers needs three executions. A room needs two clients for broadcasts
(RoomLive, RoomBroadcast); to be one and whole through collections it needs a socket
that leaves it empty and two handlers, one that still holds the document of before
and one that works on the next, two documents for collection and creation again, and
two edits for one that is stored before the other. A replay needs a reader on each
side of the completion, an evaluation and a request that takes it back, and the key
that is deleted beside one that is not; one event tells before from after. Limits
are at one or two, so that both sides of each are reached. Profiles, jobs and
observations have one value per branch of the scoring. Every bound is a constant
named where it is declared, or a named conjunct of the MC module (`OneAtATime`,
`Three`, `FewEvents`, `OneSlot`, `OneFails`). Deadlock is not checked: counters run
out, and the environment owes no further request.

Fairness, all weak, and only where an event loop guarantees it. RoomLive:
awaited calls return, timers fire, an open socket delivers. Hiring: an upload
goes on or one of its calls fails. Services: polls are sent, executed and
handled; a question is refused, put, abandoned at the breaker's time limit or
falls back; a child process's `close` and time limit are handled; output of a
language server is read. Nobody is obliged to edit, connect, leave, ask, crash
or repair anything, a program is not obliged to end, and a provider not to answer.

## 4. Findings

Five places where the code does something else than its comments or tests say;
each is a run marked *violation* above and an entry of `findings`.

Other things met while modelling, which the properties allow for by name or
leave open:

- *Interview.* An evaluation completes a CANCELLED session
  (`interview.controller.js:573`; the table at `InterviewSession.js:197` calls it
  terminal). An evaluation may be stored and the save of the session fail: it stays
  uncompleted.
- *Invitations.* An accepted invitation can be accepted again, and rotation does not
  revoke it; one that expires or is revoked while it is being accepted is accepted
  from the copy; two created at once both stay open.
- *Records.* A timeline event's number falls back to the highest stored plus one
  without Redis (`TimelineEvent.js:76`), and repeats; two overlapping checkpoints
  take one number (`checkpointService.js:83`).
- *Rooms.* A workspace whose load failed, or one created again before its first
  write landed, gets a second default file, and the next write replaces what was
  stored. Collection looks at no handler (`yjsCoordinator.js:446`): it cancels the
  persist timer a handler's edit has set, so an edit whose handler fails before its
  flush is lost, and the flush of a collected document may replace what a newer one
  has stored. A first sync message is dropped while the server awaits the document,
  and a socket that closes then never leaves. The whiteboard's size limit uses a
  size that is stale once elements went for their count (`yjsCoordinator.js:166`):
  more go than needed when one is too large. Texts no handler has opened escape the
  100 KB limit.
- *Replay.* `replay.controller.js:8` says the manifest is dropped whenever the
  session "completes/changes"; only an evaluation drops it, and only the one under
  the `_id`. Status and stage requests drop nothing, so the manifest of before, or
  of a completion that a stale save has taken back, is served until it expires (300
  s).
- *Workspace.* `createDirectory` covers a file, whose text stays but is left out of
  checkpoints. Text typed at a path without an entry is wiped when a file is created
  there. Deleting or renaming a directory leaves what is below it.
- *Terminals.* Two opens at once create two shells, the limit of the runner is
  exceeded by overlapping requests, the last output before an exit is lost, and two
  inputs may reach the shell in the other order.
- *Sandbox.* The "bounded worst case (~250s) regardless of caller" of
  `sandboxService.js:409` holds for what the kill reaches: a process that the
  command has started keeps the output, and the request waits for it however long,
  in any language; compilation adds up to 5 s to each test. An overflow is reported
  as a time-out; an empty test list has all tests passed, and tests beyond the
  fiftieth are not run. A language server that exits (unlike one that fails to
  start) leaves neither server nor fallback, and one that prints a header without a
  Content-Length loses all messages that are buffered with it (`lspGateway.js:164`).
- *AI.* The chain of Gemini models goes on after the breaker gave up; Ollama's own
  limit (30 s) is beyond the breaker's (15 s). The raw answer is merged, so "8.5/10"
  becomes 0. A generated draft counts as ready with a description that `createJob`
  refuses as too short.
- *Hiring.* A page of jobs is cached under one key whatever its number. Overlapping
  rescorings can leave the score of one analysis beside a reference to another. The
  preview leaves out second-tier seekers that `getAtsEligibility` accepts
  (`jobLogic.js:312`). Experience of profiles from the pipeline counts as 0 years,
  and the duration of a role counts as a quantified result.
- *Socket events.* The limit of a session's signals is 300; signals are counted
  before the sender is known to be a participant; an integrity event is relayed
  without a record when the lookup fails; a focus event whose write failed is still
  taken for seen; `leave_interview` leaves the socket in the interviewers' channel.

## 5. Proofs

Every safety invariant and every action property that a passing run checks is
proved, for every number of requests, clients, records, documents and data.

| Module | Theorem | States, with section 3's words |
|---|---|---|
| `InterviewSessionProofs` | `TypeCorrect`, `TimestampsHold`, `GuardsHold` | types; status and dates; guards on the copies |
| | `NewestResultStored`, `SequencesUnique`, `NothingLost` | the executions |
| | `ImplementsLog` | `Spec => Log!Spec`, the refinement |
| | `StageAgrees`, `EndFollowsStart`, `StartStays`, `FinalStaysFinal` | over every sequence of requests that do not overlap |
| `SessionRecordsProofs` | `RecordsTyped`, `SnapshotsUnique`, `CheckpointsUnique`, `EventsUnique`, `RecordsFound`, `RecordNumbersHold` | numbers and events of the records |
| `YjsRoomProofs` | `RoomsStayWhole` | one document per room that contains what is stored, collections under a handler's feet exempt by name |
| | `UnsavedStaysScheduled`, `UnusedStaysScheduled` | under a hypothesis each, below |
| `ArchiveProofs` | `ReplaysStayFaithful`, `WorkStaysKept`, `TimelineStaysTrue`, `LatestStaysHinted` | replay caches; the workspace with its checkpoints; the events of a room |
| `HiringProofs` | `LibraryLosesNothing`, `RotationStaysFinal`, `ListStaysCurrent` | a library entry, an invitation, the list of jobs |
| | `UnreadStaysTruthful`, `AssessmentsStand` | messages; evaluations and the scorecard |
| | `MergeStaysSafe`, `PreviewStaysRight` | the draft of a job; the preview of the pool |
| `ResumeProofs` | `OutcomeIsTold`, `ScoreStaysOfLatest`, `AnalysisStaysOfProfile` | uploads, applications and analyses |
| `ServicesProofs` | `VerdictsTellTheTruth`, `CascadeStaysExhaustive`, `ShellsStayAccounted`, `RoomKeepsSeeing` | sandbox, AI gateway, terminals |
| `PlatformProofs` | `RewardsStaySound`, `RewardsStayFair`, `LobbyStaysSound`, `LimitsStayTight` | focus sessions, lobby, limits of a room's documents |
| | `ImprovementStaysGood`, `SignalsStayFair` | resume scores and interview ratings never drop on an addition |

### What is assumed

The assumptions on the constants are those named in the modules, which TLC
evaluates on every run. Most type a constant. Those that say more:

- `SlotsAssumption`: finitely many requests are under way at a time. Terminals and
  focus events are counted by them.
- `RoomAssumption`, `ReplayAssumption`, `AssessmentAssumption`,
  `WorkspaceAssumption`, `EventAssumption`: kinds of callers, keys, users and
  paths are apart.
- `LobbyAssumption`, `LimitAssumption`, `SandboxAssumption`, `PostingAssumption`,
  `FocusAssumption`: points, sizes, lists and years are what the schemas and the
  literals of the code admit, and sessions and seekers are finitely many; the
  limits themselves may be any.
- `RoleFitAssumption`: a profile and a job list finitely many things, a role ends no
  earlier than it begins (the code takes the minimum and the maximum of the
  years it finds) and weights are positive (`req.weight || 3`).
- `SignalAssumption`: no negative numbers of tests, lines or loops.

Two theorems about rooms have a hypothesis that is part of what they say:

- `UnsavedStaysScheduled` is for a room of which one document is used
  (`OneChannel`). With both in use it is false, and the run RoomSharedTimer shows
  it: the documents share the timer map.
- `UnusedStaysScheduled` is for rooms that only sockets open and whose sockets close
  in sight of the server (`SocketsOnly`): an entry created by a handler has no
  collection timer until a socket leaves it, and a socket that closes before
  its listeners are attached stays among the clients.

### Why the invariants hold

None of the invariants is inductive alone; the strengthened one is named `…Inv` in
each module and stands before its proof. In short:

- *Session dates* (`LifeInv`). Of every request in progress, base and copy are dated
  as their status says, what it saves is the loaded date or a set one, and stored
  dates never go back to unset: merging a stale copy, which may take the status of
  one and the date of the other, still leaves a dated document.
- *Executions* (`ExecInv`). The copies of all handlers agree with their bases on
  counter and result, so no save touches them; running numbers are distinct, at most
  the counter and not recorded. In the refinement saves are stutters.
- *Serial requests* (`SerialInv`). While nobody has overlapped, at most one request
  is in progress, its base has the life cycle of the document, and its copy is
  *orderly* and *follows* from its base.
- *Records* need one invariant per way of numbering. A number taken has been counted
  and is in no other hands (`SnapshotInv`, `EventInv`); the checkpoint in creation
  is above all stored until two overlap (`CheckpointInv`, with `HighestBounds` from
  the well-foundedness of the naturals); a request that goes on to its event has
  stored its record (`RecordInv`).
- *Rooms* (`RoomInv`). One creator per document and only while none is published
  (`LockInv`); every creation under way has a document left to use (`BudgetInv`);
  entries, timers and writes belong to the published one (`EntryInv`), and so does
  every socket, even one the server has lost (`WiredInv`); a handler's does too
  until its document is cut. The published document contains what is stored and what
  it is writing (`ExtendsInv`). For the unsaved edits (`SaveInv`) it is told apart
  from the collected ones (`LiveSaved`, `DeadSaved`): what those held is stored, and
  in whatever is being written over it. An edit changes every entry in a way that
  `Grown` sums up, so that the handlers, sockets and timers need the same few facts.
- *Replays* (`ReplayInv`). Whoever holds the session as completed read the timeline
  after the completion that it saw, whatever has been saved since
  (`HeldReplaysFaithful`); while an evaluated session stays completed, all who hold
  the manifest hold it as completed or have crossed the deletion
  (`ManifestReadersAgree`). A save that takes the completion back ends that promise,
  and the next deletion begins a new one.
- *Workspace* (`WorkInv`). No text, checkpoint or answer under way has an edit that
  was not made yet, so a new edit is in one place, and moving texts keeps them
  apart.
- *Events* (`TimelineInv`). For each focus event, records and requests that may yet
  record it are at most the times it was forgotten, plus one while it is remembered.
  *Hints* (`HintsInv`): a running timer has the last number of its user, which
  nobody is answering.
- *Library* (`LibraryInv`). A save writes the text only, so the count of the copy
  does not matter; a document not yet created was never used.
- *Invitations* (`RotationInv`). What a request has revoked or found used is settled
  before it creates the one that knows of it, and `SaveKeeps` shows that the save of
  a stale copy turns neither flag back.
- *Job list* (`ListInv`). A list is of its page as of the count it was read at; that
  count is current, or the list is marked as read before a creation or as missed by
  a deletion.
- *Messages* (`ConversationInv`). An overview under way knows no message that is not
  there; an opening marks only messages that it will answer with.
- *Assessments* (`AssessmentInv`). Writes under way have distinct numbers, none of
  them answered, and each began after all it will replace, so no upsert, duplicate
  key or retry brings back the rating of a replaced one.
- *Preview* (`PostingInv`). The first count is of the pool as it was read, and the
  others are too while the pool stays; each count drops one clause of the query,
  whose equivalence to `getAtsEligibility` is proved seeker by seeker.
- *Uploads* (`OutcomeInv`). How far a request is says what it has done
  (`StageTells`), and only one works on a file. *Scores* (`ScoreInv`). A copy of the
  version that is stored has its score; an analysis is of the profile, or an upload
  under way will replace it.
- *Sandbox, cascade* (`SandboxInv`, `CascadeInv`). A request waits exactly while it
  has a child process; what was tried is a prefix of the chain, none of it accepted.
- *Terminals* (`ShellsInv`, `OutputInv`). Live and admitted shells are at most the
  limit plus the other slots; a chunk is shown, waiting, in an answer or cut off, in
  one of these only. What a failed call may lose is in `failed`, left out by name.
- *Focus* (`FocusInv`). Points are the sum over all sessions of worth times rewards.
- *Lobby* (`ScoresInv`, `GameInv`). The players of a copy are the first of the
  stored ones, by index, and a copy changes the score of its user alone; a user who
  waits for each answer is in one request only, whose base has the stored score.
- *Limits* (`LimitsInv`). What stays of a whiteboard is an end of what was selected,
  the longest for the count and for the size the code looks at; sums are compared
  through their prefixes.
- *Resume scores* (`RatingInv`). The lengths of the merged ranges add up to the
  number of years that lie in any range, for ranges in the order of their first
  years; a set of years can only grow with a role. The rest are sums over growing
  sets of non-negative terms, and quotients, minima and roundings that keep the
  order.
- *Interview ratings* (`SignalsInv`). Every pillar is monotone in the positive
  signals; without a new negative one the gates and caps stay as they were.

Sums, selections and merged ranges are recursive functions of the model. Their
lemmas are by induction on the naturals or on a smallest counterexample among
the subsets of a finite set (`WFMin`), for which the table of partial sums is
first shown to exist (`PartialSums`).

### What is only model-checked

- Liveness (`EditsReachStore`, `UploadsSettle`, `DeadTerminalIsForgotten`,
  `QuestionIsAnswered`, `TestRunsEnd`, `RepliesArrive`): the proof system has
  no rule for fairness and `ENABLED` here. The language server has no other property.
- The five violations, which need a counterexample and not a proof. All of them
  are small; `RewardsStayFair` and `FinalStaysFinal` prove two of the refuted
  claims for requests that do not overlap, `UnsavedStaysScheduled` one for
  rooms with one document.

## 6. What could come next

To be modelled: restoring a whiteboard snapshot, the paged timeline and the study
plan's read-and-replace of its list. To be proved: refinements for rooms and
terminals, whose promise (a set of edits, a sequence of chunks) is stated by
invariants so far.

## 7. Not modelled

- Routing, request validation, authentication, roles, tenancy and paging keep no
  state that these properties tell apart: what they let through is the input of the
  actions.
- *Search and ranking* (`modules/search`, `rag.service.js`): floating-point scores
  over text, recomputed for each query.
- *Integrity* (`modules/integrity`): telemetry is one insert per request; similarity
  is arithmetic on token sets.
- *Study progress*: a catalogue and text generation; its one write replaces the
  whole list.
- *Rate limiting*: rate-limiter-flexible's own counters; the code only switches to
  the one in memory, from zero, when Redis is lost.
- *Workflows*: nothing in the repository starts the Temporal workflow or fills the
  queue; the controllers call the processor directly.
- *Dashboards, health, reports*: read-only aggregation. *Scripts and seed data* run
  outside the program.
- In modelled parts: WebRTC tokens, awareness, wording, prompts, metrics; clients
  that change the filesystem map without the server; languages other than the active
  one of a workspace; the moment of a checkpoint's state vector, which is taken
  after its files.
- Yjs's conflict resolution, MongoDB, Redis, Socket.IO, the operating system and the
  AI providers are external and modelled by what the code expects of them.
