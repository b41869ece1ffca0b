---------------------------- MODULE ResumePipeline ----------------------------
(***************************************************************************)
(* One seeker's resume on its way through the system: an uploaded file is  *)
(* recorded, stored, read, parsed by an AI provider, and written into the  *)
(* profile (resume.controller.js, resume.processor.js); the seeker's       *)
(* application to a job is then scored again.  The same application is     *)
(* created, moved by the recruiter, and analysed on demand                 *)
(* (application.controller.js, ats.controller.js).  Every await is a step; *)
(* the failures the code swallows are steps that write nothing.            *)
(***************************************************************************)
EXTENDS Requests

CONSTANTS
    Files,        \* the files the seeker uploads, told apart by their SHA-256
    Score         \* what scoreRoleFit says of a profile for the job

Edited == "edited"
Sources == Files \cup {None, Edited}

ASSUME ResumeAssumption ==
    /\ Files \cap {None, Edited} = {}
    /\ Score \in [Sources -> Nat]

VARIABLES
    upload,       \* per file: the state of its ResumeUpload record
    user,         \* per part of the profile: where it was taken from
    application,  \* the seeker's application
    analyses,     \* the sources of the AtsAnalysis records, oldest first
    persisted,    \* history: files that were written into the profile
    rescored,     \* history: files under which the application was found
    hurt,         \* history: files one of whose awaited calls failed
    crossed       \* history: two requests wrote over each other's reading

pipelineHistory == <<persisted, rescored, hurt, crossed>>
resumeRecords == <<upload, user, application, analyses>>
pipelineVars == <<resumeRecords, request, count, pipelineHistory>>
-----------------------------------------------------------------------------
Final == {"completed", "failed"}

\* latest = 0 is the null of latestAtsAnalysis; version counts the writes.
NoApplication == [exists |-> FALSE, status |-> "applied", score |-> 0,
                  latest |-> 0, version |-> 0]

Reading == [op |-> "idle", pc |-> "idle", file |-> None, source |-> None,
            copy |-> NoApplication]

PipelineInit ==
    /\ upload = [f \in Files |-> None]
    /\ user = [text |-> None, profile |-> None, health |-> None]
    /\ application = NoApplication
    /\ analyses = <<>>
    /\ NoRequests
    /\ persisted = {}
    /\ rescored = {}
    /\ hurt = {}
    /\ crossed = FALSE

\* Mutant: the duplicate is looked up by the client before it uploads.
InsertsAlways(f) == TRUE

\* The unique index on {sha256, userId}.
Inserts(f) == upload[f] = None

\* A new record, or 409 for a file that was uploaded before, in any state.
BeginUpload(s, f) ==
    /\ IF Inserts(f)
       THEN /\ Accept(s, [Reading EXCEPT !.op = "upload", !.pc = "recorded",
                                      !.file = f])
            /\ upload' = [upload EXCEPT ![f] = "scanning"]
       ELSE /\ Accept(s, Idle)
            /\ UNCHANGED upload
    /\ UNCHANGED <<user, application, analyses, pipelineHistory>>

\* uploadFileBuffer: the job carries the key of the object, or, when S3 fails,
\* the bytes themselves.
StoreFile(s) ==
    /\ At(s, "upload", "recorded")
    /\ GoTo(s, "stored")
    /\ UNCHANGED <<upload, user, application, analyses, pipelineHistory>>

\* An update of the record whose failure is swallowed.
Record(f, state) ==
    /\ \/ upload' = [upload EXCEPT ![f] = state] /\ UNCHANGED hurt
       \/ hurt' = hurt \cup {f} /\ UNCHANGED upload
    /\ UNCHANGED <<user, application, analyses, persisted, rescored,
                   crossed>>

Mark(s, from, state, to) ==
    At(s, "upload", from) /\ GoTo(s, to) /\ Record(request[s].file, state)

MarkExtracting(s) == Mark(s, "stored", "text_extracting", "fetching")

\* The bytes are fetched and parsed.  What is not there, encrypted, or without
\* readable text is refused.
ExtractText(s) ==
    /\ At(s, "upload", "fetching")
    /\ \E read \in {"readable", "refused"} : GoTo(s, read)
    /\ UNCHANGED <<upload, user, application, analyses, pipelineHistory>>

\* The last update, before the answer.
Close(s, from, state) ==
    At(s, "upload", from) /\ Respond(s) /\ Record(request[s].file, state)

\* A file that is refused: its record is closed, the answer is 400.
RefuseFile(s) == Close(s, "refused", "failed")

MarkParsing(s) == Mark(s, "readable", "profile_extracting", "parsing")

\* aiService.parseResume answers; that it throws is FailUpload.
ParseResume(s) ==
    /\ At(s, "upload", "parsing")
    /\ GoTo(s, "parsed")
    /\ UNCHANGED <<upload, user, application, analyses, pipelineHistory>>

MarkAnalyzing(s) == Mark(s, "parsed", "health_analyzing", "persisting")

Rescoring == {"saved", "found", "created"}

\* findByIdAndUpdate writes text, profile and health together.
PersistProfile(s) ==
    LET f == request[s].file
    IN  /\ At(s, "upload", "persisting")
        /\ GoTo(s, "saved")
        /\ user' = [text |-> f, profile |-> f, health |-> f]
        /\ persisted' = persisted \cup {f}
        /\ crossed' = (crossed \/ \E t \in Slots \ {s} :
                                     request[t].pc \in Rescoring)
        /\ UNCHANGED <<upload, application, analyses, rescored, hurt>>

\* Application.find: no application is nothing to score.
FindApplication(s) ==
    /\ At(s, "upload", "saved")
    /\ IF application.exists
       THEN /\ Hold(s, [request[s] EXCEPT !.pc = "found", !.copy = application])
            /\ rescored' = rescored \cup {request[s].file}
       ELSE /\ GoTo(s, "rescored")
            /\ UNCHANGED rescored
    /\ UNCHANGED <<upload, user, application, analyses, persisted, hurt,
                   crossed>>

\* AtsAnalysis.create, outside any transaction.
CreateAnalysis(s) ==
    /\ At(s, "upload", "found")
    /\ GoTo(s, "created")
    /\ analyses' = Append(analyses, request[s].file)
    /\ UNCHANGED <<upload, user, application, pipelineHistory>>

\* Mutant: the refreshed application keeps its score.
WithAnalysisUnscored(copy, score, latest) ==
    [application EXCEPT !.latest = latest, !.version = @ + 1]

\* save() writes the paths that differ from the copy: the new reference, and
\* the score if it is another one than the copy's.
WithAnalysis(copy, score, latest) ==
    [application EXCEPT !.score = IF score = copy.score THEN @ ELSE score,
                        !.latest = latest, !.version = @ + 1]

Stale(copy) == copy.version # application.version

\* The last one created by this request: analyses are never removed.
OwnAnalysis(f) ==
    CHOOSE i \in DOMAIN analyses :
      analyses[i] = f /\ \A j \in DOMAIN analyses : analyses[j] = f => j <= i

SaveRescored(s) ==
    LET q == request[s]
    IN  /\ At(s, "upload", "created")
        /\ GoTo(s, "rescored")
        /\ application' = WithAnalysis(q.copy, Score[q.file], OwnAnalysis(q.file))
        /\ crossed' = (crossed \/ Stale(q.copy))
        /\ UNCHANGED <<upload, user, analyses, persisted, rescored, hurt>>

\* An error of one application's refresh is caught, the pipeline goes on.
FailRescoring(s) ==
    /\ request[s].op = "upload" /\ request[s].pc \in {"found", "created"}
    /\ GoTo(s, "rescored")
    /\ hurt' = hurt \cup {request[s].file}
    /\ UNCHANGED <<upload, user, application, analyses, persisted,
                   rescored, crossed>>

\* Mutant: the end of the pipeline is only announced to the client.
CompleteUploadUnstored(s) == Close(s, "rescored", "health_analyzing")

\* The record is completed; the event to the client and the answer follow.
CompleteUpload(s) == Close(s, "rescored", "completed")

\* An awaited call throws where nothing catches it: 500, and the record stays
\* as it is.
FailUpload(s) ==
    /\ request[s].op = "upload"
    /\ request[s].pc \in {"parsing", "persisting", "saved"}
    /\ Respond(s)
    /\ hurt' = hurt \cup {request[s].file}
    /\ UNCHANGED <<upload, user, application, analyses, persisted,
                   rescored, crossed>>

UploadStep(s) ==
    \/ StoreFile(s) \/ MarkExtracting(s) \/ ExtractText(s) \/ RefuseFile(s)
    \/ MarkParsing(s) \/ ParseResume(s) \/ MarkAnalyzing(s) \/ PersistProfile(s)
    \/ FindApplication(s) \/ CreateAnalysis(s) \/ SaveRescored(s)
    \/ CompleteUpload(s)
-----------------------------------------------------------------------------
\* updateResumeProfile: one write of profile and health, no new score.
UpdateResumeProfile ==
    /\ Answer
    /\ user' = [user EXCEPT !.profile = Edited, !.health = Edited]
    /\ UNCHANGED <<upload, application, analyses, pipelineHistory>>

\* applyToJob works on the user the authentication loaded.
BeginApply(s) ==
    /\ user.text # None
    /\ Accept(s, [Reading EXCEPT !.op = "apply", !.pc = "scored",
                              !.source = user.text])
    /\ UNCHANGED <<upload, user, application, analyses, pipelineHistory>>

\* Application.create under the unique index on {job, seeker}.
FinishApply(s) ==
    /\ At(s, "apply", "scored")
    /\ Respond(s)
    /\ IF application.exists
       THEN UNCHANGED application
       ELSE application' = [NoApplication EXCEPT !.exists = TRUE,
                              !.score = Score[request[s].source], !.version = 1]
    /\ UNCHANGED <<upload, user, analyses, pipelineHistory>>

BeginStatus(s) ==
    /\ application.exists
    /\ Accept(s, [Reading EXCEPT !.op = "status", !.pc = "copied",
                              !.copy = application])
    /\ UNCHANGED <<upload, user, application, analyses, pipelineHistory>>

\* updateApplicationStatus saves the status only, and only a new one.
SaveStatus(s) ==
    /\ At(s, "status", "copied")
    /\ Respond(s)
    /\ \E status \in {"shortlisted", "rejected"} :
         application' = IF status = request[s].copy.status THEN application
                        ELSE [application EXCEPT !.status = status,
                                                 !.version = @ + 1]
    /\ UNCHANGED <<upload, user, analyses, pipelineHistory>>
-----------------------------------------------------------------------------
\* getApplicationAnalysis: an analysis that is there is the answer.
BeginAnalysis(s) ==
    /\ application.exists
    /\ Accept(s, IF application.latest # 0 THEN Idle
                 ELSE [Reading EXCEPT !.op = "analysis", !.pc = "copied",
                                   !.copy = application])
    /\ UNCHANGED <<upload, user, application, analyses, pipelineHistory>>

\* The profile, or one made up from the seeker's other fields.
ReadSeeker(s) ==
    /\ At(s, "analysis", "copied")
    /\ Hold(s, [request[s] EXCEPT !.pc = "read", !.source = user.profile])
    /\ UNCHANGED <<upload, user, application, analyses, pipelineHistory>>

\* The transaction's snapshot is taken with its first operation.
OpenTransaction(s) ==
    /\ At(s, "analysis", "read")
    /\ Hold(s, [request[s] EXCEPT !.pc = "open",
                                  !.copy.version = application.version])
    /\ crossed' = (crossed \/ Stale(request[s].copy))
    /\ UNCHANGED <<upload, user, application, analyses, persisted,
                   rescored, hurt>>

\* Mutant: the analysis and the application are written without transaction.
ConflictsNever(copy) == FALSE

\* The application was written since the snapshot: the transaction aborts.
Conflicts(copy) == Stale(copy)

\* The new analysis and the application's reference to it, or neither.
Commit(s) ==
    LET q == request[s]
    IN  /\ At(s, "analysis", "open")
        /\ Respond(s)
        /\ IF Conflicts(q.copy)
           THEN UNCHANGED <<application, analyses>>
           ELSE /\ analyses' = Append(analyses, q.source)
                /\ application' = WithAnalysis(q.copy, Score[q.source],
                                               Len(analyses) + 1)
        /\ UNCHANGED <<upload, user, pipelineHistory>>

\* Any other request ends before its write.
FailRequest(s) ==
    /\ request[s].op \in {"apply", "status", "analysis"}
    /\ Respond(s)
    /\ UNCHANGED <<upload, user, application, analyses, pipelineHistory>>

PipelineNext ==
    \/ \E s \in Slots :
         \/ \E f \in Files : BeginUpload(s, f)
         \/ UploadStep(s) \/ FailRescoring(s) \/ FailUpload(s)
         \/ BeginApply(s) \/ FinishApply(s)
         \/ BeginStatus(s) \/ SaveStatus(s)
         \/ BeginAnalysis(s) \/ ReadSeeker(s) \/ OpenTransaction(s) \/ Commit(s)
         \/ FailRequest(s)
    \/ UpdateResumeProfile

PipelineSpec == PipelineInit /\ [][PipelineNext]_pipelineVars

\* Awaited calls of an upload return, by answering or by failing.
PipelineFairness ==
    \A s \in Slots :
      WF_pipelineVars(UploadStep(s) \/ FailRescoring(s) \/ FailUpload(s))

-----------------------------------------------------------------------------
Running(f) == {s \in Slots : request[s].op = "upload" /\ request[s].file = f}

\* A file goes through the pipeline once, however often it is sent: two
\* requests never work on one record, so its state is that of one pipeline.
\* What the record says at the end happened: a refused file changed nothing,
\* and a completed one is in the profile and, unless a call failed on the way,
\* in an analysis of the application that was found.
RecordTellsOutcome ==
    \A f \in Files :
      /\ \A s, t \in Running(f) : s = t
      /\ upload[f] = "failed" => f \notin persisted
      /\ upload[f] = "completed" =>
           /\ f \in persisted
           /\ f \in rescored \ hurt => \E i \in DOMAIN analyses : analyses[i] = f

\* The score of an application is the one of the analysis it refers to, as
\* long as no request wrote over what another had read.
ScoreIsOfLatest ==
    application.latest # 0 /\ ~crossed =>
      application.score = Score[analyses[application.latest]]

\* Once everything has come to rest, the application's analysis is of the
\* profile, unless the profile was edited, which scores nothing again, a call
\* failed, or two requests crossed.
AnalysisFollowsProfile ==
    (/\ \A s \in Slots : request[s] = Idle
     /\ application.latest # 0
     /\ user.profile \in Files
     /\ hurt = {}
     /\ ~crossed) => analyses[application.latest] = user.profile

\* An upload ends in a final state, or one of its calls failed.  A file that
\* is left behind by a failure is refused as a duplicate from then on.
UploadsSettle ==
    \A f \in Files :
      upload[f] = "scanning" ~> (upload[f] \in Final \/ f \in hurt)
=============================================================================
