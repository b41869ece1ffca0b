----------------------------- MODULE ResumeProofs -----------------------------
(***************************************************************************)
(* The resume pipeline, proved for any number of files, requests and       *)
(* analyses, and for every scoring of a profile: what the record of an     *)
(* upload says happened, the application's score is of the analysis it     *)
(* refers to, and that analysis is of the profile.                         *)
(***************************************************************************)
EXTENDS ResumePipeline, SequenceTheorems, TLAPS

\* A file before and after it is in the profile.
Before == {"recorded", "stored", "fetching", "refused", "readable", "parsing",
           "parsed", "persisting"}
After == {"saved", "found", "created", "rescored"}
Open == {"scanning", "text_extracting", "profile_extracting", "health_analyzing"}

Application == [exists : BOOLEAN, status : {"applied", "shortlisted", "rejected"},
                score : Nat, latest : Nat, version : Nat]
Upload == [op : {"upload"}, pc : Before \cup After, file : Files,
           source : {None}, copy : Application]
Other == [op : {"apply", "status", "analysis"}, file : {None}, source : Sources,
          pc : {"scored", "copied", "read", "open"}, copy : Application]

PipelineTyped ==
    /\ upload \in [Files -> {None} \cup Open \cup Final]
    /\ user \in [text : Sources, profile : Sources, health : Sources]
    /\ application \in Application
    /\ analyses \in Seq(Sources)
    /\ request \in [Slots -> {Idle} \cup Upload \cup Other]
    /\ crossed \in BOOLEAN

\* There is a last analysis of f.
Analysed(f) ==
    \E i \in DOMAIN analyses :
      analyses[i] = f /\ \A j \in DOMAIN analyses : analyses[j] = f => j <= i

\* One request works on a file whose record is open, and how far it is says
\* what is done.
StageTells(s, f) ==
    LET pc == request[s].pc
    IN  /\ upload[f] \in Open
        /\ pc \in Before => f \notin persisted
        /\ pc \in Before \cup {"saved"} => f \notin rescored
        /\ pc \in After => f \in persisted
        /\ pc = "created" => Analysed(f)
        /\ pc = "rescored" /\ f \in rescored \ hurt => Analysed(f)

UploadsHold ==
    \A f \in Files :
      /\ \A s, t \in Running(f) : s = t
      /\ \A s \in Running(f) : StageTells(s, f)
      /\ upload[f] = None => f \notin persisted \cup rescored
      /\ upload[f] = "failed" => f \notin persisted
      /\ upload[f] = "completed" =>
           f \in persisted /\ (f \in rescored \ hurt => Analysed(f))

OutcomeInv == PipelineTyped /\ UploadsHold

\* A request that holds a copy of the application, an upload that has yet to
\* bring the application up to the profile, an analysis of what it has read.
Holds(q) ==
    \/ q.op \in {"status", "analysis"}
    \/ q.op = "upload" /\ q.pc \in {"found", "created"}
Rescores(q) == q.op = "upload" /\ q.pc \in Rescoring
Reads(q) == q.op = "analysis" /\ q.pc \in {"read", "open"}

\* A copy of the version that is there has its score.
CopyHolds(q) ==
    /\ application.exists
    /\ q.copy.version <= application.version
    /\ q.copy.version = application.version /\ ~crossed =>
         q.copy.score = application.score

CopiesHold ==
    /\ ~application.exists => application.version = 0 /\ application.latest = 0
    /\ application.latest <= Len(analyses)
    /\ \A s \in Slots : Holds(request[s]) => CopyHolds(request[s])

\* The application's analysis, and any that could still be committed, is of the
\* profile, or the upload that wrote the profile will replace it.
Settled == user.profile \in Files /\ hurt = {} /\ ~crossed
Pending ==
    \E s \in Slots : Rescores(request[s]) /\ request[s].file = user.profile

FollowsHold ==
    /\ \A s \in Slots : Rescores(request[s]) /\ ~crossed =>
         user.profile \in {request[s].file, Edited}
    /\ application.latest # 0 /\ Settled =>
         analyses[application.latest] = user.profile \/ Pending
    /\ \A s \in Slots :
         Reads(request[s]) /\ request[s].copy.version = application.version
           /\ Settled => request[s].source = user.profile \/ Pending

ScoreInv == OutcomeInv /\ CopiesHold /\ ScoreIsOfLatest /\ FollowsHold
-----------------------------------------------------------------------------
LEMMA StatesApart ==
  /\ Before \cap After = {} /\ None \notin Open \cup Final /\ Open \cap Final = {}
  /\ None \notin Files /\ Edited \notin Files
  /\ None \in Sources /\ Edited \in Sources /\ Files \subseteq Sources
  /\ Idle.op = "idle" /\ Idle.pc = "idle"
  /\ NoApplication \in Application
  /\ \A p \in Sources : Score[p] \in Nat
  BY ResumeAssumption DEF Before, After, None, Edited, Open, Final, Sources, Idle,
     NoApplication, Application

\* Analyses are never taken away, and a new one of f is the last one of f.
LEMMA AppendAnalyses ==
  ASSUME analyses \in Seq(Sources), NEW p \in Sources, analyses' = Append(analyses, p)
  PROVE  /\ analyses' \in Seq(Sources) /\ Len(analyses') = Len(analyses) + 1
         /\ Len(analyses) \in Nat
         /\ DOMAIN analyses = 1 .. Len(analyses)
         /\ DOMAIN analyses' = 1 .. Len(analyses) + 1
         /\ \A i \in DOMAIN analyses : analyses'[i] = analyses[i]
         /\ analyses'[Len(analyses) + 1] = p
         /\ Analysed(p)'
         /\ \A f : Analysed(f) => Analysed(f)'
<1>1. /\ analyses' \in Seq(Sources) /\ Len(analyses') = Len(analyses) + 1
      /\ Len(analyses) \in Nat
      /\ DOMAIN analyses = 1 .. Len(analyses)
      /\ DOMAIN analyses' = 1 .. Len(analyses) + 1
      /\ \A i \in DOMAIN analyses : analyses'[i] = analyses[i]
      /\ analyses'[Len(analyses) + 1] = p
  BY AppendProperties
<1>2. \A j \in DOMAIN analyses' : j <= Len(analyses) + 1
  BY <1>1
<1>3. Analysed(p)'
  BY <1>1, <1>2 DEF Analysed
<1>4. ASSUME NEW f, Analysed(f), f # p PROVE Analysed(f)'
  <2>1. PICK i \in DOMAIN analyses :
          analyses[i] = f /\ \A j \in DOMAIN analyses : analyses[j] = f => j <= i
    BY <1>4 DEF Analysed
  <2>2. ASSUME NEW j \in DOMAIN analyses', analyses'[j] = f PROVE j <= i
    <3>1. j # Len(analyses) + 1
      BY <1>1, <1>4, <2>2
    <3>2. j \in DOMAIN analyses
      BY <1>1, <3>1
    <3> QED BY <1>1, <2>1, <2>2, <3>2
  <2> QED BY <1>1, <2>1, <2>2 DEF Analysed
<1> QED BY <1>1, <1>3, <1>4

LEMMA OutcomeStarts == PipelineInit => OutcomeInv
<1> SUFFICES ASSUME PipelineInit PROVE OutcomeInv
  OBVIOUS
<1>1. PipelineTyped
  BY StatesApart, EmptySeq DEF PipelineInit, NoRequests, PipelineTyped
<1>2. UploadsHold
  BY StatesApart DEF PipelineInit, NoRequests, UploadsHold, Running, Final, Open, None
<1> QED BY <1>1, <1>2 DEF OutcomeInv

\* A new request: one of a file whose record did not exist, or any other.
LEMMA BeginTells ==
  ASSUME OutcomeInv, NEW s \in Slots, request[s] = Idle,
         NEW q \in {Idle} \cup Upload \cup Other,
         request' = [request EXCEPT ![s] = q],
         UNCHANGED <<user, application, analyses, pipelineHistory>>,
         \/ q.op # "upload" /\ UNCHANGED upload
         \/ /\ q \in Upload /\ q.pc \in Before /\ upload[q.file] = None
            /\ upload' = [upload EXCEPT ![q.file] = "scanning"]
  PROVE  OutcomeInv'
<1>1. PipelineTyped'
  BY StatesApart DEF OutcomeInv, PipelineTyped, pipelineHistory, Upload, Open
<1>2. \A t \in Slots : request'[t] = IF t = s THEN q ELSE request[t]
  BY DEF OutcomeInv, PipelineTyped
<1>3. CASE q.op # "upload" /\ UNCHANGED upload
  <2>1. \A f \in Files : /\ Running(f)' = Running(f)
                         /\ \A t \in Running(f) : request'[t] = request[t]
    BY <1>2, <1>3, StatesApart DEF Running
  <2> QED BY <1>1, <1>3, <2>1 DEF OutcomeInv, UploadsHold, StageTells, Analysed,
                                  pipelineHistory
<1>4. CASE /\ q \in Upload /\ q.pc \in Before /\ upload[q.file] = None
           /\ upload' = [upload EXCEPT ![q.file] = "scanning"]
  <2>1. q.file \in Files /\ q.op = "upload"
    BY <1>4 DEF Upload
  <2>2. Running(q.file) = {}
    BY <1>4, <2>1, StatesApart DEF OutcomeInv, UploadsHold, StageTells
  <2>3. Running(q.file)' = {s}
    BY <1>2, <2>1, <2>2 DEF Running
  <2>4. \A f \in Files : f # q.file =>
          /\ Running(f)' = Running(f) /\ upload'[f] = upload[f]
          /\ \A t \in Running(f) : request'[t] = request[t]
    BY <1>2, <1>4, <2>1, StatesApart DEF Running, OutcomeInv, PipelineTyped
  <2>5. upload'[q.file] = "scanning" /\ q.file \notin persisted \cup rescored
    BY <1>4, <2>1 DEF OutcomeInv, PipelineTyped, UploadsHold
  <2>6. ASSUME NEW f \in Files
        PROVE  /\ \A x, t \in Running(f)' : x = t
               /\ \A t \in Running(f)' : StageTells(t, f)'
               /\ upload'[f] = None => f \notin persisted \cup rescored
               /\ upload'[f] = "failed" => f \notin persisted
               /\ upload'[f] = "completed" =>
                    f \in persisted /\ (f \in rescored \ hurt => Analysed(f))
    <3>1. CASE f = q.file
      <4>1. StageTells(s, f)'
        BY <1>2, <1>4, <2>5, <3>1 DEF StageTells, Before, After, Open, pipelineHistory
      <4> QED BY <2>3, <2>5, <3>1, <4>1 DEF None
    <3>2. CASE f # q.file
      BY <2>4, <3>2 DEF OutcomeInv, UploadsHold, StageTells, Analysed, pipelineHistory
    <3> QED BY <3>1, <3>2
  <2> QED BY <1>1, <2>6 DEF OutcomeInv, UploadsHold, Analysed, pipelineHistory
<1> QED BY <1>3, <1>4

\* A request that is no upload stops, or goes on as what it was.
LEMMA OtherTells ==
  ASSUME OutcomeInv, NEW s \in Slots, request[s].op # "upload",
         NEW q \in {Idle} \cup Other, request' = [request EXCEPT ![s] = q],
         UNCHANGED <<upload, user, persisted, rescored, hurt>>,
         application' \in Application, crossed' \in BOOLEAN,
         \/ UNCHANGED analyses
         \/ \E p \in Sources : analyses' = Append(analyses, p)
  PROVE  OutcomeInv'
<1>1. analyses' \in Seq(Sources) /\ \A f : Analysed(f) => Analysed(f)'
  <2>1. CASE UNCHANGED analyses
    BY <2>1 DEF Analysed, OutcomeInv, PipelineTyped
  <2>2. ASSUME NEW p \in Sources, analyses' = Append(analyses, p)
        PROVE  analyses' \in Seq(Sources) /\ \A f : Analysed(f) => Analysed(f)'
    BY <2>2, AppendAnalyses DEF OutcomeInv, PipelineTyped
  <2> QED BY <2>1, <2>2
<1>2. PipelineTyped'
  BY <1>1 DEF OutcomeInv, PipelineTyped
<1>3. \A t \in Slots : request'[t] = IF t = s THEN q ELSE request[t]
  BY DEF OutcomeInv, PipelineTyped
<1>4. q.op # "upload"
  BY StatesApart DEF Other
<1>5. \A f \in Files : /\ Running(f)' = Running(f)
                       /\ \A t \in Running(f) : request'[t] = request[t]
  BY <1>3, <1>4 DEF Running
<1>6. \A f \in Files : \A t \in Running(f) : StageTells(t, f) => StageTells(t, f)'
  BY <1>1, <1>5 DEF StageTells
<1>7. UploadsHold'
  BY <1>1, <1>5, <1>6 DEF OutcomeInv, UploadsHold
<1> QED BY <1>2, <1>7 DEF OutcomeInv

\* The request of an upload goes on, or ends: what it does is about its file.
LEMMA UploadTells ==
  ASSUME OutcomeInv, NEW s \in Slots, request[s].op = "upload",
         NEW q \in {Idle} \cup Upload, request' = [request EXCEPT ![s] = q],
         NEW f \in Files, f = request[s].file, q # Idle => q.file = f,
         NEW state \in Open \cup Final, upload' = [upload EXCEPT ![f] = state],
         application' \in Application, crossed' \in BOOLEAN,
         user' \in [text : Sources, profile : Sources, health : Sources],
         \/ UNCHANGED analyses
         \/ \E p \in Sources : analyses' = Append(analyses, p),
         persisted \subseteq persisted', persisted' \subseteq persisted \cup {f},
         rescored \subseteq rescored', rescored' \subseteq rescored \cup {f},
         hurt \subseteq hurt',
         q # Idle => StageTells(s, f)',
         state = "failed" => f \notin persisted',
         state = "completed" =>
           f \in persisted' /\ (f \in rescored' \ hurt' => Analysed(f)')
  PROVE  OutcomeInv'
<1>1. analyses' \in Seq(Sources) /\ \A x : Analysed(x) => Analysed(x)'
  <2>1. CASE UNCHANGED analyses
    BY <2>1 DEF Analysed, OutcomeInv, PipelineTyped
  <2>2. ASSUME NEW p \in Sources, analyses' = Append(analyses, p)
        PROVE  analyses' \in Seq(Sources) /\ \A x : Analysed(x) => Analysed(x)'
    BY <2>2, AppendAnalyses DEF OutcomeInv, PipelineTyped
  <2> QED BY <2>1, <2>2
<1>2. PipelineTyped'
  BY <1>1 DEF OutcomeInv, PipelineTyped
<1>3. \A t \in Slots : request'[t] = IF t = s THEN q ELSE request[t]
  BY DEF OutcomeInv, PipelineTyped
<1>4. q # Idle => q.op = "upload"
  BY DEF Upload
<1>5. Running(f) = {s} /\ Running(f)' = IF q = Idle THEN {} ELSE {s}
  <2>1. Running(f) = {s}
    BY DEF Running, OutcomeInv, UploadsHold
  <2> QED BY <1>3, <1>4, <2>1, StatesApart DEF Running
<1>6. \A x \in Files : x # f =>
        /\ Running(x)' = Running(x) /\ upload'[x] = upload[x]
        /\ \A t \in Running(x) : request'[t] = request[t]
        /\ x \in persisted' <=> x \in persisted
        /\ x \in rescored' <=> x \in rescored
  BY <1>3, <1>4, StatesApart DEF Running, OutcomeInv, PipelineTyped
<1>7. ASSUME NEW x \in Files
      PROVE  /\ \A r, t \in Running(x)' : r = t
             /\ \A t \in Running(x)' : StageTells(t, x)'
             /\ upload'[x] = None => x \notin persisted' \cup rescored'
             /\ upload'[x] = "failed" => x \notin persisted'
             /\ upload'[x] = "completed" =>
                  x \in persisted' /\ (x \in rescored' \ hurt' => Analysed(x)')
  <2>1. CASE x = f
    <3>1. upload'[f] = state
      BY DEF OutcomeInv, PipelineTyped
    <3> QED BY <1>5, <2>1, <3>1, StatesApart
  <2>2. CASE x # f
    <3>1. \A t \in Running(x) : StageTells(t, x)'
      BY <1>1, <1>6, <2>2 DEF OutcomeInv, UploadsHold, StageTells
    <3> QED BY <1>1, <1>6, <2>2, <3>1 DEF OutcomeInv, UploadsHold
  <2> QED BY <2>1, <2>2
<1> QED BY <1>2, <1>7 DEF OutcomeInv, UploadsHold

\* A request under way is typed by its operation, and stays so as it goes on.
LEMMA RequestsTyped ==
  ASSUME PipelineTyped, NEW s \in Slots
  PROVE  /\ request[s].op = "upload" => request[s] \in Upload
         /\ request[s].op \in {"apply", "status", "analysis"} => request[s] \in Other
         /\ \A pc \in Before \cup After :
              request[s] \in Upload => [request[s] EXCEPT !.pc = pc] \in Upload
<1>1. request[s] \in {Idle} \cup Upload \cup Other
  BY DEF PipelineTyped
<1> QED BY <1>1, StatesApart DEF Upload, Other

\* An upload goes on to a stage that tells what is done, and the record says
\* so, or keeps what it said.
LEMMA MarkTells ==
  ASSUME OutcomeInv, NEW s \in Slots, request[s].op = "upload",
         NEW to \in Before \cup After, GoTo(s, to),
         \/ request[s].pc \in Before /\ to \in Before
         \/ request[s].pc \in {"found", "created"} /\ to = "rescored"
              /\ request[s].file \in hurt',
         NEW state \in Open,
         \/ UNCHANGED upload
         \/ upload' = [upload EXCEPT ![request[s].file] = state],
         hurt \subseteq hurt',
         UNCHANGED <<user, application, analyses, persisted, rescored, crossed>>
  PROVE  OutcomeInv'
<1>0. PICK f \in Files : f = request[s].file
  BY RequestsTyped DEF OutcomeInv, Upload
<1> DEFINE q == [request[s] EXCEPT !.pc = to]
<1>1. request[s] \in Upload /\ q \in Upload /\ f \in Files /\ q.file = f /\ q.pc = to
  BY <1>0, RequestsTyped DEF OutcomeInv, Upload
<1>2. StageTells(s, f)
  BY <1>0, <1>1 DEF OutcomeInv, UploadsHold, Running
<1>3. PICK x \in Open : upload' = [upload EXCEPT ![f] = x]
  <2>1. UNCHANGED upload => upload' = [upload EXCEPT ![f] = upload[f]]
    BY DEF OutcomeInv, PipelineTyped
  <2> QED BY <1>0, <1>2, <2>1 DEF StageTells
<1>4. request' = [request EXCEPT ![s] = q] /\ request'[s] = q
  BY DEF GoTo, OutcomeInv, PipelineTyped
<1>5. StageTells(s, f)'
  <2>1. upload'[f] \in Open
    BY <1>0, <1>1, <1>3 DEF OutcomeInv, PipelineTyped
  <2>2. request[s].pc \in After => to \in After
    BY StatesApart DEF After
  <2> QED BY <1>0, <1>1, <1>2, <1>4, <2>1, <2>2, StatesApart
          DEF StageTells, Analysed, Before, After
<1>6. x # "failed" /\ x # "completed"
  BY DEF Open
<1>7. /\ application' \in Application /\ crossed' \in BOOLEAN
      /\ user' \in [text : Sources, profile : Sources, health : Sources]
  BY DEF OutcomeInv, PipelineTyped
<1> HIDE DEF q
<1> QED BY <1>0, <1>1, <1>3, <1>4, <1>5, <1>6, <1>7, UploadTells

\* An upload answers, and the record is closed or stays as it was.
LEMMA CloseTells ==
  ASSUME OutcomeInv, NEW s \in Slots, request[s].op = "upload", Respond(s),
         NEW state \in Open \cup Final,
         \/ UNCHANGED upload
         \/ upload' = [upload EXCEPT ![request[s].file] = state],
         state = "failed" => request[s].pc \in Before,
         state = "completed" => request[s].pc = "rescored",
         hurt \subseteq hurt',
         UNCHANGED <<user, application, analyses, persisted, rescored, crossed>>
  PROVE  OutcomeInv'
<1>0. PICK f \in Files : f = request[s].file
  BY RequestsTyped DEF OutcomeInv, Upload
<1>1. f \in Files /\ s \in Running(f)
  BY <1>0, RequestsTyped DEF OutcomeInv, Upload, Running
<1>2. StageTells(s, f)
  BY <1>0, <1>1 DEF OutcomeInv, UploadsHold
<1>3. PICK x \in Open \cup Final :
        /\ upload' = [upload EXCEPT ![f] = x]
        /\ x = "failed" => request[s].pc \in Before
        /\ x = "completed" => request[s].pc = "rescored"
  <2>1. UNCHANGED upload => upload' = [upload EXCEPT ![f] = upload[f]]
    BY DEF OutcomeInv, PipelineTyped
  <2>2. upload[f] \notin Final
    BY <1>0, <1>2, StatesApart DEF StageTells
  <2> QED BY <1>0, <1>2, <2>1, <2>2 DEF StageTells, Final
<1>4. x = "failed" => f \notin persisted'
  BY <1>0, <1>2, <1>3 DEF StageTells
<1>5. x = "completed" => f \in persisted' /\ (f \in rescored' \ hurt' => Analysed(f)')
  BY <1>0, <1>2, <1>3 DEF StageTells, After, Analysed
<1>6. /\ application' \in Application /\ crossed' \in BOOLEAN
      /\ user' \in [text : Sources, profile : Sources, health : Sources]
      /\ request' = [request EXCEPT ![s] = Idle]
  BY DEF OutcomeInv, PipelineTyped, Respond
<1> QED BY <1>0, <1>1, <1>3, <1>4, <1>5, <1>6, UploadTells

\* The four steps of an upload that write something beside its record.
LEMMA PersistTells ==
  ASSUME OutcomeInv, NEW s \in Slots, PersistProfile(s) PROVE OutcomeInv'
<1>0. PICK f \in Files : f = request[s].file
  BY RequestsTyped DEF OutcomeInv, Upload, PersistProfile, At
<1> DEFINE q == [request[s] EXCEPT !.pc = "saved"]
<1>1. request[s].op = "upload" /\ request[s].pc = "persisting"
  BY DEF PersistProfile, At
<1>2. /\ request[s] \in Upload /\ q \in Upload /\ f \in Files
      /\ q.file = f /\ q.pc = "saved"
  BY <1>0, <1>1, RequestsTyped DEF OutcomeInv, Upload, After
<1>3. StageTells(s, f)
  BY <1>0, <1>1, <1>2 DEF OutcomeInv, UploadsHold, Running
<1>4. request' = [request EXCEPT ![s] = q] /\ request'[s] = q
  BY DEF PersistProfile, GoTo, OutcomeInv, PipelineTyped
<1>5. upload' = [upload EXCEPT ![f] = upload[f]] /\ upload[f] \in Open
  BY <1>0, <1>3 DEF PersistProfile, OutcomeInv, PipelineTyped, StageTells
<1>6. persisted' = persisted \cup {f} /\ UNCHANGED <<rescored, hurt, analyses>>
  BY <1>0 DEF PersistProfile
<1>7. StageTells(s, f)'
  BY <1>0, <1>1, <1>2, <1>3, <1>4, <1>5, <1>6 DEF StageTells, Before, PersistProfile
<1>8. /\ application' \in Application
      /\ user' \in [text : Sources, profile : Sources, health : Sources]
  BY <1>0, <1>2, StatesApart DEF PersistProfile, OutcomeInv, PipelineTyped
<1>9. crossed' \in BOOLEAN
  BY DEF PersistProfile, OutcomeInv, PipelineTyped
<1> HIDE DEF q
<1> QED BY <1>0, <1>1, <1>2, <1>4, <1>5, <1>6, <1>7, <1>8, <1>9, UploadTells DEF Open

LEMMA FindTells ==
  ASSUME OutcomeInv, NEW s \in Slots, FindApplication(s) PROVE OutcomeInv'
<1>0. PICK f \in Files : f = request[s].file
  BY RequestsTyped DEF OutcomeInv, Upload, FindApplication, At
<1> DEFINE q == IF application.exists
                THEN [request[s] EXCEPT !.pc = "found", !.copy = application]
                ELSE [request[s] EXCEPT !.pc = "rescored"]
<1>1. request[s].op = "upload" /\ request[s].pc = "saved"
  BY DEF FindApplication, At
<1>2. /\ request[s] \in Upload /\ q \in Upload /\ f \in Files /\ q.file = f
      /\ q.pc = IF application.exists THEN "found" ELSE "rescored"
  <2>1. request[s] \in Upload /\ application \in Application
    BY <1>0, <1>1, RequestsTyped DEF OutcomeInv, PipelineTyped
  <2>2. CASE application.exists
    BY <1>0, <2>1, <2>2 DEF Upload, After
  <2>3. CASE ~application.exists
    BY <1>0, <2>1, <2>3 DEF Upload, After
  <2> QED BY <2>2, <2>3
<1>3. StageTells(s, f)
  BY <1>0, <1>1, <1>2 DEF OutcomeInv, UploadsHold, Running
<1>4. request' = [request EXCEPT ![s] = q] /\ request'[s] = q
  <2>1. request' = [request EXCEPT ![s] = q]
    BY DEF FindApplication, Hold, GoTo
  <2> QED BY <2>1 DEF OutcomeInv, PipelineTyped
<1>5. upload' = [upload EXCEPT ![f] = upload[f]] /\ upload[f] \in Open
  BY <1>0, <1>3 DEF FindApplication, OutcomeInv, PipelineTyped, StageTells
<1>6. /\ rescored' = IF application.exists THEN rescored \cup {f} ELSE rescored
      /\ UNCHANGED <<user, application, persisted, hurt, analyses, crossed>>
  BY <1>0 DEF FindApplication
<1>7. StageTells(s, f)'
  <2>1. upload'[f] \in Open /\ f \in persisted'
    BY <1>0, <1>1, <1>2, <1>3, <1>5, <1>6 DEF StageTells, After, OutcomeInv, PipelineTyped
  <2>2. f \notin rescored
    BY <1>0, <1>1, <1>3 DEF StageTells
  <2> HIDE DEF q
  <2>3. CASE application.exists
    BY <1>0, <1>2, <1>4, <2>1, <2>3 DEF StageTells, Before
  <2>4. CASE ~application.exists
    BY <1>0, <1>2, <1>4, <1>6, <2>1, <2>2, <2>4 DEF StageTells, Before
  <2> QED BY <2>3, <2>4
<1>8. /\ application' \in Application /\ crossed' \in BOOLEAN
      /\ user' \in [text : Sources, profile : Sources, health : Sources]
  BY <1>0, <1>6 DEF OutcomeInv, PipelineTyped
<1> HIDE DEF q
<1>9. rescored \subseteq rescored' /\ rescored' \subseteq rescored \cup {f}
  BY <1>0, <1>6
<1> QED BY <1>0, <1>1, <1>2, <1>4, <1>5, <1>6, <1>7, <1>8, <1>9, UploadTells DEF Open

LEMMA CreateTells ==
  ASSUME OutcomeInv, NEW s \in Slots, CreateAnalysis(s) PROVE OutcomeInv'
<1>0. PICK f \in Files : f = request[s].file
  BY RequestsTyped DEF OutcomeInv, Upload, CreateAnalysis, At
<1> DEFINE q == [request[s] EXCEPT !.pc = "created"]
<1>1. request[s].op = "upload" /\ request[s].pc = "found"
  BY DEF CreateAnalysis, At
<1>2. /\ request[s] \in Upload /\ q \in Upload /\ f \in Files
      /\ q.file = f /\ q.pc = "created"
  BY <1>0, <1>1, RequestsTyped DEF OutcomeInv, Upload, After
<1>3. StageTells(s, f)
  BY <1>0, <1>1, <1>2 DEF OutcomeInv, UploadsHold, Running
<1>4. request' = [request EXCEPT ![s] = q] /\ request'[s] = q
  BY DEF CreateAnalysis, GoTo, OutcomeInv, PipelineTyped
<1>5. upload' = [upload EXCEPT ![f] = upload[f]] /\ upload[f] \in Open
  BY <1>0, <1>3 DEF CreateAnalysis, OutcomeInv, PipelineTyped, StageTells
<1>6. analyses' = Append(analyses, f) /\ UNCHANGED <<user, application, pipelineHistory>>
  BY <1>0 DEF CreateAnalysis
<1>7. Analysed(f)'
  BY <1>0, <1>2, <1>6, AppendAnalyses, StatesApart DEF OutcomeInv, PipelineTyped
<1>8. StageTells(s, f)'
  BY <1>0, <1>1, <1>2, <1>3, <1>4, <1>5, <1>6, <1>7
     DEF StageTells, Before, After, pipelineHistory, CreateAnalysis
<1>9. /\ application' \in Application /\ crossed' \in BOOLEAN
      /\ user' \in [text : Sources, profile : Sources, health : Sources]
      /\ f \in Sources
  BY <1>0, <1>2, <1>6, StatesApart DEF OutcomeInv, PipelineTyped, pipelineHistory
<1> HIDE DEF q
<1> QED BY <1>0, <1>1, <1>2, <1>4, <1>5, <1>6, <1>8, <1>9, UploadTells
        DEF Open, pipelineHistory

\* An application stays one whatever field is written.
LEMMA FieldsTyped ==
  ASSUME NEW a \in Application, NEW n \in Nat
  PROVE  /\ [a EXCEPT !.exists = TRUE] \in Application
         /\ [a EXCEPT !.score = n] \in Application
         /\ [a EXCEPT !.latest = n] \in Application
         /\ [a EXCEPT !.version = n] \in Application
         /\ \A st \in {"shortlisted", "rejected"} : [a EXCEPT !.status = st] \in Application
         /\ a.version + 1 \in Nat
<1>1. [a EXCEPT !.exists = TRUE] \in Application
  BY DEF Application
<1>2. [a EXCEPT !.score = n] \in Application
  BY DEF Application
<1>3. [a EXCEPT !.latest = n] \in Application
  BY DEF Application
<1>4. [a EXCEPT !.version = n] \in Application
  BY DEF Application
<1>5. \A st \in {"shortlisted", "rejected"} : [a EXCEPT !.status = st] \in Application
  BY DEF Application
<1>6. a.version + 1 \in Nat
  BY DEF Application
<1> QED BY <1>1, <1>2, <1>3, <1>4, <1>5, <1>6

\* What save() writes is an application.
LEMMA SavedTyped ==
  ASSUME PipelineTyped, NEW copy, NEW score \in Nat, NEW latest \in Nat
  PROVE  WithAnalysis(copy, score, latest) \in Application
<1>1. PICK new \in Nat :
        new = IF score = copy.score THEN application.score ELSE score
  BY DEF PipelineTyped, Application
<1>2. WithAnalysis(copy, score, latest)
        = [application EXCEPT !.score = new, !.latest = latest, !.version = @ + 1]
  BY <1>1 DEF WithAnalysis
<1>3. application \in Application
  BY DEF PipelineTyped
<1> DEFINE scored == [application EXCEPT !.score = new]
           marked == [scored EXCEPT !.latest = latest]
<1>4. scored \in Application /\ marked \in Application
      /\ application.version + 1 \in Nat
  BY <1>1, <1>3, FieldsTyped
<1>5. WithAnalysis(copy, score, latest)
        = [marked EXCEPT !.version = application.version + 1]
  BY <1>2
<1> HIDE DEF scored, marked
<1> QED BY <1>4, <1>5, FieldsTyped

LEMMA SaveTells ==
  ASSUME OutcomeInv, NEW s \in Slots, SaveRescored(s) PROVE OutcomeInv'
<1>0. PICK f \in Files : f = request[s].file
  BY RequestsTyped DEF OutcomeInv, Upload, SaveRescored, At
<1> DEFINE q == [request[s] EXCEPT !.pc = "rescored"]
<1>1. request[s].op = "upload" /\ request[s].pc = "created"
  BY DEF SaveRescored, At
<1>2. /\ request[s] \in Upload /\ q \in Upload /\ f \in Files
      /\ q.file = f /\ q.pc = "rescored"
  BY <1>0, <1>1, RequestsTyped DEF OutcomeInv, Upload, After
<1>3. StageTells(s, f) /\ Analysed(f)
  BY <1>0, <1>1, <1>2 DEF OutcomeInv, UploadsHold, Running, StageTells
<1>4. request' = [request EXCEPT ![s] = q] /\ request'[s] = q
  BY DEF SaveRescored, GoTo, OutcomeInv, PipelineTyped
<1>5. upload' = [upload EXCEPT ![f] = upload[f]] /\ upload[f] \in Open
  BY <1>0, <1>3 DEF SaveRescored, OutcomeInv, PipelineTyped, StageTells
<1>6. UNCHANGED <<user, analyses, persisted, rescored, hurt>>
  BY DEF SaveRescored
<1>7. StageTells(s, f)'
  BY <1>0, <1>1, <1>2, <1>3, <1>4, <1>5, <1>6
     DEF StageTells, Before, After, Analysed, SaveRescored
<1>8. application' \in Application
  <2>1. OwnAnalysis(f) \in DOMAIN analyses
    BY <1>0, <1>3 DEF Analysed, OwnAnalysis
  <2>2. OwnAnalysis(f) \in Nat
    BY <2>1, LenProperties DEF OutcomeInv, PipelineTyped
  <2> QED BY <1>0, <1>2, <2>2, SavedTyped, StatesApart DEF SaveRescored, OutcomeInv
<1>9. crossed' \in BOOLEAN /\ user' \in [text : Sources, profile : Sources, health : Sources]
  BY DEF SaveRescored, OutcomeInv, PipelineTyped
<1> HIDE DEF q
<1> QED BY <1>0, <1>1, <1>2, <1>4, <1>5, <1>6, <1>7, <1>8, <1>9, UploadTells DEF Open

LEMMA OutcomeStep ==
  ASSUME OutcomeInv, [PipelineNext]_pipelineVars PROVE OutcomeInv'
<1>1. CASE UNCHANGED pipelineVars
  BY <1>1 DEF OutcomeInv, PipelineTyped, UploadsHold, StageTells, Analysed, Running,
     pipelineVars, resumeRecords, pipelineHistory
<1>2. CASE UpdateResumeProfile
  <2>1. /\ UNCHANGED <<upload, application, analyses, persisted, rescored, hurt,
                       crossed, request>>
        /\ user' = [user EXCEPT !.profile = Edited, !.health = Edited]
    BY <1>2 DEF UpdateResumeProfile, Answer, pipelineHistory
  <2>2. user' \in [text : Sources, profile : Sources, health : Sources]
    BY <2>1, StatesApart DEF OutcomeInv, PipelineTyped
  <2> QED BY <2>1, <2>2 DEF OutcomeInv, PipelineTyped, UploadsHold, StageTells,
                            Analysed, Running
<1>3. ASSUME NEW s \in Slots, NEW f \in Files, BeginUpload(s, f) PROVE OutcomeInv'
  <2>1. CASE Inserts(f)
    <3> DEFINE q == [Reading EXCEPT !.op = "upload", !.pc = "recorded", !.file = f]
    <3>1. q \in Upload /\ q.pc \in Before /\ q.file = f
      BY StatesApart DEF Reading, Upload, Before
    <3>2. /\ request[s] = Idle /\ request' = [request EXCEPT ![s] = q]
          /\ upload[f] = None /\ upload' = [upload EXCEPT ![f] = "scanning"]
          /\ UNCHANGED <<user, application, analyses, pipelineHistory>>
      BY <1>3, <2>1 DEF BeginUpload, Accept, Inserts
    <3> HIDE DEF q
    <3> QED BY <3>1, <3>2, BeginTells
  <2>2. CASE ~Inserts(f)
    <3>1. /\ request[s] = Idle /\ request' = [request EXCEPT ![s] = Idle]
          /\ UNCHANGED <<upload, user, application, analyses, pipelineHistory>>
      BY <1>3, <2>2 DEF BeginUpload, Accept
    <3> QED BY <3>1, BeginTells, StatesApart
  <2> QED BY <2>1, <2>2
<1>4. ASSUME NEW s \in Slots, UploadStep(s) PROVE OutcomeInv'
  <2>1. CASE \/ StoreFile(s) \/ MarkExtracting(s) \/ ParseResume(s)
             \/ MarkParsing(s) \/ MarkAnalyzing(s) \/ ExtractText(s)
    <3>1. PICK to \in Before :
            /\ request[s].op = "upload" /\ request[s].pc \in Before /\ GoTo(s, to)
      BY <2>1 DEF StoreFile, MarkExtracting, ParseResume, MarkParsing, MarkAnalyzing,
         ExtractText, Mark, At, Before
    <3>2. PICK state \in Open :
            /\ \/ UNCHANGED upload
               \/ upload' = [upload EXCEPT ![request[s].file] = state]
            /\ hurt \subseteq hurt'
            /\ UNCHANGED <<user, application, analyses, persisted, rescored, crossed>>
      BY <2>1 DEF StoreFile, MarkExtracting, ParseResume, MarkParsing, MarkAnalyzing,
         ExtractText, Mark, Record, Open, pipelineHistory
    <3> QED BY <3>1, <3>2, MarkTells
  <2>2. CASE RefuseFile(s) \/ CompleteUpload(s)
    <3>1. PICK state \in Final :
            /\ request[s].op = "upload" /\ Respond(s)
            /\ \/ UNCHANGED upload
               \/ upload' = [upload EXCEPT ![request[s].file] = state]
            /\ state = "failed" => request[s].pc \in Before
            /\ state = "completed" => request[s].pc = "rescored"
            /\ hurt \subseteq hurt'
            /\ UNCHANGED <<user, application, analyses, persisted, rescored, crossed>>
      BY <2>2 DEF RefuseFile, CompleteUpload, Close, Record, At, Before, Final
    <3> QED BY <3>1, CloseTells
  <2>3. CASE \/ PersistProfile(s) \/ FindApplication(s) \/ CreateAnalysis(s)
             \/ SaveRescored(s)
    BY <2>3, PersistTells, FindTells, CreateTells, SaveTells
  <2> QED BY <1>4, <2>1, <2>2, <2>3 DEF UploadStep
<1>5. ASSUME NEW s \in Slots, FailRescoring(s) PROVE OutcomeInv'
  <2>1. /\ request[s].op = "upload" /\ request[s].pc \in {"found", "created"}
        /\ GoTo(s, "rescored") /\ UNCHANGED upload
        /\ request[s].file \in hurt' /\ hurt \subseteq hurt'
        /\ UNCHANGED <<user, application, analyses, persisted, rescored, crossed>>
    BY <1>5 DEF FailRescoring
  <2>2. "scanning" \in Open /\ "rescored" \in Before \cup After
    BY DEF Open, After
  <2> QED BY <2>1, <2>2, MarkTells
<1>6. ASSUME NEW s \in Slots, FailUpload(s) PROVE OutcomeInv'
  <2>1. /\ request[s].op = "upload" /\ Respond(s) /\ UNCHANGED upload
        /\ hurt \subseteq hurt'
        /\ UNCHANGED <<user, application, analyses, persisted, rescored, crossed>>
    BY <1>6 DEF FailUpload
  <2>2. "scanning" \in Open \cup Final /\ "scanning" # "failed" /\ "scanning" # "completed"
    BY DEF Open
  <2> QED BY <2>1, <2>2, CloseTells
<1>7. ASSUME NEW s \in Slots, BeginApply(s) \/ BeginStatus(s) \/ BeginAnalysis(s)
      PROVE OutcomeInv'
  <2>1. PICK q \in {Idle} \cup Other :
          /\ request[s] = Idle /\ request' = [request EXCEPT ![s] = q]
          /\ UNCHANGED <<upload, user, application, analyses, pipelineHistory>>
    <3>1. user.text \in Sources /\ application \in Application
      BY DEF OutcomeInv, PipelineTyped
    <3>2. /\ [Reading EXCEPT !.op = "apply", !.pc = "scored", !.source = user.text] \in Other
          /\ [Reading EXCEPT !.op = "status", !.pc = "copied",
                             !.copy = application] \in Other
          /\ [Reading EXCEPT !.op = "analysis", !.pc = "copied",
                             !.copy = application] \in Other
      BY <3>1, StatesApart DEF Reading, Other
    <3> QED BY <1>7, <3>2 DEF BeginApply, BeginStatus, BeginAnalysis, Accept
  <2>2. q.op # "upload"
    BY StatesApart DEF Other
  <2> QED BY <2>1, <2>2, BeginTells
<1>8. ASSUME NEW s \in Slots,
             \/ FinishApply(s) \/ SaveStatus(s) \/ ReadSeeker(s)
             \/ OpenTransaction(s) \/ Commit(s) \/ FailRequest(s)
      PROVE OutcomeInv'
  <2>1. /\ request[s].op # "upload" /\ request[s] \in Other
        /\ UNCHANGED <<upload, user, persisted, rescored, hurt>>
    BY <1>8, RequestsTyped DEF OutcomeInv, FinishApply, SaveStatus, ReadSeeker,
       OpenTransaction, Commit, FailRequest, At, pipelineHistory
  <2>2. PICK q \in {Idle} \cup Other : request' = [request EXCEPT ![s] = q]
    <3>1. user.profile \in Sources /\ application \in Application
      BY DEF OutcomeInv, PipelineTyped
    <3>2. /\ [request[s] EXCEPT !.pc = "read", !.source = user.profile] \in Other
          /\ [request[s] EXCEPT !.pc = "open",
                                !.copy.version = application.version] \in Other
      BY <2>1, <3>1 DEF Other, Application
    <3> QED BY <1>8, <3>2 DEF FinishApply, SaveStatus, ReadSeeker, OpenTransaction,
               Commit, FailRequest, Hold, Respond
  <2>3. application' \in Application
    <3>1. application \in Application /\ Score[request[s].source] \in Nat
      BY <2>1, StatesApart DEF OutcomeInv, PipelineTyped, Other
    <3>2. CASE FinishApply(s)
      <4> DEFINE score == Score[request[s].source]
                 made == [NoApplication EXCEPT !.exists = TRUE]
                 scored == [made EXCEPT !.score = score]
      <4>1. made \in Application
        BY FieldsTyped, StatesApart
      <4>2. scored \in Application
        <5> HIDE DEF made
        <5> QED BY <3>1, <4>1, FieldsTyped
      <4>3. [scored EXCEPT !.version = 1] \in Application
        <5> HIDE DEF scored
        <5> QED BY <4>2, FieldsTyped
      <4>4. [scored EXCEPT !.version = 1] = [NoApplication EXCEPT !.exists = TRUE,
               !.score = Score[request[s].source], !.version = 1]
        OBVIOUS
      <4> QED BY <3>1, <3>2, <4>3, <4>4 DEF FinishApply
    <3>3. CASE SaveStatus(s)
      <4>1. ASSUME NEW st \in {"shortlisted", "rejected"}
            PROVE  [application EXCEPT !.status = st, !.version = @ + 1] \in Application
        <5> DEFINE moved == [application EXCEPT !.status = st]
        <5>1. moved \in Application /\ application.version + 1 \in Nat
          BY <3>1, FieldsTyped
        <5>2. [moved EXCEPT !.version = application.version + 1] \in Application
          <6> HIDE DEF moved
          <6> QED BY <5>1, FieldsTyped
        <5> QED BY <5>2
      <4> QED BY <3>1, <3>3, <4>1 DEF SaveStatus
    <3>4. CASE Commit(s)
      <4>1. Len(analyses) + 1 \in Nat
        BY LenProperties DEF OutcomeInv, PipelineTyped
      <4> QED BY <3>1, <3>4, <4>1, SavedTyped DEF Commit, OutcomeInv
    <3> QED BY <1>8, <3>1, <3>2, <3>3, <3>4 DEF ReadSeeker, OpenTransaction, FailRequest
  <2>4. crossed' \in BOOLEAN
    BY <1>8 DEF FinishApply, SaveStatus, ReadSeeker, OpenTransaction, Commit, FailRequest,
       pipelineHistory, OutcomeInv, PipelineTyped
  <2>5. UNCHANGED analyses \/ \E p \in Sources : analyses' = Append(analyses, p)
    BY <1>8, <2>1 DEF FinishApply, SaveStatus, ReadSeeker, OpenTransaction, Commit,
       FailRequest, Other
  <2> QED BY <2>1, <2>2, <2>3, <2>4, <2>5, OtherTells
<1> QED BY <1>1, <1>2, <1>3, <1>4, <1>5, <1>6, <1>7, <1>8 DEF PipelineNext

\* What the record of an upload says at its end happened: a refused file changed
\* nothing, and a completed one is in the profile and in an analysis of the
\* application it was found under, unless a call failed (resume.controller.js,
\* resume.processor.js).
THEOREM OutcomeIsTold == PipelineSpec => []RecordTellsOutcome
<1>1. OutcomeInv => RecordTellsOutcome
  BY DEF OutcomeInv, UploadsHold, RecordTellsOutcome, Analysed
<1> QED BY <1>1, OutcomeStarts, OutcomeStep, PTL DEF PipelineSpec
-----------------------------------------------------------------------------
LEMMA OutcomeTyped == OutcomeInv => PipelineTyped
  BY DEF OutcomeInv

LEMMA ScoreStarts == PipelineInit => ScoreInv
<1> SUFFICES ASSUME PipelineInit PROVE ScoreInv
  OBVIOUS
<1>1. /\ \A s \in Slots : ~Holds(request[s]) /\ ~Rescores(request[s]) /\ ~Reads(request[s])
      /\ application = NoApplication /\ Len(analyses) = 0
  BY StatesApart DEF PipelineInit, NoRequests, Holds, Rescores, Reads
<1>2. CopiesHold /\ ScoreIsOfLatest /\ FollowsHold
  BY <1>1 DEF CopiesHold, ScoreIsOfLatest, FollowsHold, NoApplication
<1> QED BY <1>2, OutcomeStarts DEF ScoreInv

\* What the analyses say stays, and there may be one more.
LEMMA AnalysesGrow ==
  ASSUME PipelineTyped, PipelineTyped',
         UNCHANGED analyses \/ \E p \in Sources : analyses' = Append(analyses, p)
  PROVE  /\ Len(analyses) \in Nat /\ Len(analyses') \in Nat
         /\ Len(analyses) <= Len(analyses')
         /\ \A i \in Nat : i # 0 /\ i <= Len(analyses) => analyses'[i] = analyses[i]
<1>1. Len(analyses) \in Nat /\ Len(analyses') \in Nat
  BY LenProperties DEF PipelineTyped
<1>2. CASE UNCHANGED analyses
  BY <1>1, <1>2
<1>3. ASSUME NEW p \in Sources, analyses' = Append(analyses, p)
      PROVE  /\ Len(analyses) <= Len(analyses')
             /\ \A i \in Nat : i # 0 /\ i <= Len(analyses) => analyses'[i] = analyses[i]
  <2>1. /\ Len(analyses') = Len(analyses) + 1
        /\ \A i \in 1 .. Len(analyses) : analyses'[i] = analyses[i]
    BY <1>3, AppendProperties DEF PipelineTyped
  <2>2. \A i \in Nat : i # 0 /\ i <= Len(analyses) => i \in 1 .. Len(analyses)
    BY <1>1
  <2> QED BY <1>1, <2>1, <2>2
<1> QED BY <1>1, <1>2, <1>3

\* A step of one request that writes neither the profile nor the application.
LEMMA QuietStep ==
  ASSUME PipelineTyped, PipelineTyped', CopiesHold, ScoreIsOfLatest, FollowsHold,
         NEW s \in Slots, NEW q, request' = [request EXCEPT ![s] = q],
         UNCHANGED <<user, application>>, crossed => crossed', hurt \subseteq hurt',
         UNCHANGED analyses \/ \E p \in Sources : analyses' = Append(analyses, p),
         Holds(q) => /\ application.exists
                     /\ q.copy.version <= application.version
                     /\ q.copy.version = application.version /\ ~crossed' =>
                          q.copy.score = application.score,
         Rescores(q) => Rescores(request[s]) /\ q.file = request[s].file,
         Rescores(request[s]) => \/ Rescores(q) /\ q.file = request[s].file
                                 \/ hurt' # {} \/ ~application.exists,
         Reads(q) => /\ Holds(q)
                     /\ \/ q.source = user.profile
                        \/ crossed'
                        \/ /\ Reads(request[s]) /\ q.source = request[s].source
                           /\ q.copy.version = request[s].copy.version
  PROVE  CopiesHold' /\ ScoreIsOfLatest' /\ FollowsHold'
<1>1. \A t \in Slots : request'[t] = IF t = s THEN q ELSE request[t]
  BY DEF PipelineTyped
<1>2. application.latest \in Nat /\ application.version \in Nat
  BY DEF PipelineTyped, Application
<1>3. /\ Len(analyses) \in Nat /\ Len(analyses') \in Nat
      /\ Len(analyses) <= Len(analyses')
      /\ \A i \in Nat : i # 0 /\ i <= Len(analyses) => analyses'[i] = analyses[i]
  BY AnalysesGrow
<1>4. /\ application' = application /\ user' = user
      /\ application.latest <= Len(analyses)
      /\ ~application.exists => application.version = 0 /\ application.latest = 0
  BY DEF CopiesHold
<1>5. CopiesHold'
  <2>1. application'.latest <= Len(analyses')
    BY <1>2, <1>3, <1>4
  <2>2. ASSUME NEW t \in Slots, Holds(request'[t]) PROVE CopyHolds(request[t])'
    <3>1. CASE t = s
      BY <1>1, <1>4, <2>2, <3>1 DEF CopyHolds
    <3>2. CASE t # s
      BY <1>1, <1>4, <2>2, <3>2 DEF CopyHolds, CopiesHold
    <3> QED BY <3>1, <3>2
  <2> QED BY <1>4, <2>1, <2>2 DEF CopiesHold, Holds
<1>6. ScoreIsOfLatest'
  BY <1>2, <1>3, <1>4 DEF ScoreIsOfLatest
<1>7. Settled' => Settled
  BY <1>4 DEF Settled
<1>8. Pending /\ Settled' /\ application.exists => Pending'
  <2> SUFFICES ASSUME Pending, Settled', application.exists PROVE Pending'
    OBVIOUS
  <2>1. PICK t \in Slots : Rescores(request[t]) /\ request[t].file = user.profile
    BY DEF Pending
  <2>2. Rescores(request'[t]) /\ request'[t].file = user.profile
    BY <1>1, <2>1 DEF Settled
  <2> QED BY <1>4, <2>2 DEF Pending, Rescores
<1>9. FollowsHold'
  <2>1. ASSUME NEW t \in Slots, Rescores(request'[t]), ~crossed'
        PROVE  user.profile \in {request'[t].file, Edited}
    <3>1. Rescores(request[t]) /\ request'[t].file = request[t].file
      BY <1>1, <2>1
    <3> QED BY <2>1, <3>1 DEF FollowsHold
  <2>2. application.latest # 0 /\ Settled' =>
          analyses'[application.latest] = user.profile \/ Pending'
    BY <1>2, <1>3, <1>4, <1>7, <1>8 DEF FollowsHold
  <2>3. ASSUME NEW t \in Slots, Reads(request'[t]), Settled',
               request'[t].copy.version = application.version
        PROVE  request'[t].source = user.profile \/ Pending'
    <3>1. application.exists
      <4>1. CASE t = s
        BY <1>1, <2>3, <4>1
      <4>2. CASE t # s
        BY <1>1, <2>3, <4>2 DEF CopiesHold, CopyHolds, Reads, Holds
      <4> QED BY <4>1, <4>2
    <3>2. \/ request'[t].source = user.profile
          \/ /\ Reads(request[t]) /\ request'[t].source = request[t].source
             /\ request'[t].copy.version = request[t].copy.version
      BY <1>1, <2>3 DEF Settled
    <3> QED BY <1>7, <1>8, <2>3, <3>1, <3>2 DEF FollowsHold
  <2> QED BY <1>4, <2>1, <2>2, <2>3 DEF FollowsHold, Rescores, Reads
<1> QED BY <1>5, <1>6, <1>9

\* A request writes the application and holds nothing of it any longer.
LEMMA WriteStep ==
  ASSUME PipelineTyped, PipelineTyped', CopiesHold, FollowsHold,
         NEW s \in Slots, NEW q, request' = [request EXCEPT ![s] = q],
         ~Holds(q), ~Rescores(q), ~Reads(q),
         UNCHANGED <<user, hurt>>, crossed => crossed',
         UNCHANGED analyses \/ \E p \in Sources : analyses' = Append(analyses, p),
         application'.exists, application'.version = application.version + 1,
         application'.latest <= Len(analyses'),
         application'.latest # 0 /\ Settled' =>
           analyses'[application'.latest] = user.profile \/ Pending'
  PROVE  CopiesHold' /\ FollowsHold'
<1>1. \A t \in Slots : request'[t] = IF t = s THEN q ELSE request[t]
  BY DEF PipelineTyped
<1>2. /\ application.version \in Nat
      /\ \A t \in Slots : Holds(request[t]) => request[t].copy.version \in Nat
  BY StatesApart DEF PipelineTyped, Application, Holds, Upload, Other
<1>3. \A t \in Slots : Holds(request'[t]) =>
        /\ Holds(request[t]) /\ request'[t].copy = request[t].copy
        /\ request'[t].copy.version < application'.version
  BY <1>1, <1>2 DEF CopiesHold, CopyHolds
<1>4. CopiesHold'
  <2>1. ASSUME NEW t \in Slots, Holds(request'[t]) PROVE CopyHolds(request[t])'
    <3>1. /\ request'[t].copy.version <= application'.version
          /\ request'[t].copy.version # application'.version
      BY <1>2, <1>3, <2>1
    <3> QED BY <3>1 DEF CopyHolds
  <2> QED BY <2>1 DEF CopiesHold, Holds
<1>5. FollowsHold'
  <2>1. \A t \in Slots : Rescores(request'[t]) /\ ~crossed' =>
          user.profile \in {request'[t].file, Edited}
    BY <1>1 DEF FollowsHold
  <2>2. \A t \in Slots : Reads(request'[t]) => request'[t].copy.version # application'.version
    BY <1>2, <1>3 DEF Reads, Holds
  <2> QED BY <2>1, <2>2 DEF FollowsHold, Rescores, Reads
<1> QED BY <1>4, <1>5

\* What a request that writes nothing of its own to the profile or to the
\* application does to the records they are compared with.
Quiet(s) ==
    /\ UNCHANGED <<user, application>>
    /\ crossed => crossed'
    /\ hurt \subseteq hurt'
    /\ UNCHANGED analyses \/ \E p \in Sources : analyses' = Append(analyses, p)

\* A request begins, or stops without having written.
LEMMA QuietBegins ==
  ASSUME ScoreInv, PipelineTyped', NEW s \in Slots, NEW q,
         request' = [request EXCEPT ![s] = q], Quiet(s),
         ~Reads(q), ~Rescores(q),
         Rescores(request[s]) => hurt' # {} \/ ~application.exists,
         Holds(q) => application.exists /\ q.copy = application
  PROVE  CopiesHold' /\ ScoreIsOfLatest' /\ FollowsHold'
<1>1. application.version \in Nat
  BY DEF ScoreInv, OutcomeInv, PipelineTyped, Application
<1>2. Holds(q) => /\ application.exists
                  /\ q.copy.version <= application.version
                  /\ q.copy.version = application.version /\ ~crossed' =>
                       q.copy.score = application.score
  BY <1>1
<1> QED BY <1>2, QuietStep DEF ScoreInv, OutcomeInv, Quiet

\* An upload goes on.
LEMMA QuietUpload ==
  ASSUME ScoreInv, PipelineTyped', NEW s \in Slots, NEW to, GoTo(s, to),
         request[s].op = "upload", Quiet(s),
         \/ to = "created" /\ request[s].pc = "found"
         \/ to \notin Rescoring /\ request[s].pc \notin Rescoring
         \/ to \notin Rescoring /\ (hurt' # {} \/ ~application.exists)
  PROVE  CopiesHold' /\ ScoreIsOfLatest' /\ FollowsHold'
<1> DEFINE q == [request[s] EXCEPT !.pc = to]
<1>1. request' = [request EXCEPT ![s] = q]
  BY DEF GoTo
<1>2. request[s] \in Upload
  BY RequestsTyped DEF ScoreInv, OutcomeInv
<1>3. q.op = "upload" /\ q.pc = to /\ q.file = request[s].file /\ q.copy = request[s].copy
  BY <1>2 DEF Upload
<1> HIDE DEF q
<1>4. ~Reads(q) /\ (Holds(q) => to = "created" /\ Holds(request[s]))
  BY <1>3 DEF Reads, Holds, Rescoring
<1>5. Rescores(q) => Rescores(request[s])
  BY <1>3 DEF Rescores, Rescoring
<1>6. Rescores(request[s]) => Rescores(q) \/ hurt' # {} \/ ~application.exists
  BY <1>3 DEF Rescores, Rescoring
<1>7. Holds(q) => /\ application.exists
                  /\ q.copy.version <= application.version
                  /\ q.copy.version = application.version /\ ~crossed' =>
                       q.copy.score = application.score
  BY <1>3, <1>4 DEF ScoreInv, CopiesHold, CopyHolds, Quiet
<1> QED BY <1>1, <1>3, <1>4, <1>5, <1>6, <1>7, QuietStep DEF ScoreInv, OutcomeInv, Quiet

\* What save() writes, and whose analysis it refers to.
LEMMA SaveWrites ==
  ASSUME ScoreInv, NEW copy, copy.version = application.version /\ ~crossed =>
                               copy.score = application.score,
         NEW f \in Sources, NEW latest \in Nat, analyses'[latest] = f,
         application' = WithAnalysis(copy, Score[f], latest),
         ~crossed' => ~crossed /\ copy.version = application.version
  PROVE  /\ application'.version = application.version + 1
         /\ application'.exists = application.exists
         /\ application'.latest = latest
         /\ ScoreIsOfLatest'
<1>1. application \in Application
  BY DEF ScoreInv, OutcomeInv, PipelineTyped
<1>2. /\ application'.version = application.version + 1
      /\ application'.latest = latest
      /\ application'.score = IF Score[f] = copy.score THEN application.score ELSE Score[f]
  BY <1>1 DEF WithAnalysis, Application
<1>3. application'.exists = application.exists
  BY <1>1 DEF WithAnalysis, Application
<1>4. ~crossed' => application'.score = Score[f]
  BY <1>2
<1> QED BY <1>2, <1>3, <1>4 DEF ScoreIsOfLatest

LEMMA IdleIsNothing == ~Holds(Idle) /\ ~Reads(Idle) /\ ~Rescores(Idle)
  BY StatesApart DEF Holds, Reads, Rescores

\* The upload writes the profile: from now on it is the one that has yet to
\* bring the application up to it.
LEMMA PersistFollows ==
  ASSUME ScoreInv, PipelineTyped', NEW s \in Slots, PersistProfile(s)
  PROVE  CopiesHold' /\ ScoreIsOfLatest' /\ FollowsHold'
<1>0. PICK f \in Files : f = request[s].file
  BY RequestsTyped DEF ScoreInv, OutcomeInv, Upload, PersistProfile, At
<1> DEFINE q == [request[s] EXCEPT !.pc = "saved"]
<1>1. request[s].op = "upload" /\ request[s].pc = "persisting" /\ request[s] \in Upload
  BY RequestsTyped DEF PersistProfile, At, ScoreInv, OutcomeInv
<1>2. q.op = "upload" /\ q.pc = "saved" /\ q.file = f
  BY <1>0, <1>1 DEF Upload
<1>3. \A t \in Slots : request'[t] = IF t = s THEN q ELSE request[t]
  BY DEF PersistProfile, GoTo, ScoreInv, OutcomeInv, PipelineTyped
<1>4. /\ user'.profile = f /\ UNCHANGED <<application, analyses, hurt>>
      /\ crossed' = (crossed \/ \E t \in Slots \ {s} : request[t].pc \in Rescoring)
  BY <1>0 DEF PersistProfile
<1> HIDE DEF q
<1>5. ~Holds(q) /\ ~Reads(q) /\ Rescores(q)
  BY <1>2 DEF Holds, Reads, Rescores, Rescoring
<1>6. CopiesHold'
  <2>1. ASSUME NEW t \in Slots, Holds(request'[t]) PROVE CopyHolds(request[t])'
    <3>1. Holds(request[t]) /\ request'[t] = request[t]
      BY <1>3, <1>5, <2>1
    <3>2. CopyHolds(request[t])
      BY <3>1 DEF ScoreInv, CopiesHold
    <3> QED BY <1>4, <3>1, <3>2 DEF CopyHolds
  <2> QED BY <1>4, <2>1 DEF ScoreInv, CopiesHold, Holds
<1>7. ScoreIsOfLatest'
  BY <1>4 DEF ScoreInv, ScoreIsOfLatest
<1>8. Pending'
  <2>1. request'[s] = q
    BY <1>3
  <2> QED BY <1>2, <1>4, <1>5, <2>1 DEF Pending, Rescores
<1>9. FollowsHold'
  <2>1. ASSUME NEW t \in Slots, Rescores(request'[t]), ~crossed'
        PROVE  user'.profile \in {request'[t].file, Edited}
    <3>1. t = s
      BY <1>3, <1>4, <2>1 DEF Rescores
    <3> QED BY <1>2, <1>3, <1>4, <3>1
  <2> QED BY <1>8, <2>1 DEF FollowsHold, Rescores
<1> QED BY <1>6, <1>7, <1>9

\* An upload takes the application as it is, if it is there.
LEMMA FindFollows ==
  ASSUME ScoreInv, PipelineTyped', NEW s \in Slots, FindApplication(s)
  PROVE  CopiesHold' /\ ScoreIsOfLatest' /\ FollowsHold'
<1>1. request[s].op = "upload" /\ request[s].pc = "saved" /\ request[s] \in Upload
  BY RequestsTyped DEF FindApplication, At, ScoreInv, OutcomeInv
<1>2. Quiet(s)
  BY DEF FindApplication, Quiet
<1>3. CASE ~application.exists
  <2>1. GoTo(s, "rescored")
    BY <1>3 DEF FindApplication
  <2>2. "rescored" \notin Rescoring
    BY DEF Rescoring
  <2> QED BY <1>1, <1>2, <1>3, <2>1, <2>2, QuietUpload
<1>4. CASE application.exists
  <2> DEFINE q == [request[s] EXCEPT !.pc = "found", !.copy = application]
  <2>1. request' = [request EXCEPT ![s] = q]
    BY <1>4 DEF FindApplication, Hold
  <2>2. q.op = "upload" /\ q.pc = "found" /\ q.copy = application
        /\ q.file = request[s].file
    BY <1>1 DEF Upload
  <2>3. application.version \in Nat
    BY DEF ScoreInv, OutcomeInv, PipelineTyped, Application
  <2> HIDE DEF q
  <2>4. ~Reads(q) /\ Rescores(q) /\ Rescores(request[s])
    BY <1>1, <2>2 DEF Reads, Rescores, Rescoring
  <2>5. Holds(q) => /\ application.exists
                    /\ q.copy.version <= application.version
                    /\ q.copy.version = application.version /\ ~crossed' =>
                         q.copy.score = application.score
    BY <1>4, <2>2, <2>3
  <2> QED BY <1>2, <2>1, <2>2, <2>4, <2>5, QuietStep DEF ScoreInv, OutcomeInv, Quiet
<1> QED BY <1>3, <1>4

\* The upload brings the application up to the profile.
LEMMA SaveFollows ==
  ASSUME ScoreInv, PipelineTyped', NEW s \in Slots, SaveRescored(s)
  PROVE  CopiesHold' /\ ScoreIsOfLatest' /\ FollowsHold'
<1>0. PICK f \in Files : f = request[s].file
  BY RequestsTyped DEF ScoreInv, OutcomeInv, Upload, SaveRescored, At
<1> DEFINE q == [request[s] EXCEPT !.pc = "rescored"]
           latest == OwnAnalysis(f)
<1>1. request[s].op = "upload" /\ request[s].pc = "created" /\ request[s] \in Upload
  BY RequestsTyped DEF SaveRescored, At, ScoreInv, OutcomeInv
<1>2. q.op = "upload" /\ q.pc = "rescored" /\ request' = [request EXCEPT ![s] = q]
  BY <1>1 DEF Upload, SaveRescored, GoTo
<1>3. /\ latest \in Nat /\ latest # 0 /\ latest <= Len(analyses)
      /\ analyses[latest] = f
  <2>1. Analysed(f)
    BY <1>0, <1>1 DEF ScoreInv, OutcomeInv, UploadsHold, Running, StageTells
  <2>2. latest \in DOMAIN analyses /\ analyses[latest] = f
    BY <2>1 DEF Analysed, OwnAnalysis
  <2>3. Len(analyses) \in Nat /\ DOMAIN analyses = 1 .. Len(analyses)
    BY LenProperties DEF ScoreInv, OutcomeInv, PipelineTyped
  <2> HIDE DEF latest
  <2> QED BY <2>2, <2>3
<1>4. Holds(request[s]) /\ Rescores(request[s])
  BY <1>1 DEF Holds, Rescores, Rescoring
<1>5. CopyHolds(request[s])
  BY <1>4 DEF ScoreInv, CopiesHold
<1>6. /\ application' = WithAnalysis(request[s].copy, Score[f], latest)
      /\ crossed' = (crossed \/ Stale(request[s].copy))
      /\ UNCHANGED <<user, hurt, analyses>>
  BY <1>0 DEF SaveRescored
<1> HIDE DEF q, latest
<1>7. /\ application'.version = application.version + 1
      /\ application'.exists = application.exists
      /\ application'.latest = latest /\ ScoreIsOfLatest'
  BY <1>3, <1>5, <1>6, SaveWrites, StatesApart DEF CopyHolds, Stale
<1>8. Settled' => analyses'[latest] = user.profile
  <2> SUFFICES ASSUME Settled' PROVE f = user.profile
    BY <1>3, <1>6
  <2>1. user.profile \in Files /\ ~crossed
    BY <1>6 DEF Settled
  <2> QED BY <1>0, <1>4, <2>1, StatesApart DEF ScoreInv, FollowsHold
<1>9. ~Holds(q) /\ ~Rescores(q) /\ ~Reads(q)
  BY <1>2 DEF Holds, Rescores, Reads, Rescoring
<1> QED BY <1>2, <1>3, <1>5, <1>6, <1>7, <1>8, <1>9, WriteStep
        DEF ScoreInv, OutcomeInv, CopyHolds

\* The transaction writes an analysis that was made while nothing was written.
LEMMA CommitFollows ==
  ASSUME ScoreInv, PipelineTyped', NEW s \in Slots, Commit(s)
  PROVE  CopiesHold' /\ ScoreIsOfLatest' /\ FollowsHold'
<1>1. request[s].op = "analysis" /\ request[s].pc = "open" /\ request[s] \in Other
  BY RequestsTyped DEF Commit, At, ScoreInv, OutcomeInv
<1>2. /\ request' = [request EXCEPT ![s] = Idle]
      /\ UNCHANGED <<user, hurt, crossed>>
  BY DEF Commit, Respond, pipelineHistory
<1>3. CASE Conflicts(request[s].copy)
  <2>1. Quiet(s) /\ ~Rescores(request[s])
    BY <1>1, <1>2, <1>3 DEF Quiet, Commit, Rescores
  <2> QED BY <1>2, <2>1, IdleIsNothing, QuietBegins
<1>4. CASE ~Conflicts(request[s].copy)
  <2>0. PICK p \in Sources : p = request[s].source
    BY <1>1 DEF Other
  <2>1. /\ analyses' = Append(analyses, p)
        /\ application' = WithAnalysis(request[s].copy, Score[p], Len(analyses) + 1)
    BY <1>4, <2>0 DEF Commit
  <2>2. /\ Len(analyses) + 1 \in Nat /\ Len(analyses') = Len(analyses) + 1
        /\ analyses'[Len(analyses) + 1] = p
    BY <2>1, AppendProperties, LenProperties DEF ScoreInv, OutcomeInv, PipelineTyped
  <2>3. /\ CopyHolds(request[s]) /\ Reads(request[s])
        /\ request[s].copy.version = application.version
    BY <1>1, <1>4 DEF ScoreInv, CopiesHold, Holds, Reads, Conflicts, Stale
  <2>4. /\ application'.version = application.version + 1
        /\ application'.exists = application.exists
        /\ application'.latest = Len(analyses) + 1 /\ ScoreIsOfLatest'
    BY <1>2, <2>1, <2>2, <2>3, SaveWrites DEF CopyHolds
  <2>5. Settled' => p = user.profile \/ Pending'
    <3> SUFFICES ASSUME Settled', p # user.profile PROVE Pending'
      OBVIOUS
    <3>1. Settled
      BY <1>2 DEF Settled
    <3>2. PICK t \in Slots : Rescores(request[t]) /\ request[t].file = user.profile
      BY <2>0, <2>3, <3>1 DEF ScoreInv, FollowsHold, Pending
    <3>3. request'[t] = request[t]
      BY <1>1, <1>2, <3>2 DEF Rescores, ScoreInv, OutcomeInv, PipelineTyped
    <3> QED BY <1>2, <3>2, <3>3 DEF Pending, Rescores
  <2>6. application'.latest # 0 /\ Settled' =>
          analyses'[application'.latest] = user.profile \/ Pending'
    BY <2>2, <2>4, <2>5
  <2>7. application'.exists /\ application'.latest <= Len(analyses')
    BY <2>2, <2>3, <2>4 DEF CopyHolds
  <2>8. \E x \in Sources : analyses' = Append(analyses, x)
    BY <2>1
  <2> QED BY <1>2, <2>4, <2>6, <2>7, <2>8, IdleIsNothing, WriteStep
          DEF ScoreInv, OutcomeInv
<1> QED BY <1>3, <1>4

\* Creating the application, and moving it.
LEMMA MoveFollows ==
  ASSUME ScoreInv, PipelineTyped', NEW s \in Slots, FinishApply(s) \/ SaveStatus(s)
  PROVE  CopiesHold' /\ ScoreIsOfLatest' /\ FollowsHold'
<1>1. /\ request' = [request EXCEPT ![s] = Idle]
      /\ UNCHANGED <<user, hurt, crossed, analyses>>
  BY DEF FinishApply, SaveStatus, Respond, pipelineHistory
<1>2. request[s].op # "upload" /\ ~Rescores(request[s])
  BY DEF FinishApply, SaveStatus, At, Rescores
<1>3. CASE UNCHANGED application
  <2>1. Quiet(s)
    BY <1>1, <1>3 DEF Quiet
  <2> QED BY <1>1, <1>2, <2>1, IdleIsNothing, QuietBegins
<1>4. CASE FinishApply(s) /\ ~application.exists
  <2>1. application'.exists /\ application'.version = 1 /\ application'.latest = 0
    BY <1>4 DEF FinishApply, NoApplication
  <2>2. application.version = 0
    BY <1>4 DEF ScoreInv, CopiesHold
  <2>3. application'.version = application.version + 1 /\ 0 <= Len(analyses')
    BY <1>1, <2>1, <2>2, LenProperties DEF ScoreInv, OutcomeInv, PipelineTyped
  <2>4. ScoreIsOfLatest'
    BY <2>1 DEF ScoreIsOfLatest
  <2> QED BY <1>1, <2>1, <2>3, <2>4, IdleIsNothing, WriteStep DEF ScoreInv, OutcomeInv
<1>5. CASE SaveStatus(s) /\ application' # application
  <2>1. application.exists /\ application \in Application
    BY <1>5 DEF SaveStatus, At, ScoreInv, OutcomeInv, PipelineTyped, CopiesHold,
       CopyHolds, Holds
  <2>2. PICK st : application' = [application EXCEPT !.status = st, !.version = @ + 1]
    BY <1>5 DEF SaveStatus
  <2>3. /\ application'.version = application.version + 1
        /\ application'.latest = application.latest
        /\ application'.score = application.score
    BY <2>1, <2>2 DEF Application
  <2>4. application'.exists
    BY <2>1, <2>2 DEF Application
  <2>5. ScoreIsOfLatest' /\ application'.latest <= Len(analyses')
    BY <1>1, <2>3 DEF ScoreInv, ScoreIsOfLatest, CopiesHold
  <2>6. Pending /\ Settled' => Pending'
    <3> SUFFICES ASSUME Pending PROVE Pending'
      OBVIOUS
    <3>1. PICK t \in Slots : Rescores(request[t]) /\ request[t].file = user.profile
      BY DEF Pending
    <3>2. request'[t] = request[t]
      BY <1>1, <1>2, <3>1 DEF ScoreInv, OutcomeInv, PipelineTyped
    <3> QED BY <1>1, <3>1, <3>2 DEF Pending, Rescores
  <2>7. application'.latest # 0 /\ Settled' =>
          analyses'[application'.latest] = user.profile \/ Pending'
    BY <1>1, <2>3, <2>6 DEF ScoreInv, FollowsHold, Settled
  <2> QED BY <1>1, <2>3, <2>4, <2>5, <2>7, IdleIsNothing, WriteStep DEF ScoreInv, OutcomeInv
<1> QED BY <1>3, <1>4, <1>5 DEF FinishApply

\* What an analysis has read is the profile, until the profile is written.
LEMMA ReadFollows ==
  ASSUME ScoreInv, PipelineTyped', NEW s \in Slots, ReadSeeker(s) \/ OpenTransaction(s)
  PROVE  CopiesHold' /\ ScoreIsOfLatest' /\ FollowsHold'
<1>1. /\ request[s].op = "analysis" /\ request[s] \in Other
      /\ Holds(request[s]) /\ ~Rescores(request[s]) /\ CopyHolds(request[s])
  <2>1. request[s].op = "analysis"
    BY DEF ReadSeeker, OpenTransaction, At
  <2> QED BY <2>1, RequestsTyped
          DEF ScoreInv, OutcomeInv, Holds, Rescores, CopiesHold
<1>2. application.version \in Nat /\ request[s].copy.version \in Nat
  BY <1>1 DEF ScoreInv, OutcomeInv, PipelineTyped, Other, Application
<1>3. CASE ReadSeeker(s)
  <2> DEFINE q == [request[s] EXCEPT !.pc = "read", !.source = user.profile]
  <2>1. request' = [request EXCEPT ![s] = q] /\ Quiet(s)
    BY <1>3 DEF ReadSeeker, Hold, Quiet, pipelineHistory
  <2>2. q.op = "analysis" /\ q.copy = request[s].copy /\ q.source = user.profile
    BY <1>1 DEF Other
  <2> HIDE DEF q
  <2>3. Holds(q) /\ ~Rescores(q)
    BY <2>2 DEF Holds, Rescores
  <2> QED BY <1>1, <2>1, <2>2, <2>3, QuietStep DEF ScoreInv, OutcomeInv, Quiet, CopyHolds
<1>4. CASE OpenTransaction(s)
  <2> DEFINE q == [request[s] EXCEPT !.pc = "open", !.copy.version = application.version]
  <2>1. /\ request' = [request EXCEPT ![s] = q] /\ Quiet(s)
        /\ crossed' = (crossed \/ request[s].copy.version # application.version)
        /\ Reads(request[s])
    BY <1>4 DEF OpenTransaction, Hold, Quiet, Stale, Reads, At
  <2>2. /\ q.op = "analysis" /\ q.copy.version = application.version
        /\ q.copy.score = request[s].copy.score /\ q.source = request[s].source
    BY <1>1 DEF Other, Application
  <2> HIDE DEF q
  <2>3. Holds(q) /\ ~Rescores(q)
    BY <2>2 DEF Holds, Rescores
  <2>4. Holds(q) => /\ application.exists
                    /\ q.copy.version <= application.version
                    /\ q.copy.version = application.version /\ ~crossed' =>
                         q.copy.score = application.score
    <3>1. /\ application.exists /\ request[s].copy.version <= application.version
          /\ q.copy.version <= application.version
      BY <1>1, <1>2, <2>2 DEF CopyHolds
    <3>2. CASE crossed'
      BY <3>1, <3>2
    <3>3. CASE ~crossed'
      BY <1>1, <2>1, <2>2, <3>1, <3>3 DEF CopyHolds
    <3> QED BY <3>2, <3>3
  <2>5. q.copy.version = request[s].copy.version \/ crossed'
    BY <2>1, <2>2
  <2> QED BY <1>1, <2>1, <2>2, <2>3, <2>4, <2>5, QuietStep DEF ScoreInv, OutcomeInv, Quiet
<1> QED BY <1>3, <1>4

LEMMA ScoreStep ==
  ASSUME ScoreInv, [PipelineNext]_pipelineVars PROVE ScoreInv'
<1>1. OutcomeInv' /\ PipelineTyped'
  BY OutcomeStep DEF ScoreInv, OutcomeInv
<1>2. CASE UNCHANGED pipelineVars
  <2>1. UNCHANGED <<request, user, application, analyses, hurt, crossed>>
    BY <1>2 DEF pipelineVars, resumeRecords, pipelineHistory
  <2>2. Pending' = Pending
    BY <2>1 DEF Pending, Rescores
  <2> QED BY <1>1, <2>1, <2>2 DEF ScoreInv, CopiesHold, CopyHolds, Holds, ScoreIsOfLatest,
                                  FollowsHold, Rescores, Reads, Settled
<1>3. CASE UpdateResumeProfile
  <2>1. /\ UNCHANGED <<request, application, analyses, hurt, crossed>>
        /\ user'.profile = Edited
    BY <1>3 DEF UpdateResumeProfile, Answer, pipelineHistory, ScoreInv, OutcomeInv,
       PipelineTyped
  <2>2. ~Settled'
    BY <2>1, StatesApart DEF Settled
  <2> QED BY <1>1, <2>1, <2>2 DEF ScoreInv, CopiesHold, CopyHolds, Holds, ScoreIsOfLatest,
                                  FollowsHold, Rescores, Reads
<1>4. ASSUME NEW s \in Slots,
             \/ \E f \in Files : BeginUpload(s, f)
             \/ BeginApply(s) \/ BeginStatus(s) \/ BeginAnalysis(s)
      PROVE  CopiesHold' /\ ScoreIsOfLatest' /\ FollowsHold'
  <2>1. Quiet(s) /\ request[s] = Idle
    <3>1. request[s] = Idle /\ UNCHANGED <<user, application, analyses, pipelineHistory>>
      BY <1>4 DEF BeginUpload, BeginApply, BeginStatus, BeginAnalysis, Accept
    <3> QED BY <3>1 DEF Quiet, pipelineHistory
  <2>2. PICK q : /\ request' = [request EXCEPT ![s] = q] /\ ~Reads(q) /\ ~Rescores(q)
                 /\ Holds(q) => application.exists /\ q.copy = application
    <3>1. ASSUME NEW f \in Files, BeginUpload(s, f)
          PROVE  \E q : /\ request' = [request EXCEPT ![s] = q]
                        /\ ~Reads(q) /\ ~Rescores(q) /\ ~Holds(q)
      <4> DEFINE q == [Reading EXCEPT !.op = "upload", !.pc = "recorded", !.file = f]
      <4>1. ~Reads(q) /\ ~Rescores(q) /\ ~Holds(q)
        BY DEF Reading, Reads, Rescores, Holds, Rescoring
      <4> HIDE DEF q
      <4> QED BY <3>1, <4>1, IdleIsNothing DEF BeginUpload, Accept, q
    <3>2. CASE BeginApply(s)
      <4> DEFINE q == [Reading EXCEPT !.op = "apply", !.pc = "scored", !.source = user.text]
      <4>1. ~Reads(q) /\ ~Rescores(q) /\ ~Holds(q)
        BY DEF Reading, Reads, Rescores, Holds, Rescoring
      <4> QED BY <3>2, <4>1 DEF BeginApply, Accept
    <3>3. CASE BeginStatus(s)
      <4> DEFINE q == [Reading EXCEPT !.op = "status", !.pc = "copied", !.copy = application]
      <4>1. ~Reads(q) /\ ~Rescores(q) /\ q.copy = application
        BY DEF Reading, Reads, Rescores, Rescoring
      <4> QED BY <3>3, <4>1 DEF BeginStatus, Accept
    <3>4. CASE BeginAnalysis(s)
      <4> DEFINE q == [Reading EXCEPT !.op = "analysis", !.pc = "copied", !.copy = application]
      <4>1. ~Reads(q) /\ ~Rescores(q) /\ q.copy = application
        BY DEF Reading, Reads, Rescores, Rescoring
      <4>2. /\ application.exists
            /\ request' = [request EXCEPT ![s] = Idle] \/ request' = [request EXCEPT ![s] = q]
        BY <3>4 DEF BeginAnalysis, Accept
      <4> QED BY <4>1, <4>2, IdleIsNothing
    <3> QED BY <1>4, <3>1, <3>2, <3>3, <3>4
  <2> QED BY <1>1, <2>1, <2>2, IdleIsNothing, QuietBegins
<1>5. ASSUME NEW s \in Slots,
             \/ StoreFile(s) \/ MarkExtracting(s) \/ ParseResume(s) \/ MarkParsing(s)
             \/ MarkAnalyzing(s) \/ ExtractText(s) \/ CreateAnalysis(s) \/ FailRescoring(s)
      PROVE  CopiesHold' /\ ScoreIsOfLatest' /\ FollowsHold'
  <2>1. Quiet(s) /\ request[s].op = "upload"
    <3>1. request[s].op = "upload" /\ request[s] \in Upload
      BY <1>5, RequestsTyped DEF StoreFile, MarkExtracting, ParseResume, MarkParsing,
         MarkAnalyzing, ExtractText, CreateAnalysis, FailRescoring, Mark, At, ScoreInv,
         OutcomeInv
    <3>2. request[s].file \in Sources
      BY <3>1, StatesApart DEF Upload
    <3> QED BY <1>5, <3>1, <3>2 DEF StoreFile, MarkExtracting, ParseResume, MarkParsing,
            MarkAnalyzing, ExtractText, CreateAnalysis, FailRescoring, Mark, Record,
            pipelineHistory, Quiet
  <2>2. PICK to : /\ GoTo(s, to)
                  /\ \/ to = "created" /\ request[s].pc = "found"
                     \/ to \notin Rescoring /\ request[s].pc \notin Rescoring
                     \/ to \notin Rescoring /\ (hurt' # {} \/ ~application.exists)
    <3>1. CASE FailRescoring(s)
      BY <3>1 DEF FailRescoring, Rescoring
    <3>2. CASE CreateAnalysis(s)
      BY <3>2 DEF CreateAnalysis, At
    <3>3. CASE ~FailRescoring(s) /\ ~CreateAnalysis(s)
      <4>1. /\ request[s].pc \in Before
            /\ \E to \in Before : GoTo(s, to)
        BY <1>5, <3>3 DEF StoreFile, MarkExtracting, ParseResume, MarkParsing,
           MarkAnalyzing, ExtractText, Mark, At, Before
      <4>2. Before \cap Rescoring = {}
        BY DEF Before, Rescoring
      <4> QED BY <4>1, <4>2
    <3> QED BY <3>1, <3>2, <3>3
  <2> QED BY <1>1, <2>1, <2>2, QuietUpload
<1>6. ASSUME NEW s \in Slots,
             RefuseFile(s) \/ CompleteUpload(s) \/ FailUpload(s) \/ FailRequest(s)
      PROVE  CopiesHold' /\ ScoreIsOfLatest' /\ FollowsHold'
  <2>1. Quiet(s) /\ request' = [request EXCEPT ![s] = Idle]
    BY <1>6 DEF RefuseFile, CompleteUpload, FailUpload, FailRequest, Close, Record,
       Respond, pipelineHistory, Quiet
  <2>2. Rescores(request[s]) => hurt' # {}
    BY <1>6 DEF RefuseFile, CompleteUpload, FailUpload, FailRequest, Close, At,
       Rescores, Rescoring
  <2> QED BY <1>1, <2>1, <2>2, IdleIsNothing, QuietBegins
<1>7. ASSUME NEW s \in Slots,
             \/ PersistProfile(s) \/ FindApplication(s) \/ SaveRescored(s) \/ Commit(s)
             \/ FinishApply(s) \/ SaveStatus(s) \/ ReadSeeker(s) \/ OpenTransaction(s)
      PROVE  CopiesHold' /\ ScoreIsOfLatest' /\ FollowsHold'
  BY <1>1, <1>7, PersistFollows, FindFollows, SaveFollows, CommitFollows, MoveFollows,
     ReadFollows
<1>8. CopiesHold' /\ ScoreIsOfLatest' /\ FollowsHold'
  BY <1>2, <1>3, <1>4, <1>5, <1>6, <1>7 DEF PipelineNext, UploadStep, ScoreInv
<1> QED BY <1>1, <1>8 DEF ScoreInv

LEMMA ScoreHolds == PipelineSpec => []ScoreInv
  BY ScoreStarts, ScoreStep, PTL DEF PipelineSpec

\* The score of an application is the one of the analysis it refers to, as long
\* as no request wrote over what another had read: save() writes the paths that
\* differ from a copy (ats.controller.js, resume.processor.js).
THEOREM ScoreStaysOfLatest == PipelineSpec => []ScoreIsOfLatest
<1>1. ScoreInv => ScoreIsOfLatest
  BY DEF ScoreInv
<1> QED BY <1>1, ScoreHolds, PTL

\* Once every request has answered, the application's analysis is of the
\* profile, unless the profile was edited, a call failed, or two requests
\* crossed: an upload scores the application again, an analysis on demand that
\* read the profile before is committed only under the version it had read.
THEOREM AnalysisStaysOfProfile == PipelineSpec => []AnalysisFollowsProfile
<1>1. ScoreInv => AnalysisFollowsProfile
  <2> SUFFICES ASSUME ScoreInv, \A s \in Slots : request[s] = Idle
               PROVE  ~Pending
    BY DEF ScoreInv, FollowsHold, Settled, AnalysisFollowsProfile
  <2> QED BY IdleIsNothing DEF Pending
<1> QED BY <1>1, ScoreHolds, PTL
=============================================================================
