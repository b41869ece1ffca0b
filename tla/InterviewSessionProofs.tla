----------------------- MODULE InterviewSessionProofs -----------------------
(***************************************************************************)
(* What holds of InterviewSession for any number of concurrent requests.   *)
(***************************************************************************)
EXTENDS InterviewSession, TLAPS

\* What a handler knows of the stored document while it holds a copy: it
\* loaded a document that was dated, dates set then are still set, and its
\* edits only add dates, a recording and a permitted status.
CopyInv(w) ==
    LET b == life[w].base
        c == life[w].copy
    IN  /\ DatedAsStatus(c)
        /\ b.actualStart # Unset => doc.actualStart # Unset
        /\ b.actualEnd # Unset => doc.actualEnd # Unset
        /\ c.actualStart = b.actualStart \/ c.actualStart # Unset
        /\ c.actualEnd = b.actualEnd \/ c.actualEnd # Unset
        /\ c.executionSequence = b.executionSequence
        /\ c.lastExecution = b.lastExecution
        /\ c.recording = b.recording \/ c.recording = TRUE
        /\ life[w].pc \in {"assessing", "uploading"} => c.status = b.status
        /\ c.status # b.status =>
             \/ b.status \notin Terminal
             \/ b.status = "CANCELLED" /\ c.status = "COMPLETED"

\* The inductive invariant of the document's lifecycle.
LifeInv ==
    /\ TypeOK
    /\ TimestampsFollowStatus
    /\ \A w \in Writers : CopyInv(w)

\* The inductive invariant of the executions.
ExecInv ==
    /\ SequencesAreUnique
    /\ LastExecutionIsNewest
    /\ \A n \in recorded : n <= doc.executionSequence
-----------------------------------------------------------------------------
\* The edits a handler makes keep a document of the schema.
LEMMA EditTypes ==
    ASSUME NEW d \in Document, clock \in Nat \ {0}
    PROVE  /\ \A to \in Statuses : EditForStatus(d, to) \in Document
           /\ \A to \in Stages : TransitionStage(d, to) \in Document
           /\ CompleteByEvaluation(d) \in Document
<1>1. ASSUME NEW to \in Statuses
      PROVE  EditForStatus(d, to) \in Document
    <2>1. TransitionStatus(d, to) \in Document
        BY DEF Document, TransitionStatus, Statuses, Stages
    <2> QED
        BY <2>1 DEF Document, EditForStatus, Stages
<1>2. ASSUME NEW to \in Stages
      PROVE  TransitionStage(d, to) \in Document
    BY <1>2 DEF Document, TransitionStage, Statuses
<1>3. CompleteByEvaluation(d) \in Document
    BY DEF Document, CompleteByEvaluation, Statuses, Stages
<1> QED
    BY <1>1, <1>2, <1>3

\* A save keeps a document of the schema, and changes only edited fields.
LEMMA MergeType ==
    ASSUME NEW d \in Document, NEW r \in Request
    PROVE  Merge(d, r) \in Document
BY DEF Document, Request, Merge

\* TypeOK is inductive.
LEMMA TypeStep == TypeOK /\ [Next]_vars => TypeOK'
<1> SUFFICES ASSUME TypeOK, [Next]_vars
             PROVE  TypeOK'
    OBVIOUS
<1> USE DEF TypeOK
<1>1. CASE UNCHANGED vars
    BY <1>1 DEF vars
<1>2. ASSUME NEW w \in Writers, NEW to \in Statuses,
             UpdateInterviewStatus(w, to)
      PROVE  TypeOK'
    BY <1>2, EditTypes DEF Accept, UpdateInterviewStatus, Request
<1>3. ASSUME NEW w \in Writers, NEW to \in StageArgs,
             UpdateInterviewStage(w, to)
      PROVE  TypeOK'
    BY <1>3, EditTypes, BoundsAssumption DEF Accept, UpdateInterviewStage, Request
<1>4. ASSUME NEW w \in Writers, BeginEvaluation(w)
      PROVE  TypeOK'
    BY <1>4 DEF Accept, BeginEvaluation, Request
<1>5. ASSUME NEW w \in Writers, FinishEvaluation(w)
      PROVE  TypeOK'
    <2>1. CompleteByEvaluation(life[w].copy) \in Document
        BY EditTypes DEF Request
    <2>2. NoRequest \in Request
        BY DEF NoRequest, NewSession, Request, Document, Statuses, Stages, Unset
    <2> QED
        BY <1>5, <2>1, <2>2 DEF FinishEvaluation, Request, Respond
<1>6. ASSUME NEW w \in Writers, BeginRecording(w)
      PROVE  TypeOK'
    BY <1>6 DEF Accept, BeginRecording, Request
<1>7. ASSUME NEW w \in Writers, FinishRecording(w)
      PROVE  TypeOK'
    <2>1. [life[w].copy EXCEPT !.recording = TRUE] \in Document
        BY DEF Request, Document
    <2> QED
        BY <1>7, <2>1 DEF FinishRecording, Request
<1>8. ASSUME NEW w \in Writers, Save(w) \/ FailRequest(w)
      PROVE  TypeOK'
    <2>1. NoRequest \in Request
        BY DEF NoRequest, NewSession, Request, Document, Statuses, Stages, Unset
    <2> QED
        BY <1>8, <2>1, MergeType DEF Save, FailRequest, Respond
<1>9. ASSUME NEW e \in Runs, RunStep(e)
      PROVE  TypeOK'
    BY <1>9 DEF RunStep, BeginExecution, RecordExecution, FailExecution, Document
<1>10. CASE DenyExecution
    BY <1>10 DEF DenyExecution, Document
<1>11. CASE Tick
    BY <1>11 DEF Tick
<1> QED
    BY <1>1, <1>2, <1>3, <1>4, <1>5, <1>6, <1>7, <1>8, <1>9, <1>10, <1>11
       DEF Next, WriterStep

\* The session as it is scheduled is of the schema.
LEMMA InitTyped == Init => TypeOK
<1> SUFFICES ASSUME Init PROVE TypeOK
    OBVIOUS
<1>1. NewSession \in Document
    BY DEF NewSession, Document, Statuses, Stages, Unset
<1>2. NoRequest \in Request
    BY <1>1 DEF NoRequest, Request
<1>3. overlapped \in BOOLEAN
    BY DEF Init
<1> QED
    BY <1>1, <1>2, <1>3 DEF Init, TypeOK

\* Every field of the schema keeps its type at all times: the save of a stale
\* copy, the atomic counter update and the conditional update never produce a
\* document the schema excludes.
THEOREM TypeCorrect == Spec => []TypeOK
BY InitTyped, TypeStep, PTL DEF Spec
-----------------------------------------------------------------------------
\* A dated document, edited as the handlers edit it, is still dated, and the
\* edit clears no date.
LEMMA EditsDate ==
    ASSUME NEW d \in Document, DatedAsStatus(d), clock \in Nat \ {0}
    PROVE  /\ \A to \in Statuses : DatedAsStatus(EditForStatus(d, to))
           /\ \A to \in Stages : DatedAsStatus(TransitionStage(d, to))
           /\ DatedAsStatus(CompleteByEvaluation(d))
<1>1. ASSUME NEW to \in Statuses
      PROVE  DatedAsStatus(EditForStatus(d, to))
    BY <1>1 DEF Document, EditForStatus, TransitionStatus, DatedAsStatus, Unset
<1>2. ASSUME NEW to \in Stages
      PROVE  DatedAsStatus(TransitionStage(d, to))
    BY <1>2 DEF Document, TransitionStage, DatedAsStatus, Unset
<1>3. DatedAsStatus(CompleteByEvaluation(d))
    BY DEF Document, CompleteByEvaluation, DatedAsStatus, Unset
<1> QED
    BY <1>1, <1>2, <1>3

\* A request keeps what it knows while others change the document, as long as
\* no date of the document is cleared.
LEMMA CopyKept ==
    ASSUME NEW w \in Writers, CopyInv(w), life'[w] = life[w],
           doc.actualStart # Unset => doc'.actualStart # Unset,
           doc.actualEnd # Unset => doc'.actualEnd # Unset
    PROVE  CopyInv(w)'
BY DEF CopyInv, DatedAsStatus, Unset

\* A save leaves a dated document dated and clears no date.
LEMMA SaveKeepsDates ==
    ASSUME LifeInv, NEW w \in Writers, Save(w)
    PROVE  /\ TimestampsFollowStatus'
           /\ doc.actualStart # Unset => doc'.actualStart # Unset
           /\ doc.actualEnd # Unset => doc'.actualEnd # Unset
<1> DEFINE b == life[w].base
           c == life[w].copy
<1>1. CopyInv(w) /\ DatedAsStatus(doc)
    BY DEF LifeInv, TimestampsFollowStatus
<1>2. /\ doc'.status = IF c.status # b.status THEN c.status ELSE doc.status
      /\ doc'.actualStart = IF c.actualStart # b.actualStart
                            THEN c.actualStart ELSE doc.actualStart
      /\ doc'.actualEnd = IF c.actualEnd # b.actualEnd
                          THEN c.actualEnd ELSE doc.actualEnd
    BY DEF Save, Merge
<1> QED
    BY <1>1, <1>2 DEF CopyInv, DatedAsStatus, TimestampsFollowStatus, Unset

\* What a request knows of a document it has just loaded and edited.
LEMMA LoadedCopy ==
    ASSUME LifeInv, NEW w \in Writers, NEW c, NEW pc, doc' = doc,
           life'[w] = [pc |-> pc, base |-> doc, copy |-> c],
           DatedAsStatus(c),
           c.actualStart = doc.actualStart \/ c.actualStart # Unset,
           c.actualEnd = doc.actualEnd \/ c.actualEnd # Unset,
           c.executionSequence = doc.executionSequence,
           c.lastExecution = doc.lastExecution,
           c.recording = doc.recording,
           pc \in {"assessing", "uploading"} => c.status = doc.status,
           c.status # doc.status => doc.status \notin Terminal
    PROVE  CopyInv(w)'
BY DEF CopyInv, DatedAsStatus, Unset, Terminal

\* LifeInv is inductive.
LEMMA LifeStep == LifeInv /\ [Next]_vars => LifeInv'
<1> SUFFICES ASSUME LifeInv, [Next]_vars
             PROVE  LifeInv'
    OBVIOUS
<1>t. TypeOK'
    BY TypeStep DEF LifeInv
<1>d. /\ TypeOK /\ doc \in Document /\ DatedAsStatus(doc)
      /\ clock \in Nat \ {0}
      /\ \A w \in Writers : CopyInv(w)
      /\ \A w \in Writers : life[w] \in Request
    BY DEF LifeInv, TypeOK, TimestampsFollowStatus
<1> SUFFICES TimestampsFollowStatus' /\ \A v \in Writers : CopyInv(v)'
    BY <1>t DEF LifeInv
<1>1. ASSUME UNCHANGED doc,
             NEW w \in Writers, CopyInv(w)',
             \A v \in Writers : v # w => life'[v] = life[v]
      PROVE  TimestampsFollowStatus' /\ \A v \in Writers : CopyInv(v)'
    <2>1. TimestampsFollowStatus'
        BY <1>1, <1>d DEF TimestampsFollowStatus, DatedAsStatus
    <2>2. \A v \in Writers : CopyInv(v)'
        BY <1>1, <1>d, CopyKept
    <2> QED
        BY <2>1, <2>2
<1>2. ASSUME UNCHANGED life,
             doc'.status = doc.status, doc'.actualStart = doc.actualStart,
             doc'.actualEnd = doc.actualEnd
      PROVE  TimestampsFollowStatus' /\ \A v \in Writers : CopyInv(v)'
    <2>1. TimestampsFollowStatus'
        BY <1>2, <1>d DEF TimestampsFollowStatus, DatedAsStatus
    <2>2. \A v \in Writers : CopyInv(v)'
        BY <1>2, <1>d, CopyKept
    <2> QED
        BY <2>1, <2>2
<1>3. ASSUME NEW w \in Writers, NEW to \in Statuses,
             UpdateInterviewStatus(w, to)
      PROVE  TimestampsFollowStatus' /\ \A v \in Writers : CopyInv(v)'
    <2> DEFINE c == EditForStatus(doc, to)
    <2>1. /\ DatedAsStatus(c)
          /\ c.actualStart = doc.actualStart \/ c.actualStart # Unset
          /\ c.actualEnd = doc.actualEnd \/ c.actualEnd # Unset
          /\ c.executionSequence = doc.executionSequence
          /\ c.lastExecution = doc.lastExecution
          /\ c.recording = doc.recording
        BY <1>d, EditsDate
           DEF EditForStatus, TransitionStatus, Document, Unset
    <2>2. doc.status \notin Terminal
        BY <1>3 DEF Accept, UpdateInterviewStatus, CanTransitionToStatus,
                    ValidStatusTransitions, Terminal
    <2>3. /\ life'[w] = [pc |-> "saving", base |-> doc, copy |-> c]
          /\ \A v \in Writers : v # w => life'[v] = life[v]
          /\ UNCHANGED doc
        BY <1>3, <1>d DEF Accept, UpdateInterviewStatus, TypeOK
    <2> HIDE DEF c
    <2>4. CopyInv(w)'
        BY <2>1, <2>2, <2>3, LoadedCopy
    <2> QED
        BY <1>1, <2>3, <2>4
<1>4. ASSUME NEW w \in Writers, NEW to \in StageArgs,
             UpdateInterviewStage(w, to)
      PROVE  TimestampsFollowStatus' /\ \A v \in Writers : CopyInv(v)'
    <2> DEFINE c == TransitionStage(doc, to)
    <2>1. /\ DatedAsStatus(c)
          /\ c.actualStart = doc.actualStart \/ c.actualStart # Unset
          /\ c.actualEnd = doc.actualEnd \/ c.actualEnd # Unset
          /\ c.executionSequence = doc.executionSequence
          /\ c.lastExecution = doc.lastExecution
          /\ c.recording = doc.recording
        BY <1>d, EditsDate, BoundsAssumption
           DEF TransitionStage, Document, Unset
    <2>2. doc.status \notin Terminal
        BY <1>4 DEF Accept, UpdateInterviewStage, CanTransitionStage
    <2>3. /\ life'[w] = [pc |-> "saving", base |-> doc, copy |-> c]
          /\ \A v \in Writers : v # w => life'[v] = life[v]
          /\ UNCHANGED doc
        BY <1>4, <1>d DEF Accept, UpdateInterviewStage, TypeOK
    <2> HIDE DEF c
    <2>4. CopyInv(w)'
        BY <2>1, <2>2, <2>3, LoadedCopy
    <2> QED
        BY <1>1, <2>3, <2>4
<1>5. ASSUME NEW w \in Writers, BeginEvaluation(w) \/ BeginRecording(w)
      PROVE  TimestampsFollowStatus' /\ \A v \in Writers : CopyInv(v)'
    <2>1. PICK pc : life'[w] = [pc |-> pc, base |-> doc, copy |-> doc]
        BY <1>5, <1>d DEF Accept, BeginEvaluation, BeginRecording, TypeOK
    <2>2. /\ \A v \in Writers : v # w => life'[v] = life[v]
          /\ UNCHANGED doc
        BY <1>5, <1>d DEF Accept, BeginEvaluation, BeginRecording, TypeOK
    <2>3. CopyInv(w)'
        BY <1>d, <2>1, <2>2, LoadedCopy
    <2> QED
        BY <1>1, <2>2, <2>3
<1>6. ASSUME NEW w \in Writers, FinishEvaluation(w)
      PROVE  TimestampsFollowStatus' /\ \A v \in Writers : CopyInv(v)'
    <2>1. /\ \A v \in Writers : v # w => life'[v] = life[v]
          /\ UNCHANGED doc
        BY <1>6, <1>d DEF FinishEvaluation, Respond, TypeOK
    <2>2. CASE ~NeedsCompletion(life[w].copy)
        <3>1. life'[w] = NoRequest
            BY <1>6, <1>d, <2>2 DEF FinishEvaluation, Respond, TypeOK
        <3>2. CopyInv(w)'
            BY <3>1 DEF CopyInv, NoRequest, NewSession, DatedAsStatus, Unset
        <3> QED
            BY <1>1, <2>1, <3>2
    <2>3. CASE NeedsCompletion(life[w].copy)
        <3> DEFINE c == CompleteByEvaluation(life[w].copy)
        <3>1. /\ life'[w].base = life[w].base
              /\ life'[w].copy = c
              /\ life'[w].pc = "saving"
            BY <1>6, <1>d, <2>3 DEF FinishEvaluation, TypeOK, Request
        <3>2. /\ c.status = "COMPLETED"
              /\ c.actualStart = life[w].copy.actualStart
              /\ c.actualEnd = clock
              /\ c.executionSequence = life[w].copy.executionSequence
              /\ c.lastExecution = life[w].copy.lastExecution
              /\ c.recording = life[w].copy.recording
            BY <1>d DEF CompleteByEvaluation, Request, Document
        <3>3. /\ life[w].base.status = life[w].copy.status
              /\ life[w].base.status # "COMPLETED"
            BY <1>6, <1>d, <2>3
               DEF FinishEvaluation, CopyInv, NeedsCompletion
        <3>4. CopyInv(w)'
            <4> HIDE DEF c
            <4> QED
                BY <1>d, <2>1, <3>1, <3>2, <3>3
                   DEF CopyInv, DatedAsStatus, Terminal, Unset
        <3> QED
            BY <1>1, <2>1, <3>4
    <2> QED
        BY <2>2, <2>3
<1>7. ASSUME NEW w \in Writers, FinishRecording(w)
      PROVE  TimestampsFollowStatus' /\ \A v \in Writers : CopyInv(v)'
    <2>1. /\ \A v \in Writers : v # w => life'[v] = life[v]
          /\ UNCHANGED doc
        BY <1>7, <1>d DEF FinishRecording, TypeOK
    <2>2. /\ life'[w].base = life[w].base
          /\ life'[w].copy = [life[w].copy EXCEPT !.recording = TRUE]
          /\ life'[w].pc = "saving"
        BY <1>7, <1>d DEF FinishRecording, TypeOK, Request
    <2>3. /\ life'[w].copy.recording = TRUE
          /\ life'[w].copy.status = life[w].copy.status
          /\ life'[w].copy.actualStart = life[w].copy.actualStart
          /\ life'[w].copy.actualEnd = life[w].copy.actualEnd
          /\ life'[w].copy.executionSequence = life[w].copy.executionSequence
          /\ life'[w].copy.lastExecution = life[w].copy.lastExecution
        BY <1>d, <2>2 DEF Request, Document
    <2>4. CopyInv(w)'
        BY <1>d, <2>1, <2>2, <2>3 DEF CopyInv, DatedAsStatus, Terminal, Unset
    <2> QED
        BY <1>1, <2>1, <2>4
<1>8. ASSUME NEW w \in Writers, Save(w)
      PROVE  TimestampsFollowStatus' /\ \A v \in Writers : CopyInv(v)'
    <2>1. /\ \A v \in Writers : v # w => life'[v] = life[v]
          /\ life'[w] = NoRequest
        BY <1>8, <1>d DEF Save, Respond, TypeOK
    <2>2. CopyInv(w)'
        BY <2>1 DEF CopyInv, NoRequest, NewSession, DatedAsStatus, Unset
    <2>3. \A v \in Writers : CopyInv(v)'
        BY <1>8, <1>d, <2>1, <2>2, SaveKeepsDates, CopyKept
    <2> QED
        BY <1>8, <2>3, SaveKeepsDates
<1>9. ASSUME NEW w \in Writers, FailRequest(w)
      PROVE  TimestampsFollowStatus' /\ \A v \in Writers : CopyInv(v)'
    <2>1. /\ \A v \in Writers : v # w => life'[v] = life[v]
          /\ life'[w] = NoRequest
          /\ UNCHANGED doc
        BY <1>9, <1>d DEF FailRequest, Respond, TypeOK
    <2>2. CopyInv(w)'
        BY <2>1 DEF CopyInv, NoRequest, NewSession, DatedAsStatus, Unset
    <2> QED
        BY <1>1, <2>1, <2>2
<1>10. ASSUME NEW e \in Runs, RunStep(e)
       PROVE  TimestampsFollowStatus' /\ \A v \in Writers : CopyInv(v)'
    BY <1>2, <1>10, <1>d
       DEF RunStep, BeginExecution, RecordExecution, FailExecution, Document
<1>11. CASE DenyExecution
    BY <1>2, <1>11, <1>d DEF DenyExecution, Document
<1>12. CASE Tick
    BY <1>2, <1>12 DEF Tick
<1>13. CASE UNCHANGED vars
    BY <1>2, <1>13 DEF vars
<1> QED
    BY <1>3, <1>4, <1>5, <1>6, <1>7, <1>8, <1>9, <1>10, <1>11, <1>12, <1>13
       DEF Next, WriterStep

\* LifeInv holds of every reachable state.
THEOREM LifeInvariant == Spec => []LifeInv
<1>1. Init => LifeInv
    <2> SUFFICES ASSUME Init PROVE LifeInv
        OBVIOUS
    <2>1. TypeOK
        BY InitTyped
    <2>2. TimestampsFollowStatus
        BY DEF Init, TimestampsFollowStatus, DatedAsStatus, NewSession
    <2>3. ASSUME NEW w \in Writers
          PROVE  CopyInv(w)
        BY DEF Init, CopyInv, NoRequest, NewSession, DatedAsStatus, Unset
    <2> QED
        BY <2>1, <2>2, <2>3 DEF LifeInv
<1> QED
    BY <1>1, LifeStep, PTL DEF Spec

\* For any number of concurrent requests, a LIVE session has a start time and
\* a COMPLETED one an end time.
THEOREM TimestampsHold == Spec => []TimestampsFollowStatus
BY LifeInvariant, PTL DEF LifeInv

\* A step that changes the stored status is the save of an edited status.
LEMMA StatusChangesBySave ==
    ASSUME LifeInv, [Next]_vars, doc'.status # doc.status
    PROVE  \E w \in Writers :
             /\ Save(w)
             /\ life[w].copy.status # life[w].base.status
             /\ doc'.status = life[w].copy.status
<1>1. ASSUME NEW w \in Writers, Save(w)
      PROVE  doc'.status = IF life[w].copy.status # life[w].base.status
                           THEN life[w].copy.status ELSE doc.status
    BY <1>1 DEF Save, Merge
<1>2. ASSUME NEW e \in Runs, RunStep(e)
      PROVE  doc'.status = doc.status
    BY <1>2 DEF RunStep, BeginExecution, RecordExecution, FailExecution,
                LifeInv, TypeOK, Document
<1>3. DenyExecution => doc'.status = doc.status
    BY DEF DenyExecution, LifeInv, TypeOK, Document
<1>4. ASSUME NEW w \in Writers, WriterStep(w), ~Save(w)
      PROVE  doc' = doc
    BY <1>4 DEF Accept, WriterStep, UpdateInterviewStatus, UpdateInterviewStage,
                BeginEvaluation, FinishEvaluation, BeginRecording,
                FinishRecording, FailRequest
<1>5. Tick \/ UNCHANGED vars => doc' = doc
    BY DEF Tick, vars
<1> QED
    BY <1>1, <1>2, <1>3, <1>4, <1>5 DEF Next

\* For any number of concurrent requests, a session leaves a terminal status
\* only by the save of a copy loaded before it was terminal, or by the
\* evaluation of a cancelled session: canTransitionToStatus guards every copy.
THEOREM GuardsHold == Spec => GuardsHoldOnCopies
<1> DEFINE A == doc.status \in Terminal /\ doc'.status # doc.status =>
                  \E w \in Writers :
                    /\ life[w].pc = "saving"
                    /\ \/ life[w].base.status \notin Terminal
                       \/ /\ life[w].base.status = "CANCELLED"
                          /\ life[w].copy.status = "COMPLETED"
<1>1. LifeInv /\ [Next]_vars => A
    <2> SUFFICES ASSUME LifeInv, [Next]_vars, doc'.status # doc.status
                 PROVE  A
        OBVIOUS
    <2>1. PICK w \in Writers : Save(w) /\ life[w].copy.status # life[w].base.status
        BY StatusChangesBySave
    <2>2. CopyInv(w) /\ life[w].pc = "saving"
        BY <2>1 DEF LifeInv, Save
    <2> QED
        BY <2>1, <2>2 DEF CopyInv
<1>2. LifeInv /\ [Next]_vars => [A]_vars
    BY <1>1
<1> QED
    BY <1>2, LifeInvariant, PTL DEF Spec, GuardsHoldOnCopies
-----------------------------------------------------------------------------
\* What a save leaves of the executions: all of it.
LEMMA SaveKeepsExecutions ==
    ASSUME LifeInv, NEW w \in Writers, Save(w)
    PROVE  /\ doc'.executionSequence = doc.executionSequence
           /\ doc'.lastExecution = doc.lastExecution
BY DEF LifeInv, CopyInv, Save, Merge

\* ExecInv is inductive, given LifeInv.
LEMMA ExecStep == LifeInv /\ ExecInv /\ [Next]_vars => ExecInv'
<1> SUFFICES ASSUME LifeInv, ExecInv, [Next]_vars
             PROVE  ExecInv'
    OBVIOUS
<1>t. /\ doc.executionSequence \in Nat
      /\ doc.lastExecution \in Nat
      /\ exec \in [Runs -> Nat]
      /\ recorded \subseteq Nat \ {0}
      /\ doc \in Document
    BY DEF LifeInv, TypeOK, Document
<1>1. ASSUME UNCHANGED <<exec, recorded>>,
             doc'.executionSequence = doc.executionSequence,
             doc'.lastExecution = doc.lastExecution
      PROVE  ExecInv'
    BY <1>1 DEF ExecInv, SequencesAreUnique, LastExecutionIsNewest
<1>2. ASSUME NEW w \in Writers, WriterStep(w)
      PROVE  ExecInv'
    <2>1. CASE Save(w)
        BY <1>1, <2>1, SaveKeepsExecutions DEF Save
    <2>2. CASE ~Save(w)
        <3>1. UNCHANGED <<doc, exec, recorded>>
            BY <1>2, <2>2
               DEF Accept, WriterStep, UpdateInterviewStatus, UpdateInterviewStage,
                   BeginEvaluation, FinishEvaluation, BeginRecording,
                   FinishRecording, FailRequest
        <3> QED
            BY <1>1, <3>1
    <2> QED
        BY <2>1, <2>2
<1>3. ASSUME NEW e \in Runs, BeginExecution(e)
      PROVE  ExecInv'
    <2> DEFINE n == doc.executionSequence + 1
    <2>1. /\ doc'.executionSequence = n
          /\ doc'.lastExecution = doc.lastExecution
          /\ recorded' = recorded
          /\ exec'[e] = n
          /\ \A f \in Runs : f # e => exec'[f] = exec[f]
        BY <1>3, <1>t DEF BeginExecution, Document
    <2>2. n \notin recorded
        BY <1>t DEF ExecInv
    <2>3. \A f \in Runs : exec[f] <= doc.executionSequence
        BY DEF ExecInv, SequencesAreUnique
    <2> QED
        BY <1>t, <2>1, <2>2, <2>3
           DEF ExecInv, SequencesAreUnique, LastExecutionIsNewest
<1>4. ASSUME NEW e \in Runs, RecordExecution(e)
      PROVE  ExecInv'
    <2>1. /\ exec[e] # 0
          /\ exec'[e] = 0
          /\ \A f \in Runs : f # e => exec'[f] = exec[f]
          /\ recorded' = recorded \cup {exec[e]}
          /\ doc'.executionSequence = doc.executionSequence
          /\ doc'.lastExecution = IF Supersedes(exec[e])
                                  THEN exec[e] ELSE doc.lastExecution
        BY <1>4, <1>t DEF RecordExecution, Document
    <2>2. SequencesAreUnique'
        BY <1>t, <2>1 DEF ExecInv, SequencesAreUnique
    <2>3. LastExecutionIsNewest'
        BY <1>t, <2>1 DEF ExecInv, LastExecutionIsNewest, Supersedes
    <2>4. (\A m \in recorded : m <= doc.executionSequence)'
        BY <2>1 DEF ExecInv, SequencesAreUnique
    <2> QED
        BY <2>2, <2>3, <2>4 DEF ExecInv
<1>5. ASSUME NEW e \in Runs, FailExecution(e)
      PROVE  ExecInv'
    <2>1. /\ UNCHANGED <<doc, recorded>>
          /\ exec'[e] = 0
          /\ \A f \in Runs : f # e => exec'[f] = exec[f]
        BY <1>5, <1>t DEF FailExecution
    <2> QED
        BY <1>t, <2>1 DEF ExecInv, SequencesAreUnique, LastExecutionIsNewest
<1>6. CASE DenyExecution
    <2>1. /\ UNCHANGED <<exec, recorded>>
          /\ doc'.executionSequence = doc.executionSequence + 1
          /\ doc'.lastExecution = doc.lastExecution
        BY <1>6, <1>t DEF DenyExecution, Document
    <2> QED
        BY <1>t, <2>1 DEF ExecInv, SequencesAreUnique, LastExecutionIsNewest
<1>7. CASE Tick \/ UNCHANGED vars
    BY <1>1, <1>7 DEF Tick, vars
<1> QED
    BY <1>2, <1>3, <1>4, <1>5, <1>6, <1>7 DEF Next, RunStep

\* ExecInv holds of every reachable state.
THEOREM ExecInvariant == Spec => []ExecInv
<1>1. Init => ExecInv
    BY DEF Init, ExecInv, SequencesAreUnique, LastExecutionIsNewest, NewSession
<1> QED
    BY <1>1, ExecStep, LifeInvariant, PTL DEF Spec

\* For any number of concurrent executions, the stored result is that of the
\* newest execution that was recorded, in whatever order the sandbox answers.
THEOREM NewestResultStored == Spec => []LastExecutionIsNewest
BY ExecInvariant, PTL DEF ExecInv

\* For any number of concurrent executions, no two hold one sequence number.
THEOREM SequencesUnique == Spec => []SequencesAreUnique
BY ExecInvariant, PTL DEF ExecInv

\* The save of a stale copy, whatever was stored since it was loaded, loses
\* neither a recording nor an execution.
THEOREM NothingLost == Spec => ConcurrentWritesSurvive
<1> DEFINE A == /\ doc.recording => doc'.recording
                /\ doc'.executionSequence >= doc.executionSequence
                /\ doc'.lastExecution >= doc.lastExecution
<1>1. LifeInv /\ ExecInv /\ [Next]_vars => [A]_vars
    <2> SUFFICES ASSUME LifeInv, ExecInv, Next
                 PROVE  A
        BY DEF vars
    <2>t. /\ doc.executionSequence \in Nat
          /\ doc.lastExecution \in Nat
          /\ doc \in Document
          /\ exec \in [Runs -> Nat]
        BY DEF LifeInv, TypeOK, Document
    <2>1. doc' = doc => A
        BY <2>t
    <2>2. ASSUME NEW w \in Writers, Save(w)
          PROVE  A
        <3>1. doc.recording => doc'.recording
            BY <2>2 DEF LifeInv, CopyInv, Save, Merge
        <3> QED
            BY <2>2, <2>t, <3>1, SaveKeepsExecutions
    <2>3. ASSUME NEW w \in Writers, WriterStep(w), ~Save(w)
          PROVE  doc' = doc
        BY <2>3 DEF Accept, WriterStep, UpdateInterviewStatus, UpdateInterviewStage,
                    BeginEvaluation, FinishEvaluation, BeginRecording,
                    FinishRecording, FailRequest
    <2>4. ASSUME NEW e \in Runs, RecordExecution(e)
          PROVE  A
        <3>1. exec[e] \in Nat /\ exec[e] # 0
            BY <2>4, <2>t DEF RecordExecution
        <3>2. /\ doc'.recording = doc.recording
              /\ doc'.executionSequence = doc.executionSequence
              /\ doc'.lastExecution = IF Supersedes(exec[e])
                                      THEN exec[e] ELSE doc.lastExecution
            BY <2>4, <2>t DEF RecordExecution, Document
        <3> QED
            BY <2>t, <3>1, <3>2 DEF Supersedes
    <2>5. ASSUME NEW e \in Runs, BeginExecution(e)
          PROVE  A
        BY <2>5, <2>t DEF BeginExecution, Document
    <2>6. ASSUME NEW e \in Runs, FailExecution(e)
          PROVE  doc' = doc
        BY <2>6 DEF FailExecution
    <2>7. CASE DenyExecution
        BY <2>7, <2>t DEF DenyExecution, Document
    <2>8. CASE Tick
        BY <2>1, <2>8 DEF Tick
    <2> QED
        BY <2>1, <2>2, <2>3, <2>4, <2>5, <2>6, <2>7, <2>8 DEF Next, RunStep
<1> QED
    BY <1>1, LifeInvariant, ExecInvariant, PTL DEF Spec, ConcurrentWritesSurvive
-----------------------------------------------------------------------------
\* Changing the number that run e holds from o to n, either of them 0 for none,
\* changes the set of pending numbers by just that, the numbers being distinct.
LEMMA PendingChange ==
    ASSUME exec \in [Runs -> Nat], SequencesAreUnique,
           NEW e \in Runs, NEW n \in Nat, exec' = [exec EXCEPT ![e] = n]
    PROVE  {exec'[f] : f \in Runs} \ {0}
             = (({exec[f] : f \in Runs} \ {0}) \ {exec[e]}) \cup ({n} \ {0})
<1>1. /\ exec'[e] = n
      /\ \A f \in Runs : f # e => exec'[f] = exec[f]
    OBVIOUS
<1>2. \A f \in Runs : f # e /\ exec[f] # 0 => exec[f] # exec[e]
    BY DEF SequencesAreUnique
<1> QED
    BY <1>1, <1>2

\* A step of a session is a step of the execution log, or leaves it as it is.
LEMMA LogStep == LifeInv /\ ExecInv /\ [Next]_vars => [Log!Next]_Log!vars
<1> SUFFICES ASSUME LifeInv, ExecInv, [Next]_vars
             PROVE  [Log!Next]_Log!vars
    OBVIOUS
<1> DEFINE pending == {exec[e] : e \in Runs} \ {0}
<1>t. /\ doc.executionSequence \in Nat
      /\ doc.lastExecution \in Nat
      /\ doc \in Document
      /\ exec \in [Runs -> Nat]
    BY DEF LifeInv, TypeOK, Document
<1>u. SequencesAreUnique
    BY DEF ExecInv
<1>1. ASSUME UNCHANGED exec,
             doc'.executionSequence = doc.executionSequence,
             doc'.lastExecution = doc.lastExecution
      PROVE  UNCHANGED Log!vars
    BY <1>1 DEF Log!vars
<1>2. ASSUME NEW w \in Writers, WriterStep(w)
      PROVE  UNCHANGED Log!vars
    <2>1. CASE Save(w)
        BY <1>1, <2>1, SaveKeepsExecutions DEF Save
    <2>2. CASE ~Save(w)
        <3>1. UNCHANGED <<doc, exec>>
            BY <1>2, <2>2
               DEF Accept, WriterStep, UpdateInterviewStatus, UpdateInterviewStage,
                   BeginEvaluation, FinishEvaluation, BeginRecording,
                   FinishRecording, FailRequest
        <3> QED
            BY <1>1, <3>1
    <2> QED
        BY <2>1, <2>2
<1>3. ASSUME NEW e \in Runs, BeginExecution(e)
      PROVE  Log!Take
    <2>1. /\ exec[e] = 0
          /\ exec' = [exec EXCEPT ![e] = doc.executionSequence + 1]
          /\ doc'.executionSequence = doc.executionSequence + 1
          /\ doc'.lastExecution = doc.lastExecution
        BY <1>3, <1>t DEF BeginExecution, Document
    <2>2. pending' = (pending \ {exec[e]}) \cup ({doc.executionSequence + 1} \ {0})
        BY <2>1, <1>t, <1>u, PendingChange
    <2>3. pending' = pending \cup {doc.executionSequence + 1}
        BY <2>1, <2>2, <1>t
    <2> QED
        BY <2>1, <2>3 DEF Log!Take
<1>4. ASSUME NEW e \in Runs, RecordExecution(e)
      PROVE  \E n \in pending : Log!Answer(n)
    <2>1. /\ exec[e] # 0
          /\ exec[e] \in pending
          /\ exec' = [exec EXCEPT ![e] = 0]
          /\ doc'.executionSequence = doc.executionSequence
          /\ doc'.lastExecution = IF Supersedes(exec[e])
                                  THEN exec[e] ELSE doc.lastExecution
        BY <1>4, <1>t DEF RecordExecution, Document
    <2>2. pending' = (pending \ {exec[e]}) \cup ({0} \ {0})
        BY <2>1, <1>t, <1>u, PendingChange
    <2>3. pending' = pending \ {exec[e]}
        BY <2>2
    <2>4. doc'.lastExecution = IF doc.lastExecution < exec[e]
                               THEN exec[e] ELSE doc.lastExecution
        BY <2>1, <1>t DEF Supersedes
    <2> QED
        BY <2>1, <2>3, <2>4 DEF Log!Answer
<1>5. ASSUME NEW e \in Runs, FailExecution(e)
      PROVE  \E n \in pending : Log!Abandon(n)
    <2>1. /\ exec[e] \in pending
          /\ exec' = [exec EXCEPT ![e] = 0]
          /\ UNCHANGED doc
        BY <1>5 DEF FailExecution
    <2>2. pending' = (pending \ {exec[e]}) \cup ({0} \ {0})
        BY <2>1, <1>t, <1>u, PendingChange
    <2>3. pending' = pending \ {exec[e]}
        BY <2>2
    <2> QED
        BY <2>1, <2>3 DEF Log!Abandon
<1>6. CASE DenyExecution
    <2>1. /\ UNCHANGED exec
          /\ doc'.executionSequence = doc.executionSequence + 1
          /\ doc'.lastExecution = doc.lastExecution
        BY <1>6, <1>t DEF DenyExecution, Document
    <2>2. Log!Waste
        BY <2>1 DEF Log!Waste
    <2> QED
        BY <2>2 DEF Log!Next
<1>7. CASE Tick \/ UNCHANGED vars
    BY <1>1, <1>7 DEF Tick, vars
<1> QED
    BY <1>2, <1>3, <1>4, <1>5, <1>6, <1>7 DEF Next, RunStep, Log!Next

\* For any number of writers and executions, the session implements the
\* execution log: numbers are handed out once and in order, and the result on
\* display is always that of the highest number that has answered.
THEOREM ImplementsLog == Spec => ImplementsExecutionLog
<1>1. Init => Log!Init
    BY DEF Init, Log!Init, NewSession
<1> QED
    BY <1>1, LogStep, LifeInvariant, ExecInvariant, PTL
       DEF Spec, ImplementsExecutionLog, Log!Spec
-----------------------------------------------------------------------------
(***************************************************************************)
(* What holds of InterviewSession until two requests overlap: over every   *)
(* sequence of requests, of any length and with a failure in any of them,  *)
(* the transition methods and the evaluation keep status, stage and dates  *)
(* consistent, although each of them is guarded in its own way.            *)
(***************************************************************************)

\* Two versions of the document that have the same life cycle.
Same(d, e) ==
    /\ d.status = e.status
    /\ d.stage = e.stage
    /\ d.actualStart = e.actualStart
    /\ d.actualEnd = e.actualEnd

\* A document that is completed in all of its fields or in none.
Orderly(d) ==
    /\ d.stage = "COMPLETED" <=> d.status = "COMPLETED"
    /\ d.actualEnd # Unset <=> d.status = "COMPLETED"
    /\ d.actualStart <= clock
    /\ d.actualEnd <= clock
    /\ d.actualEnd # Unset => d.actualStart <= d.actualEnd

\* What an edit may not do: move a start, or leave a terminal status.
Follows(b, c) ==
    /\ b.actualStart # Unset => c.actualStart = b.actualStart
    /\ b.status \in Terminal /\ c.status # b.status =>
         b.status = "CANCELLED" /\ c.status = "COMPLETED"

\* The one request in progress knows the document as it is.
Alone(w) ==
    LET r == life[w]
    IN  /\ \A v \in Writers \ {w} : Idle(v)
        /\ Same(r.base, doc)
        /\ Orderly(r.copy)
        /\ Follows(r.base, r.copy)
        /\ r.pc \in {"assessing", "uploading"} => Same(r.copy, r.base)

Serial ==
    /\ Orderly(doc)
    /\ \A w \in Writers : ~Idle(w) => Alone(w)

\* The inductive invariant of the requests that do not overlap.
SerialInv == overlapped \/ Serial
-----------------------------------------------------------------------------
\* An edit of an orderly document that its guard admits is orderly again, and
\* an evaluation's whatever the status was.
LEMMA EditsAreOrderly ==
    ASSUME NEW d \in Document, Orderly(d), clock \in Nat \ {0}
    PROVE  /\ \A to \in Statuses : CanTransitionToStatus(d, to) =>
                /\ Orderly(EditForStatus(d, to))
                /\ Follows(d, EditForStatus(d, to))
           /\ \A to \in Stages : CanTransitionStage(d, to) =>
                /\ Orderly(TransitionStage(d, to))
                /\ Follows(d, TransitionStage(d, to))
           /\ NeedsCompletion(d) =>
                /\ Orderly(CompleteByEvaluation(d))
                /\ Follows(d, CompleteByEvaluation(d))
<1>1. ASSUME NEW to \in Statuses, CanTransitionToStatus(d, to)
      PROVE  /\ Orderly(EditForStatus(d, to))
             /\ Follows(d, EditForStatus(d, to))
    <2>1. /\ d.status \notin Terminal
          /\ to # "LIVE" \/ d.status # "LIVE"
          /\ to \in {"WAITING_ROOM", "LIVE", "COMPLETED", "CANCELLED"}
        BY <1>1 DEF CanTransitionToStatus, ValidStatusTransitions, Document,
                    Statuses, Terminal
    <2> QED
        BY <2>1 DEF EditForStatus, TransitionStatus, Orderly, Follows,
                    Document, Terminal, Unset
<1>2. ASSUME NEW to \in Stages, CanTransitionStage(d, to)
      PROVE  /\ Orderly(TransitionStage(d, to))
             /\ Follows(d, TransitionStage(d, to))
    BY <1>2 DEF CanTransitionStage, TransitionStage, Orderly, Follows,
                Document, Terminal, Unset
<1>3. ASSUME NeedsCompletion(d)
      PROVE  /\ Orderly(CompleteByEvaluation(d))
             /\ Follows(d, CompleteByEvaluation(d))
    BY <1>3 DEF NeedsCompletion, CompleteByEvaluation, Orderly, Follows,
                Document, Terminal, Unset
<1> QED
    BY <1>1, <1>2, <1>3

\* The save of the one request in progress stores the life cycle of its copy.
LEMMA SerialSave ==
    ASSUME NEW w \in Writers, Save(w), Same(life[w].base, doc)
    PROVE  Same(doc', life[w].copy)
BY DEF Save, Merge, Same

\* A request that loads while no other is in progress is alone.
LEMMA AloneAfterLoad ==
    ASSUME TypeOK, Serial, ~overlapped', NEW w \in Writers, NEW pc, NEW c,
           Accept(w, pc, c), Orderly(c), Follows(doc, c),
           pc \in {"assessing", "uploading"} => Same(c, doc)
    PROVE  Serial'
<1>1. /\ doc' = doc /\ clock' = clock
      /\ life'[w] = [pc |-> pc, base |-> doc, copy |-> c]
      /\ \A v \in Writers \ {w} : life'[v] = life[v]
      /\ \A v \in Writers : Idle(v)
    BY DEF Accept, TypeOK
<1>2. \A v \in Writers \ {w} : Idle(v)'
    BY <1>1 DEF Idle
<1>3. Alone(w)'
    BY <1>1, <1>2 DEF Alone, Same, Orderly, Follows
<1>4. Orderly(doc)'
    BY <1>1 DEF Serial, Orderly
<1> QED
    BY <1>2, <1>3, <1>4 DEF Serial

\* A request that answers leaves nobody in progress.
LEMMA QuietAfterResponse ==
    ASSUME TypeOK, Serial, NEW w \in Writers, ~Idle(w), Respond(w),
           Orderly(doc)'
    PROVE  Serial'
<1>1. \A v \in Writers \ {w} : life'[v] = life[v] /\ Idle(v)
    BY DEF Respond, TypeOK, Serial, Alone
<1>2. life'[w].pc = "idle"
    BY DEF Respond, TypeOK, NoRequest
<1> QED
    BY <1>1, <1>2 DEF Serial, Idle

\* Executions and time leave the requests and the life cycle alone.
LEMMA SerialKept ==
    ASSUME TypeOK, Serial, UNCHANGED life, Same(doc', doc),
           clock' \in Nat, clock <= clock'
    PROVE  Serial'
<1>1. ASSUME NEW d \in Document, NEW e, Same(e, d), Orderly(d)
      PROVE  /\ e.stage = "COMPLETED" <=> e.status = "COMPLETED"
             /\ e.actualEnd # Unset <=> e.status = "COMPLETED"
             /\ e.actualStart <= clock'
             /\ e.actualEnd <= clock'
             /\ e.actualEnd # Unset => e.actualStart <= e.actualEnd
    BY <1>1 DEF Same, Orderly, Document, TypeOK
<1>2. Orderly(doc)'
    BY <1>1 DEF Serial, TypeOK, Orderly
<1>3. ASSUME NEW w \in Writers, ~Idle(w)'
      PROVE  Alone(w)'
    <2>1. Alone(w) /\ life'[w] = life[w] /\ life[w].copy \in Document
        BY <1>3 DEF Serial, Idle, TypeOK, Request
    <2>2. Orderly(life[w].copy)'
        BY <1>1, <2>1 DEF Alone, Orderly, Same
    <2> QED
        BY <2>1, <2>2 DEF Alone, Idle, Same, Follows
<1> QED
    BY <1>2, <1>3 DEF Serial
-----------------------------------------------------------------------------
\* SerialInv is inductive.
LEMMA SerialStep == TypeOK /\ SerialInv /\ [Next]_vars => SerialInv'
<1> SUFFICES ASSUME TypeOK, SerialInv, [Next]_vars, ~overlapped'
             PROVE  Serial'
    BY DEF SerialInv
<1>t. TypeOK'
    BY TypeStep
<1>s. Serial
    <2>1. overlapped => overlapped'
        BY DEF vars, Next, WriterStep, RunStep, Accept, UpdateInterviewStatus,
               UpdateInterviewStage, BeginEvaluation, FinishEvaluation,
               BeginRecording, FinishRecording, Save, FailRequest,
               BeginExecution, RecordExecution, FailExecution, DenyExecution,
               Tick
    <2> QED
        BY <2>1 DEF SerialInv
<1>d. /\ doc \in Document /\ Orderly(doc) /\ clock \in Nat \ {0}
      /\ \A w \in Writers : life[w] \in Request /\ life[w].copy \in Document
      /\ \A w \in Writers : ~Idle(w) => Alone(w)
    BY <1>s DEF TypeOK, Serial, Request
<1>1. ASSUME NEW w \in Writers, NEW to \in Statuses,
             UpdateInterviewStatus(w, to)
      PROVE  Serial'
    BY <1>1, <1>d, <1>s, EditsAreOrderly, AloneAfterLoad
       DEF UpdateInterviewStatus
<1>2. ASSUME NEW w \in Writers, NEW to \in StageArgs,
             UpdateInterviewStage(w, to)
      PROVE  Serial'
    BY <1>2, <1>d, <1>s, EditsAreOrderly, AloneAfterLoad, BoundsAssumption
       DEF UpdateInterviewStage
<1>3. ASSUME NEW w \in Writers, BeginEvaluation(w) \/ BeginRecording(w)
      PROVE  Serial'
    <2>1. Follows(doc, doc) /\ Same(doc, doc)
        BY DEF Follows, Same
    <2> QED
        BY <1>3, <1>d, <1>s, <2>1, AloneAfterLoad
           DEF BeginEvaluation, BeginRecording
<1>4. ASSUME NEW w \in Writers, FinishEvaluation(w)
      PROVE  Serial'
    <2>1. ~Idle(w) /\ Alone(w) /\ Same(life[w].copy, life[w].base)
        BY <1>4, <1>d DEF FinishEvaluation, Idle, Alone
    <2>2. CASE ~NeedsCompletion(life[w].copy)
        BY <1>4, <1>s, <1>d, <2>1, <2>2, QuietAfterResponse
           DEF FinishEvaluation, Orderly
    <2>3. CASE NeedsCompletion(life[w].copy)
        <3> DEFINE c == CompleteByEvaluation(life[w].copy)
        <3>1. Orderly(c) /\ Follows(life[w].copy, c)
            BY <1>d, <2>1, <2>3, EditsAreOrderly DEF Alone
        <3>2. Follows(life[w].base, c)
            BY <2>1, <3>1 DEF Same, Follows
        <3>3. /\ life'[w].pc = "saving"
              /\ life'[w].base = life[w].base
              /\ life'[w].copy = c
              /\ \A v \in Writers \ {w} : life'[v] = life[v]
              /\ doc' = doc /\ clock' = clock
            BY <1>4, <1>d, <2>3 DEF FinishEvaluation, TypeOK, Request
        <3> HIDE DEF c
        <3>4. Alone(w)' /\ \A v \in Writers \ {w} : Idle(v)'
            BY <2>1, <3>1, <3>2, <3>3 DEF Alone, Idle, Same, Orderly, Follows
        <3> QED
            BY <1>d, <3>3, <3>4 DEF Serial, Orderly
    <2> QED
        BY <2>2, <2>3
<1>5. ASSUME NEW w \in Writers, FinishRecording(w)
      PROVE  Serial'
    <2>1. ~Idle(w) /\ Alone(w)
        BY <1>5, <1>d DEF FinishRecording, Idle
    <2>2. /\ life'[w].pc = "saving"
          /\ life'[w].base = life[w].base
          /\ Same(life'[w].copy, life[w].copy)
          /\ \A v \in Writers \ {w} : life'[v] = life[v]
          /\ doc' = doc /\ clock' = clock
        BY <1>5, <1>d DEF FinishRecording, TypeOK, Request, Document, Same
    <2>3. Alone(w)' /\ \A v \in Writers \ {w} : Idle(v)'
        BY <2>1, <2>2 DEF Alone, Idle, Same, Orderly, Follows
    <2> QED
        BY <1>d, <2>2, <2>3 DEF Serial, Orderly
<1>6. ASSUME NEW w \in Writers, Save(w)
      PROVE  Serial'
    <2>1. ~Idle(w) /\ Alone(w)
        BY <1>6, <1>d DEF Save, Idle
    <2>2. Same(doc', life[w].copy)
        BY <1>6, <2>1, SerialSave DEF Alone
    <2>3. Orderly(doc)'
        BY <1>6, <2>1, <2>2 DEF Save, Alone, Same, Orderly
    <2> QED
        BY <1>6, <1>s, <2>1, <2>3, QuietAfterResponse DEF Save
<1>7. ASSUME NEW w \in Writers, FailRequest(w)
      PROVE  Serial'
    BY <1>7, <1>s, <1>d, QuietAfterResponse DEF FailRequest, Orderly
<1>8. ASSUME NEW e \in Runs, RunStep(e)
      PROVE  Serial'
    <2>1. Same(doc', doc) /\ UNCHANGED life /\ clock' = clock
        BY <1>8, <1>d DEF RunStep, BeginExecution, RecordExecution,
                          FailExecution, Document, Same
    <2> QED
        BY <1>d, <1>s, <2>1, SerialKept
<1>9. CASE DenyExecution \/ Tick \/ UNCHANGED vars
    <2>1. Same(doc', doc) /\ UNCHANGED life /\ clock <= clock' /\ clock' \in Nat
        BY <1>9, <1>d DEF DenyExecution, Tick, vars, Document, Same
    <2> QED
        BY <1>s, <2>1, SerialKept
<1> QED
    BY <1>1, <1>2, <1>3, <1>4, <1>5, <1>6, <1>7, <1>8, <1>9
       DEF Next, WriterStep

\* Requests that do not overlap leave the document orderly, and each of them
\* saves what follows from the document it loaded.
THEOREM SerialInvariant == Spec => [](TypeOK /\ SerialInv)
<1>1. Init => SerialInv
    BY DEF Init, SerialInv, Serial, Orderly, Idle, NoRequest, NewSession, Unset
<1> QED
    BY <1>1, InitTyped, TypeStep, SerialStep, PTL DEF Spec
-----------------------------------------------------------------------------
\* transitionStatus, transitionStage and the evaluation complete the stage and
\* the status together, in any sequence of requests.
THEOREM StageAgrees == Spec => []StageAgreesWithStatus
<1>1. SerialInv => StageAgreesWithStatus
    BY DEF SerialInv, Serial, Orderly, StageAgreesWithStatus
<1> QED
    BY <1>1, SerialInvariant, PTL

\* No sequence of requests gives an interview a negative duration.
THEOREM EndFollowsStart == Spec => []EndsAfterStart
<1>1. SerialInv => EndsAfterStart
    BY DEF SerialInv, Serial, Orderly, EndsAfterStart
<1> QED
    BY <1>1, SerialInvariant, PTL

\* A step of requests that do not overlap leaves a document that follows from
\* the one before it.
LEMMA SerialStepFollows ==
    TypeOK /\ SerialInv /\ [Next]_vars => overlapped \/ Follows(doc, doc')
<1> SUFFICES ASSUME TypeOK, Serial, [Next]_vars
             PROVE  Follows(doc, doc')
    BY DEF SerialInv
<1>1. ASSUME NEW w \in Writers, Save(w)
      PROVE  Follows(doc, doc')
    <2>1. Alone(w)
        BY <1>1 DEF Serial, Save, Idle
    <2>2. Same(doc', life[w].copy)
        BY <1>1, <2>1, SerialSave DEF Alone
    <2> QED
        BY <2>1, <2>2 DEF Alone, Same, Follows
<1>2. ASSUME NEW w \in Writers, WriterStep(w), ~Save(w)
      PROVE  doc' = doc
    BY <1>2 DEF Accept, WriterStep, UpdateInterviewStatus, UpdateInterviewStage,
                BeginEvaluation, FinishEvaluation, BeginRecording,
                FinishRecording, FailRequest
<1>3. ASSUME NEW e \in Runs, RunStep(e)
      PROVE  Same(doc', doc)
    BY <1>3 DEF RunStep, BeginExecution, RecordExecution, FailExecution,
                TypeOK, Document, Same
<1>4. DenyExecution => Same(doc', doc)
    BY DEF DenyExecution, TypeOK, Document, Same
<1>5. Tick \/ UNCHANGED vars => doc' = doc
    BY DEF Tick, vars
<1> QED
    BY <1>1, <1>2, <1>3, <1>4, <1>5 DEF Next, Same, Follows

\* The interview clock, from which every offset of the timeline is measured,
\* starts once in any sequence of requests.
THEOREM StartStays == Spec => StartIsStable
<1>1. TypeOK /\ SerialInv /\ [Next]_vars =>
        [~overlapped /\ doc.actualStart # Unset
           => doc'.actualStart = doc.actualStart]_vars
    BY SerialStepFollows DEF Follows
<1> QED
    BY <1>1, SerialInvariant, PTL DEF Spec, StartIsStable

\* No sequence of requests leaves a terminal status, except that an evaluation
\* completes a cancelled session.
THEOREM FinalStaysFinal == Spec => FinalUnlessEvaluated
<1>1. TypeOK /\ SerialInv /\ [Next]_vars =>
        [~overlapped /\ doc.status \in Terminal /\ doc'.status # doc.status
           => doc.status = "CANCELLED" /\ doc'.status = "COMPLETED"]_vars
    BY SerialStepFollows DEF Follows
<1> QED
    BY <1>1, SerialInvariant, PTL DEF Spec, FinalUnlessEvaluated
=============================================================================
