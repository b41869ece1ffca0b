------------------------------- MODULE MCHiring -------------------------------
(***************************************************************************)
(* The parts of hiring share only the server's request slots, so that a    *)
(* behaviour is about one of them, which part names from the start; the    *)
(* variables of the others keep their initial values.                      *)
(***************************************************************************)
EXTENDS ResumePipeline, JobBoard, Conversations, Invitations, Assessments,
        RecruiterLibrary
CONSTANTS s1, s2, f1, f2, lead, second, b1, n1
VARIABLE part

TwoSlots == {s1, s2}
TwoFiles == {f1, f2}
FitOf == [p \in TwoFiles \cup {None, Edited} |->
            IF p = Edited THEN 3 ELSE IF p = f2 THEN 2 ELSE 1]

pipelineData == <<resumeRecords, pipelineHistory>>
jobBoardData == <<jobs, kept, reachable>>
conversationData == <<thread, announced, shown, unshown, badge>>
assessmentData == <<records, answered, outdated>>
libraryData == <<item, uses, removed>>
vars == <<pipelineData, jobBoardData, conversationData, invites,
          assessmentData, libraryData, request, count, part>>

Init ==
    /\ PipelineInit /\ JobBoardInit /\ ConversationsInit
    /\ InvitationsInit /\ AssessmentsInit /\ LibraryInit
    /\ part \in {"resume", "jobs", "messages", "invites", "assessments",
                 "library"}

ResumeStep ==
    /\ part = "resume" /\ PipelineNext
    /\ UNCHANGED <<jobBoardData, conversationData, invites, assessmentData,
                   libraryData, part>>
JobStep ==
    /\ part = "jobs" /\ JobBoardNext
    /\ UNCHANGED <<pipelineData, conversationData, invites, assessmentData,
                   libraryData, part>>
MessageStep ==
    /\ part = "messages" /\ ConversationsNext
    /\ UNCHANGED <<pipelineData, jobBoardData, invites, assessmentData,
                   libraryData, part>>
InviteStep ==
    /\ part = "invites" /\ InvitationsNext
    /\ UNCHANGED <<pipelineData, jobBoardData, conversationData,
                   assessmentData, libraryData, part>>
AssessmentStep ==
    /\ part = "assessments" /\ AssessmentsNext
    /\ UNCHANGED <<pipelineData, jobBoardData, conversationData, invites,
                   libraryData, part>>
LibraryStep ==
    /\ part = "library" /\ LibraryNext
    /\ UNCHANGED <<pipelineData, jobBoardData, conversationData, invites,
                   assessmentData, part>>

Next ==
    \/ ResumeStep \/ JobStep \/ MessageStep
    \/ InviteStep \/ AssessmentStep \/ LibraryStep

Spec == Init /\ [][Next]_vars /\ PipelineFairness
=============================================================================
