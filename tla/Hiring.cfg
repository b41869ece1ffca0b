SPECIFICATION Spec
CONSTANTS
    s1 = s1
    s2 = s2
    f1 = f1
    f2 = f2
    lead = lead
    second = second
    b1 = b1
    n1 = n1
    Slots <- TwoSlots
    MaxRequests = 4
    Files <- TwoFiles
    Score <- FitOf
    Pages = {1, 2}
    PageSize = 1
    Invitees = {lead, second}
    Evaluators = {lead, second}
    Lead = lead
    Blocks = {b1}
    Notes = {n1}
CHECK_DEADLOCK FALSE
INVARIANTS RecordTellsOutcome ScoreIsOfLatest AnalysisFollowsProfile
    KeptListIsCurrent UnreadIsTruthful RotationIsFinal
    AnsweredAssessmentStands UpdatesLoseNothing
PROPERTY UploadsSettle
