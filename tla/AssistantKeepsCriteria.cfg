SPECIFICATION PostingSpec
CONSTANTS
    s1 = s1
    k1 = k1
    k2 = k2
    Slots <- OneSlot
    MaxRequests = 3
    Seekers <- TwoSeekers
    SeekerResumes <- FourResumes
    RawAnswers <- FourAnswers
    Messages <- TwoMessages
    Drafts <- FourForms
    MaxEdits = 1
CHECK_DEADLOCK FALSE
INVARIANT UnaskedCriteriaSurvive
