SPECIFICATION PlatformSpec
CONSTANTS
    s1 = s1
    s2 = s2
    k1 = k1
    k2 = k2
    f1 = f1
    f2 = f2
    host = host
    cand = cand
    rec = rec
    stranger = stranger
    Slots <- TwoSlots
    MaxRequests = 4
    Seekers <- TwoSeekers
    SeekerResumes <- FourResumes
    RawAnswers <- FourAnswers
    Messages <- TwoMessages
    Drafts <- FourForms
    MaxEdits = 1
    FocusRequests <- TwoSlots
    Sessions <- TwoFocusSessions
    Worth <- Minutes
    SameSitting = 1
    Lapse = 3
    MaxClock = 3
    MaxStrikes = 1
    Contestants <- TwoContestants
    Host = host
    EventSlots <- TwoSlots
    Deltas = {0, 5}
    Questions = 1
    Tests = 1
    MaxScore = 10
    Terms <- KnownTerms
    Taxonomy = {"go", "sql"}
    Texts = {"led", "built", "cut"}
    Mentions <- KnownMentions
    Measured = {"cut", "built"}
    Roles <- ThreeRoles
    Degrees = {"bsc"}
    FitJobs <- ThreeJobs
    Resumes <- TwoProfiles
    MaxRevisions = 3
    Observations <- SixObservations
    Users <- ThreeUsers
    Candidate = cand
    Team <- OneRecruiter
    EventIds = {"e"}
    SignalLimit = 1
    SessionLimit = 1
    HintLimit = 2
    Files = {"a", "b"}
    BadFiles = {"b"}
    Lengths = {1, 5}
    Batches <- NewElements
    MaxText = 3
    MaxElements = 3
    MaxElement = 4
    MaxTotal = 6
SYMMETRY SlotSymmetry
CHECK_DEADLOCK FALSE
INVARIANTS RewardsAreSound RewardsAreFairSerially LobbyIsSound
    PreviewCountsTheEligible MergeIsSafe TimelineAgreesWithRoom
    OnlyTheLatestIsHinted LimitsAreTight
PROPERTIES ImprovementNeverHurts PositiveSignalsNeverHurt
