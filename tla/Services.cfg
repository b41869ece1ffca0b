SPECIFICATION ServicesSpec
CONSTANTS
    s1 = s1
    s2 = s2
    r1 = r1
    w1 = w1
    user = user
    outsider = outsider
    Slots <- TwoSlots
    MaxRequests = 2
    Rooms <- OneRoom
    MaxSessions = 1
    MaxChunks = 2
    MaxPending = 1
    MaxPolls = 2
    Models <- TwoModels
    UseLocal = FALSE
    Preferences = {"none"}
    Setups <- SomeSetups
    Languages <- TwoLanguages
    AllowCompiled = TRUE
    MaxTests = 2
    TestLists = {0, 3}
    Sockets <- OneSocket
    Editors <- TwoEditors
    Insiders <- OneInsider
    MaxReplies = 2
CHECK_DEADLOCK FALSE
INVARIANTS RoomSeesTerminal ShellsAreAccounted CascadeIsExhaustive
    TestsTellTheTruth
PROPERTIES DeadTerminalIsForgotten QuestionIsAnswered TestRunsEnd RepliesArrive
