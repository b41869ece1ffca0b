SPECIFICATION ArchiveSpec
CONSTANTS
    r1 = r1
    r2 = r2
    Requests <- TwoRequests
    MaxRecords = 2
    MaxEvents = 3
    Readers <- TwoRequests
    Writers <- TwoRequests
    Keys <- TwoKeys
    MaxReplayEvents = 1
    Slots <- TwoRequests
    MaxRequests = 4
    Paths = {"/solution.py", "/src/solution.py", "/a"}
    Root = "/solution.py"
    Src = "/src/solution.py"
    MaxTyped = 2
    MaxCaptures = 1
SYMMETRY RequestSymmetry
CHECK_DEADLOCK FALSE
INVARIANTS RecordNumbersUnique EventsHaveRecords ReplaysAreFaithful
    WorkIsKept
