SPECIFICATION LiveSpec
CONSTANTS
    a = a
    b = b
    w = w
    h = h
    k = k
    e1 = e1
    e2 = e2
    Clients <- Both
    Handlers <- NoHandlers
    ChannelOf <- Channels
    Edits <- TwoEdits
    MaxObjects = 2
    Faults <- Crashes
CHECK_DEADLOCK FALSE
INVARIANT UnusedRoomIsScheduled
PROPERTY EditsReachStore
