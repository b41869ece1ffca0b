SPECIFICATION Spec
CONSTANTS
    a = a
    b = b
    w = w
    h = h
    k = k
    e1 = e1
    e2 = e2
    Clients <- CodeAndBoard
    Handlers <- NoHandlers
    ChannelOf <- Channels
    Edits <- TwoEdits
    MaxObjects = 2
    Faults <- Healthy
CHECK_DEADLOCK FALSE
INVARIANT UnsavedIsScheduled
