SPECIFICATION Spec
CONSTANTS
    a = a
    b = b
    w = w
    h = h
    k = k
    e1 = e1
    e2 = e2
    Clients <- OneClient
    Handlers <- TwoHandlers
    ChannelOf <- Channels
    Edits <- TwoEdits
    MaxObjects = 2
    Faults <- EveryFault
SYMMETRY Slots
CHECK_DEADLOCK FALSE
INVARIANTS RoomsAreWhole UnsavedIsScheduled
