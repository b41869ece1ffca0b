SPECIFICATION FocusSpec
CONSTANTS
    r1 = r1
    r2 = r2
    s1 = s1
    s2 = s2
    FocusRequests <- TwoRequests
    Sessions <- TwoSessions
    Worth <- Values
    SameSitting = 1
    Lapse = 3
    MaxClock = 1
    MaxStrikes = 1
SYMMETRY RequestSymmetry
CHECK_DEADLOCK FALSE
INVARIANT RewardedOnce
