SPECIFICATION Spec
CONSTANTS
    Socket = {s1, s2}
    Address = {a1, a2}
    Tier = {starter}
    Loner = s1
    LonerAddress = a1
    Rebinder = s2
    FirstTier = starter
    Nobody = Nobody
    NoTier = NoTier
    Task = {k1, k2}
    Idle = Idle
    MaxJoins = 3
    MaxDeckFailures = 0
    MaxReadFailures = 0
INVARIANTS
    MatchedIsWatched
CHECK_DEADLOCK FALSE
