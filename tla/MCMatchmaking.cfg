SPECIFICATION MCLiveSpec
CONSTANTS
    Socket = {s1, s2, s3}
    Address = {a1, a2}
    Tier = {starter, pro}
    Loner = s1
    LonerAddress = a1
    Rebinder = s2
    FirstTier = starter
    Nobody = Nobody
    NoTier = NoTier
    Task = {k1, k2}
    Idle = Idle
    MaxJoins = 3
    MaxDeckFailures = 1
    MaxReadFailures = 1
INVARIANTS
    TypeOK
    HandshakeOwnsPair
    QueueSound
PROPERTIES
    PairCleared
CHECK_DEADLOCK FALSE
