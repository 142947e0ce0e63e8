SPECIFICATION LiveSpec
CONSTANTS
    Duel = {d1, d2}
    Winner = {"p0", "tie"}
    MaxPages = 1
    History = FALSE
    Faults = {"query", "mirror", "save", "refresh", "winner", "rating", "crash", "backfill"}
    MaxFaults = 1
INVARIANTS
    TypeOK
    MirrorCaughtUp
    RatedAtMostOnce
PROPERTIES
    MirrorNeverGoesBack
    FinishedIsMirrored
    KnownOutcomeRated
CHECK_DEADLOCK FALSE
