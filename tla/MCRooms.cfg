SPECIFICATION LiveSpec
CONSTANTS
    Address = {alice}
    NoAddress = NoAddress
    Complete = 2
    Clock = Clock
    Mirror = Mirror
    NotYet = NotYet
    MaxSockets = 2
    MaxReads = 2
    MaxMishaps = 1
INVARIANTS
    ForfeitMeansAway
    GoneIsWatched
PROPERTIES
    ViewNeverGoesBack
    NoTickAfterComplete
    RoomCatchesUp
CHECK_DEADLOCK FALSE
