SPECIFICATION LiveSpec
CONSTANTS
    Client = {c1, c2}
    Nobody = Nobody
    HistoryLimit = 2
    RetainCount = 2
    MaxMessages = 3
    MaxCalls = 2
    MaxMishaps = 1
INVARIANTS Chronological
PROPERTIES NothingVanishes ReachesAll
