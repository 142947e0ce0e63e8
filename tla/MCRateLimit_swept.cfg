SPECIFICATION Spec
CONSTANTS
    sponsor = sponsor
    chat = chat
    Key = {sponsor, chat}
    Period <- MCPeriod
    Capacity <- MCCapacity
    Colon = {chat}
    SweepEvery = 3
    NoBucket = NoBucket
    NoPromise = NoPromise
    MaxTime = 6
PROPERTIES
    SweptIsIdle
CHECK_DEADLOCK FALSE
