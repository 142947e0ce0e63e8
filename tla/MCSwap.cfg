SPECIFICATION Spec
CONSTANTS
    Amounts <- MCAmounts
    Fees = {0, 1, 3, 10}
    Multiplier = 10
    MaxU64 = 24
    MaxU128 = 2000
    NoPool = NoPool
INVARIANTS
    NothingStranded
    RoundTripNeverProfits
    FirstDepositFair
PROPERTIES
    ShareValueKept
CHECK_DEADLOCK FALSE
