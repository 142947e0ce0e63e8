SPECIFICATION Spec
CONSTANTS
    Address = {alice, bob, carol}
    NoAddress = NoAddress
    NoDeck = NoDeck
    NoSwipe = NoSwipe
    StakeAmounts = {0, 1}
    Strikes = {1}
    Prices = {0, 1, 2}
    Quantities = {0, 1}
    Premiums = {0, 1}
    MaxDeckSize = 2
    DeckSizes = {0, 1, 2, 3}
    ProbScale = 1
    SwipeWindow = 0
    RevealTimeout = 0
    RefundTimeout = 1
    MaxU64 = 1
SYMMETRY AddressSymmetry
INVARIANTS
    EveryCoinAccounted
    SettledCountExact
    PayoutsAreProven
    OutcomeFollowsPlay
    NeverStranded
PROPERTIES
    ImplementsEscrow
CHECK_DEADLOCK FALSE
