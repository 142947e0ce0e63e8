SPECIFICATION MCLiveSpec
CONSTANTS
    Address = {alice, bob}
    First = alice
    NoAddress = NoAddress
    NoDeck = NoDeck
    NoSwipe = NoSwipe
    StakeAmounts = {1}
    Strikes = {1}
    Prices = {2}
    Quantities = {1, 2}
    Small = 1
    Premiums = {1}
    MaxDeckSize = 2
    DeckSizes = {2}
    ProbScale = 1
    SwipeWindow = 0
    RevealTimeout = 0
    RefundTimeout = 0
    MaxU64 = 2
    MaxFaults = 1
INVARIANTS
    KeeperTypeOK
PROPERTIES
    ForgetsOnlyClosed
    PremiumsSymmetric
    LivePositionsCredited
    KeeperCloses
CHECK_DEADLOCK FALSE
