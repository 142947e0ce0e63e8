CONSTANTS
    Player = {p1, p2, p3}
    Run = {r1, r2}
    Split <- MCSplit
    MinStaked = 1
    BoardLimit = 3
    MaxRating = 2
    MaxFunds = 4
    MaxChanges = 1
SPECIFICATION Spec
INVARIANTS TypeOK OnePlanPaid ReceiptsTrue PrizesFollowRank
SYMMETRY Symmetric
