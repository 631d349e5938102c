CONSTANTS
    Users = {u1, u2}
    Spenders = {}
    NoOne = NoOne
    Amounts = {1, 2, 3}
    Minimums = {2}
    Grants = {}
    Rewards = {0, 2}
    Receipts = {0, 1, 2}
    Fees = {1}
    FeeUnit = 2
    PoolInfos <- MCPrices
    DAY = 2
    MaxLp = 4
    MaxMemo = 3
    MaxReward = 0
    MaxTime = 2
SPECIFICATION Spec
SYMMETRY Symmetry
INVARIANTS
    TypeOK
    ShareConservation
    SharesBacked
    UnbondNeverReverts
    CostCoversDeposit
PROPERTIES
    SharePriceNeverFalls
    ImplementsSharePool
