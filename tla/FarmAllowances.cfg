CONSTANTS
    Users = {u1, u2}
    Spenders = {u1, u2}
    NoOne = NoOne
    Amounts = {1}
    Minimums = {}
    Grants = {1, 2}
    Rewards = {}
    Receipts = {}
    Fees = {0}
    FeeUnit = 1
    PoolInfos <- MCPoolInfos
    DAY = 1
    MaxLp = 2
    MaxMemo = 1
    MaxReward = 0
    MaxTime = 1
    MaxFlow = 2
SPECIFICATION HSpec
SYMMETRY Symmetry
INVARIANTS
    AllowanceBoundsSpending
