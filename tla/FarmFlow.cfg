CONSTANTS
    Users = {u1, u2}
    Spenders = {}
    NoOne = NoOne
    Amounts = {1, 2}
    Minimums = {0}
    Grants = {}
    Rewards = {2}
    Receipts = {0, 2}
    Fees = {0}
    FeeUnit = 1
    PoolInfos <- MCPoolInfos
    DAY = 2
    MaxLp = 4
    MaxMemo = 3
    MaxReward = 0
    MaxTime = 1
    MaxFlow = 4
SPECIFICATION HSpec
SYMMETRY Symmetry
INVARIANT NoInstantProfit
