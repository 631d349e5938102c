CONSTANTS
    Users = {u1}
    NoOne = NoOne
    LpTokens = {lp1, lp2}
    ASTRO = ASTRO
    ProxyTokens = {}
    Amounts = {2}
    ClaimLists <- MCTwo
    BoostFees = {1}
    StakerRates = {1}
    SCALE = 2
    MaxLp = 3
    MaxIndex = 1
    MaxHeight = 2
    MaxGift = 0
SPECIFICATION Spec
INVARIANTS
    ReconciledHeld
