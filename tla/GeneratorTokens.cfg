CONSTANTS
    Users = {u1}
    NoOne = NoOne
    LpTokens = {lp1, lp2}
    ASTRO = ASTRO
    ProxyTokens = {bLUNA}
    Amounts = {2}
    ClaimLists <- MCOneEach
    BoostFees = {0, 1}
    StakerRates = {1}
    SCALE = 2
    MaxLp = 2
    MaxIndex = 1
    MaxHeight = 2
    MaxGift = 1
SPECIFICATION Spec
INVARIANT ReconciledHeld
