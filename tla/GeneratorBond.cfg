CONSTANTS
    Users = {u1, u2}
    NoOne = NoOne
    LpTokens = {lp1}
    ASTRO = ASTRO
    ProxyTokens = {}
    Amounts = {3}
    ClaimLists <- MCOneEach
    BoostFees = {1}
    StakerRates = {1}
    SCALE = 2
    MaxLp = 6
    MaxIndex = 2
    MaxHeight = 3
    MaxGift = 0
SPECIFICATION Spec
SYMMETRY Symmetry
INVARIANTS
    TypeOK
    PoolConservation
    ClaimsReconciled
    SettledBeforeChange
PROPERTY ImplementsSharePools
