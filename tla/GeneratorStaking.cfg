CONSTANTS
    Stakers = {u1, u2}
    Amounts = {2, 3}
    Quotas = {4}
    Fees = {0, 2}
    Gifts = {1}
    SCALE = 2
    MaxLock = 4
    MaxPeriod = 3
    MaxHeld = 2
    MaxIndex = 1
SPECIFICATION Spec
SYMMETRY Symmetry
INVARIANTS
    TypeOK
    StakeConservation
    RequestsCovered
    IncomeCovered
PROPERTY ImplementsSharePool
