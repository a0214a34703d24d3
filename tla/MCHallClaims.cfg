SPECIFICATION Spec
CONSTANTS
    w1 = w1
    w2 = w2
    Wallets = {w1, w2}
    Constituents = {c1}
    MaxU64 = 4
    ClaimOne = 4
    VestWindow = 2
    GenesisShares = {1}
    GenesisDeposits = {2}
    Maximums = {4}
    Stances = {"open", "refusing", "fee"}
    MaxTime = 0
    MaxBurnt = 1
    MaxEpoch = 1
SYMMETRY Symmetry
INVARIANTS
    TypeOK
    ClaimsCovered
    NoReconcileError
    MeltNeverBlocked
    ClaimsDeliverable
PROPERTIES
    NoDilution
    ClaimsFallOnlyByPayment
    WrittenLegsBalance
CHECK_DEADLOCK FALSE
