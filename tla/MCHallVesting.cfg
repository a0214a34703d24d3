SPECIFICATION Spec
CONSTANTS
    w1 = w1
    w2 = w2
    Wallets = {w1}
    Constituents = {c1}
    MaxU64 = 4
    ClaimOne = 4
    VestWindow = 4
    GenesisShares = {1}
    GenesisDeposits = {1}
    Maximums = {4}
    Stances = {"open"}
    MaxTime = 5
    MaxBurnt = 0
    MaxEpoch = 1
INVARIANTS
    NoLiftWithinAnInstant
    DonationPace
PROPERTIES
    NeverVestedEarly
CHECK_DEADLOCK FALSE
