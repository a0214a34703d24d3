SPECIFICATION Spec
CONSTANTS
    w1 = w1
    w2 = w2
    m1 = m1
    m2 = m2
    Wallets = {w1, w2}
    Mints = {m1, m2}
    Surfaces = {"trade", "sale"}
    Plans <- TwoPlans
    Spends = {2667}
    WeightLists <- Weights
    Baskets <- Pair
    CapAtoms <- Caps
    MIN_LEG_USDC_ATOMS = 1000
    SIGNING_WINDOW = 1
    BLOCKHASH_LIFE = 1
    HasSender = TRUE
    TipLamports = 1
    TipUsdcAtoms = 1
    SignatureFee = 1
    PriorityFees = {1}
    SaleWorths = {300}
    Rent <- Rents
    SolAtGenesis = 6
    UsdcAtGenesis = 2667
    MaxRequests = 1
    MaxTime = 2
    MaxChanges = 1
INVARIANTS
    RecordsNameWhatWasSigned
CHECK_DEADLOCK FALSE
