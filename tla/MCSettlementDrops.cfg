SPECIFICATION Spec
CONSTANTS
    Legs = {1}
    Attempts = 1
    Gateways = {g1}
    Limit = 1
    DropMargin = 2
    BlockhashLife = 1
    StatusLag = 0
    Alterable = {}
    MaxHeight = 6
    MaxStops = 0
    MaxImports = 0
INVARIANTS
    DroppedReachedNoBlock
CHECK_DEADLOCK FALSE
