SPECIFICATION FairSpec
CONSTANTS
    Legs = {1, 2}
    Attempts = 1
    Gateways = {g1}
    Limit = 1
    DropMargin = 1
    BlockhashLife = 1
    StatusLag = 1
    Alterable = {}
    MaxHeight = 4
    MaxStops = 1
    MaxImports = 0
PROPERTIES
    EverySentLegIsSettled
CHECK_DEADLOCK FALSE
