SPECIFICATION SecondLegSpec
CONSTANTS
    Legs = {1, 2}
    Attempts = 2
    Gateways = {g1, g2}
    Limit = 2
    DropMargin = 0
    BlockhashLife = 1
    StatusLag = 1
    Alterable = {1}
    MaxHeight = 4
    MaxStops = 1
    MaxImports = 1
SYMMETRY Symmetry
INVARIANTS
    TypeOK
    OutboxTellsTheRow
    AnswersAreTheChains
    SettledOnce
    NoticesTellTheRecord
    OneFirstTrade
PROPERTIES
    FirstAnswerStands
    GivesVerdicts
CHECK_DEADLOCK FALSE
