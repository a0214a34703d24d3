SPECIFICATION FairSpec
CONSTANTS
    t1 = t1
    t2 = t2
    e1 = e1
    e2 = e2
    s1 = s1
    s2 = s2
    Tabs = {t1}
    Executions = {e1, e2}
    Legs = {1, 2}
    ExecutionOf <- EachItsOwn
    ToRpc = {1}
    KEPT = 1
    DROP_MARGIN_BLOCKS = 0
    Lives = {1}
    StatusLag = 1
    Slots = {s1}
    MaxHeight = 3
    MaxReloads = 1
INVARIANTS
    TypeOK
PROPERTIES
    OnlyTheOldestIsCut
    EveryLegEnds
CHECK_DEADLOCK FALSE
