SPECIFICATION Spec
CONSTANTS
    t1 = t1
    t2 = t2
    e1 = e1
    e2 = e2
    s1 = s1
    s2 = s2
    Tabs = {t1, t2}
    Executions = {e1}
    Legs = {1}
    ExecutionOf <- OneForAll
    ToRpc = {1}
    KEPT = 2
    DROP_MARGIN_BLOCKS = 0
    Lives = {1}
    StatusLag = 1
    Slots = {s1, s2}
    MaxHeight = 3
    MaxReloads = 1
SYMMETRY Symmetry
INVARIANTS
    EndsAreTheChains
    TabsAgree
PROPERTIES
    EndsStand
CHECK_DEADLOCK FALSE
