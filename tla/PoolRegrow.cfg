SPECIFICATION PoolSpec
CONSTANTS
    Node <- RadioNode
    Order <- RadioOrder
    Mode <- RadioMode
    Deps <- RadioDeps
    ReadyDeps <- RadioBound
    BoundDeps <- RadioBound
    Drains <- None
    Asserts = {"radio"}
    Flaps = {"radio"}
    Quits = {}
    Late = {}
    Members = {"m0", "m1"}
    Verbs = {"run"}
    Targets = {}
    MaxCalls = 1
    PoolMin = 1
    PoolMax = 2
    Cooldown = 1
PROPERTY RegrowsOnItsOwn
CHECK_DEADLOCK FALSE
