SPECIFICATION PoolSpec
CONSTANTS
    Node <- PoolNode
    Order <- PoolOrder
    Mode <- PoolMode
    Deps <- PoolDeps
    ReadyDeps <- None
    BoundDeps <- None
    Drains <- None
    Asserts = {}
    Flaps = {}
    Quits = {}
    Late = {"link"}
    Members = {"m0", "m1", "m2"}
    Verbs = {"run", "deactivate", "restart"}
    Targets = {"link"}
    MaxCalls = 2
    PoolMin = 1
    PoolMax = 3
    Cooldown = 1
PROPERTIES GrowsOverRunningDeps ShrinksLazily RequestServed SurplusDrains
CHECK_DEADLOCK FALSE
