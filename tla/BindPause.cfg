SPECIFICATION Spec
CONSTANTS
    Node <- PauseNode
    Order <- PauseOrder
    Mode <- PauseMode
    Deps <- PauseDeps
    ReadyDeps <- PauseDeps
    BoundDeps <- PauseDeps
    Drains <- None
    Asserts = {"link"}
    Flaps = {"link"}
    Quits = {}
    Late = {"worker"}
    Members = {}
    Verbs = {"run"}
    Targets = {"link"}
    MaxCalls = 1
INVARIANT RunningHasInstance
CHECK_DEADLOCK FALSE
