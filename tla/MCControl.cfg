SPECIFICATION Spec
CONSTANTS
    Node <- CtlNode
    Order <- CtlOrder
    Mode <- CtlMode
    Deps <- CtlDeps
    ReadyDeps <- CtlReadyDeps
    BoundDeps <- None
    Drains <- CtlDrains
    Asserts = {"radio"}
    Flaps = {}
    Quits = {"worker"}
    Late = {}
    Members = {}
    Verbs = {"run", "start", "leave", "teardown", "teardown_continue", "respawn_terminate", "resume_pausable", "start_node", "stop_node", "deactivate", "activate", "restart"}
    Targets = {"radio", "client"}
    MaxCalls = 4
INVARIANTS RunningHasInstance CollateralHasCause ScanOnEachAck
PROPERTIES ServesThroughCleanup HeldStaysDown RestartBringsBack WavesEnd
CHECK_DEADLOCK FALSE
