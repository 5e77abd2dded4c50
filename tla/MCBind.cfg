SPECIFICATION Spec
CONSTANTS
    Node <- BindNode
    Order <- BindOrder
    Mode <- BindMode
    Deps <- BindDeps
    ReadyDeps <- BindBoundDeps
    BoundDeps <- BindBoundDeps
    Drains <- None
    Asserts = {"link"}
    Flaps = {"link"}
    Quits = {}
    Late = {"service", "member"}
    Members = {}
    Verbs = {"run", "start", "start_node", "stop_node", "teardown_continue", "teardown", "deactivate", "activate", "restart"}
    Targets = {"link", "member"}
    MaxCalls = 3
INVARIANTS HoldReachesDependents
PROPERTIES BoundStopLifts
CHECK_DEADLOCK FALSE
