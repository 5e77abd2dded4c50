SPECIFICATION Spec
CONSTANTS
    Node <- BindNode
    Order <- BindOrder
    Mode <- BindMode
    Deps <- BindDeps
    ReadyDeps <- BindBoundDeps
    BoundDeps <- BindBoundDeps
    Drains <- None
    Asserts = {"link"}
    Flaps = {"link"}
    Quits = {}
    Late = {"service"}
    Members = {}
    Verbs = {"run", "restart"}
    Targets = {"link"}
    MaxCalls = 2
PROPERTY TimeoutIsGenuine
CHECK_DEADLOCK FALSE
