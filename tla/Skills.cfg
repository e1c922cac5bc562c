SPECIFICATION Spec
CONSTANTS
    Calls = {c1, c2}
    McpIds = {"mcp"}
    Setups <- MCSetups
    MaxNonces = 1
    MaxStrays = 1
INVARIANTS
    ConfirmedOnce
    OwnFailure
PROPERTIES
    EveryCallReturns
CHECK_DEADLOCK FALSE
