CONSTANTS
    Setpoints = {3, 5, 7}
    Initial = 7
    Effect = 2
    UpdateLimit = 2
    StaleAge = 3
    Wrap = 100
    MaxTime = 4
    MaxRequests = 2
    MaxComing = 2
    None = None
SPECIFICATION Spec
CHECK_DEADLOCK FALSE
INVARIANTS
    NoImpossibleState
