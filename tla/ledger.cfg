CONSTANTS
    Setpoints = {3, 5, 7}
    Initial = 7
    Effect = 2
    UpdateLimit = 1
    StaleAge = 1
    Wrap = 100
    MaxTime = 3
    MaxRequests = 3
    MaxComing = 2
    None = None
SPECIFICATION Spec
CHECK_DEADLOCK FALSE
INVARIANTS
    TypeOK
    RequestedFollowsLedger
    DispatchedIsInFlight
    ChainConnected
    ForecastSound
PROPERTIES
    TransmittedStays
