CONSTANTS
    Limits = {2}
    LowerLimit = 1
    None = None
    Restart = Restart
    Battery = TRUE
    Solar = FALSE
    Timeout = 0
    Backoff = 1
    RestartAfter = 1
    RebootAfter = 2
    MaxQueued = 2
SPECIFICATION Spec
INVARIANT TypeOK
PROPERTIES LimitBeforeOn AnswerBooked StopKept ReloadHappens
