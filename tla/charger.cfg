CONSTANTS
    MaxCurrent = 1
    None = None
    Tries = 2
    MaxQueue = 2
    MaxFrames = 1
SPECIFICATION Spec
INVARIANTS TypeOK FrontExists CurrentFollows OffIsOff
