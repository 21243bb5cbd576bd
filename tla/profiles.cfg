CONSTANTS
    Web = Web
    Mqtt = Mqtt
    Loop = Loop
    Free = Free
    Tasks = {Web, Mqtt, Loop}
    Settings = {s0, s1}
    Default = s0
    Torn = Torn
    Ids = {standard, other}
    DefaultId = standard
    Missing = Missing
    MaxProfiles = 2
    MaxCrashes = 1
SPECIFICATION Spec
INVARIANTS TypeOK NoTornSettings HangsOnlyIfLate ActiveExists SavedIsCurrent ActiveInForce
PROPERTIES WriterServed OwnedInTurn ProfilesKept
CHECK_DEADLOCK FALSE
