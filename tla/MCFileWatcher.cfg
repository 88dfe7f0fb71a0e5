SPECIFICATION FairSpec
CONSTANTS
    Identities = {i1, i2}
    Absent = Absent
    Empty = Empty
    Malformed = Malformed
    MaxDelay = 4
    MaxEvents = 2
    EventsGetLost = TRUE
INVARIANTS
    TypeOK
    QuietIsCurrent
PROPERTIES
    FileReachesCache
CHECK_DEADLOCK FALSE
