SPECIFICATION FairSpec
CONSTANTS
    Identities = {i1}
    Absent = Absent
    Empty = Empty
    Malformed = Malformed
    MaxDelay = 2
    MaxEvents = 2
    EventsGetLost = FALSE
PROPERTIES
    UpdateIsLoaded
CHECK_DEADLOCK FALSE
