SPECIFICATION FairSpec
CONSTANTS
    Keys = {k1}
    AnyNamespace = any
    CMKeys <- MCCMKeys
    Wildcard <- MCWildcard
    Requests = {r1}
    Pods <- AnyPods
    Capacity = 1
    Contents = {"bare", "role"}
    MaxVersion = 2
    GracePeriod = TRUE
    WatchConfigMap = TRUE
    DebugHandlers = FALSE
    SAInformer = saInformer
    CMInformer = cmInformer
    None = None
INVARIANTS
    DivergesOnlyByFetch
PROPERTIES
    NotifiedIsPopulated
    ExistingConverges
    MappedIsMutated
CHECK_DEADLOCK FALSE
