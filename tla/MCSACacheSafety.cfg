SPECIFICATION FairSpec
CONSTANTS
    Keys = {k1}
    AnyNamespace = any
    CMKeys <- MCCMKeys
    Wildcard <- MCWildcard
    Requests = {r1, r2}
    Pods <- AnyPods
    Capacity = 1
    Contents = {"bare"}
    MaxVersion = 1
    GracePeriod = TRUE
    WatchConfigMap = FALSE
    DebugHandlers = TRUE
    SAInformer = saInformer
    CMInformer = cmInformer
    None = None
INVARIANTS
    TypeOK
    LocksExclude
    NoOrphanWaiter
    NoWaitWhileCached
    OneFetchPerHandler
    NobodyIsStuck
PROPERTIES
    ImplementsNotification
    EveryRequestAnswered
CHECK_DEADLOCK FALSE
