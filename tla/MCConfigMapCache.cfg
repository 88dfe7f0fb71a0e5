SPECIFICATION FairSpec
CONSTANTS
    Keys = {k1}
    AnyNamespace = any
    CMKeys <- MCCMKeys
    Wildcard <- MCWildcard
    Roles = {roleA, roleB}
    Configs <- AllConfigs
    Requests = {r1}
    None = None
INVARIANTS
    TypeOK
    ConfigIsApplied
    StayingIsFound
PROPERTIES
    ConfigReachesCache
CHECK_DEADLOCK FALSE
