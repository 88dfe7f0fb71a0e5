SPECIFICATION Spec
CONSTANTS
    Keys = {k1}
    AnyNamespace = any
    CMKeys <- MCCMKeys
    Wildcard <- MCWildcard
    Roles = {roleA}
    Configs <- GoodConfigs
    Requests = {r1}
    None = None
INVARIANTS
    MappedIsFound
CHECK_DEADLOCK FALSE
