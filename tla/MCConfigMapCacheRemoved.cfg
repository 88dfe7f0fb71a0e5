SPECIFICATION Spec
CONSTANTS
    Keys = {k1}
    AnyNamespace = any
    CMKeys <- MCCMKeys
    Wildcard <- MCWildcard
    Roles = {roleA}
    Configs <- GoodOrMalformed
    Requests = {r1}
    None = None
INVARIANTS
    RemovedIsGone
CHECK_DEADLOCK FALSE
