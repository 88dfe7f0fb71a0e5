SPECIFICATION Spec
CONSTANTS
    MinTokenExpiration = 2
    DefaultMinTokenExpiration = 4
    DefaultTokenExpiration = 5
    Expirations = {0, 1, 2, 3, 5, 6}
    None = None
INVARIANTS
    TypeOK
    UnsetIsFlag
    ShortOnlyFromConfigMap
PROPERTIES
    AnnotationsThenFlags
    CredentialsThenFlags
CHECK_DEADLOCK FALSE
