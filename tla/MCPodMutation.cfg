SPECIFICATION Spec
CONSTANTS
    Containers = {c1, c2}
    UserNames = {"AWS_ROLE_ARN", "AWS_REGION"}
    None = None
INVARIANTS
    TypeOK
    NothingIsAddedTwice
    TokenIsMounted
    PatchIsStable
    ReportIsTrue
PROPERTIES
    AuthorIsKept
CHECK_DEADLOCK FALSE
