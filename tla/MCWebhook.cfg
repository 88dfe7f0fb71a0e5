SPECIFICATION FairSpec
CONSTANTS
    Requests = {r1, r2}
    Routes = {"/mutate", "/debug/alpha/deny", "/debug/alpha/500", "/healthz", "/metrics",
              "/debug/alpha/cache", "/debug/alpha/cache/clear"}
    None = None
INVARIANTS
    TypeOK
    GracefulMeansAnswered
    MainWaitsForBoth
    ReportsMatchAnswer
PROPERTIES
    StoppedAcceptsNothing
    SignalEndsProcess
CHECK_DEADLOCK FALSE
