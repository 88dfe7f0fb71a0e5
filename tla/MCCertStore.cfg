SPECIFICATION FairSpec
CONSTANTS
    Replicas = {r1, r2}
    Pairs = {good, bad}
    Loadable = {good}
    Keyless = keyless
    None = None
INVARIANTS
    TypeOK
    ServedWasStored
PROPERTIES
    ImplementsRegister
    EveryReplicaServes
