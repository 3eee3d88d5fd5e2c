SPECIFICATION Spec
CONSTANTS
    None = None
    Host = Host
    Users = {u1}
    Requests = {r1, r2}
    PoolSize = 2
    Rules <- MC_Rules
    DefaultRule <- MC_Default
    MaxTime = 3
    MaxStarts = 3
INVARIANTS
    TypeOK
    NoLeak
    AdmittedPerWindow
    EveryCounterExpires
PROPERTIES
    RefusedAtTheLimit
    EveryRequestEnds
