SPECIFICATION MC_Spec
CONSTANTS
    None = None
    p1 = p1
    p2 = p2
    p3 = p3
    Ids = {p1, p2, p3}
    Calls = {c1, c2}
    Kinds = {"pending", "public", "author", "users", "tiers"}
    PageSize = 1
    MaxCommits <- MC_MaxCommits
    MaxCalls = 3
INVARIANTS
    TypeOK
    ListIsASnapshot
    GoneStaysGone
PROPERTIES
    LoadingEnds
