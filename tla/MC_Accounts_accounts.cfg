SPECIFICATION Spec
CONSTANTS
    None = None
    UserIds = {u1, u2}
    TierIds = {t1, t2}
    LimitIds = {l1, l2}
    Names = {a, b}
    Emails = {x, y, z}
    LongEmails = {z}
    Root = u1
    FirstTier = t1
    RootName = a
    RootEmail = x
    r1 = r1
    r2 = r2
    Requests = {r1, r2}
    MaxStarts = 3
SYMMETRY Symmetry
INVARIANTS
    TypeOK
    UniqueNames
    TiersExist
    ModeratorsAreGranted
PROPERTIES
    
    RegistryRefinement
