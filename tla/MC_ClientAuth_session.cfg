SPECIFICATION MC_Spec
CONSTANTS
    None = None
    a = a
    b = b
    m = m
    Accounts = {a, b}
    Names = {m, n}
    Person = a
    Calls = {c1, c2}
    AccessTTL = 0
    RefreshTTL = 1
    MaxTime = 1
    KeepsCookies = TRUE
    Ops = {"me", "browse", "delete"}
    MaxSends = 2
    MaxKills = 1
CHECK_DEADLOCK FALSE
INVARIANTS
    TypeOK
    LogoutIsFinal
    TokenSpeaksForItsOwner
    SessionAgrees
PROPERTIES
    RefusalSignsOut
    AppStarts
