SPECIFICATION OperationsSpec
CONSTANTS
    Login = {l1, l2}
    Device = {d1}
    SessionTTL = 1
    LastTick = 2
    MaxExchanges = 2
    Batch = {b1, b2}
    Single = {s1}
    Batches <- SomeLists
    LastToken = 2
    AccountProxy = {"account proxy"}
    GlobalProxy = {"global proxy"}
    Address = {a1}
    SessionId = {i1, i2}
    MaxAttempts = 2
    Window = 1
    TTL = 1
    MaxTick = 3
    MaxLogins = 2
    Older = {o1, o2}
    Newer = {n1}
    Row = {r1}
    Value = {v1, v2}
    Call = {c1, c2}
    MaxChanges = 2
INVARIANTS LoginsKept OneTimeTokensGuarded
PROPERTIES OnlyVerifiedGoesBack SessionsKept MigrationKeepsAccounts PageTellsTheTruth
SYMMETRY Symmetry
CONSTRAINT OneKind
CHECK_DEADLOCK FALSE
