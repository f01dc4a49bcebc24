\* One account with single-use refresh tokens and two with reusable ones.
SPECIFICATION Spec
CONSTANTS
    Account = {a1, a2, a3}
    Third = a3
    Plan = {}
    NoPlan = NoPlan
    OneTime = {a1}
    Limits = {1, 2}
    MaxAttempts = 2
    PermanentThreshold = 2
    Dues = {TRUE, FALSE}
    MaxOutside = 1
CONSTRAINT Bounded
INVARIANT NoTokenDropped
PROPERTIES RefreshingIsOwned SemaphoreKept ServedInOrder
CHECK_DEADLOCK FALSE
