\* Two refreshes share one slot; nobody else touches the accounts' tokens.
SPECIFICATION FairSpec
CONSTANTS
    Account = {a1, a2}
    Plan = {}
    NoPlan = NoPlan
    OneTime = {a1}
    Limits = {1}
    MaxAttempts = 2
    PermanentThreshold = 2
    Dues = {TRUE, FALSE}
    MaxOutside = 0
PROPERTIES RefreshEnds
CHECK_DEADLOCK FALSE
