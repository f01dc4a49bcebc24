\* One account; the operator disables it while its timer runs.
SPECIFICATION Spec
CONSTANTS
    Account = {a1}
    Plan = {}
    NoPlan = NoPlan
    OneTime = {a1}
    Limits = {1}
    MaxAttempts = 2
    PermanentThreshold = 2
    Dues = {FALSE}
    MaxOutside = 0
PROPERTIES DisabledStaysDisabled
CHECK_DEADLOCK FALSE
