SPECIFICATION Spec
CONSTANTS
    Account = {a1, a2}
    Plan = {}
    NoPlan = NoPlan
    Request = {r1, r2}
    None = None
    LockTTL = 0
    Limit = 1
    MaxEmptyRetries = 1
    Backoffs = {1}
    MaxTime = 2
SYMMETRY Symmetry
INVARIANTS TypeOK SlotsGivenBackOnce CountedAtMostOnce
CHECK_DEADLOCK FALSE
