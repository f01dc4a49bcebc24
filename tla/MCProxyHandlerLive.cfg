\* One request failing over between two accounts the operator keeps reactivating: it ends,
\* and on the way keeps to what Failover promises.
SPECIFICATION FairSpec
CONSTANTS
    Account = {a1, a2}
    Plan = {}
    NoPlan = NoPlan
    Request = {r1}
    None = None
    LockTTL = 0
    Limit = 1
    MaxEmptyRetries = 2
    Backoffs = {1}
    MaxTime = 3
PROPERTIES EveryRequestAnswered FailsOverInOrder
CHECK_DEADLOCK FALSE
