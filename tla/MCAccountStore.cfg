\* Every operation of the store: on one account, its windows included, and on
\* two with their counters; one restart.
SPECIFICATION MCSpec
CONSTANTS
    Account = {a1, a2}
    First = a1
    Plan = {}
    NoPlan = NoPlan
    DefaultDrift = 1
    Lifetimes = {1}
    Backoffs = {1}
    Marks = {"disabled"}
    Windows = {0}
    Lengths = {0, 1}
    MaxTime = 2
    MaxCount = 2
    MaxRestarts = 1
INVARIANTS TypeOK DiskFollowsMemory TokensDurable
PROPERTIES WindowsCurrent CountsLikePool
CHECK_DEADLOCK FALSE
