\* Two accounts, one plan; a token is born expired or expires one unit later,
\* a rate limit lasts one unit, a slot is stale in the unit after its push.
SPECIFICATION Spec
CONSTANTS
    Account = {a1, a2}
    Plan = {plus}
    NoPlan = NoPlan
    LockTTL = 0
    Asks <- MCAsks
    Limits = {1, 2}
    Lifetimes = {0, 1}
    Backoffs = {1}
    MaxTime = 2
    MaxHeld = 2
SYMMETRY Symmetry
INVARIANTS TypeOK SlotsBacked ParkedHoldsNoSlot StaleSlotsDropped
PROPERTIES AcquiredIsUsable
CHECK_DEADLOCK FALSE
