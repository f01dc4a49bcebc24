\* Snapshots that age, a baseline that is lost or recovered, two restarts.
SPECIFICATION Spec
CONSTANTS
    MaxAge = 1
    NoBaseline = NoBaseline
    MaxTime = 3
    MaxCount = 3
    MaxSnapshots = 3
    MaxRestarts = 2
INVARIANTS TypeOK SnapshotsMonotone NothingCountedTwice
CHECK_DEADLOCK FALSE
