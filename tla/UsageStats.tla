------------------------------ MODULE UsageStats ------------------------------
(***************************************************************************)
(* The usage statistics (src/auth/usage-stats.ts, usage-refresher.ts) over *)
(* a pool of which only the two sums of PoolUsage matter.                  *)
(*                                                                         *)
(* History variables: counted is all usage ever counted; regained what     *)
(* crashes brought back (gone from the pool, but not yet from the file);   *)
(* gone what the pool lost since the start after a snapshot had seen it.   *)
(*                                                                         *)
(* Bounds: time stops at MaxTime, counting at MaxCount; MaxSnapshots       *)
(* bounds the snapshots kept and MaxRestarts the restarts.                 *)
(***************************************************************************)
EXTENDS PoolUsage, Sequences, FiniteSets

CONSTANTS
    MaxAge,       \* MAX_AGE_MS
    NoBaseline,   \* the file has no baseline
    MaxTime, MaxSnapshots, MaxRestarts

ASSUME HistoryAssumption == MaxAge \in Nat /\ NoBaseline \notin Nat

ASSUME StatsAssumption ==
    MaxTime \in Nat /\ MaxSnapshots \in Nat /\ MaxRestarts \in Nat

VARIABLES
    baseline,   \* UsageStatsStore.baseline
    snaps,      \* UsageStatsStore.snapshots
    history,    \* usage-history.json
    now, counted, regained, gone, restarts

stats == <<baseline, snaps, history>>

vars == <<pool, stats, now, counted, regained, gone, restarts>>

-----------------------------------------------------------------------------
(* Snapshots and the baseline, which stands for usage the pool no longer   *)
(* holds.  The program keeps three counters (input tokens, output tokens,  *)
(* requests) and treats each by itself; one stands for them here.  The     *)
(* history file of an older version lacks the baseline.                    *)

Snapshot == [at : Nat, total : Nat]

History == [snaps : Seq(Snapshot), baseline : Nat \cup {NoBaseline}]

NoHistory == [snaps |-> <<>>, baseline |-> 0]

Positive(n) == IF n > 0 THEN n ELSE 0

LastTotal(s) == s[Len(s)].total

-----------------------------------------------------------------------------
(* recordSnapshot: s are the snapshots so far, b the baseline, n the usage of the pool *)

\* Mutant: the usage that disappeared is not carried over.
UnmovedBaseline(s, b, n) == b

\* Mutant: growth is taken for a loss as well.
UnclampedBaseline(s, b, n) ==
    IF s = <<>> THEN b ELSE LastTotal(s) - n

\* What the pool lost since the last snapshot moves to the baseline.
NextBaseline(s, b, n) ==
    IF s = <<>> THEN b
    ELSE b + Positive(LastTotal(s) - b - n)

\* Snapshots older than MaxAge; they are the first ones, and are cut off.
AgedCount(s, t) == Cardinality({i \in DOMAIN s : t - s[i].at > MaxAge})

Pruned(s, t) == SubSeq(s, AgedCount(s, t) + 1, Len(s))

WithSnapshot(s, b, n, t) ==
    Pruned(Append(s, [at |-> t, total |-> b + n]), t)

-----------------------------------------------------------------------------
(* The constructor and recoverBaseline: f is the history file, n the usage of the pool *)

\* Mutant: the whole last total is taken for the baseline.
RecoveredTwice(f, n) ==
    IF f.baseline # NoBaseline THEN f.baseline
    ELSE IF f.snaps = <<>> THEN 0
    ELSE LastTotal(f.snaps)

Recovered(f, n) ==
    IF f.baseline # NoBaseline THEN f.baseline
    ELSE IF f.snaps = <<>> THEN 0
    ELSE Positive(LastTotal(f.snaps) - n)

\* A recovered baseline is saved at once.
AfterRecovery(f, n) == [f EXCEPT !.baseline = Recovered(f, n)]

-----------------------------------------------------------------------------
\* What the first start may find: nothing, or one snapshot of a version that
\* kept no baseline.
Found == {NoHistory} \cup
         [snaps : {<<[at |-> 0, total |-> n]>> : n \in 0 .. MaxCount},
          baseline : {NoBaseline}]

\* Usage counted before the first start: the snapshot's or the pool's, if the
\* pool went on counting after it.
CountedBefore(found, n) ==
    IF found.snaps # <<>> /\ LastTotal(found.snaps) > n THEN LastTotal(found.snaps) ELSE n

Init ==
    /\ PoolInit
    /\ \E found \in Found :
          /\ snaps = found.snaps
          /\ baseline = Recovered(found, live)
          /\ history \in {found, AfterRecovery(found, live)}
          /\ counted = CountedBefore(found, live)
    /\ now = 1
    /\ regained = 0 /\ gone = 0 /\ restarts = 0

-----------------------------------------------------------------------------
CountRequest ==
    /\ counted < MaxCount
    /\ Count
    /\ counted' = counted + 1
    /\ UNCHANGED <<stats, now, regained, gone, restarts>>

ForgetUsage(n) ==
    /\ Forget(n)
    /\ gone' = IF snaps # <<>> /\ live <= LastTotal(snaps) - baseline
               THEN gone + (live - n) ELSE gone
    /\ UNCHANGED <<stats, now, counted, regained, restarts>>

SaveAccounts ==
    /\ Persist
    /\ UNCHANGED <<stats, now, counted, regained, gone, restarts>>

\* The snapshot timer; writing the history file may fail.
TakeSnapshot ==
    /\ Len(snaps) < MaxSnapshots
    /\ baseline' = NextBaseline(snaps, baseline, live)
    /\ snaps' = WithSnapshot(snaps, baseline', live, now)
    /\ history' \in {history, [snaps |-> snaps', baseline |-> baseline']}
    /\ UNCHANGED <<pool, now, counted, regained, gone, restarts>>

\* The accounts are loaded before the statistics, which recover the baseline.
Restart(flushed) ==
    /\ restarts < MaxRestarts
    /\ Reload(flushed)
    /\ snaps' = history.snaps
    /\ baseline' = Recovered(history, live')
    /\ history' \in {history, AfterRecovery(history, live')}
    /\ regained' = regained + Positive(live' - live)
    /\ gone' = 0
    /\ restarts' = restarts + 1
    /\ UNCHANGED <<now, counted>>

Tick ==
    /\ now < MaxTime
    /\ now' = now + 1
    /\ UNCHANGED <<pool, stats, counted, regained, gone, restarts>>

Next ==
    \/ CountRequest \/ SaveAccounts \/ TakeSnapshot \/ Tick
    \/ \E n \in 0 .. live : ForgetUsage(n)
    \/ \E flushed \in BOOLEAN : Restart(flushed)

Spec == Init /\ [][Next]_vars

-----------------------------------------------------------------------------
(* Properties *)

\* Every variable keeps its type.
TypeOK ==
    /\ live \in Nat /\ saved \in Nat /\ baseline \in Nat
    /\ snaps \in Seq(Snapshot) /\ history \in History
    /\ now \in Nat /\ counted \in Nat
    /\ regained \in Nat /\ gone \in Nat /\ restarts \in Nat

\* The totals of the snapshots kept never fall ("monotonically increasing"),
\* whatever accounts are removed or reset and however the two files disagree
\* after a crash: the usage chart takes differences of them.
SnapshotsMonotone ==
    \A i, j \in DOMAIN snaps : i <= j => snaps[i].total <= snaps[j].total

\* Neither a snapshot nor the summary shows usage that was never counted: what
\* moved to the baseline is not in the pool as well, except for usage a crash
\* brought back by restoring an older accounts.json.
NothingCountedTwice ==
    /\ baseline + live <= counted + regained
    /\ snaps # <<>> => LastTotal(snaps) <= counted + regained

\* "A baseline accumulates usage from accounts that have been removed": usage a
\* snapshot had seen when it was removed is in the baseline once the next
\* snapshot is taken.
TotalsSurvive == [][TakeSnapshot => baseline' >= gone]_vars
=============================================================================
