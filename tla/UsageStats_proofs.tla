-------------------------- MODULE UsageStats_proofs --------------------------
(***************************************************************************)
(* Theorems about UsageStats, for every age limit, every number of counted *)
(* requests, snapshots and restarts, orderly or not.                       *)
(***************************************************************************)
EXTENDS UsageStats, SequenceTheorems, FiniteSetTheorems, TLAPS

\* The totals of snapshots ss never fall, and none exceeds n.
Climbing(ss, n) ==
    /\ \A i \in DOMAIN ss : ss[i].total <= n
    /\ \A i, j \in DOMAIN ss : i <= j => ss[i].total <= ss[j].total

\* The inductive invariant.  The file must satisfy it as well as the memory,
\* because a restart loads it; and the baseline in the file is never ahead.
IInv ==
    /\ TypeOK
    /\ Climbing(snaps, counted + regained)
    /\ Climbing(history.snaps, counted + regained)
    /\ baseline + live <= counted + regained
    /\ history.baseline # NoBaseline => history.baseline <= baseline

-----------------------------------------------------------------------------
(* Sequences of snapshots *)

\* The number of aged snapshots is at most the number of snapshots.
LEMMA AgedCountType ==
  ASSUME NEW ss \in Seq(Snapshot), NEW t \in Nat
  PROVE  AgedCount(ss, t) \in 0 .. Len(ss)
<1> DEFINE aged == {i \in DOMAIN ss : t - ss[i].at > MaxAge}
<1>1. /\ DOMAIN ss = 1 .. Len(ss)
      /\ Len(ss) \in Nat
  OBVIOUS
<1>2. /\ IsFiniteSet(1 .. Len(ss))
      /\ Cardinality(1 .. Len(ss)) = IF 1 > Len(ss) THEN 0 ELSE Len(ss) - 1 + 1
  BY <1>1, FS_Interval, 1 \in Int, Len(ss) \in Int
<1>3. aged \subseteq 1 .. Len(ss)
  BY <1>1
<1>4. /\ IsFiniteSet(aged)
      /\ Cardinality(aged) <= Cardinality(1 .. Len(ss))
  BY <1>2, <1>3, FS_Subset
<1>5. Cardinality(aged) \in Nat
  BY <1>4, FS_CardinalityType
<1>6. QED
  BY <1>1, <1>2, <1>4, <1>5 DEF AgedCount

\* Every total is a number.
LEMMA TotalType ==
  ASSUME NEW ss \in Seq(Snapshot)
  PROVE  \A i \in DOMAIN ss : ss[i].total \in Nat
<1>1. TAKE i \in DOMAIN ss
<1>2. ss[i] \in Snapshot
  OBVIOUS
<1>3. QED
  BY <1>2 DEF Snapshot

\* The last total of climbing snapshots is within the bound.
LEMMA LastTotalBounded ==
  ASSUME NEW ss \in Seq(Snapshot), NEW n \in Nat, Climbing(ss, n), ss # <<>>
  PROVE  LastTotal(ss) \in Nat /\ LastTotal(ss) <= n
<1>1. Len(ss) \in DOMAIN ss
  OBVIOUS
<1>2. ss[Len(ss)] \in Snapshot
  BY <1>1
<1>3. QED
  BY <1>1, <1>2 DEF LastTotal, Climbing, Snapshot

\* A larger bound does as well.
LEMMA ClimbingFurther ==
  ASSUME NEW ss \in Seq(Snapshot), NEW m \in Nat, NEW n \in Nat,
         Climbing(ss, m), m <= n
  PROVE  Climbing(ss, n)
BY TotalType DEF Climbing

\* A snapshot whose total is not below the last one keeps the totals climbing.
LEMMA AppendClimbs ==
  ASSUME NEW ss \in Seq(Snapshot), NEW n \in Nat, Climbing(ss, n),
         NEW s \in Snapshot, s.total <= n,
         ss # <<>> => LastTotal(ss) <= s.total
  PROVE  Append(ss, s) \in Seq(Snapshot) /\ Climbing(Append(ss, s), n)
<1> DEFINE longer == Append(ss, s)
<1>1. /\ longer \in Seq(Snapshot)
      /\ Len(longer) = Len(ss) + 1
      /\ DOMAIN longer = 1 .. Len(longer)
      /\ DOMAIN ss = 1 .. Len(ss)
      /\ Len(ss) \in Nat
      /\ longer[Len(longer)] = s
      /\ \A i \in DOMAIN ss : longer[i] = ss[i]
  OBVIOUS
<1>2. \A i \in DOMAIN ss : ss[i].total \in Nat /\ ss[i].total <= n
  BY TotalType DEF Climbing
<1>3. s.total \in Nat
  BY DEF Snapshot
<1>4. \A i \in DOMAIN ss : ss[i].total <= s.total
  <2>1. TAKE i \in DOMAIN ss
  <2>2. Len(ss) \in DOMAIN ss /\ i <= Len(ss) /\ ss # <<>>
    BY <1>1
  <2>3. ss[i].total <= LastTotal(ss) /\ LastTotal(ss) \in Nat
    BY <2>2, LastTotalBounded DEF LastTotal, Climbing
  <2>4. QED
    BY <2>2, <2>3, <1>2, <1>3
<1> HIDE DEF longer
<1>5. \A i \in DOMAIN longer : longer[i].total <= n
  BY <1>1, <1>2
<1>6. ASSUME NEW i \in DOMAIN longer, NEW j \in DOMAIN longer, i <= j
      PROVE  longer[i].total <= longer[j].total
  <2>1. CASE j \in DOMAIN ss
    <3>1. i \in DOMAIN ss
      BY <2>1, <1>1, <1>6
    <3>2. QED
      BY <3>1, <2>1, <1>1, <1>6 DEF Climbing
  <2>2. CASE j \notin DOMAIN ss
    <3>1. j = Len(longer)
      BY <2>2, <1>1
    <3>2. CASE i \in DOMAIN ss
      BY <3>1, <3>2, <1>1, <1>4
    <3>3. CASE i \notin DOMAIN ss
      BY <3>1, <3>3, <1>1, <1>3
    <3>4. QED
      BY <3>2, <3>3
  <2>3. QED
    BY <2>1, <2>2
<1>7. QED
  BY <1>1, <1>5, <1>6 DEF Climbing, longer

\* Cutting off old snapshots keeps the totals climbing.
LEMMA PrunedClimbs ==
  ASSUME NEW ss \in Seq(Snapshot), NEW n \in Nat, Climbing(ss, n), NEW t \in Nat
  PROVE  Pruned(ss, t) \in Seq(Snapshot) /\ Climbing(Pruned(ss, t), n)
<1> DEFINE k == AgedCount(ss, t)
           f == SubSeq(ss, k + 1, Len(ss))
<1>1. k \in 0 .. Len(ss)
  BY AgedCountType
<1>2. Pruned(ss, t) = f
  BY DEF Pruned
<1> HIDE DEF k
<1>3. /\ f \in Seq(Snapshot)
      /\ Len(f) = Len(ss) - k
      /\ DOMAIN f = 1 .. Len(f)
      /\ \A i \in 1 .. Len(f) : f[i] = ss[k + i] /\ k + i \in DOMAIN ss
  BY <1>1
<1> HIDE DEF f
<1>4. \A i \in DOMAIN f : f[i].total <= n
  BY <1>3 DEF Climbing
<1>5. ASSUME NEW i \in DOMAIN f, NEW j \in DOMAIN f, i <= j
      PROVE  f[i].total <= f[j].total
  <2>1. k + i \in DOMAIN ss /\ k + j \in DOMAIN ss /\ k + i <= k + j
    BY <1>1, <1>3, <1>5
  <2>2. QED
    BY <2>1, <1>3 DEF Climbing
<1>6. QED
  BY <1>2, <1>3, <1>4, <1>5 DEF Climbing

-----------------------------------------------------------------------------
(* The baseline *)

\* recordSnapshot: the baseline does not fall, the next total is not below the
\* last one, and it exceeds neither what was known before nor what is there.
LEMMA NextBaselineFits ==
  ASSUME NEW ss \in Seq(Snapshot), NEW n \in Nat, Climbing(ss, n),
         NEW b \in Nat, NEW l \in Nat, b + l <= n
  PROVE  LET next == NextBaseline(ss, b, l)
         IN  /\ next \in Nat /\ next >= b
             /\ next + l <= n
             /\ ss # <<>> => LastTotal(ss) <= next + l
<1>1. CASE ss = <<>>
  BY <1>1 DEF NextBaseline
<1>2. CASE ss # <<>>
  <2>1. LastTotal(ss) \in Nat /\ LastTotal(ss) <= n
    BY <1>2, LastTotalBounded
  <2>2. NextBaseline(ss, b, l) = b + Positive(LastTotal(ss) - b - l)
    BY <1>2 DEF NextBaseline
  <2>3. QED
    BY <2>1, <2>2 DEF Positive
<1>3. QED
  BY <1>1, <1>2

\* recoverBaseline: with what the pool holds after the start, the recovered
\* baseline does not exceed the last total or the baseline in the file.
LEMMA RecoveredFits ==
  ASSUME NEW h \in History, NEW l \in Nat, NEW n \in Nat,
         Climbing(h.snaps, n), l <= n,
         h.baseline # NoBaseline => h.baseline + l <= n
  PROVE  /\ Recovered(h, l) \in Nat
         /\ Recovered(h, l) + l <= n
         /\ h.baseline # NoBaseline => Recovered(h, l) = h.baseline
<1>1. h.snaps \in Seq(Snapshot) /\ h.baseline \in Nat \cup {NoBaseline}
  BY DEF History
<1>2. CASE h.baseline # NoBaseline
  BY <1>1, <1>2 DEF Recovered
<1>3. CASE h.baseline = NoBaseline /\ h.snaps = <<>>
  BY <1>3 DEF Recovered
<1>4. CASE h.baseline = NoBaseline /\ h.snaps # <<>>
  <2>1. LastTotal(h.snaps) \in Nat /\ LastTotal(h.snaps) <= n
    BY <1>1, <1>4, LastTotalBounded
  <2>2. Recovered(h, l) = Positive(LastTotal(h.snaps) - l)
    BY <1>4 DEF Recovered
  <2>3. QED
    BY <2>1, <2>2, <1>4 DEF Positive
<1>5. QED
  BY <1>2, <1>3, <1>4

\* Restart: what a crash brings back (l is the pool before, k after it) makes
\* room for itself under the bound, and so does any baseline not above b.
LEMMA RegainedFits ==
  ASSUME NEW b \in Nat, NEW l \in Nat, NEW c \in Nat, NEW r \in Nat, b + l <= c + r,
         NEW k \in Nat
  PROVE  LET q == r + Positive(k - l)
         IN  /\ q \in Nat /\ c + q \in Nat
             /\ c + r <= c + q
             /\ k <= c + q
             /\ \A h \in Nat : h <= b => h + k <= c + q
BY DEF Positive

\* Sums of numbers are numbers.
LEMMA NatSum ==
  ASSUME NEW x \in Nat, NEW y \in Nat
  PROVE  x + y \in Nat
OBVIOUS

\* Saving the recovered baseline leaves the snapshots of the file alone.
LEMMA AfterRecoveryType ==
  ASSUME NEW h \in History, NEW l, Recovered(h, l) \in Nat
  PROVE  /\ AfterRecovery(h, l) \in History
         /\ AfterRecovery(h, l).snaps = h.snaps
         /\ AfterRecovery(h, l).baseline = Recovered(h, l)
BY DEF AfterRecovery, History

-----------------------------------------------------------------------------
(* The invariant *)

\* Without a history file there is nothing to recover.
LEMMA NothingFound ==
  /\ NoHistory \in History
  /\ \A n \in Nat : Climbing(NoHistory.snaps, n)
  /\ \A l : Recovered(NoHistory, l) = 0
<1>1. NoHistory = [snaps |-> <<>>, baseline |-> 0] /\ 0 # NoBaseline
  BY HistoryAssumption DEF NoHistory
<1>2. <<>> \in Seq(Snapshot) /\ DOMAIN NoHistory.snaps = {}
  BY <1>1
<1>3. QED
  BY <1>1, <1>2 DEF History, Climbing, Recovered

\* What an older version left: snapshots without a baseline.
LEMMA OldHistoryFound ==
  ASSUME NEW m \in Nat, NEW n \in Nat, m <= n,
         NEW old, old = [snaps |-> <<[at |-> 0, total |-> m]>>, baseline |-> NoBaseline]
  PROVE  old \in History /\ Climbing(old.snaps, n) /\ LastTotal(old.snaps) = m
<1>1. [at |-> 0, total |-> m] \in Snapshot
  BY DEF Snapshot
<1>2. /\ old.snaps \in Seq(Snapshot)
      /\ DOMAIN old.snaps = {1} /\ old.snaps[1].total = m /\ Len(old.snaps) = 1
  BY <1>1
<1>3. QED
  BY <1>2 DEF History, Climbing, LastTotal

\* The first start establishes the invariant.
LEMMA InitOK ==
  Init => IInv
<1> SUFFICES ASSUME Init PROVE IInv
  OBVIOUS
<1>1. PICK found \in Found :
         /\ snaps = found.snaps
         /\ baseline = Recovered(found, live)
         /\ history \in {found, AfterRecovery(found, live)}
         /\ counted = CountedBefore(found, live)
  BY DEF Init
<1>2. /\ live \in Nat /\ saved \in Nat
      /\ now = 1 /\ regained = 0 /\ gone = 0 /\ restarts = 0
  BY CountAssumption DEF Init, PoolInit
<1>3. /\ found \in History
      /\ baseline \in Nat
      /\ counted = live + baseline
      /\ Climbing(found.snaps, counted)
      /\ found.baseline # NoBaseline => found.baseline = baseline
  <2>1. CASE found = NoHistory
    <3>1. found.snaps = <<>> /\ counted = live /\ baseline = 0
      BY <2>1, <1>1, NothingFound DEF NoHistory, CountedBefore
    <3>2. QED
      BY <2>1, <3>1, <1>2, NothingFound DEF NoHistory
  <2>2. CASE found # NoHistory
    <3>1. PICK m \in 0 .. MaxCount :
             found = [snaps |-> <<[at |-> 0, total |-> m]>>, baseline |-> NoBaseline]
      BY <1>1, <2>2 DEF Found
    <3>2. m \in Nat /\ found.snaps # <<>> /\ found.baseline = NoBaseline
      BY <3>1, CountAssumption
    <3>3. found \in History /\ LastTotal(found.snaps) = m
      BY <3>1, <3>2, OldHistoryFound
    <3>4. baseline = Positive(m - live)
      BY <1>1, <3>2, <3>3 DEF Recovered
    <3>5. counted = IF m > live THEN m ELSE live
      BY <1>1, <3>2, <3>3 DEF CountedBefore
    <3>6. /\ baseline \in Nat /\ counted \in Nat /\ m <= counted
          /\ counted = live + baseline
      BY <1>2, <3>2, <3>4, <3>5 DEF Positive
    <3>7. QED
      BY <3>1, <3>2, <3>6, OldHistoryFound
  <2>3. QED
    BY <2>1, <2>2
<1>4. /\ history \in History /\ history.snaps = found.snaps
      /\ history.baseline # NoBaseline => history.baseline = baseline
  BY <1>1, <1>3, AfterRecoveryType
<1>5. QED
  BY <1>1, <1>2, <1>3, <1>4 DEF IInv, TypeOK, History

\* Counting, forgetting and saving leave the snapshots alone.
LEMMA PoolStepKeeps ==
  ASSUME IInv,
         CountRequest \/ SaveAccounts \/ (\E n \in 0 .. live : ForgetUsage(n)) \/ Tick
  PROVE  IInv'
<1>1. /\ snaps' = snaps /\ history' = history /\ baseline' = baseline
      /\ live' \in Nat /\ saved' \in Nat /\ now' \in Nat
      /\ counted' \in Nat /\ regained' \in Nat /\ restarts' \in Nat
      /\ counted + regained <= counted' + regained'
      /\ baseline' + live' <= counted' + regained'
  <2>1. CASE CountRequest
    BY <2>1 DEF IInv, TypeOK, CountRequest, Count, stats
  <2>2. CASE SaveAccounts
    BY <2>2 DEF IInv, TypeOK, SaveAccounts, Persist, stats
  <2>3. CASE \E n \in 0 .. live : ForgetUsage(n)
    BY <2>3 DEF IInv, TypeOK, ForgetUsage, Forget, stats
  <2>4. CASE Tick
    BY <2>4 DEF IInv, TypeOK, Tick, stats, pool
  <2>5. QED
    BY <2>1, <2>2, <2>3, <2>4
<1>2. gone' \in Nat
  <2>1. CASE \E n \in 0 .. live : ForgetUsage(n)
    <3>1. PICK n \in 0 .. live : ForgetUsage(n)
      BY <2>1
    <3>2. gone' \in {gone, gone + (live - n)}
      BY <3>1 DEF ForgetUsage
    <3>3. QED
      BY <3>2 DEF IInv, TypeOK
  <2>2. CASE ~ \E n \in 0 .. live : ForgetUsage(n)
    BY <2>2 DEF IInv, TypeOK, CountRequest, SaveAccounts, Tick
  <2>3. QED
    BY <2>1, <2>2
<1>3. /\ snaps \in Seq(Snapshot) /\ history.snaps \in Seq(Snapshot)
      /\ counted + regained \in Nat /\ counted' + regained' \in Nat
  <2>1. snaps \in Seq(Snapshot) /\ counted \in Nat /\ regained \in Nat
    BY DEF IInv, TypeOK
  <2>2. history.snaps \in Seq(Snapshot)
    BY DEF IInv, TypeOK, History
  <2>3. counted + regained \in Nat
    BY <2>1
  <2>4. counted' + regained' \in Nat
    BY <1>1, NatSum
  <2>5. QED
    BY <2>1, <2>2, <2>3, <2>4
<1>4. /\ Climbing(snaps, counted' + regained')
      /\ Climbing(history.snaps, counted' + regained')
  BY <1>1, <1>3, ClimbingFurther DEF IInv
<1>5. TypeOK'
  BY <1>1, <1>2 DEF IInv, TypeOK
<1>6. QED
  BY <1>1, <1>4, <1>5 DEF IInv

\* A snapshot continues the climb from the baseline it has just adjusted.
LEMMA TakeSnapshotKeeps ==
  ASSUME IInv, TakeSnapshot
  PROVE  IInv'
<1> DEFINE n == counted + regained
           new == [at |-> now, total |-> baseline' + live]
<1>1. /\ n \in Nat /\ live \in Nat /\ baseline \in Nat /\ now \in Nat
      /\ snaps \in Seq(Snapshot) /\ Climbing(snaps, n)
      /\ baseline + live <= n
  BY DEF IInv, TypeOK
<1>2. /\ baseline' = NextBaseline(snaps, baseline, live)
      /\ snaps' = Pruned(Append(snaps, new), now)
      /\ UNCHANGED <<live, saved, now, counted, regained, gone, restarts>>
  BY DEF TakeSnapshot, WithSnapshot, pool
<1> HIDE DEF n
<1>3. /\ baseline' \in Nat /\ baseline' >= baseline
      /\ baseline' + live <= n
      /\ snaps # <<>> => LastTotal(snaps) <= baseline' + live
  BY <1>1, <1>2, NextBaselineFits
<1>4. new \in Snapshot /\ new.total = baseline' + live
  <2>1. baseline' + live \in Nat
    BY <1>1, <1>3, NatSum
  <2>2. QED
    BY <1>1, <2>1 DEF Snapshot
<1> HIDE DEF new
<1>5. Append(snaps, new) \in Seq(Snapshot) /\ Climbing(Append(snaps, new), n)
  BY <1>1, <1>3, <1>4, AppendClimbs
<1>6. snaps' \in Seq(Snapshot) /\ Climbing(snaps', n)
  BY <1>1, <1>2, <1>5, PrunedClimbs
<1>7. /\ history' \in History
      /\ Climbing(history'.snaps, n)
      /\ history'.baseline # NoBaseline => history'.baseline <= baseline'
  <2>1. CASE history' = history
    <3>1. history \in History /\ Climbing(history.snaps, n)
      BY DEF IInv, TypeOK, n
    <3>2. history.baseline # NoBaseline =>
             history.baseline \in Nat /\ history.baseline <= baseline
      BY <3>1 DEF IInv, History
    <3>3. QED
      BY <2>1, <3>1, <3>2, <1>1, <1>3
  <2>2. CASE history' = [snaps |-> snaps', baseline |-> baseline']
    BY <2>2, <1>3, <1>6 DEF History
  <2>3. QED
    BY <2>1, <2>2 DEF TakeSnapshot
<1>8. counted' + regained' = n
  BY <1>2 DEF n
<1>9. TypeOK'
  BY <1>2, <1>3, <1>6, <1>7 DEF IInv, TypeOK
<1>10. QED
  BY <1>2, <1>3, <1>6, <1>7, <1>8, <1>9 DEF IInv

\* A restart loads a pool and a history that fit, whichever of them is older.
LEMMA RestartKeeps ==
  ASSUME IInv, NEW flushed \in BOOLEAN, Restart(flushed)
  PROVE  IInv'
<1> DEFINE n == counted' + regained'
<1>1. /\ live \in Nat /\ saved \in Nat /\ baseline \in Nat
      /\ counted \in Nat /\ regained \in Nat /\ restarts \in Nat /\ now \in Nat
      /\ history \in History
      /\ history.snaps \in Seq(Snapshot)
      /\ Climbing(history.snaps, counted + regained)
      /\ baseline + live <= counted + regained
      /\ history.baseline # NoBaseline =>
            history.baseline \in Nat /\ history.baseline <= baseline
  BY DEF IInv, TypeOK, History
<1>2. /\ live' \in {live, saved} /\ saved' \in {live, saved}
      /\ snaps' = history.snaps
      /\ baseline' = Recovered(history, live')
      /\ history' \in {history, AfterRecovery(history, live')}
      /\ regained' = regained + Positive(live' - live)
      /\ gone' = 0 /\ restarts' = restarts + 1 /\ now' = now /\ counted' = counted
  BY DEF Restart, Reload
<1>3. /\ live' \in Nat /\ saved' \in Nat
      /\ counted + regained \in Nat
  BY <1>1, <1>2
<1>4. /\ regained' \in Nat /\ n \in Nat /\ counted + regained <= n
      /\ live' <= n
      /\ \A h \in Nat : h <= baseline => h + live' <= n
  <2>1. PICK k \in Nat : k = live'
    BY <1>3
  <2> DEFINE q == regained + Positive(k - live)
  <2>2. /\ q \in Nat /\ counted + q \in Nat
        /\ counted + regained <= counted + q
        /\ k <= counted + q
        /\ \A h \in Nat : h <= baseline => h + k <= counted + q
    BY <1>1, RegainedFits
  <2>3. regained' = q /\ n = counted + q
    BY <1>2, <2>1
  <2> HIDE DEF q, n
  <2>4. QED
    BY <2>1, <2>2, <2>3
<1> HIDE DEF n
<1>5. /\ Climbing(history.snaps, n)
      /\ history.baseline # NoBaseline => history.baseline + live' <= n
  BY <1>1, <1>3, <1>4, ClimbingFurther
<1>6. /\ baseline' \in Nat
      /\ baseline' + live' <= n
      /\ history.baseline # NoBaseline => baseline' = history.baseline
  BY <1>1, <1>2, <1>3, <1>4, <1>5, RecoveredFits
<1>7. /\ history' \in History
      /\ history'.snaps = history.snaps
      /\ history'.baseline # NoBaseline => history'.baseline = baseline'
  BY <1>1, <1>2, <1>6, AfterRecoveryType
<1>8. TypeOK'
  BY <1>1, <1>2, <1>3, <1>4, <1>6, <1>7 DEF TypeOK
<1>9. QED
  BY <1>2, <1>5, <1>6, <1>7, <1>8 DEF IInv, n

\* The invariant holds in every reachable state.
THEOREM Inductive ==
  Spec => []IInv
<1>1. IInv /\ [Next]_vars => IInv'
  <2> SUFFICES ASSUME IInv, [Next]_vars PROVE IInv'
    OBVIOUS
  <2>1. CASE CountRequest \/ SaveAccounts \/ (\E n \in 0 .. live : ForgetUsage(n)) \/ Tick
    BY <2>1, PoolStepKeeps
  <2>2. CASE TakeSnapshot
    BY <2>2, TakeSnapshotKeeps
  <2>3. CASE \E flushed \in BOOLEAN : Restart(flushed)
    BY <2>3, RestartKeeps
  <2>4. CASE UNCHANGED vars
    BY <2>4 DEF IInv, TypeOK, vars, stats, pool
  <2>5. QED
    BY <2>1, <2>2, <2>3, <2>4 DEF Next
<1>2. QED
  BY <1>1, InitOK, PTL DEF Spec

\* Type correctness of the statistics.
THEOREM TypeCorrect ==
  Spec => []TypeOK
<1>1. IInv => TypeOK
  BY DEF IInv
<1>2. QED
  BY <1>1, Inductive, PTL

\* The totals of the snapshots never fall.
THEOREM TotalsNeverFall ==
  Spec => []SnapshotsMonotone
<1>1. IInv => SnapshotsMonotone
  BY DEF IInv, Climbing, SnapshotsMonotone
<1>2. QED
  BY <1>1, Inductive, PTL

\* No usage is shown that was never counted, but for what crashes brought back.
THEOREM NothingInvented ==
  Spec => []NothingCountedTwice
<1>1. IInv => NothingCountedTwice
  <2> SUFFICES ASSUME IInv PROVE NothingCountedTwice
    OBVIOUS
  <2>1. snaps \in Seq(Snapshot) /\ counted + regained \in Nat
    BY DEF IInv, TypeOK
  <2>2. QED
    BY <2>1, LastTotalBounded DEF IInv, NothingCountedTwice
<1>2. QED
  BY <1>1, Inductive, PTL
=============================================================================
