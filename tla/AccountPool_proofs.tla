-------------------------- MODULE AccountPool_proofs --------------------------
(***************************************************************************)
(* Theorems about AccountPool, for every set of accounts and plans, every  *)
(* limit, backoff and lock TTL.                                            *)
(***************************************************************************)
EXTENDS AccountPool, SequenceTheorems, FiniteSetTheorems, TLAPS

\* The inductive invariant.  SlotsBacked and ParkedHoldsNoSlot need each
\* other's context only through the types; the clean-up of stale slots needs
\* the chronological order to be exact.
IInv ==
    /\ TypeOK
    /\ SlotsChronological
    /\ SlotsBacked
    /\ ParkedHoldsNoSlot

-----------------------------------------------------------------------------
(* Sequences of timestamps *)

\* Pushing the current time keeps a slot list chronological.
LEMMA PushChronological ==
  ASSUME NEW s \in Seq(Nat), NEW t \in Nat, Chronological(s, t)
  PROVE  /\ Append(s, t) \in Seq(Nat)
         /\ Len(Append(s, t)) = Len(s) + 1
         /\ Chronological(Append(s, t), t)
BY DEF Chronological

\* Shifting the oldest slot out keeps the list chronological.
LEMMA PopChronological ==
  ASSUME NEW s \in Seq(Nat), NEW t \in Nat, Chronological(s, t), s # <<>>
  PROVE  /\ Tail(s) \in Seq(Nat)
         /\ Len(Tail(s)) = Len(s) - 1
         /\ Chronological(Tail(s), t)
<1>1. /\ Tail(s) \in Seq(Nat)
      /\ Len(Tail(s)) = Len(s) - 1
      /\ \A i \in 1 .. Len(s) - 1 : Tail(s)[i] = s[i + 1]
  OBVIOUS
<1>2. \A i \in DOMAIN Tail(s) : i \in 1 .. Len(s) - 1 /\ i + 1 \in DOMAIN s
  BY <1>1
<1>3. \A i \in DOMAIN Tail(s) : Tail(s)[i] = s[i + 1]
  BY <1>1, <1>2
<1>4. /\ \A i \in DOMAIN s : s[i] <= t
      /\ \A i, j \in DOMAIN s : i <= j => s[i] <= s[j]
  BY DEF Chronological
<1>5. \A i \in DOMAIN Tail(s) : Tail(s)[i] <= t
  BY <1>2, <1>3, <1>4
<1>6. ASSUME NEW i \in DOMAIN Tail(s), NEW j \in DOMAIN Tail(s), i <= j
      PROVE  Tail(s)[i] <= Tail(s)[j]
  <2>1. i + 1 \in DOMAIN s /\ j + 1 \in DOMAIN s /\ i + 1 <= j + 1
    BY <1>2, <1>6
  <2>2. s[i + 1] <= s[j + 1]
    BY <2>1, <1>4
  <2>3. QED
    BY <2>2, <1>3
<1>7. Chronological(Tail(s), t)
  BY <1>5, <1>6 DEF Chronological
<1>8. QED
  BY <1>1, <1>7

\* The first n positions are n.
LEMMA PositionsCounted ==
  ASSUME NEW n \in Nat
  PROVE  IsFiniteSet(1 .. n) /\ Cardinality(1 .. n) = n
<1>1. /\ IsFiniteSet(1 .. n)
      /\ Cardinality(1 .. n) = IF 1 > n THEN 0 ELSE n - 1 + 1
  BY FS_Interval, 1 \in Int, n \in Int
<1>2. (IF 1 > n THEN 0 ELSE n - 1 + 1) = n
  OBVIOUS
<1>3. QED
  BY <1>1, <1>2

\* The number of stale slots is at most the number of slots.
LEMMA StaleCountType ==
  ASSUME NEW s \in Seq(Nat), NEW t \in Nat
  PROVE  StaleCount(s, t) \in 0 .. Len(s)
<1> DEFINE stale == {i \in DOMAIN s : t - s[i] > LockTTL}
<1>1. /\ DOMAIN s = 1 .. Len(s)
      /\ Len(s) \in Nat
  OBVIOUS
<1>2. /\ IsFiniteSet(1 .. Len(s))
      /\ Cardinality(1 .. Len(s)) = Len(s)
  BY <1>1, PositionsCounted
<1>3. stale \subseteq 1 .. Len(s)
  BY <1>1
<1>4. /\ IsFiniteSet(stale)
      /\ Cardinality(stale) <= Len(s)
  BY <1>2, <1>3, FS_Subset
<1>5. Cardinality(stale) \in Nat
  BY <1>4, FS_CardinalityType
<1>6. QED
  BY <1>1, <1>4, <1>5 DEF StaleCount

\* A suffix of a chronological list, element by element.
LEMMA SuffixChronological ==
  ASSUME NEW s \in Seq(Nat), NEW t \in Nat, Chronological(s, t),
         NEW k \in 0 .. Len(s),
         NEW f, f = SubSeq(s, k + 1, Len(s))
  PROVE  /\ f \in Seq(Nat)
         /\ Len(f) = Len(s) - k
         /\ DOMAIN f = 1 .. Len(f)
         /\ \A i \in 1 .. Len(f) : f[i] = s[k + i] /\ f[i] \in Nat
         /\ Chronological(f, t)
<1>1. /\ f \in Seq(Nat)
      /\ Len(f) = Len(s) - k
      /\ DOMAIN f = 1 .. Len(f)
      /\ \A i \in 1 .. Len(f) : f[i] = s[k + i] /\ f[i] \in Nat
  <2>1. /\ Len(s) \in Nat /\ k \in Nat /\ k <= Len(s)
        /\ \A i \in 1 .. Len(s) : s[i] \in Nat
    OBVIOUS
  <2>2. f \in Seq(Nat) /\ Len(f) = Len(s) - k
    BY <2>1
  <2>3. DOMAIN f = 1 .. Len(f)
    BY <2>2
  <2>4. \A i \in 1 .. Len(f) : f[i] = s[k + i] /\ k + i \in 1 .. Len(s)
    BY <2>1, <2>2
  <2>5. QED
    BY <2>1, <2>2, <2>3, <2>4
<1>2. Chronological(f, t)
  <2>1. \A i \in DOMAIN f : k + i \in DOMAIN s
    BY <1>1
  <2>2. \A i \in DOMAIN f : f[i] <= t
    BY <1>1, <2>1 DEF Chronological
  <2>3. ASSUME NEW i \in DOMAIN f, NEW j \in DOMAIN f, i <= j
        PROVE  f[i] <= f[j]
    <3>1. /\ k + i \in DOMAIN s /\ k + j \in DOMAIN s
          /\ k + i <= k + j
      BY <1>1, <2>1, <2>3
    <3>2. s[k + i] <= s[k + j]
      BY <3>1 DEF Chronological
    <3>3. QED
      BY <3>2, <1>1
  <2>4. QED
    BY <2>2, <2>3 DEF Chronological
<1>3. QED
  BY <1>1, <1>2

\* Dropping stale slots never adds a slot and keeps the order.
LEMMA FreshSlotsType ==
  ASSUME NEW s \in Seq(Nat), NEW t \in Nat, Chronological(s, t)
  PROVE  /\ FreshSlots(s, t) \in Seq(Nat)
         /\ Len(FreshSlots(s, t)) <= Len(s)
         /\ Chronological(FreshSlots(s, t), t)
         /\ s = <<>> => FreshSlots(s, t) = <<>>
<1>1. CASE s = <<>> \/ t - s[1] <= LockTTL
  BY <1>1 DEF FreshSlots
<1>2. CASE ~(s = <<>> \/ t - s[1] <= LockTTL)
  <2> DEFINE k == StaleCount(s, t)
             f == SubSeq(s, k + 1, Len(s))
  <2>1. k \in 0 .. Len(s)
    BY StaleCountType
  <2>2. FreshSlots(s, t) = f
    BY <1>2 DEF FreshSlots
  <2> HIDE DEF k
  <2>3. /\ f \in Seq(Nat)
        /\ Len(f) = Len(s) - k
        /\ Chronological(f, t)
    <3>1. f = SubSeq(s, k + 1, Len(s))
      OBVIOUS
    <3> HIDE DEF f
    <3>2. QED
      BY <2>1, <3>1, SuffixChronological
  <2>4. QED
    BY <1>2, <2>1, <2>2, <2>3
<1>3. QED
  BY <1>1, <1>2

\* Of a chronological list exactly the stale slots are dropped.
LEMMA FreshSlotsExact ==
  ASSUME NEW s \in Seq(Nat), NEW t \in Nat, Chronological(s, t)
  PROVE  LET kept == FreshSlots(s, t)
         IN  /\ \A i \in DOMAIN kept : t - kept[i] <= LockTTL
             /\ Len(kept) = Len(s) - StaleCount(s, t)
<1> DEFINE stale == {i \in DOMAIN s : t - s[i] > LockTTL}
           k == StaleCount(s, t)
<1>1. k \in 0 .. Len(s)
  BY StaleCountType
<1>2. k = Cardinality(stale)
  BY DEF StaleCount
<1>3. /\ IsFiniteSet(stale)
      /\ stale \subseteq 1 .. Len(s)
  <2>1. /\ stale \subseteq 1 .. Len(s)
        /\ Len(s) \in Nat
    OBVIOUS
  <2>2. QED
    BY <2>1, PositionsCounted, FS_Subset
<1>4. CASE s = <<>> \/ t - s[1] <= LockTTL
  <2>1. stale = {}
    <3>1. SUFFICES ASSUME NEW i \in stale PROVE FALSE
      OBVIOUS
    <3>2. /\ i \in 1 .. Len(s)
          /\ 1 \in DOMAIN s
          /\ s[1] \in Nat /\ s[i] \in Nat
          /\ t - s[i] > LockTTL
      BY <3>1, <1>3
    <3>3. s[1] <= s[i]
      BY <3>2 DEF Chronological
    <3>4. QED
      BY <3>2, <3>3, <1>4, LockTTLAssumption
  <2>2. k = 0
    BY <1>2, <2>1, FS_EmptySet
  <2>3. FreshSlots(s, t) = s
    BY <1>4 DEF FreshSlots
  <2>4. \A i \in DOMAIN s : t - s[i] <= LockTTL
    BY <2>1, LockTTLAssumption
  <2>5. QED
    BY <2>2, <2>3, <2>4
<1>5. CASE ~(s = <<>> \/ t - s[1] <= LockTTL)
  <2> DEFINE f == SubSeq(s, k + 1, Len(s))
  <2>1. FreshSlots(s, t) = f
    BY <1>5 DEF FreshSlots
  <2> HIDE DEF k
  <2>2. /\ Len(f) = Len(s) - k
        /\ DOMAIN f = 1 .. Len(f)
        /\ \A i \in 1 .. Len(f) : f[i] = s[k + i] /\ f[i] \in Nat
    BY <1>1, SuffixChronological
  <2> HIDE DEF f
  <2>3. ASSUME NEW i \in 1 .. Len(f), t - f[i] > LockTTL
        PROVE  FALSE
    <3>1. /\ k + i \in 1 .. Len(s)
          /\ t - s[k + i] > LockTTL
      BY <1>1, <2>2, <2>3
    <3>2. 1 .. (k + i) \subseteq stale
      <4>1. SUFFICES ASSUME NEW j \in 1 .. (k + i) PROVE j \in stale
        OBVIOUS
      <4> DEFINE m == k + i
      <4>2. m \in 1 .. Len(s) /\ t - s[m] > LockTTL /\ j \in 1 .. m
        BY <3>1, <4>1
      <4> HIDE DEF m
      <4>3. Len(s) \in Nat /\ DOMAIN s = 1 .. Len(s)
        OBVIOUS
      <4>4. j \in DOMAIN s /\ m \in DOMAIN s /\ j <= m
        BY <4>2, <4>3
      <4>5. s[j] \in Nat /\ s[m] \in Nat
        BY <4>4
      <4>6. s[j] <= s[m]
        BY <4>4 DEF Chronological
      <4>7. QED
        BY <4>2, <4>4, <4>5, <4>6, LockTTLAssumption
    <3>3. Cardinality(1 .. (k + i)) = k + i
      BY <1>1, PositionsCounted, k + i \in Nat
    <3>4. Cardinality(1 .. (k + i)) <= Cardinality(stale)
      BY <3>2, <1>3, FS_Subset
    <3>5. QED
      BY <3>3, <3>4, <1>1, <1>2
  <2>4. \A i \in DOMAIN f : t - f[i] <= LockTTL
    BY <2>2, <2>3, LockTTLAssumption
  <2>5. QED
    BY <2>1, <2>2, <2>4 DEF k, f
<1>6. QED
  BY <1>4, <1>5

-----------------------------------------------------------------------------
(* One account: its entry e, its slots s at time t, its h holders.  Every    *)
(* action changes accounts one by one, so the invariant is kept account by   *)
(* account.                                                                  *)

AccountOK(e, s, t, h) ==
    /\ e \in Entry
    /\ s \in Seq(Nat)
    /\ h \in Nat
    /\ Chronological(s, t)
    /\ Len(s) <= h
    /\ s # <<>> => e.status \in {"active", "expired"}

\* The invariant of the pool is that of its accounts.
LEMMA InvariantByAccount ==
  IInv <=> /\ entry = [a \in Account |-> entry[a]]
           /\ slots = [a \in Account |-> slots[a]]
           /\ held = [a \in Account |-> held[a]]
           /\ limit \in Nat \ {0}
           /\ now \in Nat
           /\ \A a \in Account : AccountOK(entry[a], slots[a], now, held[a])
BY Zenon DEF IInv, TypeOK, SlotsChronological, SlotsBacked, ParkedHoldsNoSlot, AccountOK

\* The lazy status clean-up of a reader never invents a status that would
\* strand the slots of the account.
LEMMA RefreshKeepsAccount ==
  ASSUME NEW e, NEW s, NEW t \in Nat, NEW h, AccountOK(e, s, t, h)
  PROVE  AccountOK(RefreshStatus(e, t), s, t, h)
<1>1. e \in Entry
  BY DEF AccountOK
<1>2. /\ LimitLifted(e, t) \in Entry
      /\ e.status \in {"active", "expired"} => LimitLifted(e, t) = e
  BY <1>1 DEF LimitLifted, Entry, Status, NoEntry
<1>3. ASSUME NEW f \in Entry
      PROVE  /\ TokenChecked(f, t) \in Entry
             /\ f.status \in {"active", "expired"} =>
                  TokenChecked(f, t).status \in {"active", "expired"}
  BY DEF TokenChecked, Entry, Status, NoEntry
<1>4. QED
  BY <1>2, <1>3 DEF AccountOK, RefreshStatus

\* Dropping stale slots keeps the account.
LEMMA DropKeepsAccount ==
  ASSUME NEW e, NEW s, NEW t \in Nat, NEW h, AccountOK(e, s, t, h)
  PROVE  AccountOK(e, FreshSlots(s, t), t, h)
<1>1. s \in Seq(Nat) /\ Chronological(s, t)
  BY DEF AccountOK
<1>2. /\ FreshSlots(s, t) \in Seq(Nat)
      /\ Len(FreshSlots(s, t)) <= Len(s)
      /\ Chronological(FreshSlots(s, t), t)
      /\ s = <<>> => FreshSlots(s, t) = <<>>
  BY <1>1, FreshSlotsType
<1>3. Len(FreshSlots(s, t)) <= h
  BY <1>1, <1>2 DEF AccountOK
<1>4. QED
  BY <1>2, <1>3 DEF AccountOK

\* Acquiring an active account adds a slot and a holder.
LEMMA PushKeepsAccount ==
  ASSUME NEW e, NEW s, NEW t \in Nat, NEW h, AccountOK(e, s, t, h),
         e.status = "active"
  PROVE  AccountOK(e, Append(s, t), t, h + 1)
<1>1. s \in Seq(Nat) /\ Chronological(s, t) /\ h \in Nat /\ Len(s) <= h
  BY DEF AccountOK
<1>2. /\ Append(s, t) \in Seq(Nat)
      /\ Len(Append(s, t)) = Len(s) + 1
      /\ Chronological(Append(s, t), t)
  BY <1>1, PushChronological
<1>3. Len(Append(s, t)) <= h + 1 /\ h + 1 \in Nat
  BY <1>1, <1>2
<1>4. QED
  BY <1>2, <1>3 DEF AccountOK

\* A release takes away a holder and, if one is left, a slot.
LEMMA PopKeepsAccount ==
  ASSUME NEW e, NEW s, NEW t \in Nat, NEW h, AccountOK(e, s, t, h), h > 0
  PROVE  AccountOK(e, IF s = <<>> THEN <<>> ELSE Tail(s), t, h - 1)
<1>1. s \in Seq(Nat) /\ Chronological(s, t) /\ h \in Nat /\ Len(s) <= h
  BY DEF AccountOK
<1>2. CASE s = <<>>
  BY <1>1, <1>2 DEF AccountOK
<1>3. CASE s # <<>>
  <2>1. /\ Tail(s) \in Seq(Nat)
        /\ Len(Tail(s)) = Len(s) - 1
        /\ Chronological(Tail(s), t)
    BY <1>1, <1>3, PopChronological
  <2>2. Len(Tail(s)) <= h - 1 /\ h - 1 \in Nat
    BY <1>1, <2>1
  <2>3. QED
    BY <1>3, <2>1, <2>2 DEF AccountOK
<1>4. QED
  BY <1>2, <1>3

\* With its locks cleared an account may get any entry.
LEMMA ClearKeepsAccount ==
  ASSUME NEW e, NEW s, NEW t \in Nat, NEW h, AccountOK(e, s, t, h),
         NEW f \in Entry
  PROVE  AccountOK(f, <<>>, t, h)
BY DEF AccountOK, Chronological

\* A new entry that is active or expired, or an account without slots.
LEMMA EntryKeepsAccount ==
  ASSUME NEW e, NEW s, NEW t \in Nat, NEW h, AccountOK(e, s, t, h),
         NEW f \in Entry,
         s # <<>> => f.status \in {"active", "expired"}
  PROVE  AccountOK(f, s, t, h)
BY DEF AccountOK

\* Time passing keeps the slots in the past.
LEMMA TimeKeepsAccount ==
  ASSUME NEW e, NEW s, NEW t \in Nat, NEW h, AccountOK(e, s, t, h)
  PROVE  AccountOK(e, s, t + 1, h)
<1>1. s \in Seq(Nat) /\ Chronological(s, t)
  BY DEF AccountOK
<1>2. Chronological(s, t + 1)
  BY <1>1 DEF Chronological
<1>3. QED
  BY <1>2 DEF AccountOK

-----------------------------------------------------------------------------
(* The actions *)

\* The shape every action's proof ends in.
StepKept ==
    /\ entry' = [a \in Account |-> entry'[a]]
    /\ slots' = [a \in Account |-> slots'[a]]
    /\ held' = [a \in Account |-> held'[a]]
    /\ limit' \in Nat \ {0}
    /\ now' \in Nat
    /\ \A a \in Account : AccountOK(entry'[a], slots'[a], now', held'[a])

LEMMA KeptIsInvariant ==
  StepKept => IInv'
BY Zenon DEF StepKept, IInv, TypeOK, SlotsChronological, SlotsBacked, ParkedHoldsNoSlot, AccountOK

\* The initial state satisfies the invariant.
LEMMA InitInvariant ==
  Init => IInv
BY PoolAssumption
   DEF Init, IInv, TypeOK, SlotsChronological, SlotsBacked, ParkedHoldsNoSlot,
       Chronological, NoAccount, Entry, Status, NoEntry

\* Reads: status clean-up without or with the clean-up of stale slots.
LEMMA ReadsKeep ==
  ASSUME IInv,
         (\E ask \in Asks : AcquireNull(ask)) \/ (\E who \in SUBSET Account : Query(who))
  PROVE  IInv'
<1> USE InvariantByAccount
<1>1. CASE \E ask \in Asks : AcquireNull(ask)
  <2>1. \A a \in Account : AccountOK(entry'[a], slots'[a], now, held[a])
    BY <1>1, RefreshKeepsAccount, DropKeepsAccount
       DEF AcquireNull, Refreshed, Kept, RefreshEntries, DropStale
  <2>2. QED
    BY <1>1, <2>1, KeptIsInvariant
       DEF AcquireNull, Refreshed, Kept, RefreshEntries, DropStale, StepKept
<1>2. CASE \E who \in SUBSET Account : Query(who)
  <2>1. \A a \in Account : AccountOK(entry'[a], slots[a], now, held[a])
    BY <1>2, RefreshKeepsAccount DEF Query, RefreshEntries
  <2>2. QED
    BY <1>2, <2>1, KeptIsInvariant DEF Query, RefreshEntries, StepKept
<1>3. QED
  BY <1>1, <1>2

\* acquire pushes a slot on an account it found active.
LEMMA AcquireKeeps ==
  ASSUME IInv, NEW ask \in Asks, NEW b \in Account, Acquire(ask, b)
  PROVE  IInv'
<1> USE InvariantByAccount
<1>1. /\ \A a \in Account : AccountOK(Refreshed[a], Kept[a], now, held[a])
      /\ Kept = [a \in Account |-> Kept[a]]
      /\ Refreshed = [a \in Account |-> Refreshed[a]]
  BY RefreshKeepsAccount, DropKeepsAccount
     DEF Refreshed, Kept, RefreshEntries, DropStale
<1>2. Refreshed[b].status = "active"
  BY DEF Acquire, Choices, CandidatesFor, Candidates, Available
<1>3. AccountOK(Refreshed[b], Append(Kept[b], now), now, held[b] + 1)
  BY <1>1, <1>2, PushKeepsAccount
<1>4. \A a \in Account : AccountOK(entry'[a], slots'[a], now, held'[a])
  BY <1>1, <1>3 DEF Acquire, PushSlot
<1>5. QED
  BY <1>1, <1>4, KeptIsInvariant DEF Acquire, PushSlot, StepKept

\* getDistinctPlanAccounts pushes a slot on each account it picked.
LEMMA AcquirePerPlanKeeps ==
  ASSUME IInv, NEW picks \in SUBSET Account, AcquirePerPlan(picks)
  PROVE  IInv'
<1> USE InvariantByAccount
<1>1. /\ \A a \in Account : AccountOK(Refreshed[a], slots[a], now, held[a])
      /\ Refreshed = [a \in Account |-> Refreshed[a]]
  BY RefreshKeepsAccount DEF Refreshed, RefreshEntries
<1>2. \A a \in picks : Refreshed[a].status = "active"
  BY DEF AcquirePerPlan, PlanPicks, Available
<1>3. \A a \in picks : AccountOK(Refreshed[a], Append(slots[a], now), now, held[a] + 1)
  BY <1>1, <1>2, PushKeepsAccount
<1>4. \A a \in Account : AccountOK(entry'[a], slots'[a], now, held'[a])
  BY <1>1, <1>3 DEF AcquirePerPlan, PushSlots
<1>5. QED
  BY <1>1, <1>4, KeptIsInvariant DEF AcquirePerPlan, PushSlots, StepKept

\* A release pops the oldest slot.
LEMMA ReleaseKeeps ==
  ASSUME IInv, NEW b \in Account, Release(b)
  PROVE  IInv'
<1> USE InvariantByAccount
<1>1. AccountOK(entry[b], slots'[b], now, held'[b])
  BY PopKeepsAccount DEF Release, PopSlot
<1>2. \A a \in Account : AccountOK(entry[a], slots'[a], now, held'[a])
  BY <1>1 DEF Release, PopSlot
<1>3. QED
  BY <1>2, KeptIsInvariant DEF Release, PopSlot, StepKept

\* A token arrives: the account comes out active or expired, or stays parked
\* without slots.
LEMMA TokensKeep ==
  ASSUME IInv, NEW b \in Account, NEW life \in Lifetimes, NEW plan \in Plan \cup {NoPlan},
         AddAccount(b, life, plan) \/ LoginAgain(b, life, plan) \/ TokenRefreshed(b, life, plan)
  PROVE  IInv'
<1> USE InvariantByAccount
<1>1. /\ now + life \in Nat
      /\ TokenStatus(now + life, now) \in {"active", "expired"}
  BY PoolAssumption DEF TokenStatus
<1>2. entry[b] \in Entry /\ PlanAfter(entry[b], plan) \in Plan \cup {NoPlan}
  BY DEF AccountOK, PlanAfter, Entry
<1>3. CASE AddAccount(b, life, plan)
  <2>1. /\ entry'[b] \in Entry
        /\ entry'[b].status \in {"active", "expired"}
    BY <1>1, <1>3 DEF AddAccount, NewEntry, Entry, Status
  <2>2. AccountOK(entry'[b], slots[b], now, held[b])
    BY <2>1, EntryKeepsAccount
  <2>3. \A a \in Account : AccountOK(entry'[a], slots[a], now, held[a])
    BY <1>3, <2>2 DEF AddAccount, NewEntry
  <2>4. QED
    BY <1>3, <2>3, KeptIsInvariant DEF AddAccount, NewEntry, StepKept
<1>4. CASE LoginAgain(b, life, plan)
  <2>1. /\ entry'[b] \in Entry
        /\ entry'[b].status \in {"active", "expired"}
    BY <1>1, <1>2, <1>4 DEF LoginAgain, ReplaceToken, PlanAfter, Entry, Status
  <2>2. AccountOK(entry'[b], slots[b], now, held[b])
    BY <2>1, EntryKeepsAccount
  <2>3. \A a \in Account : AccountOK(entry'[a], slots[a], now, held[a])
    BY <1>4, <2>2 DEF LoginAgain, ReplaceToken
  <2>4. QED
    BY <1>4, <2>3, KeptIsInvariant DEF LoginAgain, ReplaceToken, StepKept
<1>5. CASE TokenRefreshed(b, life, plan)
  <2>1. /\ entry'[b] \in Entry
        /\ slots[b] # <<>> => entry'[b].status \in {"active", "expired"}
    <3>1. slots[b] # <<>> => entry[b].status \in {"active", "expired"}
      BY DEF AccountOK
    <3>2. CASE ~Present(entry, b)
      BY <1>2, <1>5, <3>1, <3>2 DEF TokenRefreshed, UpdateToken
    <3>3. CASE Present(entry, b)
      <4> DEFINE st == IF entry[b].status \in {"disabled", "banned"}
                       THEN entry[b].status ELSE TokenStatus(now + life, now)
      <4>1. st \in Status /\ (st \in {"active", "expired"} \/ st = entry[b].status)
        BY <1>1, <3>3 DEF Present, Status
      <4>2. entry'[b] = [entry[b] EXCEPT !.status = st, !.exp = now + life,
                                             !.plan = PlanAfter(entry[b], plan)]
        BY <1>5, <3>3 DEF TokenRefreshed, UpdateToken
      <4> HIDE DEF st
      <4>3. entry'[b] \in Entry /\ entry'[b].status = st
        BY <1>1, <1>2, <4>1, <4>2 DEF Entry
      <4>4. QED
        BY <3>1, <4>1, <4>3
    <3>4. QED
      BY <3>2, <3>3
  <2>2. AccountOK(entry'[b], slots[b], now, held[b])
    BY <2>1, EntryKeepsAccount
  <2>3. \A a \in Account : AccountOK(entry'[a], slots[a], now, held[a])
    BY <1>5, <2>2 DEF TokenRefreshed, UpdateToken
  <2>4. QED
    BY <1>5, <2>3, KeptIsInvariant DEF TokenRefreshed, UpdateToken, StepKept
<1>6. QED
  BY <1>3, <1>4, <1>5

\* Deletions drop the slots with the entry.
LEMMA RemovalsKeep ==
  ASSUME IInv, ClearToken \/ \E a \in Account : RemoveAccount(a)
  PROVE  IInv'
<1> USE InvariantByAccount
<1>1. Removed \in Entry
  BY DEF Removed, Entry, NoEntry
<1>2. CASE ClearToken
  <2>1. \A a \in Account : entry[a] \in Entry /\ entry'[a] \in Entry
    BY <1>1, <1>2 DEF ClearToken, ClearEntries, AccountOK
  <2>2. \A a \in Account : AccountOK(entry'[a], <<>>, now, held[a])
    BY <2>1, ClearKeepsAccount
  <2>3. QED
    BY <1>2, <2>2, KeptIsInvariant DEF ClearToken, ClearEntries, StepKept
<1>3. ASSUME NEW b \in Account, RemoveAccount(b)
      PROVE  IInv'
  <2>1. entry[b] \in Entry /\ entry'[b] \in Entry
    BY <1>1, <1>3 DEF RemoveAccount, RemoveEntry, AccountOK
  <2>2. AccountOK(entry'[b], <<>>, now, held[b])
    BY <2>1, ClearKeepsAccount
  <2>3. \A a \in Account : AccountOK(entry'[a], slots'[a], now, held[a])
    BY <1>3, <2>2 DEF RemoveAccount, RemoveEntry, ClearLock
  <2>4. QED
    BY <1>3, <2>3, KeptIsInvariant DEF RemoveAccount, RemoveEntry, ClearLock, StepKept
<1>4. QED
  BY <1>2, <1>3

\* A status mutation clears the lock of the account it finds; when it finds
\* none nothing changes.
LEMMA MutationKeeps ==
  ASSUME IInv, NEW b \in Account, NEW f \in Entry,
         entry' = IF Present(entry, b) THEN [entry EXCEPT ![b] = f] ELSE entry,
         slots' = ClearLockOf(slots, entry, b),
         UNCHANGED <<limit, now, held>>
  PROVE  IInv'
<1> USE InvariantByAccount
<1>1. AccountOK(f, <<>>, now, held[b])
  BY ClearKeepsAccount
<1>2. \A a \in Account : AccountOK(entry'[a], slots'[a], now, held[a])
  BY <1>1 DEF ClearLockOf, ClearLock
<1>3. /\ entry' = [a \in Account |-> entry'[a]]
      /\ slots' = [a \in Account |-> slots'[a]]
  BY DEF ClearLockOf, ClearLock
<1>4. QED
  BY <1>2, <1>3, KeptIsInvariant DEF StepKept

LEMMA MutationsKeep ==
  ASSUME IInv, NEW b \in Account,
         \/ \E s \in Markable : Mark(b, s)
         \/ \E d \in Backoffs : RateLimit(b, d) \/ QuotaExhausted(b, d)
         \/ LiftRateLimit(b)
  PROVE  IInv'
<1>1. /\ entry[b] \in Entry
      /\ entry = [a \in Account |-> entry[a]]
      /\ now \in Nat
  BY InvariantByAccount DEF AccountOK
<1>2. ASSUME NEW s \in Markable, Mark(b, s)
      PROVE  IInv'
  <2> DEFINE f == [entry[b] EXCEPT !.status = s]
  <2>1. f \in Entry
    BY <1>1 DEF Entry, Markable
  <2>2. entry' = IF Present(entry, b) THEN [entry EXCEPT ![b] = f] ELSE entry
    BY <1>1, <1>2 DEF Mark, MarkStatus
  <2>3. QED
    BY <1>2, <2>1, <2>2, MutationKeeps DEF Mark
<1>3. ASSUME NEW d \in Backoffs, RateLimit(b, d)
      PROVE  IInv'
  <2> DEFINE f == [entry[b] EXCEPT !.status = "rate_limited", !.until = now + d]
  <2>1. f \in Entry
    <3>1. now + d \in Nat
      BY <1>1, PoolAssumption
    <3>2. QED
      BY <1>1, <3>1 DEF Entry, Status
  <2>2. entry' = IF Present(entry, b) THEN [entry EXCEPT ![b] = f] ELSE entry
    BY <1>1, <1>3 DEF RateLimit, MarkRateLimited
  <2>3. QED
    BY <1>3, <2>1, <2>2, MutationKeeps DEF RateLimit
<1>4. ASSUME NEW d \in Backoffs, QuotaExhausted(b, d)
      PROVE  IInv'
  <2> DEFINE f == [entry[b] EXCEPT !.status = "rate_limited", !.until = now + d]
  <2>1. f \in Entry
    <3>1. now + d \in Nat
      BY <1>1, PoolAssumption
    <3>2. QED
      BY <1>1, <3>1 DEF Entry, Status
  <2>2. Present(entry, b)
    BY <1>4 DEF QuotaExhausted, QuotaMarkable, Present, Status
  <2>3. entry' = IF Present(entry, b) THEN [entry EXCEPT ![b] = f] ELSE entry
    BY <1>1, <1>4, <2>2 DEF QuotaExhausted, MarkQuotaExhausted, MarkRateLimited
  <2>4. slots' = ClearLockOf(slots, entry, b)
    BY <1>4, <2>2 DEF QuotaExhausted, ClearLockOf
  <2>5. QED
    BY <1>4, <2>1, <2>3, <2>4, MutationKeeps DEF QuotaExhausted
<1>5. CASE LiftRateLimit(b)
  <2> DEFINE f == [entry[b] EXCEPT !.status = "active", !.until = 0]
  <2>1. f \in Entry
    BY <1>1 DEF Entry, Status
  <2>2. entry' = IF Present(entry, b) THEN [entry EXCEPT ![b] = f] ELSE entry
    BY <1>1, <1>5 DEF LiftRateLimit, ClearRateLimit
  <2>3. QED
    BY <1>5, <2>1, <2>2, MutationKeeps DEF LiftRateLimit
<1>6. QED
  BY <1>2, <1>3, <1>4, <1>5

\* resetUsage forgets when the limit ends and leaves status and slots alone.
LEMMA ResetKeeps ==
  ASSUME IInv, NEW b \in Account, ResetUsageOf(b)
  PROVE  IInv'
<1> USE InvariantByAccount
<1>1. AccountOK(entry'[b], slots[b], now, held[b])
  <2>1. entry[b] \in Entry
    BY DEF AccountOK
  <2>2. entry'[b] \in Entry /\ entry'[b].status = entry[b].status
    BY <2>1 DEF ResetUsageOf, ResetUsage, Entry
  <2>3. QED
    BY <2>2, EntryKeepsAccount DEF AccountOK
<1>2. \A a \in Account : AccountOK(entry'[a], slots[a], now, held[a])
  BY <1>1 DEF ResetUsageOf, ResetUsage
<1>3. QED
  BY <1>2, KeptIsInvariant DEF ResetUsageOf, ResetUsage, StepKept

\* The clock and the operator's setting.
LEMMA EnvironmentKeeps ==
  ASSUME IInv, Tick \/ (\E n \in Limits : SetLimit(n)) \/ UNCHANGED vars
  PROVE  IInv'
<1> USE InvariantByAccount
<1>1. CASE Tick
  <2>1. \A a \in Account : AccountOK(entry[a], slots[a], now', held[a])
    BY <1>1, TimeKeepsAccount DEF Tick
  <2>2. QED
    BY <1>1, <2>1, KeptIsInvariant DEF Tick, StepKept
<1>2. CASE \E n \in Limits : SetLimit(n)
  BY <1>2, PoolAssumption, KeptIsInvariant DEF SetLimit, StepKept
<1>3. CASE UNCHANGED vars
  BY <1>3, KeptIsInvariant DEF vars, StepKept
<1>4. QED
  BY <1>1, <1>2, <1>3

-----------------------------------------------------------------------------
(* Theorems *)

\* IInv is inductive.
THEOREM Inductive ==
  Spec => []IInv
<1>1. IInv /\ [Next]_vars => IInv'
  <2> SUFFICES ASSUME IInv, [Next]_vars PROVE IInv'
    OBVIOUS
  <2>1. CASE \E ask \in Asks : AcquireNull(ask)
    BY <2>1, ReadsKeep
  <2>2. CASE \E ask \in Asks, a \in Account : Acquire(ask, a)
    BY <2>2, AcquireKeeps
  <2>3. CASE \E picks \in SUBSET Account : AcquirePerPlan(picks)
    BY <2>3, AcquirePerPlanKeeps
  <2>4. CASE \E a \in Account, life \in Lifetimes, plan \in Plan \cup {NoPlan} :
                \/ AddAccount(a, life, plan)
                \/ LoginAgain(a, life, plan)
                \/ TokenRefreshed(a, life, plan)
    BY <2>4, TokensKeep
  <2>5. CASE \E a \in Account : Release(a)
    BY <2>5, ReleaseKeeps
  <2>6. CASE ClearToken \/ \E a \in Account : RemoveAccount(a)
    BY <2>6, RemovalsKeep
  <2>7. CASE \E a \in Account : LiftRateLimit(a)
    BY <2>7, MutationsKeep
  <2>8. CASE \E a \in Account : ResetUsageOf(a)
    BY <2>8, ResetKeeps
  <2>9. CASE \E a \in Account, s \in Markable : Mark(a, s)
    BY <2>9, MutationsKeep
  <2>10. CASE \E a \in Account, b \in Backoffs : RateLimit(a, b) \/ QuotaExhausted(a, b)
    BY <2>10, MutationsKeep
  <2>11. CASE \E who \in SUBSET Account : Query(who)
    BY <2>11, ReadsKeep
  <2>12. CASE Tick \/ (\E n \in Limits : SetLimit(n)) \/ UNCHANGED vars
    BY <2>12, EnvironmentKeeps
  <2>13. QED
    BY <2>1, <2>2, <2>3, <2>4, <2>5, <2>6, <2>7, <2>8, <2>9, <2>10, <2>11, <2>12
       DEF Next
<1>2. QED
  BY InitInvariant, <1>1, PTL DEF Spec

\* Every variable keeps its type in every behaviour of the pool.
THEOREM TypeCorrect ==
  Spec => []TypeOK
<1>1. IInv => TypeOK
  BY DEF IInv
<1>2. QED
  BY <1>1, Inductive, PTL

\* No phantom load: an account has at most as many slots as holders.
THEOREM NoPhantomLoad ==
  Spec => []SlotsBacked
<1>1. IInv => SlotsBacked
  BY DEF IInv
<1>2. QED
  BY <1>1, Inductive, PTL

\* Whatever takes an account out of rotation drops its locks.
THEOREM ParkedAccountsUnlocked ==
  Spec => []ParkedHoldsNoSlot
<1>1. IInv => ParkedHoldsNoSlot
  BY DEF IInv
<1>2. QED
  BY <1>1, Inductive, PTL

\* Looking at the oldest slot is enough to drop exactly the stale ones.
THEOREM CleanupExact ==
  Spec => []StaleSlotsDropped
<1>1. IInv => StaleSlotsDropped
  BY FreshSlotsExact DEF IInv, TypeOK, SlotsChronological, StaleSlotsDropped
<1>2. QED
  BY <1>1, Inductive, PTL

\* Whoever acquires an account gets a usable one within the limit in force.
THEOREM AcquireSound ==
  Spec => AcquiredIsUsable
<1> DEFINE A == \A a \in Account : held'[a] > held[a] =>
                   /\ entry'[a].status = "active"
                   /\ now < entry'[a].exp
                   /\ Len(slots'[a]) <= limit
<1>1. IInv /\ [Next]_vars => [A]_vars
  <2> SUFFICES ASSUME IInv, Next PROVE A
    OBVIOUS
  <2> USE InvariantByAccount
  <2>1. /\ now \in Nat /\ limit \in Nat
        /\ \A a \in Account : /\ entry[a] \in Entry
                              /\ slots[a] \in Seq(Nat) /\ held[a] \in Nat
                              /\ Chronological(slots[a], now)
    BY DEF AccountOK
  <2>2. ASSUME NEW a \in Account, Refreshed[a].status = "active"
        PROVE  now < Refreshed[a].exp
    <3>1. Refreshed[a] = TokenChecked(LimitLifted(entry[a], now), now)
      BY DEF Refreshed, RefreshEntries, RefreshStatus
    <3>2. LimitLifted(entry[a], now) \in Entry
      BY <2>1 DEF LimitLifted, Entry, Status
    <3>3. QED
      BY <2>1, <2>2, <3>1, <3>2 DEF TokenChecked, Entry
  <2>3. ASSUME NEW ask \in Asks, NEW b \in Account, Acquire(ask, b)
        PROVE  A
    <3>1. /\ Refreshed[b].status = "active"
          /\ Len(Kept[b]) < limit
      BY <2>3 DEF Acquire, Choices, CandidatesFor, Candidates, Available
    <3>2. Kept[b] \in Seq(Nat)
      BY <2>1, FreshSlotsType DEF Kept, DropStale
    <3>3. /\ entry' = Refreshed
          /\ slots'[b] = Append(Kept[b], now)
          /\ \A a \in Account : a # b => held'[a] = held[a]
      BY <2>3 DEF Acquire, PushSlot, Kept, DropStale
    <3>4. Len(slots'[b]) <= limit
      BY <2>1, <3>1, <3>2, <3>3
    <3>5. ASSUME NEW a \in Account, held'[a] > held[a]
          PROVE  a = b
      BY <2>1, <3>3, <3>5
    <3>6. QED
      BY <2>2, <3>1, <3>3, <3>4, <3>5
  <2>4. ASSUME NEW picks \in SUBSET Account, AcquirePerPlan(picks)
        PROVE  A
    <3>1. \A a \in picks : /\ Refreshed[a].status = "active"
                           /\ Len(slots[a]) < limit
      BY <2>4 DEF AcquirePerPlan, PlanPicks, Available
    <3>2. /\ entry' = Refreshed
          /\ \A a \in picks : slots'[a] = Append(slots[a], now)
          /\ \A a \in Account \ picks : held'[a] = held[a]
      BY <2>4 DEF AcquirePerPlan, PushSlots
    <3>3. \A a \in picks : Len(slots'[a]) <= limit
      BY <2>1, <3>1, <3>2
    <3>4. QED
      BY <2>1, <2>2, <3>1, <3>2, <3>3
  <2>5. ASSUME NEW b \in Account, Release(b)
        PROVE  A
    BY <2>1, <2>5 DEF Release
  <2>6. CASE held' = held
    BY <2>1, <2>6
  <2>7. QED
    BY <2>3, <2>4, <2>5, <2>6
       DEF Next, AcquireNull, AddAccount, LoginAgain, TokenRefreshed, RemoveAccount,
           LiftRateLimit, ResetUsageOf, ClearToken, Mark, RateLimit, QuotaExhausted,
           Query, SetLimit, Tick
<1>2. QED
  BY <1>1, Inductive, PTL DEF AcquiredIsUsable, Spec
=============================================================================
