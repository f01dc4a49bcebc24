------------------------------ MODULE AccountPool ------------------------------
(***************************************************************************)
(* The account pool: the facade of src/auth/account-pool.ts over the       *)
(* registry and the lifecycle, driven by any caller.                       *)
(*                                                                         *)
(* Each action is one call of a public method that changes state; the      *)
(* event loop runs it without interruption.  Callers are known only by     *)
(* held: how many calls of acquire on an account were not yet followed by  *)
(* their release.  It is a history variable, the program has no such count.*)
(*                                                                         *)
(* Bounds: time stops at MaxTime and an account is held at most MaxHeld    *)
(* times at once.                                                          *)
(***************************************************************************)
EXTENDS AccountLifecycle

CONSTANTS
    Asks,         \* arguments acquire is called with, see Ask
    Limits,       \* values the operator may give max_concurrent_per_account
    Lifetimes,    \* seconds from now to the exp of a new token (0: expired)
    Backoffs,     \* lengths of a rate limit
    MaxTime, MaxHeld

\* excluded: excludeIds; preferred: preferredEntryId as a set of at most one;
\* wanted, fetched: what model-store says of the requested model.
Ask == [excluded : SUBSET Account, preferred : SUBSET Account,
        wanted : SUBSET Plan, fetched : SUBSET Plan]

ASSUME PoolAssumption ==
    /\ Asks \subseteq Ask
    /\ Limits \subseteq Nat \ {0} /\ Limits # {}
    /\ Lifetimes \subseteq Nat
    /\ Backoffs \subseteq Nat \ {0}
    /\ MaxTime \in Nat /\ MaxHeld \in Nat

VARIABLES
    entry,     \* AccountRegistry.accounts
    slots,     \* AccountLifecycle.acquireLocks
    limit,     \* config.auth.max_concurrent_per_account, hot-reloaded
    now,       \* Date.now()
    held       \* history: acquires without their release

vars == <<entry, slots, limit, now, held>>

\* Statuses callers hand to markStatus.
Markable == Status \ {"rate_limited"}

Init ==
    /\ entry = [a \in Account |-> NoAccount]
    /\ slots = [a \in Account |-> <<>>]
    /\ limit \in Limits
    /\ now = 1
    /\ held = [a \in Account |-> 0]

-----------------------------------------------------------------------------
(* acquire, release *)

\* What acquire sees once it has refreshed statuses and dropped stale slots.
Refreshed == RefreshEntries(entry, Account, now)
Kept == DropStale(slots, now)

CandidatesFor(ask) ==
    Candidates(Refreshed, Kept, limit, ask.excluded, ask.wanted, ask.fetched)

AcquireNull(ask) ==
    /\ CandidatesFor(ask) = {}
    /\ entry' = Refreshed
    /\ slots' = Kept
    /\ UNCHANGED <<limit, now, held>>

Acquire(ask, a) ==
    /\ a \in Choices(CandidatesFor(ask), ask.preferred)
    /\ held[a] < MaxHeld
    /\ entry' = Refreshed
    /\ slots' = PushSlot(Kept, a, now)
    /\ held' = [held EXCEPT ![a] = @ + 1]
    /\ UNCHANGED <<limit, now>>

\* getDistinctPlanAccounts does not drop stale slots.
AcquirePerPlan(picks) ==
    /\ picks \in PlanPicks(Refreshed, slots, limit)
    /\ \A a \in picks : held[a] < MaxHeld
    /\ entry' = Refreshed
    /\ slots' = PushSlots(slots, picks, now)
    /\ held' = [a \in Account |-> IF a \in picks THEN held[a] + 1 ELSE held[a]]
    /\ UNCHANGED <<limit, now>>

\* release and releaseWithoutCounting: the oldest slot goes, whoever pushed it.
Release(a) ==
    /\ held[a] > 0
    /\ slots' = PopSlot(slots, a)
    /\ held' = [held EXCEPT ![a] = @ - 1]
    /\ UNCHANGED <<entry, limit, now>>

-----------------------------------------------------------------------------
(* CRUD *)

AddAccount(a, life, plan) ==
    /\ entry[a].status = "unused"
    /\ entry' = NewEntry(entry, a, now + life, plan, now)
    /\ UNCHANGED <<slots, limit, now, held>>

LoginAgain(a, life, plan) ==
    /\ Present(entry, a)
    /\ entry' = ReplaceToken(entry, a, now + life, plan, now)
    /\ UNCHANGED <<slots, limit, now, held>>

TokenRefreshed(a, life, plan) ==
    /\ entry' = UpdateToken(entry, a, now + life, plan, now)
    /\ UNCHANGED <<slots, limit, now, held>>

RemoveAccount(a) ==
    /\ slots' = ClearLock(slots, a)
    /\ entry' = RemoveEntry(entry, a)
    /\ UNCHANGED <<limit, now, held>>

ClearToken ==
    /\ slots' = [a \in Account |-> <<>>]
    /\ entry' = ClearEntries(entry)
    /\ UNCHANGED <<limit, now, held>>

-----------------------------------------------------------------------------
(* Status mutations: the registry first, then the lock *)

Mark(a, s) ==
    /\ entry' = MarkStatus(entry, a, s)
    /\ slots' = ClearLockOf(slots, entry, a)
    /\ UNCHANGED <<limit, now, held>>

\* Mutant: the operands of the deadline are swapped.
RateLimitSwapped(a, backoff) ==
    /\ entry' = MarkRateLimited(entry, a, backoff - now)
    /\ slots' = ClearLockOf(slots, entry, a)
    /\ UNCHANGED <<limit, now, held>>

RateLimit(a, backoff) ==
    /\ entry' = MarkRateLimited(entry, a, now + backoff)
    /\ slots' = ClearLockOf(slots, entry, a)
    /\ UNCHANGED <<limit, now, held>>

LiftRateLimit(a) ==
    /\ entry' = ClearRateLimit(entry, a)
    /\ slots' = ClearLockOf(slots, entry, a)
    /\ UNCHANGED <<limit, now, held>>

QuotaExhausted(a, backoff) ==
    /\ QuotaMarkable(entry, a, now + backoff)
    /\ entry' = MarkQuotaExhausted(entry, a, now + backoff)
    /\ slots' = ClearLock(slots, a)
    /\ UNCHANGED <<limit, now, held>>

ResetUsageOf(a) ==
    /\ entry' = ResetUsage(entry, a)
    /\ UNCHANGED <<slots, limit, now, held>>

\* getAccounts and getPoolSummary refresh every entry; isAuthenticated stops at
\* the first active one.
Query(who) ==
    /\ who = Account \/ Cardinality({a \in who : Refreshed[a].status = "active"}) = 1
    /\ entry' = RefreshEntries(entry, who, now)
    /\ UNCHANGED <<slots, limit, now, held>>

-----------------------------------------------------------------------------
(* Environment *)

SetLimit(n) ==
    /\ limit' = n
    /\ UNCHANGED <<entry, slots, now, held>>

Tick ==
    /\ now < MaxTime
    /\ now' = now + 1
    /\ UNCHANGED <<entry, slots, limit, held>>

Next ==
    \/ \E ask \in Asks : AcquireNull(ask) \/ \E a \in Account : Acquire(ask, a)
    \/ \E picks \in SUBSET Account : AcquirePerPlan(picks)
    \/ \E a \in Account, life \in Lifetimes, plan \in Plan \cup {NoPlan} :
          \/ AddAccount(a, life, plan)
          \/ LoginAgain(a, life, plan)
          \/ TokenRefreshed(a, life, plan)
    \/ \E a \in Account : Release(a) \/ RemoveAccount(a) \/ LiftRateLimit(a) \/ ResetUsageOf(a)
    \/ ClearToken
    \/ \E a \in Account, s \in Markable : Mark(a, s)
    \/ \E a \in Account, b \in Backoffs : RateLimit(a, b) \/ QuotaExhausted(a, b)
    \/ \E who \in SUBSET Account : Query(who)
    \/ \E n \in Limits : SetLimit(n)
    \/ Tick

Spec == Init /\ [][Next]_vars

-----------------------------------------------------------------------------
(* Properties *)

\* Every variable keeps its type.
TypeOK ==
    /\ entry \in [Account -> Entry]
    /\ slots \in [Account -> Seq(Nat)]
    /\ limit \in Nat \ {0}
    /\ now \in Nat
    /\ held \in [Account -> Nat]

\* Slots are in the order of their timestamps, none from the future.
Chronological(s, t) ==
    /\ \A i \in DOMAIN s : s[i] <= t
    /\ \A i, j \in DOMAIN s : i <= j => s[i] <= s[j]

SlotsChronological == \A a \in Account : Chronological(slots[a], now)

\* No phantom load: an account never has more slots than callers that acquired
\* it and have not released it, although locks are cleared, dropped when stale
\* and popped by whoever releases first.  A phantom slot would keep the account
\* out of rotation with nobody left to release it.
SlotsBacked == \A a \in Account : Len(slots[a]) <= held[a]

\* Every status mutation that takes an account out of rotation also drops its
\* locks, and a deleted account leaves none behind (the facade's "coordinate
\* registry + lifecycle lock clear"): slots exist only for accounts that are
\* active, or active until their token expired.
ParkedHoldsNoSlot ==
    \A a \in Account : slots[a] # <<>> => entry[a].status \in {"active", "expired"}

\* The auto-release looks at the oldest slot only to decide whether to filter
\* ("slots are chronological - if oldest is fresh, all are"): what it keeps is
\* exactly the slots that are not stale, however pushes, pops, clears and
\* earlier clean-ups interleaved.
StaleSlotsDropped ==
    \A a \in Account :
        LET kept == FreshSlots(slots[a], now)
        IN  /\ \A i \in DOMAIN kept : now - kept[i] <= LockTTL
            /\ Len(kept) = Len(slots[a]) - StaleCount(slots[a], now)

\* Whoever acquires an account gets one that is active and unexpired at that
\* moment, and its load, the new request included, is within the limit in
\* force at that moment, even when the limit was lowered or the status the
\* registry held was out of date.
AcquiredIsUsable ==
    [][\A a \in Account : held'[a] > held[a] =>
            /\ entry'[a].status = "active"
            /\ now < entry'[a].exp
            /\ Len(slots'[a]) <= limit]_vars

\* An account marked rate_limited knows when the limit ends; refreshStatus can
\* only bring it back through that time ("rate_limited ... recovers by itself").
RateLimitEnds ==
    \A a \in Account : entry[a].status = "rate_limited" => entry[a].until # 0
=============================================================================
