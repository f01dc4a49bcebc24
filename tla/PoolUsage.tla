------------------------------- MODULE PoolUsage -------------------------------
(***************************************************************************)
(* What the usage statistics see: the usage the accounts of the pool hold  *)
(* in memory and in accounts.json, each as one sum.  AccountStore, which   *)
(* has the accounts, implements it; UsageStats builds on it.  (Whose usage *)
(* changes is AccountCounts' concern.)                                     *)
(***************************************************************************)
EXTENDS Integers

CONSTANT MaxCount    \* bounds the usage found at the first start

ASSUME CountAssumption == MaxCount \in Nat

VARIABLES
    live,     \* usage summed over the accounts of the pool
    saved     \* the same over the accounts in accounts.json

pool == <<live, saved>>

PoolInit == live \in 0 .. MaxCount /\ saved = live

\* A request is counted; accounts.json follows later.
Count == live' = live + 1 /\ saved' = saved

\* Accounts are removed or their counters reset.  Their usage is any part of
\* the sum, so that any rest may be left.
Forget(n) ==
    /\ n <= live
    /\ live' = n
    /\ saved' \in {saved, n}

\* accounts.json is written.
Persist == saved' = live /\ live' = live

\* The process ends and starts again; flushed: accounts.json was written first.
Reload(flushed) ==
    /\ saved' = IF flushed THEN live ELSE saved
    /\ live' = saved'

PoolNext ==
    \/ Count \/ Persist
    \/ \E n \in 0 .. live : Forget(n)
    \/ \E flushed \in BOOLEAN : Reload(flushed)

PoolSpec == PoolInit /\ [][PoolNext]_pool
=============================================================================
