----------------------------- MODULE AccountCounts -----------------------------
(***************************************************************************)
(* What the usage of the accounts promises: a request is counted once, on  *)
(* its own account; usage is forgotten with its account or its counters,   *)
(* and no other's; accounts.json holds what the pool held when it was      *)
(* written.  AccountStore implements it.                                   *)
(***************************************************************************)
EXTENDS Integers

CONSTANT Account

VARIABLES
    count,    \* requests counted, by account of the pool
    saved     \* the same in accounts.json

counts == <<count, saved>>

CountsInit ==
    /\ DOMAIN count \subseteq Account /\ count \in [DOMAIN count -> Nat]
    /\ saved = count

\* accounts.json follows later; when an account is added or all are removed it
\* is written at once, or that fails.
AddTo(a) ==
    /\ a \notin DOMAIN count
    /\ count' = [b \in DOMAIN count \cup {a} |-> IF b = a THEN 0 ELSE count[b]]
    /\ saved' \in {saved, count'}

CountOn(a) ==
    /\ a \in DOMAIN count
    /\ count' = [count EXCEPT ![a] = @ + 1]
    /\ saved' = saved

ResetOf(a) ==
    /\ a \in DOMAIN count
    /\ count' = [count EXCEPT ![a] = 0]
    /\ saved' = saved

RemoveOf(a) ==
    /\ count' = [b \in DOMAIN count \ {a} |-> count[b]]
    /\ saved' = saved

RemoveAll ==
    /\ count' = [b \in {} |-> 0]
    /\ saved' \in {saved, count'}

PersistCounts == saved' = count /\ count' = count

\* The process ends and starts again; flushed: accounts.json was written first.
ReloadCounts(flushed) ==
    /\ saved' = IF flushed THEN count ELSE saved
    /\ count' = saved'

CountsNext ==
    \/ \E a \in Account : AddTo(a) \/ CountOn(a) \/ ResetOf(a) \/ RemoveOf(a)
    \/ RemoveAll \/ PersistCounts
    \/ \E flushed \in BOOLEAN : ReloadCounts(flushed)

CountsSpec == CountsInit /\ [][CountsNext]_counts
=============================================================================
