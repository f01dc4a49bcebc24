--------------------------- MODULE AccountLifecycle ---------------------------
(***************************************************************************)
(* Acquire locks and account selection (src/auth/account-lifecycle.ts).    *)
(*                                                                         *)
(* S maps every entry id to the sequence of its slot timestamps (<<>> when *)
(* acquireLocks has no key for it).  As in AccountRegistry the operators   *)
(* are functions from S to the next S.                                     *)
(***************************************************************************)
EXTENDS AccountRegistry, Sequences, FiniteSets

CONSTANT LockTTL            \* ACQUIRE_LOCK_TTL_MS

ASSUME LockTTLAssumption == LockTTL \in Nat

PushSlot(S, a, t) == [S EXCEPT ![a] = Append(@, t)]

\* Mutant: the last slot stays.
PopSlotButLast(S, a) == [S EXCEPT ![a] = IF Len(@) <= 1 THEN @ ELSE Tail(@)]

PopSlot(S, a) == [S EXCEPT ![a] = IF @ = <<>> THEN <<>> ELSE Tail(@)]

ClearLock(S, a) == [S EXCEPT ![a] = <<>>]

\* Mutant: the lock clear is forgotten.
ClearNoLock(S, E, a) == S

\* The facade clears the lock only when the registry found the entry.
ClearLockOf(S, E, a) == IF Present(E, a) THEN ClearLock(S, a) ELSE S

\* Slots older than the TTL.  The program filters them out, looking at a key
\* only when its first slot is stale; slots being in push order, what a filter
\* leaves is the suffix after them.
StaleCount(s, t) == Cardinality({i \in DOMAIN s : t - s[i] > LockTTL})

FreshSlots(s, t) ==
    IF s = <<>> \/ t - s[1] <= LockTTL THEN s
    ELSE SubSeq(s, StaleCount(s, t) + 1, Len(s))

DropStale(S, t) == [a \in Account |-> FreshSlots(S[a], t)]

-----------------------------------------------------------------------------
(* acquire() *)

\* Mutant: one slot over the limit.
AvailableAtLimit(E, S, limit, excluded) ==
    {a \in Account \ excluded : E[a].status = "active" /\ Len(S[a]) <= limit}

Available(E, S, limit, excluded) ==
    {a \in Account \ excluded : E[a].status = "active" /\ Len(S[a]) < limit}

\* wanted: plans known to serve the model ({}: no filter); fetched: plans whose
\* model list was fetched.  A plan never fetched is given the benefit of the doubt.
PlanMatches(E, a, wanted, fetched) ==
    \/ wanted = {}
    \/ /\ E[a].plan # NoPlan
       /\ E[a].plan \in wanted \/ E[a].plan \notin fetched

Candidates(E, S, limit, excluded, wanted, fetched) ==
    {a \in Available(E, S, limit, excluded) : PlanMatches(E, a, wanted, fetched)}

\* The preferred account wins if it is a candidate; otherwise the rotation
\* strategy picks, and any candidate stands for its pick.
Choices(C, preferred) == IF C \cap preferred # {} THEN C \cap preferred ELSE C

\* getDistinctPlanAccounts: one available account of each plan.
PlanPicks(E, S, limit) ==
    LET A == {a \in Available(E, S, limit, {}) : E[a].plan # NoPlan}
    IN  {P \in SUBSET A : \A a \in A : \E b \in P :
                             /\ E[b].plan = E[a].plan
                             /\ \A c \in P : E[c].plan = E[a].plan => c = b}

\* Mutant: the slot goes to the front.
UnshiftSlots(S, who, t) == [a \in Account |-> IF a \in who THEN <<t>> \o S[a] ELSE S[a]]

PushSlots(S, who, t) == [a \in Account |-> IF a \in who THEN Append(S[a], t) ELSE S[a]]
=============================================================================
