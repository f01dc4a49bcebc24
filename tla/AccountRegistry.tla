---------------------------- MODULE AccountRegistry ----------------------------
(***************************************************************************)
(* The map of account entries and every way it is mutated                  *)
(* (src/auth/account-registry.ts).                                         *)
(*                                                                         *)
(* The operators are functions from an entry map E to the next entry map,  *)
(* because the program calls several of them in one turn of the event loop *)
(* (a 429 marks the account and acquires another one without an await in   *)
(* between): the modules that own the variables compose them.              *)
(*                                                                         *)
(* Kept of an AccountEntry: its status, usage.rate_limit_until, the exp    *)
(* claim of its token and its plan.  Time is in abstract units; 0 stands   *)
(* for a null timestamp.                                                   *)
(***************************************************************************)
EXTENDS Integers

CONSTANTS
    Account,    \* entry ids; removing an entry uses its id up (ids are random)
    Plan,       \* ChatGPT plan types
    NoPlan      \* planType = null

ASSUME NoPlanAssumption == NoPlan \notin Plan

Status == {"active", "expired", "quota_exhausted", "rate_limited",
           "refreshing", "disabled", "banned"}

\* An id no entry ever had, and an id whose entry was deleted from the Map.
NoEntry == {"unused", "removed"}

Entry == [status : Status \cup NoEntry,
          until  : Nat,                     \* usage.rate_limit_until
          exp    : Nat,                     \* exp claim of the token
          plan   : Plan \cup {NoPlan}]

NoAccount == [status |-> "unused", until |-> 0, exp |-> 0, plan |-> NoPlan]

Present(E, a) == E[a].status \in Status

-----------------------------------------------------------------------------
(* refreshStatus: the lazy clean-up every reader runs before looking. *)

LimitLifted(e, t) ==
    IF e.status = "rate_limited" /\ e.until # 0 /\ t >= e.until
    THEN [e EXCEPT !.status = "active", !.until = 0]
    ELSE e

TokenChecked(e, t) ==
    IF e.status = "active" /\ t >= e.exp THEN [e EXCEPT !.status = "expired"] ELSE e

RefreshStatus(e, t) == TokenChecked(LimitLifted(e, t), t)

RefreshEntries(E, who, t) ==
    [a \in Account |-> IF a \in who THEN RefreshStatus(E[a], t) ELSE E[a]]

-----------------------------------------------------------------------------
(* Tokens: login, re-login, refresh. *)

TokenStatus(exp, t) == IF t >= exp THEN "expired" ELSE "active"

\* addAccount of an identity the pool does not know.
NewEntry(E, a, exp, plan, t) ==
    [E EXCEPT ![a] = [status |-> TokenStatus(exp, t), until |-> 0,
                      exp |-> exp, plan |-> plan]]

\* A token without a plan claim leaves the known plan.
PlanAfter(e, plan) == IF plan = NoPlan THEN e.plan ELSE plan

\* addAccount of a known identity: whatever the status was, it is recomputed.
ReplaceToken(E, a, exp, plan, t) ==
    [E EXCEPT ![a] = [@ EXCEPT !.status = TokenStatus(exp, t), !.exp = exp,
                               !.plan = PlanAfter(E[a], plan)]]

\* updateToken leaves disabled and banned accounts as they are.
UpdateToken(E, a, exp, plan, t) ==
    LET status == IF E[a].status \in {"disabled", "banned"} THEN E[a].status
                  ELSE TokenStatus(exp, t)
    IN  IF Present(E, a)
        THEN [E EXCEPT ![a] = [@ EXCEPT !.status = status, !.exp = exp,
                                        !.plan = PlanAfter(E[a], plan)]]
        ELSE E

-----------------------------------------------------------------------------
(* Status mutations. *)

MarkStatus(E, a, s) ==
    IF Present(E, a) THEN [E EXCEPT ![a].status = s] ELSE E

MarkRateLimited(E, a, until) ==
    IF Present(E, a)
    THEN [E EXCEPT ![a] = [@ EXCEPT !.status = "rate_limited", !.until = until]]
    ELSE E

ClearRateLimit(E, a) ==
    IF Present(E, a)
    THEN [E EXCEPT ![a] = [@ EXCEPT !.status = "active", !.until = 0]]
    ELSE E

\* markQuotaExhausted only touches an active account or prolongs a rate limit.
QuotaMarkable(E, a, until) ==
    /\ E[a].status \in {"active", "quota_exhausted", "rate_limited"}
    /\ (E[a].status = "rate_limited" /\ E[a].until # 0) => until > E[a].until

MarkQuotaExhausted(E, a, until) ==
    IF QuotaMarkable(E, a, until) THEN MarkRateLimited(E, a, until) ELSE E

\* resetUsage builds a new usage record: rate_limit_until is lost, status is not.
ResetUsage(E, a) ==
    IF Present(E, a) THEN [E EXCEPT ![a].until = 0] ELSE E

Removed == [status |-> "removed", until |-> 0, exp |-> 0, plan |-> NoPlan]

RemoveEntry(E, a) == IF Present(E, a) THEN [E EXCEPT ![a] = Removed] ELSE E

ClearEntries(E) == [a \in Account |-> IF Present(E, a) THEN Removed ELSE E[a]]
=============================================================================
