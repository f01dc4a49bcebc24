----------------------------- MODULE AccountStore -----------------------------
(***************************************************************************)
(* What of the accounts survives the process: the registry's writes of     *)
(* accounts.json (account-registry.ts, account-persistence.ts) and         *)
(* restarts, orderly or not (index.ts).                                    *)
(*                                                                         *)
(* New tokens are written at once, everything else by a timer one second   *)
(* later; what the lazy refresh changes in a status is not written at all. *)
(* A write replaces the file by a rename, or fails and is only logged.     *)
(*                                                                         *)
(* Bounds: time stops at MaxTime, the pool's usage at MaxCount; at most    *)
(* MaxRestarts restarts.                                                   *)
(***************************************************************************)
EXTENDS AccountRegistry, FiniteSets

CONSTANTS
    DefaultDrift, \* the shift that counts as a new window when its length is unknown
    Lifetimes,    \* time from now to the exp of a new token (0: expired)
    Backoffs,     \* lengths of a rate limit
    Marks,        \* statuses callers hand to markStatus
    Windows,      \* ends of a window as the backend reports them, from now
    Lengths,      \* its length (0: not reported)
    MaxTime, MaxCount, MaxRestarts

ASSUME DriftAssumption == DefaultDrift \in Nat \ {0}

ASSUME StoreAssumption ==
    /\ IsFiniteSet(Account)
    /\ Lifetimes \subseteq Nat /\ Backoffs \subseteq Nat \ {0}
    /\ Marks \subseteq Status
    /\ Windows \subseteq Nat /\ Lengths \subseteq Nat
    /\ MaxTime \in Nat /\ MaxCount \in Nat /\ MaxRestarts \in Nat

VARIABLES
    entry,      \* AccountRegistry.accounts
    usage,      \* their usage records
    pending,    \* persistTimer is set
    disk,       \* accounts.json
    failed,     \* the last write of accounts.json failed
    now, restarts

accounts == <<entry, usage>>
files == <<pending, disk, failed>>
vars == <<accounts, files, now, restarts>>

-----------------------------------------------------------------------------
(* The usage record of an account and its rate-limit window.  Of the       *)
(* counters kept are request_count and window_request_count; the token     *)
(* counters change with them.  Time is in abstract units; 0 stands for     *)
(* null, also for limit_window_seconds, which is never 0 seconds.          *)

Usage == [count : Nat,       \* request_count
          win   : Nat,       \* window_request_count
          reset : Nat,       \* window_reset_at
          len   : Nat]       \* limit_window_seconds

NoUsage == [count |-> 0, win |-> 0, reset |-> 0, len |-> 0]

Counted(u) == [u EXCEPT !.count = @ + 1, !.win = @ + 1]

Cleared(u) == [u EXCEPT !.count = 0, !.win = 0]

-----------------------------------------------------------------------------
(* refreshStatus: a window that is over is rolled forward to the present. *)

WindowOver(u, t) == u.reset # 0 /\ t >= u.reset

\* Mutant: a window ending right now is taken for the present one.
NextResetTooSoon(u, t) ==
    IF u.len = 0 THEN 0 ELSE u.reset + u.len * ((t - u.reset + u.len - 1) \div u.len)

\* The loop adds whole windows until the end lies in the future.
NextReset(u, t) ==
    IF u.len = 0 THEN 0 ELSE u.reset + u.len * ((t - u.reset) \div u.len + 1)

WindowRolled(u, t) ==
    IF WindowOver(u, t) THEN [u EXCEPT !.win = 0, !.reset = NextReset(u, t)] ELSE u

-----------------------------------------------------------------------------
(* syncRateLimitWindow: the backend reports the end of the window. *)

\* Small shifts of the reported end are jitter, large ones a new window.
WindowMoved(u, reset, len) ==
    LET drift  == IF reset > u.reset THEN reset - u.reset ELSE u.reset - reset
        length == IF len # 0 THEN len ELSE u.len
    IN  /\ u.reset # 0
        /\ IF length # 0 THEN 2 * drift >= length ELSE drift >= DefaultDrift

WindowSynced(u, reset, len) ==
    [u EXCEPT !.win   = IF WindowMoved(u, reset, len) THEN 0 ELSE @,
              !.reset = reset,
              !.len   = IF len # 0 THEN len ELSE @]

-----------------------------------------------------------------------------
\* The requests that the usage u counts, each with its number on its account.
Requests(u) == UNION {{a} \X (1 .. u[a].count) : a \in Account}

Total(u) == Cardinality(Requests(u))

File == [entry : [Account -> Entry], usage : [Account -> Usage]]

\* accounts.json as the first start finds it: unused ids, or accounts with usage.
Init ==
    /\ entry \in [Account -> {NoAccount, [NoAccount EXCEPT !.status = "active", !.exp = MaxTime]}]
    /\ \E n \in 0 .. MaxCount :
          usage = [a \in Account |->
                      IF Present(entry, a) THEN [NoUsage EXCEPT !.count = n] ELSE NoUsage]
    /\ Total(usage) <= MaxCount
    /\ pending = FALSE /\ failed = FALSE
    /\ disk = [entry |-> entry, usage |-> usage]
    /\ now = 1 /\ restarts = 0

-----------------------------------------------------------------------------
(* persistNow and schedulePersist *)

\* Writes what the accounts are after the step; the timer is cleared either way.
PersistNow ==
    /\ pending' = FALSE
    /\ \/ disk' = [entry |-> entry', usage |-> usage'] /\ failed' = FALSE
       \/ disk' = disk /\ failed' = TRUE

SchedulePersist == pending' = TRUE /\ UNCHANGED <<disk, failed>>

\* The timer set by schedulePersist.
PersistTimer ==
    /\ pending
    /\ UNCHANGED accounts
    /\ PersistNow
    /\ UNCHANGED <<now, restarts>>

-----------------------------------------------------------------------------
(* Accounts and tokens; every change of a token is written at once *)

AddAccount(a, life) ==
    /\ entry[a].status = "unused"
    /\ entry' = NewEntry(entry, a, now + life, NoPlan, now)
    /\ UNCHANGED usage
    /\ PersistNow
    /\ UNCHANGED <<now, restarts>>

LoginAgain(a, life) ==
    /\ Present(entry, a)
    /\ entry' = ReplaceToken(entry, a, now + life, NoPlan, now)
    /\ UNCHANGED usage
    /\ PersistNow
    /\ UNCHANGED <<now, restarts>>

\* Mutant: the new token waits for the timer.
TokenRefreshedLater(a, life) ==
    /\ Present(entry, a)
    /\ entry' = UpdateToken(entry, a, now + life, NoPlan, now)
    /\ UNCHANGED usage
    /\ SchedulePersist
    /\ UNCHANGED <<now, restarts>>

TokenRefreshed(a, life) ==
    /\ Present(entry, a)
    /\ entry' = UpdateToken(entry, a, now + life, NoPlan, now)
    /\ UNCHANGED usage
    /\ PersistNow
    /\ UNCHANGED <<now, restarts>>

\* Mutant: nobody sets the timer.
RemoveAccountUnsaved(a) ==
    /\ Present(entry, a)
    /\ entry' = RemoveEntry(entry, a)
    /\ usage' = [usage EXCEPT ![a] = NoUsage]
    /\ UNCHANGED files
    /\ UNCHANGED <<now, restarts>>

RemoveAccount(a) ==
    /\ Present(entry, a)
    /\ entry' = RemoveEntry(entry, a)
    /\ usage' = [usage EXCEPT ![a] = NoUsage]
    /\ SchedulePersist
    /\ UNCHANGED <<now, restarts>>

ClearToken ==
    /\ entry' = ClearEntries(entry)
    /\ usage' = [a \in Account |-> NoUsage]
    /\ PersistNow
    /\ UNCHANGED <<now, restarts>>

-----------------------------------------------------------------------------
(* Statuses *)

Mark(a, s) ==
    /\ Present(entry, a)
    /\ entry' = MarkStatus(entry, a, s)
    /\ UNCHANGED usage
    /\ SchedulePersist
    /\ UNCHANGED <<now, restarts>>

\* Mutant: the operands of the deadline are swapped.
RateLimitSwapped(a, backoff, countRequest) ==
    /\ Present(entry, a)
    /\ countRequest => Total(usage) < MaxCount
    /\ entry' = MarkRateLimited(entry, a, backoff - now)
    /\ usage' = IF countRequest THEN [usage EXCEPT ![a] = Counted(@)] ELSE usage
    /\ SchedulePersist
    /\ UNCHANGED <<now, restarts>>

\* A 429, which counts the request if countRequest.
RateLimit(a, backoff, countRequest) ==
    /\ Present(entry, a)
    /\ countRequest => Total(usage) < MaxCount
    /\ entry' = MarkRateLimited(entry, a, now + backoff)
    /\ usage' = IF countRequest THEN [usage EXCEPT ![a] = Counted(@)] ELSE usage
    /\ SchedulePersist
    /\ UNCHANGED <<now, restarts>>

LiftRateLimit(a) ==
    /\ Present(entry, a)
    /\ entry' = ClearRateLimit(entry, a)
    /\ UNCHANGED usage
    /\ SchedulePersist
    /\ UNCHANGED <<now, restarts>>

QuotaExhausted(a, backoff) ==
    /\ QuotaMarkable(entry, a, now + backoff)
    /\ entry' = MarkQuotaExhausted(entry, a, now + backoff)
    /\ UNCHANGED usage
    /\ SchedulePersist
    /\ UNCHANGED <<now, restarts>>

-----------------------------------------------------------------------------
(* Usage *)

RecordUsage(a) ==
    /\ Present(entry, a) /\ Total(usage) < MaxCount
    /\ usage' = [usage EXCEPT ![a] = Counted(@)]
    /\ SchedulePersist
    /\ UNCHANGED <<entry, now, restarts>>

SyncWindow(a, reset, len) ==
    /\ Present(entry, a)
    /\ usage' = [usage EXCEPT ![a] = WindowSynced(@, reset, len)]
    /\ UNCHANGED entry
    /\ SchedulePersist
    /\ UNCHANGED <<now, restarts>>

\* Mutant: the counters of every account.
ResetUsageOfAll(a) ==
    /\ Present(entry, a)
    /\ entry' = ResetUsage(entry, a)
    /\ usage' = [b \in Account |-> Cleared(usage[b])]
    /\ SchedulePersist
    /\ UNCHANGED <<now, restarts>>

ResetUsageOf(a) ==
    /\ Present(entry, a)
    /\ entry' = ResetUsage(entry, a)
    /\ usage' = [usage EXCEPT ![a] = Cleared(@)]
    /\ SchedulePersist
    /\ UNCHANGED <<now, restarts>>

\* refreshStatus of every account, as acquire and the dashboard do.  Only a
\* window that rolls is written.
Refreshed(E, t) == RefreshEntries(E, Account, t)

Rolled(u, t) == [a \in Account |-> WindowRolled(u[a], t)]

Read ==
    /\ entry' = Refreshed(entry, now)
    /\ usage' = Rolled(usage, now)
    /\ IF usage' # usage THEN SchedulePersist ELSE UNCHANGED files
    /\ UNCHANGED <<now, restarts>>

-----------------------------------------------------------------------------
(* Restarts, time *)

\* The process ends and starts again.  flushed: destroy came to write
\* accounts.json; otherwise it was killed or exited after the ten seconds.
\* Starting reads every account (getPoolSummary).
Restart(flushed) ==
    /\ restarts < MaxRestarts
    /\ disk' = IF flushed THEN [entry |-> entry, usage |-> usage] ELSE disk
    /\ failed' = FALSE
    /\ entry' = Refreshed(disk'.entry, now)
    /\ usage' = Rolled(disk'.usage, now)
    /\ pending' = (usage' # disk'.usage)
    /\ restarts' = restarts + 1
    /\ UNCHANGED now

Tick ==
    /\ now < MaxTime
    /\ now' = now + 1
    /\ UNCHANGED <<accounts, files, restarts>>

AccountStep(a) ==
    \/ \E life \in Lifetimes :
          AddAccount(a, life) \/ LoginAgain(a, life) \/ TokenRefreshed(a, life)
    \/ \E s \in Marks : Mark(a, s)
    \/ \E backoff \in Backoffs : \E countRequest \in BOOLEAN :
          RateLimit(a, backoff, countRequest)
    \/ \E backoff \in Backoffs : QuotaExhausted(a, backoff)
    \/ \E ahead \in Windows, len \in Lengths : SyncWindow(a, now + ahead, len)
    \/ RemoveAccount(a) \/ LiftRateLimit(a) \/ RecordUsage(a) \/ ResetUsageOf(a)

Next ==
    \/ \E a \in Account : AccountStep(a)
    \/ ClearToken \/ Read \/ PersistTimer \/ Tick
    \/ \E flushed \in BOOLEAN : Restart(flushed)

Spec == Init /\ [][Next]_vars

-----------------------------------------------------------------------------
(* Properties *)

\* Every variable keeps its type.
TypeOK ==
    /\ entry \in [Account -> Entry] /\ usage \in [Account -> Usage]
    /\ pending \in BOOLEAN /\ failed \in BOOLEAN
    /\ disk \in File
    /\ now \in Nat /\ restarts \in Nat

\* Without a timer pending, or a write that failed, a restart loads what the
\* pool holds: the only changes nobody schedules a write for are those of a
\* status that the first reader after the restart makes again (refreshStatus).
DiskFollowsMemory ==
    ~pending /\ ~failed =>
        /\ disk.usage = usage
        /\ Refreshed(disk.entry, now) = Refreshed(entry, now)

\* No crash loses a token: at any moment the file holds every account of the
\* pool with its present token (known here by its exp), unless a write failed.
TokensDurable ==
    ~failed => \A a \in Account : Present(entry, a) =>
        Present(disk.entry, a) /\ disk.entry[a].exp = entry[a].exp

\* After a read every window with a known end contains the present: the rolled
\* end is the first one ahead, however many windows passed.
WindowsCurrent ==
    [][Read => \A a \in Account :
         /\ usage'[a].reset # 0 => usage'[a].reset > now
         /\ usage'[a].reset # usage[a].reset /\ usage'[a].reset # 0 =>
               usage'[a].reset - usage[a].len <= now]_vars

\* No operation counts a request twice or on another account, forgets usage
\* but of an account that is removed or reset, or writes something else than
\* the pool holds; summed up, the store is the pool the statistics rely on.
OfAccounts(E, u) == [a \in {b \in Account : Present(E, b)} |-> u[a].count]

Counts == INSTANCE AccountCounts
          WITH count <- OfAccounts(entry, usage), saved <- OfAccounts(disk.entry, disk.usage)

Pool == INSTANCE PoolUsage WITH live <- Total(usage), saved <- Total(disk.usage)

CountsLikePool == Counts!CountsSpec /\ Pool!PoolSpec
=============================================================================
