------------------------- MODULE AccountStore_proofs -------------------------
(***************************************************************************)
(* Theorems about AccountStore, for every finite set of accounts and all   *)
(* lifetimes, limits, windows and bounds.                                  *)
(***************************************************************************)
EXTENDS AccountStore, FiniteSetTheorems, TLAPS

\* The inductive invariant: each part needs the types, nothing else.
IInv == TypeOK /\ DiskFollowsMemory /\ TokensDurable

-----------------------------------------------------------------------------
(* The lazy refresh of a status *)

\* A status that was refreshed before need not be refreshed for that moment.
LEMMA RefreshAgain ==
  ASSUME NEW e \in Entry, NEW s \in Nat, NEW t \in Nat, s <= t
  PROVE  RefreshStatus(RefreshStatus(e, s), t) = RefreshStatus(e, t)
<1>1. e.until \in Nat /\ e.exp \in Nat
  BY DEF Entry
<1>2. CASE e.status = "rate_limited" /\ e.until # 0 /\ s >= e.until
  <2> DEFINE lifted == [e EXCEPT !.status = "active", !.until = 0]
  <2>1. LimitLifted(e, s) = lifted /\ LimitLifted(e, t) = lifted
    BY <1>1, <1>2 DEF LimitLifted
  <2>2. /\ lifted.status = "active" /\ lifted.exp = e.exp
        /\ LimitLifted(TokenChecked(lifted, s), t) = TokenChecked(lifted, s)
    BY DEF LimitLifted, TokenChecked, Entry
  <2> HIDE DEF lifted
  <2>3. TokenChecked(TokenChecked(lifted, s), t) = TokenChecked(lifted, t)
    BY <1>1, <2>2 DEF TokenChecked
  <2>4. QED
    BY <2>1, <2>2, <2>3 DEF RefreshStatus
<1>3. CASE ~(e.status = "rate_limited" /\ e.until # 0 /\ s >= e.until)
  <2>1. LimitLifted(e, s) = e
    BY <1>3 DEF LimitLifted
  <2>2. CASE e.status = "rate_limited"
    BY <2>1, <2>2 DEF RefreshStatus, TokenChecked
  <2>3. CASE e.status # "rate_limited"
    <3>1. /\ LimitLifted(e, t) = e
          /\ LimitLifted(TokenChecked(e, s), t) = TokenChecked(e, s)
      BY <2>3 DEF LimitLifted, TokenChecked, Entry
    <3>2. TokenChecked(TokenChecked(e, s), t) = TokenChecked(e, t)
      BY <1>1 DEF TokenChecked, Entry
    <3>3. QED
      BY <2>1, <3>1, <3>2 DEF RefreshStatus
  <2>4. QED
    BY <2>2, <2>3
<1>4. QED
  BY <1>2, <1>3

\* It keeps the type, the token and the presence of an entry.
LEMMA RefreshKeeps ==
  ASSUME NEW e \in Entry, NEW t \in Nat
  PROVE  /\ RefreshStatus(e, t) \in Entry
         /\ RefreshStatus(e, t).exp = e.exp
         /\ RefreshStatus(e, t).status \in Status <=> e.status \in Status
BY DEF RefreshStatus, LimitLifted, TokenChecked, Entry, Status, NoEntry

\* The same of all entries.
LEMMA RefreshedAgain ==
  ASSUME NEW E \in [Account -> Entry], NEW s \in Nat, NEW t \in Nat, s <= t
  PROVE  Refreshed(Refreshed(E, s), t) = Refreshed(E, t)
BY RefreshAgain DEF Refreshed, RefreshEntries

\* The same of all entries.
LEMMA RefreshedKeeps ==
  ASSUME NEW E \in [Account -> Entry], NEW t \in Nat
  PROVE  /\ Refreshed(E, t) \in [Account -> Entry]
         /\ \A a \in Account : /\ Refreshed(E, t)[a].exp = E[a].exp
                               /\ Present(Refreshed(E, t), a) <=> Present(E, a)
BY RefreshKeeps DEF Refreshed, RefreshEntries, Present

-----------------------------------------------------------------------------
(* Windows *)

\* The next end of a window that is over is the first one ahead.
LEMMA NextResetAhead ==
  ASSUME NEW r \in Nat, NEW n \in Nat \ {0}, NEW t \in Nat, t >= r
  PROVE  LET next == r + n * ((t - r) \div n + 1)
         IN  next \in Nat /\ next > t /\ next - n <= t
<1> DEFINE d == t - r
           q == d \div n
<1>1. d \in Nat
  OBVIOUS
<1>2. /\ q \in Nat
      /\ n * q <= d
      /\ d < n * q + n
  BY <1>1
<1>3. n * (q + 1) = n * q + n /\ n * q \in Nat
  BY <1>2
<1> HIDE DEF q
<1>4. QED
  BY <1>2, <1>3

\* Usage records keep their type.
LEMMA UsageTypes ==
  ASSUME NEW u \in Usage, NEW t \in Nat, NEW reset \in Nat, NEW len \in Nat
  PROVE  /\ Counted(u) \in Usage /\ Cleared(u) \in Usage
         /\ WindowSynced(u, reset, len) \in Usage
         /\ WindowRolled(u, t) \in Usage
<1>1. /\ u.count \in Nat /\ u.win \in Nat /\ u.reset \in Nat /\ u.len \in Nat
      /\ u.count + 1 \in Nat /\ u.win + 1 \in Nat
  BY DEF Usage
<1>2. Counted(u) \in Usage /\ Cleared(u) \in Usage
  BY <1>1 DEF Counted, Cleared, Usage
<1>3. WindowSynced(u, reset, len) \in Usage
  BY <1>1 DEF WindowSynced, Usage
<1>4. WindowOver(u, t) => NextReset(u, t) \in Nat
  BY <1>1, NextResetAhead DEF NextReset, WindowOver
<1>5. WindowRolled(u, t) \in Usage
  BY <1>1, <1>4 DEF WindowRolled, Usage
<1>6. QED
  BY <1>2, <1>3, <1>5

-----------------------------------------------------------------------------
(* The two ways a step reaches the file *)

\* F has no account that E has not, nor another token for one.
KeepsTokens(E, F) ==
    \A b \in Account : Present(F, b) => Present(E, b) /\ F[b].exp = E[b].exp

\* Marking an account keeps the tokens.
LEMMA MarkKeepsTokens ==
  ASSUME NEW E \in [Account -> Entry], NEW a \in Account, NEW s \in Status
  PROVE  /\ MarkStatus(E, a, s) \in [Account -> Entry]
         /\ KeepsTokens(E, MarkStatus(E, a, s))
BY DEF MarkStatus, KeepsTokens, Present, Entry

\* Limiting an account keeps the tokens.
LEMMA LimitsKeepTokens ==
  ASSUME NEW E \in [Account -> Entry], NEW a \in Account, NEW until \in Nat
  PROVE  /\ MarkRateLimited(E, a, until) \in [Account -> Entry]
         /\ KeepsTokens(E, MarkRateLimited(E, a, until))
         /\ MarkQuotaExhausted(E, a, until) \in [Account -> Entry]
         /\ KeepsTokens(E, MarkQuotaExhausted(E, a, until))
<1>1. /\ MarkRateLimited(E, a, until) \in [Account -> Entry]
      /\ KeepsTokens(E, MarkRateLimited(E, a, until))
  BY DEF MarkRateLimited, KeepsTokens, Present, Entry, Status
<1>2. /\ MarkQuotaExhausted(E, a, until) \in [Account -> Entry]
      /\ KeepsTokens(E, MarkQuotaExhausted(E, a, until))
  BY <1>1 DEF MarkQuotaExhausted, KeepsTokens
<1>3. QED
  BY <1>1, <1>2

\* Lifting a limit, or losing it with the usage record, keeps the tokens.
LEMMA LiftsKeepTokens ==
  ASSUME NEW E \in [Account -> Entry], NEW a \in Account
  PROVE  /\ ClearRateLimit(E, a) \in [Account -> Entry]
         /\ KeepsTokens(E, ClearRateLimit(E, a))
         /\ ResetUsage(E, a) \in [Account -> Entry]
         /\ KeepsTokens(E, ResetUsage(E, a))
<1>1. /\ ClearRateLimit(E, a) \in [Account -> Entry]
      /\ KeepsTokens(E, ClearRateLimit(E, a))
  BY DEF ClearRateLimit, KeepsTokens, Present, Entry, Status
<1>2. /\ ResetUsage(E, a) \in [Account -> Entry]
      /\ KeepsTokens(E, ResetUsage(E, a))
  BY DEF ResetUsage, KeepsTokens, Present, Entry
<1>3. QED
  BY <1>1, <1>2

\* Removing accounts keeps the tokens of the others.
LEMMA RemovalsKeepTokens ==
  ASSUME NEW E \in [Account -> Entry], NEW a \in Account
  PROVE  /\ RemoveEntry(E, a) \in [Account -> Entry]
         /\ KeepsTokens(E, RemoveEntry(E, a))
         /\ ClearEntries(E) \in [Account -> Entry]
<1>1. Removed \in Entry /\ Removed.status \notin Status
  BY DEF Removed, Entry, Status, NoEntry
<1>2. QED
  BY <1>1 DEF RemoveEntry, ClearEntries, KeepsTokens, Present

\* New tokens leave well-typed entries.
LEMMA TokenTypes ==
  ASSUME NEW E \in [Account -> Entry], NEW a \in Account,
         NEW exp \in Nat, NEW t \in Nat
  PROVE  /\ NewEntry(E, a, exp, NoPlan, t) \in [Account -> Entry]
         /\ ReplaceToken(E, a, exp, NoPlan, t) \in [Account -> Entry]
         /\ UpdateToken(E, a, exp, NoPlan, t) \in [Account -> Entry]
<1>1. TokenStatus(exp, t) \in Status
  BY DEF TokenStatus, Status
<1>2. NewEntry(E, a, exp, NoPlan, t) \in [Account -> Entry]
  BY <1>1 DEF NewEntry, Entry
<1>3. ReplaceToken(E, a, exp, NoPlan, t) \in [Account -> Entry]
  BY <1>1 DEF ReplaceToken, PlanAfter, Entry
<1>4. UpdateToken(E, a, exp, NoPlan, t) \in [Account -> Entry]
  <2>1. E[a] \in Entry
    OBVIOUS
  <2>2. PlanAfter(E[a], NoPlan) = E[a].plan
    BY DEF PlanAfter
  <2>3. QED
    BY <1>1, <2>1, <2>2 DEF UpdateToken, Entry
<1>5. QED
  BY <1>2, <1>3, <1>4

\* A step that writes the file, or fails to, keeps the invariant.
LEMMA SavingKeeps ==
  ASSUME IInv, entry' \in [Account -> Entry], usage' \in [Account -> Usage],
         PersistNow, UNCHANGED <<now, restarts>>
  PROVE  IInv'
<1>1. TypeOK'
  <2>1. disk' \in File /\ pending' \in BOOLEAN /\ failed' \in BOOLEAN
    <3>1. [entry |-> entry', usage |-> usage'] \in File
      BY DEF File
    <3>2. disk \in File
      BY DEF IInv, TypeOK
    <3>3. QED
      BY <3>1, <3>2 DEF PersistNow
  <2>2. QED
    BY <2>1 DEF IInv, TypeOK
<1>2. CASE failed'
  BY <1>1, <1>2 DEF IInv, DiskFollowsMemory, TokensDurable
<1>3. CASE ~failed'
  <2>1. disk' = [entry |-> entry', usage |-> usage']
    BY <1>3 DEF PersistNow
  <2>2. disk'.entry = entry' /\ disk'.usage = usage'
    BY <2>1
  <2>3. QED
    BY <1>1, <2>2 DEF IInv, DiskFollowsMemory, TokensDurable
<1>4. QED
  BY <1>2, <1>3

\* A step that leaves the file to the timer keeps it if it keeps the tokens.
LEMMA SchedulingKeeps ==
  ASSUME IInv, entry' \in [Account -> Entry], usage' \in [Account -> Usage],
         KeepsTokens(entry, entry'), SchedulePersist, UNCHANGED <<now, restarts>>
  PROVE  IInv'
<1>1. TypeOK' /\ pending' /\ failed' = failed /\ disk' = disk
  BY DEF IInv, TypeOK, SchedulePersist
<1>2. TokensDurable'
  BY <1>1 DEF IInv, TokensDurable, KeepsTokens, Present
<1>3. QED
  BY <1>1, <1>2 DEF IInv, DiskFollowsMemory

-----------------------------------------------------------------------------
(* The steps *)

\* Steps that save at once.
LEMMA SavesKeep ==
  ASSUME IInv,
         \/ PersistTimer \/ ClearToken
         \/ \E a \in Account, life \in Lifetimes :
               AddAccount(a, life) \/ LoginAgain(a, life) \/ TokenRefreshed(a, life)
  PROVE  IInv'
<1>1. entry \in [Account -> Entry] /\ usage \in [Account -> Usage] /\ now \in Nat
  BY DEF IInv, TypeOK
<1>2. CASE PersistTimer
  BY <1>1, <1>2, SavingKeeps DEF PersistTimer, accounts
<1>3. CASE ClearToken
  <2>1. usage' \in [Account -> Usage]
    BY <1>3 DEF ClearToken, NoUsage, Usage
  <2>2. entry' \in [Account -> Entry]
    BY <1>1, <1>3, RemovalsKeepTokens DEF ClearToken, ClearEntries
  <2>3. QED
    BY <1>3, <2>1, <2>2, SavingKeeps DEF ClearToken
<1>4. CASE \E a \in Account, life \in Lifetimes :
             AddAccount(a, life) \/ LoginAgain(a, life) \/ TokenRefreshed(a, life)
  <2>1. PICK a \in Account, life \in Lifetimes :
             AddAccount(a, life) \/ LoginAgain(a, life) \/ TokenRefreshed(a, life)
    BY <1>4
  <2>2. now + life \in Nat
    BY <1>1, StoreAssumption
  <2>3. entry' \in [Account -> Entry] /\ usage' \in [Account -> Usage]
    BY <1>1, <2>1, <2>2, TokenTypes DEF AddAccount, LoginAgain, TokenRefreshed
  <2>4. QED
    BY <2>1, <2>3, SavingKeeps DEF AddAccount, LoginAgain, TokenRefreshed
<1>5. QED
  BY <1>2, <1>3, <1>4

\* Steps that change the status or the usage of an account.
LEMMA MutationsKeep ==
  ASSUME IInv, NEW a \in Account,
         \/ \E s \in Marks : Mark(a, s)
         \/ \E backoff \in Backoffs, countRequest \in BOOLEAN :
               RateLimit(a, backoff, countRequest)
         \/ \E backoff \in Backoffs : QuotaExhausted(a, backoff)
         \/ \E ahead \in Windows, len \in Lengths : SyncWindow(a, now + ahead, len)
         \/ RemoveAccount(a) \/ LiftRateLimit(a) \/ RecordUsage(a) \/ ResetUsageOf(a)
  PROVE  IInv'
<1>1. /\ entry \in [Account -> Entry] /\ usage \in [Account -> Usage] /\ now \in Nat
      /\ \A b \in Backoffs : now + b \in Nat
      /\ \A w \in Windows : now + w \in Nat
      /\ KeepsTokens(entry, entry)
  BY StoreAssumption DEF IInv, TypeOK, KeepsTokens
<1>2. CASE \E s \in Marks : Mark(a, s)
  <2>1. PICK s \in Marks : Mark(a, s)
    BY <1>2
  <2>2. s \in Status
    BY StoreAssumption
  <2>3. QED
    BY <1>1, <2>1, <2>2, MarkKeepsTokens, SchedulingKeeps DEF Mark
<1>3. CASE \E backoff \in Backoffs, countRequest \in BOOLEAN :
             RateLimit(a, backoff, countRequest)
  <2>1. PICK backoff \in Backoffs, countRequest \in BOOLEAN :
             RateLimit(a, backoff, countRequest)
    BY <1>3
  <2>2. usage' \in [Account -> Usage]
    BY <1>1, <2>1, UsageTypes DEF RateLimit
  <2>3. entry' \in [Account -> Entry] /\ KeepsTokens(entry, entry')
    <3>1. entry' = MarkRateLimited(entry, a, now + backoff) /\ now + backoff \in Nat
      BY <1>1, <2>1 DEF RateLimit
    <3>2. QED
      BY <1>1, <3>1, LimitsKeepTokens
  <2>4. QED
    BY <2>1, <2>2, <2>3, SchedulingKeeps DEF RateLimit
<1>4. CASE \E backoff \in Backoffs : QuotaExhausted(a, backoff)
  <2>1. PICK backoff \in Backoffs : QuotaExhausted(a, backoff)
    BY <1>4
  <2>2. entry' = MarkQuotaExhausted(entry, a, now + backoff) /\ now + backoff \in Nat
    BY <1>1, <2>1 DEF QuotaExhausted
  <2>3. entry' \in [Account -> Entry] /\ KeepsTokens(entry, entry')
    BY <1>1, <2>2, LimitsKeepTokens
  <2>4. QED
    BY <1>1, <2>1, <2>3, SchedulingKeeps DEF QuotaExhausted
<1>5. CASE \E ahead \in Windows, len \in Lengths : SyncWindow(a, now + ahead, len)
  <2>1. PICK ahead \in Windows, len \in Lengths : SyncWindow(a, now + ahead, len)
    BY <1>5
  <2>2. len \in Nat
    BY StoreAssumption
  <2>3. usage' \in [Account -> Usage]
    BY <1>1, <2>1, <2>2, UsageTypes DEF SyncWindow
  <2>4. QED
    BY <1>1, <2>1, <2>3, SchedulingKeeps DEF SyncWindow
<1>6. CASE RemoveAccount(a)
  <2>1. usage' \in [Account -> Usage]
    BY <1>1, <1>6 DEF RemoveAccount, NoUsage, Usage
  <2>2. QED
    BY <1>1, <1>6, <2>1, RemovalsKeepTokens, SchedulingKeeps DEF RemoveAccount
<1>7. CASE LiftRateLimit(a)
  <2>1. entry' = ClearRateLimit(entry, a) /\ usage' = usage
    BY <1>7 DEF LiftRateLimit
  <2>2. entry' \in [Account -> Entry] /\ KeepsTokens(entry, entry')
    BY <1>1, <2>1, LiftsKeepTokens
  <2>3. QED
    BY <1>1, <1>7, <2>1, <2>2, SchedulingKeeps DEF LiftRateLimit
<1>8. CASE RecordUsage(a)
  <2>1. usage' \in [Account -> Usage]
    BY <1>1, <1>8, UsageTypes DEF RecordUsage
  <2>2. QED
    BY <1>1, <1>8, <2>1, SchedulingKeeps DEF RecordUsage
<1>9. CASE ResetUsageOf(a)
  <2>1. usage' \in [Account -> Usage]
    BY <1>1, <1>9, UsageTypes DEF ResetUsageOf
  <2>2. entry' \in [Account -> Entry] /\ KeepsTokens(entry, entry')
    <3>1. entry' = ResetUsage(entry, a)
      BY <1>9 DEF ResetUsageOf
    <3>2. QED
      BY <1>1, <3>1, LiftsKeepTokens
  <2>3. QED
    BY <1>9, <2>1, <2>2, SchedulingKeeps DEF ResetUsageOf
<1>10. QED
  BY <1>2, <1>3, <1>4, <1>5, <1>6, <1>7, <1>8, <1>9

\* The readers' refresh: without a rolled window it changes no more than the
\* refresh of what is in the file does.
LEMMA ReadKeeps ==
  ASSUME IInv, Read
  PROVE  IInv'
<1>1. /\ entry \in [Account -> Entry] /\ usage \in [Account -> Usage] /\ now \in Nat
      /\ entry' = Refreshed(entry, now) /\ usage' = Rolled(usage, now)
      /\ now' = now /\ restarts' = restarts
  BY DEF IInv, TypeOK, Read
<1>2. entry' \in [Account -> Entry] /\ KeepsTokens(entry, entry')
  BY <1>1, RefreshedKeeps DEF KeepsTokens
<1>3. usage' \in [Account -> Usage]
  <2>1. \A a \in Account : WindowRolled(usage[a], now) \in Usage
    BY <1>1, UsageTypes, 0 \in Nat
  <2>2. QED
    BY <1>1, <2>1 DEF Rolled
<1>4. CASE usage' # usage
  BY <1>1, <1>2, <1>3, <1>4, SchedulingKeeps DEF Read
<1>5. CASE usage' = usage
  <2>1. pending' = pending /\ failed' = failed /\ disk' = disk
    BY <1>5 DEF Read, files
  <2>2. Refreshed(entry', now) = Refreshed(entry, now)
    BY <1>1, RefreshedAgain
  <2>3. TypeOK'
    BY <1>1, <1>2, <1>3, <2>1 DEF IInv, TypeOK
  <2>4. DiskFollowsMemory'
    BY <1>1, <1>5, <2>1, <2>2 DEF IInv, DiskFollowsMemory
  <2>5. TokensDurable'
    BY <1>2, <2>1 DEF IInv, TokensDurable, KeepsTokens, Present
  <2>6. QED
    BY <2>3, <2>4, <2>5 DEF IInv
<1>6. QED
  BY <1>4, <1>5

\* A restart: the pool is what a first reader makes of the file.
LEMMA RestartKeeps ==
  ASSUME IInv, NEW flushed \in BOOLEAN, Restart(flushed)
  PROVE  IInv'
<1>1. now \in Nat /\ restarts \in Nat /\ now' = now /\ restarts' = restarts + 1
  BY DEF IInv, TypeOK, Restart
<1>2. disk' \in File
  <2>1. [entry |-> entry, usage |-> usage] \in File /\ disk \in File
    BY DEF IInv, TypeOK, File
  <2>2. QED
    BY <2>1 DEF Restart
<1>3. PICK f \in File : disk' = f
  BY <1>2
<1>4. /\ f.entry \in [Account -> Entry] /\ f.usage \in [Account -> Usage]
  BY DEF File
<1>5. /\ entry' = Refreshed(f.entry, now) /\ usage' = Rolled(f.usage, now)
      /\ pending' = (usage' # f.usage) /\ failed' = FALSE
  BY <1>3 DEF Restart
<1>6. /\ entry' \in [Account -> Entry]
      /\ \A a \in Account : /\ entry'[a].exp = f.entry[a].exp
                            /\ Present(entry', a) <=> Present(f.entry, a)
  BY <1>1, <1>4, <1>5, RefreshedKeeps
<1>7. usage' \in [Account -> Usage]
  <2>1. \A a \in Account : WindowRolled(f.usage[a], now) \in Usage
    BY <1>1, <1>4, UsageTypes, 0 \in Nat
  <2>2. QED
    BY <1>5, <2>1 DEF Rolled
<1>8. TypeOK'
  <2>1. pending' \in BOOLEAN /\ failed' \in BOOLEAN
    BY <1>5, Zenon
  <2>2. now' \in Nat /\ restarts' \in Nat
    BY <1>1
  <2>3. QED
    BY <1>2, <1>6, <1>7, <2>1, <2>2 DEF TypeOK
<1>9. DiskFollowsMemory'
  <2>1. Refreshed(entry', now) = Refreshed(f.entry, now)
    BY <1>1, <1>4, <1>5, RefreshedAgain
  <2>2. QED
    BY <1>1, <1>3, <1>5, <2>1 DEF DiskFollowsMemory
<1>10. TokensDurable'
  BY <1>3, <1>6 DEF TokensDurable, Present
<1>11. QED
  BY <1>8, <1>9, <1>10 DEF IInv

\* Time: statuses equal up to refreshing stay so.
LEMMA TickKeeps ==
  ASSUME IInv, Tick
  PROVE  IInv'
<1>1. /\ entry \in [Account -> Entry] /\ disk.entry \in [Account -> Entry]
      /\ now \in Nat /\ now + 1 \in Nat /\ now <= now + 1 /\ now' = now + 1
  BY DEF IInv, TypeOK, File, Tick
<1>2. UNCHANGED <<entry, usage, pending, disk, failed, restarts>>
  BY DEF Tick, accounts, files
<1>3. TypeOK' /\ TokensDurable'
  BY <1>1, <1>2 DEF IInv, TypeOK, TokensDurable, Present
<1>4. ASSUME ~pending, ~failed
      PROVE  Refreshed(disk.entry, now + 1) = Refreshed(entry, now + 1)
  <2>1. Refreshed(disk.entry, now) = Refreshed(entry, now)
    BY <1>4 DEF IInv, DiskFollowsMemory
  <2>2. /\ Refreshed(disk.entry, now + 1) = Refreshed(Refreshed(disk.entry, now), now + 1)
        /\ Refreshed(entry, now + 1) = Refreshed(Refreshed(entry, now), now + 1)
    BY <1>1, RefreshedAgain
  <2>3. QED
    BY <2>1, <2>2
<1>5. DiskFollowsMemory'
  BY <1>1, <1>2, <1>4 DEF IInv, DiskFollowsMemory
<1>6. QED
  BY <1>3, <1>5 DEF IInv

\* The first start: the pool is what the file holds.
LEMMA InitOK ==
  Init => IInv
<1> SUFFICES ASSUME Init PROVE IInv
  OBVIOUS
<1>1. /\ NoAccount \in Entry /\ [NoAccount EXCEPT !.status = "active", !.exp = MaxTime] \in Entry
  BY StoreAssumption DEF NoAccount, Entry, Status, NoEntry
<1>2. entry \in [Account -> Entry]
  BY <1>1 DEF Init
<1>3. usage \in [Account -> Usage]
  <2>1. PICK n \in 0 .. MaxCount :
           usage = [a \in Account |->
                      IF Present(entry, a) THEN [NoUsage EXCEPT !.count = n] ELSE NoUsage]
    BY DEF Init
  <2>2. NoUsage \in Usage /\ [NoUsage EXCEPT !.count = n] \in Usage
    BY StoreAssumption DEF NoUsage, Usage
  <2>3. QED
    BY <2>1, <2>2
<1>4. /\ disk = [entry |-> entry, usage |-> usage]
      /\ pending = FALSE /\ failed = FALSE /\ now = 1 /\ restarts = 0
  BY DEF Init
<1>5. TypeOK
  BY <1>2, <1>3, <1>4 DEF TypeOK, File
<1>6. QED
  BY <1>4, <1>5 DEF IInv, DiskFollowsMemory, TokensDurable

-----------------------------------------------------------------------------
(* The theorems *)

\* The invariant holds in every reachable state.
THEOREM Inductive ==
  Spec => []IInv
<1>1. IInv /\ [Next]_vars => IInv'
  <2> SUFFICES ASSUME IInv, [Next]_vars PROVE IInv'
    OBVIOUS
  <2>1. CASE \E a \in Account : AccountStep(a)
    <3>1. PICK a \in Account : AccountStep(a)
      BY <2>1
    <3>2. QED
      BY <3>1, SavesKeep, MutationsKeep DEF AccountStep
  <2>2. CASE ClearToken \/ PersistTimer
    BY <2>2, SavesKeep
  <2>3. CASE Read
    BY <2>3, ReadKeeps
  <2>4. CASE Tick
    BY <2>4, TickKeeps
  <2>5. CASE \E flushed \in BOOLEAN : Restart(flushed)
    BY <2>5, RestartKeeps
  <2>6. CASE UNCHANGED vars
    BY <2>6 DEF IInv, TypeOK, DiskFollowsMemory, TokensDurable, Present,
                vars, accounts, files
  <2>7. QED
    BY <2>1, <2>2, <2>3, <2>4, <2>5, <2>6 DEF Next
<1>2. QED
  BY <1>1, InitOK, PTL DEF Spec

\* Type correctness of the store.
THEOREM TypeCorrect ==
  Spec => []TypeOK
<1>1. IInv => TypeOK
  BY DEF IInv
<1>2. QED
  BY <1>1, Inductive, PTL

\* The file follows the memory.
THEOREM FileFollows ==
  Spec => []DiskFollowsMemory
<1>1. IInv => DiskFollowsMemory
  BY DEF IInv
<1>2. QED
  BY <1>1, Inductive, PTL

\* No crash loses a token.
THEOREM NoTokenLost ==
  Spec => []TokensDurable
<1>1. IInv => TokensDurable
  BY DEF IInv
<1>2. QED
  BY <1>1, Inductive, PTL

\* A read leaves no window behind the present.
THEOREM ReadsCatchUp ==
  Spec => WindowsCurrent
<1> DEFINE Current == \A a \in Account :
              /\ usage'[a].reset # 0 => usage'[a].reset > now
              /\ usage'[a].reset # usage[a].reset /\ usage'[a].reset # 0 =>
                    usage'[a].reset - usage[a].len <= now
<1>1. IInv /\ [Next]_vars => [Read => Current]_vars
  <2> SUFFICES ASSUME IInv, Read, NEW a \in Account
               PROVE  /\ usage'[a].reset # 0 => usage'[a].reset > now
                      /\ usage'[a].reset # usage[a].reset /\ usage'[a].reset # 0 =>
                            usage'[a].reset - usage[a].len <= now
    OBVIOUS
  <2>1. /\ usage[a] \in Usage /\ now \in Nat
        /\ usage'[a] = WindowRolled(usage[a], now)
    BY DEF IInv, TypeOK, Read, Rolled
  <2>2. PICK u \in Usage : u = usage[a]
    BY <2>1
  <2>3. u.reset \in Nat /\ u.len \in Nat
    BY DEF Usage
  <2>4. /\ WindowRolled(u, now).reset # 0 => WindowRolled(u, now).reset > now
        /\ WindowRolled(u, now).reset # u.reset /\ WindowRolled(u, now).reset # 0 =>
              WindowRolled(u, now).reset - u.len <= now
    <3>1. CASE ~WindowOver(u, now)
      BY <2>1, <2>3, <3>1 DEF WindowRolled, WindowOver
    <3>2. CASE WindowOver(u, now)
      <4>1. WindowRolled(u, now).reset = NextReset(u, now)
        BY <3>2 DEF WindowRolled, Usage
      <4>2. CASE u.len = 0
        BY <4>1, <4>2 DEF NextReset
      <4>3. CASE u.len # 0
        <5>1. now >= u.reset
          BY <3>2 DEF WindowOver
        <5>2. /\ NextReset(u, now) \in Nat /\ NextReset(u, now) > now
              /\ NextReset(u, now) - u.len <= now
          BY <2>1, <2>3, <4>3, <5>1, NextResetAhead DEF NextReset
        <5>3. QED
          BY <4>1, <5>2
      <4>4. QED
        BY <4>2, <4>3
    <3>3. QED
      BY <3>1, <3>2
  <2>5. QED
    BY <2>1, <2>2, <2>4
<1>2. QED
  BY <1>1, Inductive, PTL DEF WindowsCurrent, Spec

-----------------------------------------------------------------------------
(* The sum of the usage *)

\* No account counts more in v than in u.
CountsNoMore(u, v) == \A a \in Account : v[a].count <= u[a].count

CountsAlike(u, v) == \A a \in Account : v[a].count = u[a].count

LEMMA RequestsFinite ==
  ASSUME NEW u \in [Account -> Usage]
  PROVE  IsFiniteSet(Requests(u)) /\ Total(u) \in Nat
<1> DEFINE of == [a \in Account |-> {a} \X (1 .. u[a].count)]
           parts == {of[a] : a \in Account}
<1>1. \A a \in Account : u[a].count \in Nat
  BY DEF Usage
<1>2. ASSUME NEW a \in Account PROVE IsFiniteSet(of[a])
  <2> DEFINE n == u[a].count
  <2>1. 1 \in Int /\ n \in Int
    BY <1>1
  <2>2. IsFiniteSet(1 .. n)
    <3> HIDE DEF n
    <3> QED  BY <2>1, FS_Interval
  <2>3. IsFiniteSet({a})
    BY FS_Singleton
  <2>4. IsFiniteSet({a} \X (1 .. n))
    <3> HIDE DEF n
    <3> QED  BY <2>2, <2>3, FS_Product
  <2> QED  BY <2>4
<1>3. IsFiniteSet(parts)
  <2>1. of \in [Account -> parts] /\ \A p \in parts : \E a \in Account : of[a] = p
    OBVIOUS
  <2> HIDE DEF of, parts
  <2>2. of \in Surjection(Account, parts)
    BY <2>1 DEF Surjection
  <2> QED  BY <2>2, FS_Surjection, StoreAssumption
<1>4. IsFiniteSet(UNION parts)
  BY <1>2, <1>3, FS_UNION
<1>5. Requests(u) = UNION parts
  BY DEF Requests
<1> QED  BY <1>4, <1>5, FS_CardinalityType DEF Total

LEMMA TotalOrdered ==
  ASSUME NEW u \in [Account -> Usage], NEW v \in [Account -> Usage], CountsNoMore(u, v)
  PROVE  Total(v) <= Total(u)
<1>1. \A a \in Account : u[a].count \in Nat /\ v[a].count \in Nat
  BY DEF Usage
<1>2. ASSUME NEW a \in Account PROVE 1 .. v[a].count \subseteq 1 .. u[a].count
  <2> DEFINE m == v[a].count
             n == u[a].count
  <2>1. m \in Nat /\ n \in Nat /\ m <= n
    BY <1>1 DEF CountsNoMore
  <2> HIDE DEF m, n
  <2>2. 1 .. m \subseteq 1 .. n
    BY <2>1
  <2> QED  BY <2>2 DEF m, n
<1>3. Requests(v) \subseteq Requests(u)
  BY <1>2 DEF Requests
<1> QED  BY <1>3, RequestsFinite, FS_Subset DEF Total

LEMMA TotalAlike ==
  ASSUME NEW u, NEW v, CountsAlike(u, v)
  PROVE  Total(v) = Total(u)
BY DEF CountsAlike, Total, Requests

\* One more request of one account.
LEMMA TotalCounted ==
  ASSUME NEW u \in [Account -> Usage], NEW a \in Account
  PROVE  Total([u EXCEPT ![a] = Counted(u[a])]) = Total(u) + 1
<1> DEFINE v == [u EXCEPT ![a] = Counted(u[a])]
           n == u[a].count
<1>1. \A b \in Account : u[b].count \in Nat
  BY DEF Usage
<1>2. v[a].count = n + 1 /\ \A b \in Account \ {a} : v[b].count = u[b].count
  BY DEF Counted, Usage
<1> HIDE DEF v
<1>3. 1 .. n + 1 = (1 .. n) \cup {n + 1} /\ n + 1 \notin 1 .. n
  BY <1>1
<1>4. \A b \in Account : {b} \X (1 .. v[b].count)
         = IF b = a THEN ({b} \X (1 .. u[b].count)) \cup {<<a, n + 1>>}
           ELSE {b} \X (1 .. u[b].count)
  <2>1. {a} \X (1 .. v[a].count) = ({a} \X (1 .. n)) \cup {<<a, n + 1>>}
    <3>1. {a} \X (1 .. n + 1) = ({a} \X (1 .. n)) \cup {<<a, n + 1>>}
      <4> HIDE DEF n
      <4> QED  BY <1>3
    <3> QED  BY <1>2, <3>1
  <2> QED  BY <1>2, <2>1
<1>5. Requests(v) = Requests(u) \cup {<<a, n + 1>>}
  BY <1>4 DEF Requests
<1>6. <<a, n + 1>> \notin Requests(u)
  BY <1>3 DEF Requests
<1>7. Total(v) = Total(u) + 1
  BY <1>5, <1>6, RequestsFinite, FS_AddElement DEF Total
<1> QED  BY <1>7 DEF v

\* What the operations on a usage record do to its count.
LEMMA CountsOf ==
  ASSUME NEW u \in Usage, NEW t, NEW reset, NEW len
  PROVE  /\ Cleared(u).count = 0 /\ NoUsage.count = 0
         /\ WindowSynced(u, reset, len).count = u.count
         /\ WindowRolled(u, t).count = u.count
BY DEF Usage, Cleared, NoUsage, WindowSynced, WindowRolled

LEMMA RolledAlike ==
  ASSUME NEW u \in [Account -> Usage], NEW t \in Nat
  PROVE  Rolled(u, t) \in [Account -> Usage] /\ CountsAlike(u, Rolled(u, t))
BY CountsOf, UsageTypes DEF Rolled, CountsAlike

-----------------------------------------------------------------------------
(* The store implements the pool of the statistics *)

Live == Total(usage)

Saved == Total(disk.usage)

\* A write of the file, or one that fails.
LEMMA PersistingMaps ==
  ASSUME PersistNow PROVE Saved' \in {Saved, Live'}
BY DEF PersistNow, Saved, Live

LEMMA SchedulingMaps ==
  ASSUME SchedulePersist PROVE Saved' = Saved
BY DEF SchedulePersist, Saved

\* Usage is forgotten, of some accounts or of none.
LEMMA ForgettingMaps ==
  ASSUME TypeOK, usage' \in [Account -> Usage], CountsNoMore(usage, usage'),
         Saved' \in {Saved, Live'}
  PROVE  Pool!PoolNext
<1>1. Live \in Nat /\ Live' \in Nat /\ Live' <= Live
  BY RequestsFinite, TotalOrdered DEF TypeOK, Live
<1>2. Live' \in 0 .. Live
  BY <1>1
<1>3. Pool!Forget(Live')
  BY <1>1 DEF Pool!Forget, Live, Saved
<1> QED  BY <1>2, <1>3 DEF Pool!PoolNext, Live

LEMMA CountingMaps ==
  ASSUME TypeOK, NEW a \in Account, usage' = [usage EXCEPT ![a] = Counted(usage[a])],
         Saved' = Saved
  PROVE  Pool!PoolNext
<1>1. Live' = Live + 1
  BY TotalCounted DEF TypeOK, Live
<1> QED  BY <1>1 DEF Pool!PoolNext, Pool!Count, Live, Saved

LEMMA CountsNoMoreReflexive ==
  ASSUME NEW u \in [Account -> Usage] PROVE CountsNoMore(u, u)
BY DEF CountsNoMore, Usage

\* An operation on one account, which changes its usage record to r or none.
LEMMA OneRecord ==
  ASSUME TypeOK, TypeOK', NEW a \in Account, NEW r, r.count <= usage[a].count,
         usage' = [usage EXCEPT ![a] = r], Saved' \in {Saved, Live'}
  PROVE  Pool!PoolNext
<1>1. CountsNoMore(usage, usage')
  BY DEF TypeOK, CountsNoMore, Usage
<1> QED  BY <1>1, ForgettingMaps DEF TypeOK

\* What leaves the usage alone.
LEMMA NoRecord ==
  ASSUME TypeOK, UNCHANGED usage, Saved' \in {Saved, Live'}
  PROVE  Pool!PoolNext
BY ForgettingMaps, CountsNoMoreReflexive DEF TypeOK

LEMMA AccountStepMaps ==
  ASSUME TypeOK, TypeOK', NEW a \in Account, AccountStep(a)
  PROVE  Pool!PoolNext
<1>u. usage \in [Account -> Usage] /\ usage[a] \in Usage /\ usage[a].count \in Nat
  BY DEF TypeOK, Usage
<1>1. ASSUME NEW life \in Lifetimes,
             AddAccount(a, life) \/ LoginAgain(a, life) \/ TokenRefreshed(a, life)
      PROVE  Pool!PoolNext
  <2>1. UNCHANGED usage /\ PersistNow
    BY <1>1 DEF AddAccount, LoginAgain, TokenRefreshed
  <2> QED  BY <2>1, PersistingMaps, NoRecord
<1>2. ASSUME NEW s \in Marks, Mark(a, s) PROVE Pool!PoolNext
  <2>1. UNCHANGED usage /\ SchedulePersist
    BY <1>2 DEF Mark
  <2> QED  BY <2>1, SchedulingMaps, NoRecord
<1>3. ASSUME NEW backoff \in Backoffs, NEW countRequest \in BOOLEAN,
             RateLimit(a, backoff, countRequest)
      PROVE  Pool!PoolNext
  <2>1. SchedulePersist
    BY <1>3 DEF RateLimit
  <2>2. CASE countRequest
    <3>1. usage' = [usage EXCEPT ![a] = Counted(usage[a])]
      BY <1>3, <2>2 DEF RateLimit
    <3> QED  BY <2>1, <3>1, SchedulingMaps, CountingMaps
  <2>3. CASE ~countRequest
    <3>1. UNCHANGED usage
      BY <1>3, <2>3 DEF RateLimit
    <3> QED  BY <2>1, <3>1, SchedulingMaps, NoRecord
  <2> QED  BY <2>2, <2>3
<1>4. ASSUME NEW backoff \in Backoffs, QuotaExhausted(a, backoff) PROVE Pool!PoolNext
  <2>1. UNCHANGED usage /\ SchedulePersist
    BY <1>4 DEF QuotaExhausted
  <2> QED  BY <2>1, SchedulingMaps, NoRecord
<1>5. ASSUME NEW ahead \in Windows, NEW len \in Lengths, SyncWindow(a, now + ahead, len)
      PROVE  Pool!PoolNext
  <2> DEFINE r == WindowSynced(usage[a], now + ahead, len)
  <2>1. usage' = [usage EXCEPT ![a] = r] /\ SchedulePersist
    BY <1>5 DEF SyncWindow
  <2>2. r.count <= usage[a].count
    BY <1>u, CountsOf
  <2> HIDE DEF r
  <2> QED  BY <2>1, <2>2, SchedulingMaps, OneRecord
<1>6. CASE RemoveAccount(a)
  <2>1. usage' = [usage EXCEPT ![a] = NoUsage] /\ SchedulePersist
    BY <1>6 DEF RemoveAccount
  <2>2. NoUsage.count <= usage[a].count
    BY <1>u DEF NoUsage
  <2> QED  BY <2>1, <2>2, SchedulingMaps, OneRecord
<1>7. CASE LiftRateLimit(a)
  <2>1. UNCHANGED usage /\ SchedulePersist
    BY <1>7 DEF LiftRateLimit
  <2> QED  BY <2>1, SchedulingMaps, NoRecord
<1>8. CASE RecordUsage(a)
  <2>1. usage' = [usage EXCEPT ![a] = Counted(usage[a])] /\ SchedulePersist
    BY <1>8 DEF RecordUsage
  <2> QED  BY <2>1, SchedulingMaps, CountingMaps
<1>9. CASE ResetUsageOf(a)
  <2> DEFINE r == Cleared(usage[a])
  <2>1. usage' = [usage EXCEPT ![a] = r] /\ SchedulePersist
    BY <1>9 DEF ResetUsageOf
  <2>2. r.count <= usage[a].count
    BY <1>u, CountsOf
  <2> HIDE DEF r
  <2> QED  BY <2>1, <2>2, SchedulingMaps, OneRecord
<1> QED
  BY <1>1, <1>2, <1>3, <1>4, <1>5, <1>6, <1>7, <1>8, <1>9 DEF AccountStep

\* Starting loads what the file holds, which rolling the windows does not change.
LEMMA RestartMaps ==
  ASSUME TypeOK, TypeOK', NEW flushed \in BOOLEAN, Restart(flushed)
  PROVE  Pool!PoolNext
<1>1. /\ disk' = IF flushed THEN [entry |-> entry, usage |-> usage] ELSE disk
      /\ usage' = Rolled(disk'.usage, now)
  BY DEF Restart
<1>2. disk'.usage \in [Account -> Usage] /\ now \in Nat
  BY DEF TypeOK, File
<1>3. Live' = Saved'
  BY <1>1, <1>2, RolledAlike, TotalAlike DEF Live, Saved
<1>4. Saved' = IF flushed THEN Live ELSE Saved
  <2>1. CASE flushed
    BY <1>1, <2>1 DEF Saved, Live
  <2>2. CASE ~flushed
    BY <1>1, <2>2 DEF Saved
  <2> QED  BY <2>1, <2>2
<1>5. Pool!Reload(flushed)
  BY <1>3, <1>4 DEF Pool!Reload, Live, Saved
<1> QED  BY <1>5 DEF Pool!PoolNext

\* Every step is one of the pool or leaves it alone.
LEMMA StepMaps ==
  ASSUME TypeOK, TypeOK', [Next]_vars
  PROVE  [Pool!PoolNext]_(Pool!pool)
<1>1. ASSUME NEW a \in Account, AccountStep(a) PROVE Pool!PoolNext
  BY <1>1, AccountStepMaps
<1>2. CASE ClearToken
  <2>1. usage' = [a \in Account |-> NoUsage] /\ PersistNow
    BY <1>2 DEF ClearToken
  <2>2. CountsNoMore(usage, usage')
    BY <2>1 DEF CountsNoMore, NoUsage, TypeOK, Usage
  <2> QED  BY <2>1, <2>2, PersistingMaps, ForgettingMaps DEF TypeOK
<1>3. CASE Read
  <2>1. CountsAlike(usage, usage')
    BY <1>3, RolledAlike DEF Read, TypeOK
  <2>2. Live' = Live
    BY <2>1, TotalAlike DEF Live
  <2>3. Saved' = Saved
    BY <1>3 DEF Read, SchedulePersist, files, Saved
  <2> QED  BY <2>2, <2>3 DEF Pool!pool, Live, Saved
<1>4. CASE PersistTimer
  <2>1. UNCHANGED usage /\ PersistNow
    BY <1>4 DEF PersistTimer, accounts
  <2> QED  BY <2>1, PersistingMaps, NoRecord
<1>5. CASE Tick \/ UNCHANGED vars
  <2>1. UNCHANGED <<usage, disk>>
    BY <1>5 DEF Tick, vars, accounts, files
  <2> QED  BY <2>1 DEF Pool!pool
<1>6. ASSUME NEW flushed \in BOOLEAN, Restart(flushed) PROVE Pool!PoolNext
  BY <1>6, RestartMaps
<1> QED
  BY <1>1, <1>2, <1>3, <1>4, <1>5, <1>6 DEF Next

-----------------------------------------------------------------------------
(* The store implements the counts of its accounts *)

InPool == OfAccounts(entry, usage)

InFile == OfAccounts(disk.entry, disk.usage)

\* An account that is added starts with no usage.
Clean(E, u) == \A b \in Account : ~Present(E, b) => u[b].count = 0

BothClean == Clean(entry, usage) /\ Clean(disk.entry, disk.usage)

SamePresence(E, F) == \A b \in Account : Present(F, b) <=> Present(E, b)

\* A step of the store, seen from the accounts' counts.
CountsKept == [Counts!CountsNext]_(Counts!counts) /\ BothClean'

LEMMA OfAccountsAlike ==
  ASSUME NEW E, NEW F, NEW u, NEW v, SamePresence(E, F), CountsAlike(u, v)
  PROVE  OfAccounts(F, v) = OfAccounts(E, u) /\ (Clean(E, u) => Clean(F, v))
BY DEF OfAccounts, SamePresence, CountsAlike, Clean

LEMMA SavingCounts ==
  ASSUME PersistNow, BothClean, Clean(entry', usage')
  PROVE  InFile' \in {InFile, InPool'} /\ BothClean'
<1>1. CASE disk' = disk
  BY <1>1 DEF InFile, BothClean
<1>2. CASE disk' = [entry |-> entry', usage |-> usage']
  <2>1. disk'.entry = entry' /\ disk'.usage = usage'
    BY <1>2
  <2>2. QED
    BY <2>1 DEF InFile, InPool, BothClean
<1>3. QED
  BY <1>1, <1>2 DEF PersistNow

LEMMA SchedulingCounts ==
  ASSUME SchedulePersist, BothClean, Clean(entry', usage')
  PROVE  InFile' = InFile /\ BothClean'
BY DEF SchedulePersist, InFile, BothClean

\* What leaves the accounts and their counts alone.
LEMMA CountsAlone ==
  ASSUME BothClean, SamePresence(entry, entry'), CountsAlike(usage, usage'),
         PersistNow \/ SchedulePersist
  PROVE  CountsKept
<1>1. InPool' = InPool /\ Clean(entry', usage')
  BY OfAccountsAlike DEF BothClean, InPool
<1>2. InFile' \in {InFile, InPool'} /\ BothClean'
  BY <1>1, SavingCounts, SchedulingCounts
<1>3. CASE InFile' = InFile
  BY <1>1, <1>2, <1>3 DEF CountsKept, Counts!counts, InPool, InFile
<1>4. CASE InFile' = InPool'
  <2>1. Counts!PersistCounts
    BY <1>1, <1>4 DEF Counts!PersistCounts, InPool, InFile
  <2>2. QED
    BY <1>2, <2>1 DEF CountsKept, Counts!CountsNext
<1>5. QED
  BY <1>2, <1>3, <1>4

\* What marks, limits and tokens do to the presence of the accounts.
LEMMA PresenceOf ==
  ASSUME NEW E \in [Account -> Entry], NEW a \in Account, Present(E, a), NEW s \in Status,
         NEW until \in Nat, NEW exp \in Nat, NEW t \in Nat
  PROVE  /\ SamePresence(E, MarkStatus(E, a, s))
         /\ SamePresence(E, MarkRateLimited(E, a, until))
         /\ SamePresence(E, ClearRateLimit(E, a))
         /\ SamePresence(E, ResetUsage(E, a))
         /\ SamePresence(E, ReplaceToken(E, a, exp, NoPlan, t))
         /\ SamePresence(E, UpdateToken(E, a, exp, NoPlan, t))
<1>1. TokenStatus(exp, t) \in Status
  BY DEF TokenStatus, Status
<1>2. SamePresence(E, ReplaceToken(E, a, exp, NoPlan, t))
  BY <1>1 DEF SamePresence, ReplaceToken, Present, Entry
<1>3. SamePresence(E, UpdateToken(E, a, exp, NoPlan, t))
  BY <1>1 DEF SamePresence, UpdateToken, Present, Entry
<1>4. SamePresence(E, MarkStatus(E, a, s))
  BY DEF SamePresence, MarkStatus, Present, Entry
<1>5. SamePresence(E, MarkRateLimited(E, a, until))
  BY DEF SamePresence, MarkRateLimited, Present, Entry, Status
<1>6. SamePresence(E, ClearRateLimit(E, a))
  BY DEF SamePresence, ClearRateLimit, Present, Entry, Status
<1>7. SamePresence(E, ResetUsage(E, a))
  BY DEF SamePresence, ResetUsage, Present, Entry
<1>8. QED
  BY <1>2, <1>3, <1>4, <1>5, <1>6, <1>7

LEMMA AlikeReflexive ==
  ASSUME NEW u PROVE CountsAlike(u, u)
BY DEF CountsAlike

\* A request counted on a.
LEMMA CountingCounts ==
  ASSUME TypeOK, TypeOK', BothClean, NEW a \in Account, Present(entry, a),
         SamePresence(entry, entry'), usage' = [usage EXCEPT ![a] = Counted(usage[a])],
         SchedulePersist
  PROVE  CountsKept
<1>1. usage'[a].count = usage[a].count + 1 /\ \A b \in Account \ {a} : usage'[b] = usage[b]
  BY DEF TypeOK, Counted, Usage
<1>2. InPool' = [InPool EXCEPT ![a] = InPool[a] + 1] /\ a \in DOMAIN InPool
  <2>1. PICK there \in SUBSET Account :
            /\ there = {b \in Account : Present(entry, b)}
            /\ there = {b \in Account : Present(entry', b)}
    BY DEF SamePresence
  <2>2. /\ InPool = [b \in there |-> usage[b].count]
        /\ InPool' = [b \in there |-> usage'[b].count]
        /\ a \in there
    BY <2>1 DEF InPool, OfAccounts
  <2>3. QED
    BY <1>1, <2>2
<1>3. Clean(entry', usage')
  BY <1>1 DEF BothClean, Clean, SamePresence
<1>4. InFile' = InFile /\ BothClean'
  BY <1>3, SchedulingCounts
<1>5. Counts!CountOn(a)
  BY <1>2, <1>4 DEF Counts!CountOn, InPool, InFile
<1>6. QED
  BY <1>4, <1>5 DEF CountsKept, Counts!CountsNext

LEMMA AccountStepCounts ==
  ASSUME TypeOK, TypeOK', BothClean, NEW a \in Account, AccountStep(a)
  PROVE  CountsKept
<1>1. /\ entry \in [Account -> Entry] /\ usage \in [Account -> Usage]
      /\ usage[a] \in Usage /\ now \in Nat /\ CountsAlike(usage, usage)
      /\ "active" \in Status /\ 0 \in Nat
  BY AlikeReflexive DEF TypeOK, Status
<1>2. ASSUME NEW life \in Lifetimes, AddAccount(a, life) PROVE CountsKept
  <2>1. /\ entry' = NewEntry(entry, a, now + life, NoPlan, now) /\ usage' = usage
        /\ ~Present(entry, a) /\ PersistNow
    BY <1>2 DEF AddAccount, Present, Status
  <2>2. Present(entry', a) /\ \A b \in Account \ {a} : entry'[b] = entry[b]
    BY <1>1, <2>1 DEF NewEntry, Present, TokenStatus, Status
  <2>3. /\ InPool' = [b \in DOMAIN InPool \cup {a} |-> IF b = a THEN 0 ELSE InPool[b]]
        /\ a \notin DOMAIN InPool
    BY <2>1, <2>2 DEF InPool, OfAccounts, Present, BothClean, Clean
  <2>4. Clean(entry', usage')
    BY <2>1, <2>2 DEF BothClean, Clean, Present
  <2>5. InFile' \in {InFile, InPool'} /\ BothClean'
    BY <2>1, <2>4, SavingCounts
  <2>6. Counts!AddTo(a)
    BY <2>3, <2>5 DEF Counts!AddTo, InPool, InFile
  <2>7. QED
    BY <2>5, <2>6 DEF CountsKept, Counts!CountsNext
<1>3. ASSUME NEW life \in Lifetimes, LoginAgain(a, life) \/ TokenRefreshed(a, life)
      PROVE  CountsKept
  <2>1. now + life \in Nat
    BY <1>1, StoreAssumption
  <2>2. /\ Present(entry, a) /\ usage' = usage /\ PersistNow
        /\ \/ entry' = ReplaceToken(entry, a, now + life, NoPlan, now)
           \/ entry' = UpdateToken(entry, a, now + life, NoPlan, now)
    BY <1>3 DEF LoginAgain, TokenRefreshed
  <2>3. SamePresence(entry, entry')
    BY <1>1, <2>1, <2>2, PresenceOf
  <2>4. QED
    BY <1>1, <2>2, <2>3, CountsAlone
<1>4. ASSUME NEW s \in Marks, Mark(a, s) PROVE CountsKept
  <2>1. /\ Present(entry, a) /\ usage' = usage /\ SchedulePersist
        /\ entry' = MarkStatus(entry, a, s) /\ s \in Status
    BY <1>4, StoreAssumption DEF Mark
  <2>2. SamePresence(entry, entry')
    BY <1>1, <2>1, PresenceOf
  <2>3. QED
    BY <1>1, <2>1, <2>2, CountsAlone
<1>5. ASSUME NEW backoff \in Backoffs, NEW countRequest \in BOOLEAN,
             RateLimit(a, backoff, countRequest)
      PROVE  CountsKept
  <2>1. now + backoff \in Nat
    BY <1>1, StoreAssumption
  <2>2. /\ Present(entry, a) /\ SchedulePersist
        /\ entry' = MarkRateLimited(entry, a, now + backoff)
        /\ usage' = IF countRequest THEN [usage EXCEPT ![a] = Counted(@)] ELSE usage
    BY <1>5 DEF RateLimit
  <2>3. SamePresence(entry, entry')
    BY <1>1, <2>1, <2>2, PresenceOf
  <2>4. CASE countRequest
    BY <2>2, <2>3, <2>4, CountingCounts
  <2>5. CASE ~countRequest
    BY <1>1, <2>2, <2>3, <2>5, CountsAlone
  <2>6. QED
    BY <2>4, <2>5
<1>6. ASSUME NEW backoff \in Backoffs, QuotaExhausted(a, backoff) PROVE CountsKept
  <2>1. now + backoff \in Nat
    BY <1>1, StoreAssumption
  <2>2. /\ Present(entry, a) /\ usage' = usage /\ SchedulePersist
        /\ entry' = MarkRateLimited(entry, a, now + backoff)
    BY <1>6 DEF QuotaExhausted, QuotaMarkable, MarkQuotaExhausted, Present, Status
  <2>3. SamePresence(entry, entry')
    BY <1>1, <2>1, <2>2, PresenceOf
  <2>4. QED
    BY <1>1, <2>2, <2>3, CountsAlone
<1>7. ASSUME NEW ahead \in Windows, NEW len \in Lengths, SyncWindow(a, now + ahead, len)
      PROVE  CountsKept
  <2>1. /\ usage' = [usage EXCEPT ![a] = WindowSynced(@, now + ahead, len)]
        /\ entry' = entry /\ SchedulePersist
    BY <1>7 DEF SyncWindow
  <2>2. CountsAlike(usage, usage')
    BY <1>1, <2>1, CountsOf DEF CountsAlike
  <2>3. QED
    BY <2>1, <2>2, CountsAlone DEF SamePresence
<1>8. CASE RemoveAccount(a)
  <2>1. /\ entry' = RemoveEntry(entry, a) /\ usage' = [usage EXCEPT ![a] = NoUsage]
        /\ Present(entry, a) /\ SchedulePersist
    BY <1>8 DEF RemoveAccount
  <2>2. ~Present(entry', a) /\ \A b \in Account \ {a} : entry'[b] = entry[b]
    BY <1>1, <2>1 DEF RemoveEntry, Removed, Present, Status
  <2>3. usage'[a].count = 0 /\ \A b \in Account \ {a} : usage'[b] = usage[b]
    BY <1>1, <2>1 DEF NoUsage
  <2>4. InPool' = [b \in DOMAIN InPool \ {a} |-> InPool[b]]
    BY <2>2, <2>3 DEF InPool, OfAccounts, Present
  <2>5. Clean(entry', usage')
    BY <2>2, <2>3 DEF BothClean, Clean, Present
  <2>6. InFile' = InFile /\ BothClean'
    BY <2>1, <2>5, SchedulingCounts
  <2>7. Counts!RemoveOf(a)
    BY <2>4, <2>6 DEF Counts!RemoveOf, InPool, InFile
  <2>8. QED
    BY <2>6, <2>7 DEF CountsKept, Counts!CountsNext
<1>9. CASE LiftRateLimit(a)
  <2>1. /\ Present(entry, a) /\ usage' = usage /\ SchedulePersist
        /\ entry' = ClearRateLimit(entry, a)
    BY <1>9 DEF LiftRateLimit
  <2>2. SamePresence(entry, entry')
    BY <1>1, <2>1, PresenceOf
  <2>3. QED
    BY <1>1, <2>1, <2>2, CountsAlone
<1>10. CASE RecordUsage(a)
  <2>1. /\ Present(entry, a) /\ entry' = entry /\ SchedulePersist
        /\ usage' = [usage EXCEPT ![a] = Counted(@)]
    BY <1>10 DEF RecordUsage
  <2>2. QED
    BY <2>1, CountingCounts DEF SamePresence
<1>11. CASE ResetUsageOf(a)
  <2>1. /\ entry' = ResetUsage(entry, a) /\ usage' = [usage EXCEPT ![a] = Cleared(@)]
        /\ Present(entry, a) /\ SchedulePersist
    BY <1>11 DEF ResetUsageOf
  <2>2. SamePresence(entry, entry')
    BY <1>1, <2>1, PresenceOf
  <2>3. usage'[a].count = 0 /\ \A b \in Account \ {a} : usage'[b] = usage[b]
    BY <1>1, <2>1, CountsOf
  <2>4. InPool' = [InPool EXCEPT ![a] = 0] /\ a \in DOMAIN InPool
    <3>1. PICK there \in SUBSET Account :
              /\ there = {b \in Account : Present(entry, b)}
              /\ there = {b \in Account : Present(entry', b)}
      BY <2>1, <2>2 DEF SamePresence
    <3>2. /\ InPool = [b \in there |-> usage[b].count]
          /\ InPool' = [b \in there |-> usage'[b].count]
          /\ a \in there
      BY <2>1, <2>2, <3>1 DEF InPool, OfAccounts
    <3>3. QED
      BY <2>3, <3>2
  <2>5. Clean(entry', usage')
    BY <2>2, <2>3 DEF BothClean, Clean, SamePresence
  <2>6. InFile' = InFile /\ BothClean'
    BY <2>1, <2>5, SchedulingCounts
  <2>7. Counts!ResetOf(a)
    BY <2>4, <2>6 DEF Counts!ResetOf, InPool, InFile
  <2>8. QED
    BY <2>6, <2>7 DEF CountsKept, Counts!CountsNext
<1>12. QED
  BY <1>2, <1>3, <1>4, <1>5, <1>6, <1>7, <1>8, <1>9, <1>10, <1>11 DEF AccountStep

\* Starting loads what the file holds.
LEMMA RestartCounts ==
  ASSUME TypeOK, TypeOK', BothClean, NEW flushed \in BOOLEAN, Restart(flushed)
  PROVE  CountsKept
<1>1. /\ disk' = IF flushed THEN [entry |-> entry, usage |-> usage] ELSE disk
      /\ entry' = Refreshed(disk'.entry, now)
      /\ usage' = Rolled(disk'.usage, now)
  BY DEF Restart
<1>2. disk'.entry \in [Account -> Entry] /\ disk'.usage \in [Account -> Usage] /\ now \in Nat
  BY DEF TypeOK, File
<1>3. SamePresence(disk'.entry, entry') /\ CountsAlike(disk'.usage, usage')
  BY <1>1, <1>2, RefreshedKeeps, RolledAlike DEF SamePresence
<1>4. /\ disk'.entry = (IF flushed THEN entry ELSE disk.entry)
      /\ disk'.usage = (IF flushed THEN usage ELSE disk.usage)
  BY <1>1
<1>5. Clean(disk'.entry, disk'.usage)
  BY <1>4 DEF BothClean
<1>6. InPool' = InFile' /\ BothClean'
  BY <1>3, <1>5, OfAccountsAlike DEF BothClean, InPool, InFile
<1>7. InFile' = IF flushed THEN InPool ELSE InFile
  BY <1>4 DEF InPool, InFile
<1>8. Counts!ReloadCounts(flushed)
  BY <1>6, <1>7 DEF Counts!ReloadCounts, InPool, InFile
<1>9. QED
  BY <1>6, <1>8 DEF CountsKept, Counts!CountsNext

\* Every step is one of the counts or leaves them alone.
LEMMA StepCounts ==
  ASSUME TypeOK, TypeOK', BothClean, [Next]_vars
  PROVE  CountsKept
<1>1. ASSUME NEW a \in Account, AccountStep(a) PROVE CountsKept
  BY <1>1, AccountStepCounts
<1>2. CASE ClearToken
  <2>1. entry' = ClearEntries(entry) /\ usage' = [a \in Account |-> NoUsage] /\ PersistNow
    BY <1>2 DEF ClearToken
  <2>2. \A a \in Account : ~Present(entry', a)
    BY <2>1 DEF ClearEntries, Removed, Present, Status
  <2>3. Clean(entry', usage')
    BY <2>1 DEF Clean, NoUsage
  <2>4. InPool' = [b \in {} |-> 0]
    BY <2>2 DEF InPool, OfAccounts, Present
  <2>5. InFile' \in {InFile, InPool'} /\ BothClean'
    BY <2>1, <2>3, SavingCounts
  <2>6. Counts!RemoveAll
    BY <2>4, <2>5 DEF Counts!RemoveAll, InPool, InFile
  <2>7. QED
    BY <2>5, <2>6 DEF CountsKept, Counts!CountsNext
<1>3. CASE Read
  <2>1. SamePresence(entry, entry') /\ CountsAlike(usage, usage')
    BY <1>3, RefreshedKeeps, RolledAlike DEF Read, TypeOK, SamePresence
  <2>2. CASE usage' # usage
    BY <1>3, <2>1, <2>2, CountsAlone DEF Read
  <2>3. CASE usage' = usage
    <3>1. InPool' = InPool /\ Clean(entry', usage')
      BY <2>1, OfAccountsAlike DEF BothClean, InPool
    <3>2. disk' = disk
      BY <1>3, <2>3 DEF Read, files
    <3>3. QED
      BY <3>1, <3>2 DEF CountsKept, BothClean, Counts!counts, InPool
  <2>4. QED
    BY <2>2, <2>3
<1>4. CASE PersistTimer
  <2>1. entry' = entry /\ usage' = usage /\ PersistNow
    BY <1>4 DEF PersistTimer, accounts
  <2>2. QED
    BY <2>1, AlikeReflexive, CountsAlone DEF SamePresence
<1>5. CASE Tick \/ UNCHANGED vars
  <2>1. UNCHANGED <<entry, usage, disk>>
    BY <1>5 DEF Tick, vars, accounts, files
  <2>2. QED
    BY <2>1 DEF CountsKept, BothClean, Counts!counts, Clean, Present
<1>6. ASSUME NEW flushed \in BOOLEAN, Restart(flushed) PROVE CountsKept
  BY <1>6, RestartCounts
<1>7. QED
  BY <1>1, <1>2, <1>3, <1>4, <1>5, <1>6 DEF Next

LEMMA InitCounts ==
  ASSUME Init PROVE Counts!CountsInit /\ BothClean
<1>1. TypeOK
  BY InitOK DEF IInv
<1>2. disk.entry = entry /\ disk.usage = usage
  BY DEF Init
<1>3. PICK n \in 0 .. MaxCount :
         usage = [a \in Account |-> IF Present(entry, a) THEN [NoUsage EXCEPT !.count = n]
                                    ELSE NoUsage]
  BY DEF Init
<1>4. Clean(entry, usage)
  BY <1>3 DEF Clean, NoUsage
<1>5. \A a \in Account : usage[a].count \in Nat
  BY <1>1 DEF TypeOK, Usage
<1>6. /\ DOMAIN InPool \subseteq Account /\ InPool \in [DOMAIN InPool -> Nat]
      /\ InFile = InPool
  BY <1>2, <1>5 DEF InPool, InFile, OfAccounts
<1>7. QED
  BY <1>2, <1>4, <1>6 DEF Counts!CountsInit, InPool, InFile, BothClean

-----------------------------------------------------------------------------
\* The store implements the counts of its accounts, and summed up the pool that
\* the statistics rely on: requests are counted one by one on their accounts,
\* usage is forgotten with an account or its counters and no other's, and the
\* file holds what the pool held.
THEOREM StoreIsPool == Spec => CountsLikePool
<1>1. Init => Pool!PoolInit
  <2> SUFFICES ASSUME Init PROVE Pool!PoolInit
    OBVIOUS
  <2>1. TypeOK
    BY InitOK DEF IInv
  <2>2. Total(usage) \in Nat /\ Total(usage) <= MaxCount /\ disk.usage = usage
    BY <2>1, RequestsFinite DEF Init, TypeOK
  <2> QED  BY <2>2, StoreAssumption DEF Pool!PoolInit
<1>2. IInv /\ IInv' /\ [Next]_vars => [Pool!PoolNext]_(Pool!pool)
  BY StepMaps DEF IInv
<1>3. Init => Counts!CountsInit /\ BothClean
  BY InitCounts
<1>4. IInv /\ IInv' /\ BothClean /\ [Next]_vars
         => [Counts!CountsNext]_(Counts!counts) /\ BothClean'
  BY StepCounts DEF IInv, CountsKept
<1> QED
  BY <1>1, <1>2, <1>3, <1>4, Inductive, PTL
     DEF Spec, CountsLikePool, Pool!PoolSpec, Counts!CountsSpec
===============================================================================
