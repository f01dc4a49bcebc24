-------------------------- MODULE TokenRefresh_proofs --------------------------
(***************************************************************************)
(* Theorems about TokenRefresh, for every finite set of accounts, every    *)
(* limit the operator may set, and any number of attempts.                 *)
(*                                                                         *)
(* One turn of the scheduler runs its operators one in another, so the     *)
(* invariant is stated of the record they pass on.                         *)
(***************************************************************************)
EXTENDS TokenRefresh, FiniteSetTheorems, SequenceTheorems, WellFoundedInduction, TLAPS

Task == [pc : {"none", "queued", "woken", "calling", "sleeping"},
         attempt : 1 .. MaxAttempts, hits : 0 .. PermanentThreshold]

SchedulerState ==
    [entry : [Account -> Entry], task : [Account -> Task],
     running : Int, queue : Seq(Account),
     timer : [Account -> BOOLEAN], orphans : [Account -> Nat],
     call : [Account \X Holder -> CallState], live : [Account -> Place]]

\* The statuses, tasks and tokens of an account fit together: it is refreshing
\* only with a refresh, unless it is one of the lost; a call of the scheduler is
\* out while its task is calling; a good copy travels only while no answer has
\* its successor, and a single-use one is in the answer that was granted last.
AccountOK(lost, S, a) ==
    /\ S.entry[a].status = "refreshing" => S.task[a].pc # "none" \/ a \in lost
    /\ S.task[a].hits < PermanentThreshold
    /\ S.task[a].pc = "sleeping" => S.task[a].attempt < MaxAttempts
    /\ S.call[<<a, "scheduler">>] # "idle" <=> S.task[a].pc = "calling"
    /\ S.live[a] \in Caller => a \in OneTime /\ S.call[<<a, S.live[a]>>] = "granted"
    /\ \A w \in Holder : S.call[<<a, w>>] = "good" => S.live[a] \notin Caller
    /\ \A w \in Caller : S.call[<<a, w>>] = "granted" /\ a \in OneTime => S.live[a] = w

WorkingIn(S) == {a \in Account : S.task[a].pc \in {"calling", "sleeping"}}

QueuedIn(S) == {a \in Account : S.task[a].pc = "queued"}

WokenIn(S) == {a \in Account : S.task[a].pc = "woken"}

ClaimedIn(S) == S.running + Cardinality(WokenIn(S))

\* held is 1 between the end of a refresh and the release of its slot.
Semaphore(S, held) ==
    /\ S.running = Cardinality(WorkingIn(S)) + held
    /\ \A i, j \in DOMAIN S.queue : S.queue[i] = S.queue[j] => i = j
    /\ {S.queue[i] : i \in DOMAIN S.queue} = QueuedIn(S)
    /\ S.queue # <<>> => S.running > 0 \/ WokenIn(S) # {}

\* From S to T nobody leaves the queue before one who waited longer.
InOrder(S, T) ==
    \A i, j \in DOMAIN S.queue :
       i < j /\ T.task[S.queue[j]].pc # "queued" => T.task[S.queue[i]].pc # "queued"

\* A refresh in its slot ends or goes on.
GoesOn(t, u) ==
    \/ u.pc = "none"
    \/ /\ u.pc \in {"calling", "sleeping"}
       /\ u.attempt = IF t.pc = "sleeping" /\ u.pc = "calling" THEN t.attempt + 1 ELSE t.attempt

Serves(S, T) ==
    /\ InOrder(S, T)
    /\ \A a \in WorkingIn(S) : GoesOn(S.task[a], T.task[a])

\* Admitting a refresh, or a waiter, leaves the others at work alone.
Admits(S, T) ==
    /\ InOrder(S, T)
    /\ \A a \in WorkingIn(S) : T.task[a] = S.task[a]

Consistent(lost, S, held) ==
    /\ S \in SchedulerState
    /\ \A a \in Account : AccountOK(lost, S, a)
    /\ Semaphore(S, held)

\* The inductive invariant.  (lost is any set: all accounts for the invariants,
\* the accounts stranded now for what a step may do.)
IInv(lost) ==
    /\ Consistent(lost, Here, 0)
    /\ limit \in Limits
    /\ outside \in 0 .. MaxOutside

-----------------------------------------------------------------------------
(* Sets of numbers and sets of accounts *)

\* The accounts at work, waiting or woken up are finitely many.
LEMMA Few ==
  ASSUME NEW S
  PROVE  /\ IsFiniteSet(WorkingIn(S)) /\ Cardinality(WorkingIn(S)) \in Nat
         /\ IsFiniteSet(QueuedIn(S)) /\ Cardinality(QueuedIn(S)) \in Nat
         /\ IsFiniteSet(WokenIn(S)) /\ Cardinality(WokenIn(S)) \in Nat
<1>1. /\ WorkingIn(S) \in SUBSET Account
      /\ QueuedIn(S) \in SUBSET Account
      /\ WokenIn(S) \in SUBSET Account
  BY DEF WorkingIn, QueuedIn, WokenIn
<1>2. QED
  BY <1>1, RefreshAssumption, FS_Subset, FS_CardinalityType

\* The timers, the queue and the counter are not about one account.
LEMMA SameAccounts ==
  ASSUME NEW lost, NEW S, NEW T,
         T.task = S.task, T.entry = S.entry, T.call = S.call, T.live = S.live
  PROVE  /\ WorkingIn(T) = WorkingIn(S) /\ QueuedIn(T) = QueuedIn(S)
         /\ WokenIn(T) = WokenIn(S)
         /\ \A a \in Account : AccountOK(lost, S, a) => AccountOK(lost, T, a)
<1>1. ASSUME NEW a \in Account, AccountOK(lost, S, a) PROVE AccountOK(lost, T, a)
  BY <1>1, Zenon DEF AccountOK
<1>2. QED
  BY <1>1 DEF WorkingIn, QueuedIn, WokenIn

LEMMA ClaimedInt ==
  ASSUME NEW S \in SchedulerState
  PROVE  ClaimedIn(S) \in Int
<1>1. S.running \in Int
  BY DEF SchedulerState
<1>2. QED
  BY <1>1, Few DEF ClaimedIn

LEMMA SameClaims ==
  ASSUME NEW S \in SchedulerState, NEW T, T.task = S.task, T.running = S.running
  PROVE  ClaimedIn(T) = ClaimedIn(S) /\ ClaimedIn(T) <= ClaimedIn(S)
<1>1. WokenIn(T) = WokenIn(S) /\ S.running \in Int
  BY DEF WokenIn, SchedulerState
<1>2. QED
  BY <1>1, Few DEF ClaimedIn

-----------------------------------------------------------------------------
(* Entries *)

\* What becomes of the entries in the scheduler's hands: the types are kept and
\* no entry but the one at hand is touched, which leaves the transient status.
LEMMA EntriesKept ==
  ASSUME NEW E \in [Account -> Entry], NEW a \in Account,
         NEW F \in {UpdateToken(E, a, 1, NoPlan, 0), RemoveEntry(E, a)}
                     \cup {MarkStatus(E, a, s) : s \in Status \ {"refreshing"}}
  PROVE  /\ F \in [Account -> Entry]
         /\ F[a].status # "refreshing"
         /\ \A b \in Account : F[b].status = "refreshing" => E[b].status = "refreshing"
<1> DEFINE token == IF E[a].status \in {"disabled", "banned"} THEN E[a].status ELSE "active"
           e == [E[a] EXCEPT !.status = token, !.exp = 1, !.plan = E[a].plan]
<1>1. E[a] \in Entry /\ \A b \in Account : E[b] \in Entry
  OBVIOUS
<1>2. Present(E, a) \/ E[a].status \notin Status
  BY DEF Present
<1>3. CASE F = UpdateToken(E, a, 1, NoPlan, 0)
  <2>1. TokenStatus(1, 0) = "active" /\ PlanAfter(E[a], NoPlan) = E[a].plan
    BY DEF TokenStatus, PlanAfter
  <2>2. F = IF Present(E, a) THEN [E EXCEPT ![a] = e] ELSE E
    BY <1>3, <2>1 DEF UpdateToken
  <2>3. e \in Entry /\ e.status # "refreshing"
    BY <1>1 DEF Entry, Status, NoEntry
  <2> HIDE DEF e
  <2>4. QED
    BY <1>1, <1>2, <2>2, <2>3 DEF Status
<1>4. CASE F = RemoveEntry(E, a)
  <2>1. Removed \in Entry /\ Removed.status # "refreshing"
    BY DEF Removed, Entry, NoEntry
  <2>2. QED
    BY <1>1, <1>2, <1>4, <2>1 DEF RemoveEntry, Status
<1>5. ASSUME NEW s \in Status \ {"refreshing"}, F = MarkStatus(E, a, s)
      PROVE  /\ F \in [Account -> Entry]
             /\ F[a].status # "refreshing"
             /\ \A b \in Account : F[b].status = "refreshing" => E[b].status = "refreshing"
  <2>1. [E[a] EXCEPT !.status = s] \in Entry /\ [E[a] EXCEPT !.status = s].status = s
    BY <1>1 DEF Entry
  <2>2. QED
    BY <1>1, <1>2, <1>5, <2>1 DEF MarkStatus, Status
<1>6. QED
  BY <1>3, <1>4, <1>5

\* The case of a status alone.
LEMMA MarkKept ==
  ASSUME NEW E \in [Account -> Entry], NEW a \in Account, NEW s \in Status \ {"refreshing"}
  PROVE  /\ MarkStatus(E, a, s) \in [Account -> Entry]
         /\ MarkStatus(E, a, s)[a].status # "refreshing"
         /\ \A b \in Account : MarkStatus(E, a, s)[b].status = "refreshing" => E[b].status = "refreshing"
<1> DEFINE F == MarkStatus(E, a, s)
<1>1. F \in {MarkStatus(E, a, r) : r \in Status \ {"refreshing"}}
  OBVIOUS
<1> HIDE DEF F
<1>2. /\ F \in [Account -> Entry]
      /\ F[a].status # "refreshing"
      /\ \A b \in Account : F[b].status = "refreshing" => E[b].status = "refreshing"
  BY <1>1, EntriesKept
<1>3. QED
  BY <1>2 DEF F

-----------------------------------------------------------------------------
(* Skip and Begin *)

\* The account has nothing to do: it leaves the scheduler.
LEMMA SkipFields ==
  ASSUME NEW S \in SchedulerState, NEW b \in Account
  PROVE  LET T == Skip(S, b)
         IN  /\ T \in SchedulerState
             /\ T.running = S.running /\ T.queue = S.queue
             /\ T.call = S.call /\ T.live = S.live
             /\ T.task = [S.task EXCEPT ![b] = NoTask]
             /\ T.entry[b].status # "refreshing"
             /\ \A a \in Account :
                   T.entry[a].status = "refreshing" => S.entry[a].status = "refreshing"
<1> DEFINE E == MarkStatus(S.entry, b, "expired")
           U == [S.task EXCEPT ![b] = NoTask]
           T == Skip(S, b)
<1>1. /\ S.entry \in [Account -> Entry] /\ S.task \in [Account -> Task]
      /\ NoTask \in Task
  BY RefreshAssumption DEF SchedulerState, Task, NoTask
<1>2. U \in [Account -> Task]
  BY <1>1
<1>3. /\ E \in [Account -> Entry] /\ E[b].status # "refreshing"
      /\ \A a \in Account : E[a].status = "refreshing" => S.entry[a].status = "refreshing"
  <2>1. "expired" \in Status \ {"refreshing"}
    BY DEF Status
  <2>2. QED
    BY <1>1, <2>1, MarkKept
<1>4. T = [S EXCEPT !.entry = E, !.task = U]
  BY DEF Skip, SchedulerState
<1> HIDE DEF E, U, T
<1>5. /\ T \in SchedulerState
      /\ T.running = S.running /\ T.queue = S.queue
      /\ T.call = S.call /\ T.live = S.live
      /\ T.task = U /\ T.entry = E
  BY <1>2, <1>3, <1>4 DEF SchedulerState
<1>6. QED
  BY <1>3, <1>5 DEF T, U

\* The refresh of b starts.
LEMMA BeginFields ==
  ASSUME NEW S \in SchedulerState, NEW b \in Account
  PROVE  LET T == Begin(S, b)
         IN  /\ T \in SchedulerState
             /\ T.running = S.running /\ T.queue = S.queue /\ T.live = S.live
             /\ T.call = [S.call EXCEPT ![<<b, "scheduler">>] = Sent(S.live, b)]
             /\ T.task = [S.task EXCEPT ![b] = [NoTask EXCEPT !.pc = "calling"]]
             /\ \A a \in Account :
                   T.entry[a].status = "refreshing" => S.entry[a].status = "refreshing" \/ a = b
<1> DEFINE E == MarkStatus(S.entry, b, "refreshing")
           U == [S.task EXCEPT ![b] = [NoTask EXCEPT !.pc = "calling"]]
           C == [S.call EXCEPT ![<<b, "scheduler">>] = Sent(S.live, b)]
           T == Begin(S, b)
<1>1. /\ S.entry \in [Account -> Entry] /\ S.task \in [Account -> Task]
      /\ S.call \in [Account \X Holder -> CallState]
      /\ Sent(S.live, b) \in CallState
  BY DEF SchedulerState, Sent, CallState
<1>0. [NoTask EXCEPT !.pc = "calling"] \in Task
  BY RefreshAssumption DEF Task, NoTask
<1>2. U \in [Account -> Task]
  BY <1>0, <1>1
<1>3. C \in [Account \X Holder -> CallState]
  BY <1>1
<1>4. /\ E \in [Account -> Entry]
      /\ \A a \in Account : E[a].status = "refreshing" => S.entry[a].status = "refreshing" \/ a = b
  BY <1>1 DEF MarkStatus, Entry, Status
<1>5. T = [S EXCEPT !.entry = E, !.task = U, !.call = C]
  BY DEF Begin, SchedulerState
<1> HIDE DEF E, U, C, T
<1>6. /\ T \in SchedulerState
      /\ T.running = S.running /\ T.queue = S.queue /\ T.live = S.live
      /\ T.call = C /\ T.task = U /\ T.entry = E
  BY <1>2, <1>3, <1>4, <1>5 DEF SchedulerState
<1>7. QED
  BY <1>4, <1>6 DEF T, U, C

\* An account that is not at work may leave the scheduler.
LEMMA SkipKeeps ==
  ASSUME NEW lost, NEW S \in SchedulerState, \A a \in Account : AccountOK(lost, S, a),
         NEW b \in Account, S.task[b].pc \in {"none", "woken"}
  PROVE  LET T == Skip(S, b)
         IN  /\ \A a \in Account : AccountOK(lost, T, a)
             /\ WorkingIn(T) = WorkingIn(S) /\ QueuedIn(T) = QueuedIn(S)
             /\ WokenIn(T) = WokenIn(S) \ {b}
<1> DEFINE T == Skip(S, b)
<1>1. /\ T \in SchedulerState
      /\ T.call = S.call /\ T.live = S.live
      /\ T.task = [S.task EXCEPT ![b] = NoTask]
      /\ T.entry[b].status # "refreshing"
      /\ \A a \in Account :
            T.entry[a].status = "refreshing" => S.entry[a].status = "refreshing"
  BY SkipFields
<1> HIDE DEF T
<1>2. /\ T.task[b].pc = "none" /\ T.task[b].hits = 0 /\ 0 < PermanentThreshold
      /\ \A a \in Account \ {b} : T.task[a] = S.task[a]
  <2>1. S.task \in [Account -> Task]
    BY DEF SchedulerState
  <2>2. QED
    BY <1>1, <2>1, RefreshAssumption DEF NoTask
<1>3. ASSUME NEW a \in Account PROVE AccountOK(lost, T, a)
  <2>1. AccountOK(lost, S, a)
    OBVIOUS
  <2>2. CASE a = b
    BY <1>1, <1>2, <2>1, <2>2 DEF AccountOK
  <2>3. CASE a # b
    BY <1>1, <1>2, <2>1, <2>3 DEF AccountOK
  <2>4. QED
    BY <2>2, <2>3
<1>4. /\ WorkingIn(T) = WorkingIn(S) /\ QueuedIn(T) = QueuedIn(S)
      /\ WokenIn(T) = WokenIn(S) \ {b}
  BY <1>2 DEF WorkingIn, QueuedIn, WokenIn
<1>5. QED
  BY <1>3, <1>4 DEF T

\* The account that starts is not at work yet.
LEMMA BeginKeeps ==
  ASSUME NEW lost, NEW S \in SchedulerState, \A a \in Account : AccountOK(lost, S, a),
         NEW b \in Account, S.task[b].pc \notin {"calling", "sleeping"}
  PROVE  LET T == Begin(S, b)
         IN  /\ \A a \in Account : AccountOK(lost, T, a)
             /\ Cardinality(WorkingIn(T)) = Cardinality(WorkingIn(S)) + 1
             /\ QueuedIn(T) = QueuedIn(S) \ {b} /\ WokenIn(T) = WokenIn(S) \ {b}
<1> DEFINE T == Begin(S, b)
<1>1. /\ T \in SchedulerState
      /\ T.live = S.live
      /\ T.call = [S.call EXCEPT ![<<b, "scheduler">>] = Sent(S.live, b)]
      /\ T.task = [S.task EXCEPT ![b] = [NoTask EXCEPT !.pc = "calling"]]
      /\ \A a \in Account :
            T.entry[a].status = "refreshing" => S.entry[a].status = "refreshing" \/ a = b
  BY BeginFields
<1> HIDE DEF T
<1>2. /\ S.task \in [Account -> Task] /\ S.call \in [Account \X Holder -> CallState]
      /\ "scheduler" \in Caller
  BY DEF SchedulerState, Caller, Holder
<1>3. /\ T.task[b].pc = "calling" /\ T.task[b].hits = 0 /\ 0 < PermanentThreshold
      /\ \A a \in Account \ {b} : T.task[a] = S.task[a]
  BY <1>1, <1>2, RefreshAssumption DEF NoTask
<1>4. \A a \in Account, w \in Holder :
         T.call[<<a, w>>] = IF a = b /\ w = "scheduler" THEN Sent(S.live, b) ELSE S.call[<<a, w>>]
  BY <1>1, <1>2
<1>5. ASSUME NEW a \in Account PROVE AccountOK(lost, T, a)
  <2>1. AccountOK(lost, S, a)
    OBVIOUS
  <2>2. CASE a = b
    <3>1. S.call[<<b, "scheduler">>] = "idle"
      BY <2>1, <2>2 DEF AccountOK
    <3>2. Sent(S.live, b) \in {"good", "bad"} /\ (Sent(S.live, b) = "good" => S.live[b] = "pool")
      BY DEF Sent
    <3>3. QED
      BY <1>1, <1>2, <1>3, <1>4, <2>1, <2>2, <3>1, <3>2 DEF AccountOK, Caller, Holder
  <2>3. CASE a # b
    BY <1>1, <1>2, <1>3, <1>4, <2>1, <2>3 DEF AccountOK, Caller, Holder
  <2>4. QED
    BY <2>2, <2>3
<1>6. /\ b \notin WorkingIn(S)
      /\ WorkingIn(T) = WorkingIn(S) \cup {b}
      /\ QueuedIn(T) = QueuedIn(S) \ {b} /\ WokenIn(T) = WokenIn(S) \ {b}
  BY <1>3 DEF WorkingIn, QueuedIn, WokenIn
<1>7. Cardinality(WorkingIn(S) \cup {b}) = Cardinality(WorkingIn(S)) + 1
  BY <1>6, Few, FS_AddElement
<1>8. QED
  BY <1>5, <1>6, <1>7 DEF T

-----------------------------------------------------------------------------
(* The semaphore *)

\* Nothing happens in the queue when everybody in it stays.
LEMMA NobodyLeaves ==
  ASSUME NEW S, NEW held, Semaphore(S, held), NEW T,
         \A a \in QueuedIn(S) : T.task[a].pc = "queued"
  PROVE  InOrder(S, T)
<1>1. \A j \in DOMAIN S.queue : S.queue[j] \in QueuedIn(S)
  BY DEF Semaphore
<1>2. QED
  BY <1>1 DEF InOrder

\* R is S but for the timers, the entries and the calls.
LEMMA AdmitsServes ==
  ASSUME NEW S, NEW R, NEW T, R.task = S.task, R.queue = S.queue, Admits(R, T)
  PROVE  Serves(S, T)
<1>1. InOrder(S, T)
  BY DEF Admits, InOrder
<1>2. ASSUME NEW a \in WorkingIn(S) PROVE GoesOn(S.task[a], T.task[a])
  <2>1. T.task[a] = S.task[a] /\ S.task[a].pc \in {"calling", "sleeping"}
    BY DEF Admits, WorkingIn
  <2>2. QED
    BY <2>1 DEF GoesOn
<1>3. QED
  BY <1>1, <1>2 DEF Serves

LEMMA TasksServe ==
  ASSUME NEW lost, NEW S, NEW held, Consistent(lost, S, held), NEW T, T.task = S.task
  PROVE  Admits(S, T) /\ Serves(S, T)
<1>1. \A a \in QueuedIn(S) : T.task[a].pc = "queued"
  BY DEF QueuedIn
<1>2. InOrder(S, T)
  BY <1>1, NobodyLeaves DEF Consistent
<1>3. Admits(S, T)
  BY <1>2 DEF Admits
<1>4. QED
  BY <1>3, AdmitsServes

\* The slot of a refresh that ended is free, or on its way to the first waiter.
LEMMA SlotReleased ==
  ASSUME NEW lost, NEW S, Consistent(lost, S, 1)
  PROVE  /\ Consistent(lost, ReleaseSlot(S), 0)
         /\ ReleaseSlot(S).running <= S.running
         /\ ClaimedIn(ReleaseSlot(S)) <= ClaimedIn(S)
         /\ InOrder(S, ReleaseSlot(S))
         /\ \A a \in Account \ QueuedIn(S) : ReleaseSlot(S).task[a] = S.task[a]
<1>1. /\ S \in SchedulerState
      /\ \A a \in Account : AccountOK(lost, S, a)
      /\ S.running = Cardinality(WorkingIn(S)) + 1
      /\ \A i, j \in DOMAIN S.queue : S.queue[i] = S.queue[j] => i = j
      /\ {S.queue[i] : i \in DOMAIN S.queue} = QueuedIn(S)
  BY DEF Consistent, Semaphore
<1>2. /\ S.queue \in Seq(Account) /\ S.running \in Int
      /\ S.task \in [Account -> Task]
  BY <1>1 DEF SchedulerState
<1>3. CASE S.queue = <<>>
  <2> DEFINE R == [S EXCEPT !.running = @ - 1]
  <2>1. ReleaseSlot(S) = R
    BY <1>3 DEF ReleaseSlot
  <2>2. S.running - 1 \in Int
    BY <1>2
  <2>3. /\ R \in SchedulerState /\ R.running = S.running - 1
        /\ R.task = S.task /\ R.entry = S.entry /\ R.call = S.call /\ R.live = S.live
        /\ R.queue = S.queue
    BY <1>1, <2>2 DEF SchedulerState
  <2> HIDE DEF R
  <2>4. /\ WorkingIn(R) = WorkingIn(S) /\ QueuedIn(R) = QueuedIn(S) /\ WokenIn(R) = WokenIn(S)
        /\ \A a \in Account : AccountOK(lost, R, a)
    BY <1>1, <2>3, SameAccounts
  <2>5. /\ R.running = Cardinality(WorkingIn(R)) + 0 /\ R.running <= S.running
        /\ ClaimedIn(R) <= ClaimedIn(S)
    BY <1>1, <1>2, <2>3, <2>4, Few DEF ClaimedIn
  <2>6. Semaphore(R, 0)
    BY <1>1, <1>3, <2>3, <2>4, <2>5 DEF Semaphore
  <2>7. InOrder(S, R)
    BY <1>3 DEF InOrder
  <2>8. QED
    BY <2>1, <2>3, <2>4, <2>5, <2>6, <2>7 DEF Consistent
<1>4. CASE S.queue # <<>>
  <2> DEFINE n == Len(S.queue)
             h == Head(S.queue)
             rest == Tail(S.queue)
             t == [S.task[h] EXCEPT !.pc = "woken"]
             U == [S.task EXCEPT ![h] = t]
             R == [S EXCEPT !.running = @ - 1, !.queue = Tail(@), !.task[h].pc = "woken"]
  <2>1. ReleaseSlot(S) = R
    BY <1>4 DEF ReleaseSlot
  <2>2. /\ n \in Nat /\ n > 0 /\ DOMAIN S.queue = 1 .. n
        /\ h \in Account /\ h = S.queue[1]
        /\ rest \in Seq(Account) /\ DOMAIN rest = 1 .. n - 1
        /\ \A i \in 1 .. n - 1 : rest[i] = S.queue[i + 1]
    BY <1>2, <1>4
  <2> HIDE DEF n, h, rest
  <2>3. h \in QueuedIn(S) /\ S.task[h].pc = "queued"
    BY <1>1, <2>2 DEF QueuedIn
  <2>4. t \in Task /\ t.pc = "woken" /\ t.hits = S.task[h].hits
    BY <1>2, <2>2 DEF Task
  <2> HIDE DEF t
  <2>5. /\ U \in [Account -> Task] /\ U[h] = t /\ \A a \in Account \ {h} : U[a] = S.task[a]
    BY <1>2, <2>2, <2>4
  <2>6. R = [S EXCEPT !.running = S.running - 1, !.queue = rest, !.task = U]
    BY <1>1, <1>2, <2>2 DEF SchedulerState, rest, t
  <2> HIDE DEF U, R
  <2>7. S.running - 1 \in Int
    BY <1>2
  <2>8. /\ R \in SchedulerState /\ R.running = S.running - 1 /\ R.queue = rest /\ R.task = U
        /\ R.entry = S.entry /\ R.call = S.call /\ R.live = S.live
    BY <1>1, <2>2, <2>5, <2>6, <2>7 DEF SchedulerState
  <2>9. /\ WorkingIn(R) = WorkingIn(S) /\ QueuedIn(R) = QueuedIn(S) \ {h}
        /\ WokenIn(R) = WokenIn(S) \cup {h} /\ h \notin WokenIn(S)
    BY <2>2, <2>3, <2>4, <2>5, <2>8 DEF WorkingIn, QueuedIn, WokenIn
  <2>10. ASSUME NEW a \in Account PROVE AccountOK(lost, R, a)
    <3>1. AccountOK(lost, S, a)
      BY <1>1
    <3>2. CASE a = h
      BY <2>3, <2>4, <2>5, <2>8, <3>1, <3>2 DEF AccountOK
    <3>3. CASE a # h
      BY <2>5, <2>8, <3>1, <3>3 DEF AccountOK
    <3>4. QED
      BY <3>2, <3>3
  <2>11. R.running = Cardinality(WorkingIn(R)) + 0 /\ R.running <= S.running
    BY <1>1, <1>2, <2>8, <2>9, Few
  <2>12. ClaimedIn(R) <= ClaimedIn(S)
    <3>1. Cardinality(WokenIn(R)) = Cardinality(WokenIn(S)) + 1
      BY <2>9, Few, FS_AddElement
    <3>2. QED
      BY <1>2, <2>8, <3>1, Few DEF ClaimedIn
  <2>13. \A i, j \in 1 .. n - 1 : rest[i] = rest[j] => i = j
    <3>1. ASSUME NEW i \in 1 .. n - 1, NEW j \in 1 .. n - 1, rest[i] = rest[j] PROVE i = j
      <4>1. i + 1 \in 1 .. n /\ j + 1 \in 1 .. n /\ S.queue[i + 1] = S.queue[j + 1]
        BY <2>2, <3>1
      <4>2. i + 1 = j + 1
        BY <1>1, <2>2, <4>1
      <4>3. QED
        BY <2>2, <4>2
    <3>2. QED
      BY <3>1
  <2>14. {rest[i] : i \in 1 .. n - 1} = QueuedIn(S) \ {h}
    <3>1. ASSUME NEW i \in 1 .. n - 1 PROVE rest[i] \in QueuedIn(S) \ {h}
      <4>1. i + 1 \in 1 .. n /\ 1 \in 1 .. n /\ i + 1 # 1
        BY <2>2
      <4>2. S.queue[i + 1] \in QueuedIn(S) /\ S.queue[i + 1] # S.queue[1]
        BY <1>1, <2>2, <4>1
      <4>3. QED
        BY <2>2, <4>2
    <3>2. ASSUME NEW x \in QueuedIn(S) \ {h} PROVE \E i \in 1 .. n - 1 : x = rest[i]
      <4>1. PICK m \in 1 .. n : x = S.queue[m]
        BY <1>1, <2>2, <3>2
      <4>2. m - 1 \in 1 .. n - 1 /\ (m - 1) + 1 = m
        BY <2>2, <3>2, <4>1
      <4>3. QED
        BY <2>2, <4>1, <4>2
    <3>3. QED
      BY <3>1, <3>2
  <2>15. Semaphore(R, 0)
    <3>1. WokenIn(R) # {}
      BY <2>9
    <3>2. DOMAIN R.queue = 1 .. n - 1
      BY <2>2, <2>8
    <3>3. \A i, j \in DOMAIN R.queue : R.queue[i] = R.queue[j] => i = j
      BY <2>8, <2>13, <3>2
    <3>4. {R.queue[i] : i \in DOMAIN R.queue} = QueuedIn(R)
      BY <2>8, <2>9, <2>14, <3>2
    <3>5. R.running = Cardinality(WorkingIn(R)) + 0
      BY <2>11
    <3>6. QED
      BY <3>1, <3>3, <3>4, <3>5 DEF Semaphore
  <2>16. InOrder(S, R)
    <3>1. ASSUME NEW i \in 1 .. n, NEW j \in 1 .. n, i < j PROVE R.task[S.queue[j]].pc = "queued"
      <4>1. 1 \in 1 .. n /\ j # 1
        BY <2>2, <3>1
      <4>2. S.queue[j] \in QueuedIn(S) /\ S.queue[j] # h
        BY <1>1, <2>2, <4>1
      <4>3. QED
        BY <2>9, <4>2 DEF QueuedIn
    <3>2. QED
      BY <2>2, <3>1 DEF InOrder
  <2>17. \A a \in Account \ QueuedIn(S) : R.task[a] = S.task[a]
    BY <2>3, <2>5, <2>8
  <2>18. QED
    BY <2>1, <2>8, <2>10, <2>11, <2>12, <2>15, <2>16, <2>17 DEF Consistent
<1>5. QED
  BY <1>3, <1>4

\* A refresh takes a slot, a new one or the one it was woken up for, and ends
\* at once when it has nothing to do.
LEMMA Entered ==
  ASSUME NEW lost, NEW S, Consistent(lost, S, 0), NEW a \in Account, S.task[a].pc \in {"none", "woken"}
  PROVE  /\ Consistent(lost, Enter(S, a), 0)
         /\ Enter(S, a).running <= S.running + 1
         /\ S.task[a].pc = "woken" => ClaimedIn(Enter(S, a)) <= ClaimedIn(S)
         /\ Admits(S, Enter(S, a))
<1> DEFINE M == [S EXCEPT !.running = @ + 1]
<1>1. /\ S \in SchedulerState
      /\ \A b \in Account : AccountOK(lost, S, b)
      /\ S.running = Cardinality(WorkingIn(S)) /\ S.running \in Nat
      /\ \A i, j \in DOMAIN S.queue : S.queue[i] = S.queue[j] => i = j
      /\ {S.queue[i] : i \in DOMAIN S.queue} = QueuedIn(S)
      /\ S.task \in [Account -> Task]
  BY Few DEF Consistent, Semaphore, SchedulerState
<1>2. /\ M \in SchedulerState /\ M.running = S.running + 1 /\ M.queue = S.queue
      /\ M.task = S.task /\ M.entry = S.entry /\ M.call = S.call /\ M.live = S.live
  <2>1. S.running + 1 \in Int
    BY <1>1
  <2>2. QED
    BY <1>1, <2>1 DEF SchedulerState
<1>3. Enter(S, a) = IF HasWork(S, a) THEN Begin(M, a) ELSE ReleaseSlot(Skip(M, a))
  BY DEF Enter
<1> HIDE DEF M
<1>4. /\ WorkingIn(M) = WorkingIn(S) /\ QueuedIn(M) = QueuedIn(S) /\ WokenIn(M) = WokenIn(S)
      /\ \A b \in Account : AccountOK(lost, M, b)
  BY <1>1, <1>2, SameAccounts
<1>5. a \notin QueuedIn(S) /\ a \notin WorkingIn(S) /\ (S.task[a].pc = "woken" => a \in WokenIn(S))
  BY DEF QueuedIn, WorkingIn, WokenIn
<1>6. a \in WokenIn(S) => Cardinality(WokenIn(S) \ {a}) = Cardinality(WokenIn(S)) - 1
  BY Few, FS_RemoveElement
<1>10. M.task[a].pc \in {"none", "woken"} /\ M.task[a].pc \notin {"calling", "sleeping"}
  BY <1>2
<1>7. CASE HasWork(S, a)
  <2> DEFINE R == Begin(M, a)
  <2>1. /\ R \in SchedulerState /\ R.running = M.running /\ R.queue = M.queue
        /\ \A b \in Account : AccountOK(lost, R, b)
        /\ Cardinality(WorkingIn(R)) = Cardinality(WorkingIn(M)) + 1
        /\ QueuedIn(R) = QueuedIn(M) \ {a} /\ WokenIn(R) = WokenIn(M) \ {a}
        /\ R.task = [M.task EXCEPT ![a] = [NoTask EXCEPT !.pc = "calling"]]
    <3>1. /\ \A b \in Account : AccountOK(lost, R, b)
          /\ Cardinality(WorkingIn(R)) = Cardinality(WorkingIn(M)) + 1
          /\ QueuedIn(R) = QueuedIn(M) \ {a} /\ WokenIn(R) = WokenIn(M) \ {a}
      BY <1>2, <1>4, <1>10, BeginKeeps
    <3>2. QED
      BY <1>2, <3>1, BeginFields
  <2>2. Enter(S, a) = R
    BY <1>3, <1>7
  <2> HIDE DEF R
  <2>3. R.running = Cardinality(WorkingIn(R)) + 0 /\ R.running > 0 /\ R.running <= S.running + 1
    BY <1>1, <1>2, <1>4, <2>1, Few
  <2>4. Semaphore(R, 0)
    BY <1>1, <1>2, <1>4, <1>5, <2>1, <2>3 DEF Semaphore
  <2>5. S.task[a].pc = "woken" => ClaimedIn(R) <= ClaimedIn(S)
    BY <1>1, <1>2, <1>4, <1>5, <1>6, <2>1, Few DEF ClaimedIn
  <2>6. Admits(S, R)
    <3>1. \A b \in Account \ {a} : R.task[b] = S.task[b]
      BY <1>1, <1>2, <2>1
    <3>2. \A b \in QueuedIn(S) : R.task[b].pc = "queued"
      BY <1>5, <3>1 DEF QueuedIn
    <3>3. InOrder(S, R)
      BY <3>2, NobodyLeaves DEF Consistent
    <3>4. \A b \in WorkingIn(S) : R.task[b] = S.task[b]
      BY <1>5, <3>1 DEF WorkingIn
    <3>5. QED
      BY <3>3, <3>4 DEF Admits
  <2>7. QED
    BY <2>1, <2>2, <2>3, <2>4, <2>5, <2>6 DEF Consistent
<1>8. CASE ~ HasWork(S, a)
  <2> DEFINE K == Skip(M, a)
             R == ReleaseSlot(K)
  <2>1. /\ K \in SchedulerState /\ K.running = M.running /\ K.queue = M.queue
        /\ K.task = [M.task EXCEPT ![a] = NoTask]
        /\ \A b \in Account : AccountOK(lost, K, b)
        /\ WorkingIn(K) = WorkingIn(M) /\ QueuedIn(K) = QueuedIn(M)
        /\ WokenIn(K) = WokenIn(M) \ {a}
    <3>1. /\ \A b \in Account : AccountOK(lost, K, b)
          /\ WorkingIn(K) = WorkingIn(M) /\ QueuedIn(K) = QueuedIn(M)
          /\ WokenIn(K) = WokenIn(M) \ {a}
      BY <1>2, <1>4, <1>10, SkipKeeps
    <3>2. QED
      BY <1>2, <3>1, SkipFields
  <2>2. Enter(S, a) = ReleaseSlot(K)
    BY <1>3, <1>8
  <2> HIDE DEF K
  <2>3. K.running = Cardinality(WorkingIn(K)) + 1 /\ K.running > 0 /\ K.running = S.running + 1
    BY <1>1, <1>2, <1>4, <2>1
  <2>4. Consistent(lost, K, 1)
    <3>1. Semaphore(K, 1)
      BY <1>1, <1>2, <1>4, <2>1, <2>3 DEF Semaphore
    <3>2. QED
      BY <2>1, <3>1 DEF Consistent
  <2>5. /\ Consistent(lost, R, 0) /\ R.running <= K.running
        /\ ClaimedIn(R) <= ClaimedIn(K) /\ InOrder(K, R)
        /\ \A b \in Account \ QueuedIn(K) : R.task[b] = K.task[b]
    BY <2>4, SlotReleased
  <2> HIDE DEF R
  <2>6. /\ R.running \in Int /\ ClaimedIn(R) \in Int /\ ClaimedIn(K) \in Int /\ ClaimedIn(S) \in Int
    <3>1. R \in SchedulerState
      BY <2>5 DEF Consistent
    <3>2. R.running \in Int
      BY <3>1 DEF SchedulerState
    <3>3. QED
      BY <1>1, <2>1, <3>1, <3>2, ClaimedInt
  <2>7. S.task[a].pc = "woken" => ClaimedIn(K) = ClaimedIn(S)
    BY <1>1, <1>2, <1>4, <1>5, <1>6, <2>1, Few DEF ClaimedIn
  <2>8. Admits(S, R)
    <3>1. InOrder(S, R)
      BY <1>2, <2>1, <2>5 DEF InOrder
    <3>2. ASSUME NEW b \in WorkingIn(S) PROVE R.task[b] = S.task[b]
      <4>1. b \in Account \ {a} /\ b \notin QueuedIn(S)
        BY <1>5 DEF WorkingIn, QueuedIn
      <4>2. K.task[b] = S.task[b]
        BY <1>1, <1>2, <2>1, <4>1
      <4>3. QED
        BY <1>4, <2>1, <2>5, <4>1, <4>2
    <3>3. QED
      BY <3>1, <3>2 DEF Admits
  <2>9. QED
    BY <1>1, <2>2, <2>3, <2>5, <2>6, <2>7, <2>8 DEF R
<1>9. QED
  BY <1>7, <1>8

\* The timers are no part of it, and an entry may leave any status.
LEMMA Rescheduled ==
  ASSUME NEW lost, NEW S, NEW held, Consistent(lost, S, held), NEW T \in SchedulerState,
         T.task = S.task, T.running = S.running, T.queue = S.queue,
         T.call = S.call, T.live = S.live,
         \A a \in Account : T.entry[a].status = "refreshing" => S.entry[a].status = "refreshing"
  PROVE  Consistent(lost, T, held)
<1>1. WorkingIn(T) = WorkingIn(S) /\ QueuedIn(T) = QueuedIn(S) /\ WokenIn(T) = WokenIn(S)
  BY DEF WorkingIn, QueuedIn, WokenIn
<1>2. \A a \in Account : AccountOK(lost, S, a)
  BY DEF Consistent
<1>3. ASSUME NEW a \in Account PROVE AccountOK(lost, T, a)
  <2>1. AccountOK(lost, S, a)
    BY <1>2
  <2>2. QED
    BY <2>1 DEF AccountOK
<1>4. Semaphore(T, held)
  BY <1>1 DEF Consistent, Semaphore
<1>5. QED
  BY <1>3, <1>4 DEF Consistent

\* doRefresh starts, waits or ends at once, and starts only below the limit.
LEMMA Refreshes ==
  ASSUME NEW lost, NEW S, Consistent(lost, S, 0), NEW a \in Account, limit \in Limits
  PROVE  /\ Consistent(lost, DoRefresh(S, a), 0)
         /\ ClaimedIn(DoRefresh(S, a)) <= ClaimedIn(S) \/ DoRefresh(S, a).running <= limit
         /\ Admits(S, DoRefresh(S, a))
<1>1. limit \in Nat /\ limit > 0
  BY RefreshAssumption
<1>2. /\ S \in SchedulerState
      /\ \A b \in Account : AccountOK(lost, S, b)
      /\ S.running = Cardinality(WorkingIn(S))
      /\ \A i, j \in DOMAIN S.queue : S.queue[i] = S.queue[j] => i = j
      /\ {S.queue[i] : i \in DOMAIN S.queue} = QueuedIn(S)
  BY Few DEF Consistent, Semaphore
<1>3. /\ S.queue \in Seq(Account) /\ S.running \in Nat
      /\ S.task \in [Account -> Task]
  BY <1>2, Few DEF SchedulerState
<1>8. ClaimedIn(S) \in Int
  BY <1>2, ClaimedInt
<1>4. CASE S.task[a].pc # "none"
  BY <1>3, <1>4, <1>8, TasksServe DEF DoRefresh
<1>5. CASE S.task[a].pc = "none" /\ S.running >= limit
  <2> DEFINE U == [S.task EXCEPT ![a].pc = "queued"]
             q == Append(S.queue, a)
             n == Len(S.queue)
             R == [S EXCEPT !.task[a].pc = "queued", !.queue = Append(@, a)]
  <2>1. DoRefresh(S, a) = R
    BY <1>5 DEF DoRefresh
  <2>2. [S.task[a] EXCEPT !.pc = "queued"] \in Task
    BY <1>3 DEF Task
  <2>3. /\ U \in [Account -> Task] /\ U[a].pc = "queued" /\ U[a].hits = S.task[a].hits
        /\ \A b \in Account \ {a} : U[b] = S.task[b]
    BY <1>3, <2>2 DEF Task
  <2>4. /\ q \in Seq(Account) /\ q # <<>> /\ n \in Nat
        /\ DOMAIN S.queue = 1 .. n /\ DOMAIN q = 1 .. n + 1
        /\ q[n + 1] = a /\ \A i \in 1 .. n : q[i] = S.queue[i]
    BY <1>3
  <2>5. R = [S EXCEPT !.task = U, !.queue = q]
    BY <1>2 DEF SchedulerState
  <2> HIDE DEF U, q, n, R
  <2>6. /\ R \in SchedulerState
        /\ R.task = U /\ R.queue = q /\ R.running = S.running
        /\ R.entry = S.entry /\ R.call = S.call /\ R.live = S.live
    BY <1>2, <2>3, <2>4, <2>5 DEF SchedulerState
  <2>7. ASSUME NEW b \in Account PROVE AccountOK(lost, R, b)
    <3>1. AccountOK(lost, S, b)
      BY <1>2
    <3>2. CASE b = a
      BY <1>5, <2>3, <2>6, <3>1, <3>2 DEF AccountOK
    <3>3. CASE b # a
      BY <2>3, <2>6, <3>1, <3>3 DEF AccountOK
    <3>4. QED
      BY <3>2, <3>3
  <2>8. /\ WorkingIn(R) = WorkingIn(S) /\ WokenIn(R) = WokenIn(S)
        /\ QueuedIn(R) = QueuedIn(S) \cup {a} /\ a \notin QueuedIn(S)
    BY <1>5, <2>3, <2>6 DEF WorkingIn, QueuedIn, WokenIn
  <2>9. \A i \in 1 .. n : S.queue[i] \in QueuedIn(S)
    BY <1>2, <2>4
  <2>10. \A i, j \in 1 .. n + 1 : q[i] = q[j] => i = j
    <3>1. \A i \in 1 .. n + 1 : i \in 1 .. n \/ i = n + 1
      BY <2>4
    <3>2. QED
      BY <1>2, <2>4, <2>8, <2>9, <3>1
  <2>11. {q[i] : i \in 1 .. n + 1} = QueuedIn(S) \cup {a}
    <3>1. \A i \in 1 .. n + 1 : i \in 1 .. n \/ i = n + 1
      BY <2>4
    <3>2. \A i \in 1 .. n : i \in 1 .. n + 1
      BY <2>4
    <3>3. n + 1 \in 1 .. n + 1
      BY <2>4
    <3>4. \A x \in QueuedIn(S) : \E i \in 1 .. n : x = S.queue[i]
      BY <1>2, <2>4
    <3>5. QED
      BY <2>4, <2>9, <3>1, <3>2, <3>3, <3>4
  <2>12. R.running = Cardinality(WorkingIn(R)) + 0 /\ R.running > 0
    BY <1>1, <1>2, <1>3, <1>5, <2>6, <2>8
  <2>13. Semaphore(R, 0)
    BY <2>4, <2>6, <2>8, <2>10, <2>11, <2>12 DEF Semaphore
  <2>14. Admits(S, R)
    <3>1. \A b \in QueuedIn(S) : R.task[b].pc = "queued"
      BY <2>3, <2>6 DEF QueuedIn
    <3>2. InOrder(S, R)
      BY <3>1, NobodyLeaves DEF Consistent
    <3>3. \A b \in WorkingIn(S) : R.task[b] = S.task[b]
      BY <1>5, <2>3, <2>6 DEF WorkingIn
    <3>4. QED
      BY <3>2, <3>3 DEF Admits
  <2>15. QED
    <3>1. ClaimedIn(R) = ClaimedIn(S)
      BY <2>6, <2>8 DEF ClaimedIn
    <3>2. QED
      BY <1>8, <2>1, <2>6, <2>7, <2>13, <2>14, <3>1 DEF Consistent
<1>6. CASE S.task[a].pc = "none" /\ S.running < limit
  <2>1. DoRefresh(S, a) = Enter(S, a)
    BY <1>1, <1>3, <1>6 DEF DoRefresh
  <2>2. /\ Consistent(lost, Enter(S, a), 0) /\ Enter(S, a).running <= S.running + 1
        /\ Admits(S, Enter(S, a))
    BY <1>6, Entered
  <2>3. Enter(S, a).running \in Int
    BY <2>2 DEF Consistent, SchedulerState
  <2>4. QED
    BY <1>1, <1>3, <1>6, <2>1, <2>2, <2>3
<1>7. QED
  BY <1>1, <1>3, <1>4, <1>5, <1>6

-----------------------------------------------------------------------------
(* The end of a call *)

\* X is S after the answer to the scheduler's call for a, or its absence, was
\* taken note of: a single-use token that was in the answer found its place.
Answered(S, X, a) ==
    /\ X \in SchedulerState
    /\ \A b \in Account \ {a} : X.task[b] = S.task[b] /\ X.live[b] = S.live[b]
    /\ X.running = S.running /\ X.queue = S.queue /\ X.call = S.call
    /\ X.live[a] # "scheduler"
    /\ X.live[a] # S.live[a] => S.live[a] = "scheduler" /\ X.live[a] \notin Caller
    /\ \A b \in Account : X.entry[b].status = "refreshing" => S.entry[b].status = "refreshing"

\* With its call idle, the account is as it should be when its refresh ended,
\* or sleeps before the next attempt.
LEMMA AnswerTaken ==
  ASSUME NEW lost, NEW S, Consistent(lost, S, 0), NEW a \in Account, S.task[a].pc = "calling",
         NEW X, Answered(S, X, a),
         NEW T \in SchedulerState,
         T.call = [X.call EXCEPT ![<<a, "scheduler">>] = "idle"],
         T.live = X.live, T.entry = X.entry, T.running = X.running, T.queue = X.queue,
         \A b \in Account \ {a} : T.task[b] = X.task[b],
         T.task[a].pc \in {"none", "sleeping"},
         T.task[a].hits < PermanentThreshold,
         T.task[a].pc = "sleeping" => T.task[a].attempt < MaxAttempts,
         T.task[a].pc = "none" => T.entry[a].status # "refreshing"
  PROVE  /\ Consistent(lost, T, IF T.task[a].pc = "none" THEN 1 ELSE 0)
         /\ ClaimedIn(T) = ClaimedIn(S)
<1>1. /\ S \in SchedulerState
      /\ \A b \in Account : AccountOK(lost, S, b)
      /\ S.running = Cardinality(WorkingIn(S)) + 0
      /\ \A i, j \in DOMAIN S.queue : S.queue[i] = S.queue[j] => i = j
      /\ {S.queue[i] : i \in DOMAIN S.queue} = QueuedIn(S)
      /\ S.queue # <<>> => S.running > 0 \/ WokenIn(S) # {}
      /\ S.running \in Int
  BY DEF Consistent, Semaphore, SchedulerState
<1>2. /\ X.call = S.call /\ S.call \in [Account \X Holder -> CallState]
      /\ "scheduler" \in Caller
      /\ T.running = S.running /\ T.queue = S.queue
      /\ \A b \in Account \ {a} : T.task[b] = S.task[b] /\ T.live[b] = S.live[b]
      /\ T.live[a] # "scheduler"
      /\ T.live[a] # S.live[a] => S.live[a] = "scheduler" /\ T.live[a] \notin Caller
      /\ \A b \in Account : T.entry[b].status = "refreshing" => S.entry[b].status = "refreshing"
  BY <1>1 DEF Answered, SchedulerState, Caller, Holder
<1>3. \A b \in Account, w \in Holder :
         T.call[<<b, w>>] = IF b = a /\ w = "scheduler" THEN "idle" ELSE S.call[<<b, w>>]
  BY <1>2
<1>4. ASSUME NEW b \in Account PROVE AccountOK(lost, T, b)
  <2>1. AccountOK(lost, S, b)
    BY <1>1
  <2>2. CASE b = a
    <3>1. S.call[<<a, "scheduler">>] # "idle"
      BY <2>1, <2>2 DEF AccountOK
    <3>2. /\ T.call[<<a, "scheduler">>] = "idle"
          /\ T.call[<<a, "probe">>] = S.call[<<a, "probe">>]
          /\ T.call[<<a, "import">>] = S.call[<<a, "import">>]
      BY <1>3 DEF Caller, Holder
    <3>3. /\ T.live[a] \in Caller => a \in OneTime /\ T.call[<<a, T.live[a]>>] = "granted"
          /\ \A w \in Holder : T.call[<<a, w>>] = "good" => T.live[a] \notin Caller
          /\ \A w \in Caller : T.call[<<a, w>>] = "granted" /\ a \in OneTime => T.live[a] = w
      BY <1>2, <2>1, <2>2, <3>2 DEF AccountOK, Caller, Holder
    <3>4. QED
      BY <2>2, <3>2, <3>3 DEF AccountOK
  <2>3. CASE b # a
    BY <1>2, <1>3, <2>1, <2>3 DEF AccountOK, Caller, Holder
  <2>4. QED
    BY <2>2, <2>3
<1>5. QueuedIn(T) = QueuedIn(S) /\ WokenIn(T) = WokenIn(S)
  BY <1>2 DEF QueuedIn, WokenIn
<1>8. ClaimedIn(T) = ClaimedIn(S)
  BY <1>2, <1>5 DEF ClaimedIn
<1>10. /\ \A i, j \in DOMAIN T.queue : T.queue[i] = T.queue[j] => i = j
       /\ {T.queue[i] : i \in DOMAIN T.queue} = QueuedIn(T)
       /\ T.queue # <<>> => T.running > 0 \/ WokenIn(T) # {}
  <2>1. DOMAIN T.queue = DOMAIN S.queue
    BY <1>2
  <2>2. \A i, j \in DOMAIN T.queue : T.queue[i] = T.queue[j] => i = j
    BY <1>1, <1>2, <2>1
  <2>3. {T.queue[i] : i \in DOMAIN T.queue} = QueuedIn(T)
    BY <1>1, <1>2, <1>5, <2>1
  <2>4. QED
    BY <1>1, <1>2, <1>5, <2>2, <2>3
<1>6. CASE T.task[a].pc = "sleeping"
  <2>1. WorkingIn(T) = WorkingIn(S)
    BY <1>2, <1>6 DEF WorkingIn
  <2>2. T.running = Cardinality(WorkingIn(T)) + 0
    BY <1>1, <1>2, <2>1
  <2>4. Semaphore(T, 0)
    BY <1>10, <2>2 DEF Semaphore
  <2>5. QED
    BY <1>4, <1>6, <1>8, <2>4 DEF Consistent
<1>7. CASE T.task[a].pc = "none"
  <2>1. WorkingIn(T) = WorkingIn(S) \ {a} /\ a \in WorkingIn(S)
    BY <1>2, <1>7 DEF WorkingIn
  <2>2. Cardinality(WorkingIn(S) \ {a}) = Cardinality(WorkingIn(S)) - 1
    BY <2>1, Few, FS_RemoveElement
  <2>3. T.running = Cardinality(WorkingIn(T)) + 1
    BY <1>1, <1>2, <2>1, <2>2, Few
  <2>4. Semaphore(T, 1)
    BY <1>10, <2>3 DEF Semaphore
  <2>5. QED
    BY <1>4, <1>7, <1>8, <2>4 DEF Consistent
<1>9. QED
  BY <1>6, <1>7

\* The refresh is over and its slot is released.
LEMMA RefreshOver ==
  ASSUME NEW lost, NEW S, Consistent(lost, S, 0), NEW a \in Account, S.task[a].pc = "calling",
         NEW X, Answered(S, X, a), X.entry[a].status # "refreshing"
  PROVE  /\ Consistent(lost, Over(X, a), 0) /\ ClaimedIn(Over(X, a)) <= ClaimedIn(S)
         /\ Serves(S, Over(X, a))
<1> DEFINE U == [X.task EXCEPT ![a] = NoTask]
           C == [X.call EXCEPT ![<<a, "scheduler">>] = "idle"]
           T == [X EXCEPT !.task[a] = NoTask, !.call[<<a, "scheduler">>] = "idle"]
<1>1. X \in SchedulerState /\ X.running = S.running
  BY DEF Answered
<1>2. NoTask \in Task /\ NoTask.pc = "none" /\ NoTask.hits = 0 /\ 0 < PermanentThreshold
  BY RefreshAssumption DEF NoTask, Task
<1>3. /\ U \in [Account -> Task] /\ U[a] = NoTask /\ \A b \in Account \ {a} : U[b] = X.task[b]
      /\ C \in [Account \X Holder -> CallState]
  BY <1>1, <1>2 DEF SchedulerState, CallState
<1>4. T = [X EXCEPT !.task = U, !.call = C]
  BY <1>1 DEF SchedulerState
<1>5. Over(X, a) = ReleaseSlot(T)
  BY DEF Over
<1> HIDE DEF T, U
<1>6. /\ T \in SchedulerState /\ T.task = U /\ T.call = C
      /\ T.live = X.live /\ T.entry = X.entry /\ T.running = X.running /\ T.queue = X.queue
  BY <1>1, <1>3, <1>4 DEF SchedulerState
<1>7. /\ T.task[a].pc = "none" /\ T.task[a].hits < PermanentThreshold
      /\ \A b \in Account \ {a} : T.task[b] = X.task[b]
      /\ T.entry[a].status # "refreshing"
  BY <1>2, <1>3, <1>6
<1>8. Consistent(lost, T, 1) /\ ClaimedIn(T) = ClaimedIn(S)
  BY <1>6, <1>7, AnswerTaken
<1> DEFINE R == ReleaseSlot(T)
<1>9. /\ Consistent(lost, R, 0) /\ ClaimedIn(R) <= ClaimedIn(T)
      /\ InOrder(T, R)
      /\ \A b \in Account \ QueuedIn(T) : R.task[b] = T.task[b]
  BY <1>8, SlotReleased
<1> HIDE DEF R
<1>10. Serves(S, R)
  <2>1. T.queue = S.queue /\ \A b \in Account \ {a} : T.task[b] = S.task[b]
    BY <1>6, <1>7 DEF Answered
  <2>2. InOrder(S, R)
    BY <1>9, <2>1 DEF InOrder
  <2>3. ASSUME NEW b \in WorkingIn(S) PROVE GoesOn(S.task[b], R.task[b])
    <3>1. b \in Account /\ S.task[b].pc \in {"calling", "sleeping"}
      BY DEF WorkingIn
    <3>2. CASE b = a
      <4>1. a \notin QueuedIn(T)
        BY <1>7 DEF QueuedIn
      <4>2. R.task[a].pc = "none"
        BY <1>7, <1>9, <4>1
      <4>3. QED
        BY <3>2, <4>2 DEF GoesOn
    <3>3. CASE b # a
      <4>1. b \notin QueuedIn(T)
        BY <2>1, <3>1, <3>3 DEF QueuedIn
      <4>2. R.task[b] = S.task[b]
        BY <1>9, <2>1, <3>1, <3>3, <4>1
      <4>3. QED
        BY <3>1, <4>2 DEF GoesOn
    <3>4. QED
      BY <3>2, <3>3
  <2>4. QED
    BY <2>2, <2>3 DEF Serves
<1>11. QED
  BY <1>5, <1>8, <1>9, <1>10 DEF R

\* Or it is tried again later, in the same slot or from a new timer.
LEMMA TriedLater ==
  ASSUME NEW lost, NEW S, Consistent(lost, S, 0), NEW a \in Account, S.task[a].pc = "calling",
         NEW X, Answered(S, X, a),
         X.task[a].hits < PermanentThreshold, X.task[a].attempt = S.task[a].attempt
  PROVE  /\ Consistent(lost, TryLater(X, a), 0) /\ ClaimedIn(TryLater(X, a)) <= ClaimedIn(S)
         /\ Serves(S, TryLater(X, a))
<1>1. /\ X \in SchedulerState /\ X.running = S.running
      /\ X.entry \in [Account -> Entry] /\ X.task \in [Account -> Task]
      /\ X.call \in [Account \X Holder -> CallState]
      /\ X.timer \in [Account -> BOOLEAN] /\ X.orphans \in [Account -> Nat]
      /\ ClaimedIn(S) \in Int
  BY Few DEF Answered, Consistent, SchedulerState, ClaimedIn
<1>2. CASE X.task[a].attempt < MaxAttempts
  <2> DEFINE t == [X.task[a] EXCEPT !.pc = "sleeping"]
             U == [X.task EXCEPT ![a] = t]
             C == [X.call EXCEPT ![<<a, "scheduler">>] = "idle"]
             T == Sleeps(X, a)
  <2>1. /\ t \in Task /\ t.pc = "sleeping"
        /\ t.hits = X.task[a].hits /\ t.attempt = X.task[a].attempt
    BY <1>1 DEF Task
  <2>2. /\ U \in [Account -> Task] /\ U[a] = t /\ \A b \in Account \ {a} : U[b] = X.task[b]
        /\ C \in [Account \X Holder -> CallState]
    BY <1>1, <2>1 DEF CallState
  <2>3. T = [X EXCEPT !.task = U, !.call = C]
    BY <1>1 DEF Sleeps, SchedulerState
  <2>4. TryLater(X, a) = T
    BY <1>2 DEF TryLater
  <2> HIDE DEF T, U, t
  <2>5. /\ T \in SchedulerState /\ T.task = U /\ T.call = C
        /\ T.live = X.live /\ T.entry = X.entry /\ T.running = X.running /\ T.queue = X.queue
    BY <1>1, <2>2, <2>3 DEF SchedulerState
  <2>6. /\ T.task[a].pc = "sleeping" /\ T.task[a].hits < PermanentThreshold
        /\ T.task[a].attempt < MaxAttempts
        /\ \A b \in Account \ {a} : T.task[b] = X.task[b]
    BY <1>2, <2>1, <2>2, <2>5
  <2>7. Consistent(lost, T, 0) /\ ClaimedIn(T) = ClaimedIn(S)
    BY <2>5, <2>6, AnswerTaken
  <2>8. Serves(S, T)
    <3>1. \A b \in Account \ {a} : T.task[b] = S.task[b]
      BY <2>6 DEF Answered
    <3>2. \A b \in QueuedIn(S) : T.task[b].pc = "queued"
      BY <3>1 DEF QueuedIn
    <3>3. InOrder(S, T)
      BY <3>2, NobodyLeaves DEF Consistent
    <3>4. ASSUME NEW b \in WorkingIn(S) PROVE GoesOn(S.task[b], T.task[b])
      <4>1. CASE b = a
        <5>1. T.task[a].attempt = S.task[a].attempt
          BY <2>1, <2>2, <2>5
        <5>2. QED
          BY <2>6, <4>1, <5>1 DEF GoesOn
      <4>2. CASE b # a
        BY <3>1, <4>2 DEF GoesOn, WorkingIn
      <4>3. QED
        BY <4>1, <4>2
    <3>5. QED
      BY <3>3, <3>4 DEF Serves
  <2>9. QED
    BY <1>1, <2>4, <2>5, <2>7, <2>8
<1>3. CASE ~ (X.task[a].attempt < MaxAttempts)
  <2> DEFINE E == MarkStatus(X.entry, a, "active")
             M == [X EXCEPT !.entry = MarkStatus(@, a, "active")]
             N == ScheduleRecovery(M, a)
             R == [X.timer EXCEPT ![a] = TRUE]
             O == [X.orphans EXCEPT ![a] = IF X.timer[a] THEN @ + 1 ELSE @]
  <2>1. TryLater(X, a) = Over(N, a)
    BY <1>3 DEF TryLater
  <2>2. /\ E \in [Account -> Entry] /\ E[a].status # "refreshing"
        /\ \A b \in Account : E[b].status = "refreshing" => X.entry[b].status = "refreshing"
    <3>1. "active" \in Status \ {"refreshing"}
      BY DEF Status
    <3>2. QED
      BY <1>1, <3>1, MarkKept
  <2>3. /\ R \in [Account -> BOOLEAN]
        /\ O \in [Account -> Nat]
    BY <1>1
  <2>4. N = [X EXCEPT !.entry = E, !.timer = R, !.orphans = O]
    BY <1>1 DEF ScheduleRecovery, SchedulerState
  <2> HIDE DEF E, R, O, N
  <2>5. /\ N \in SchedulerState /\ N.entry = E
        /\ N.task = X.task /\ N.call = X.call /\ N.live = X.live
        /\ N.running = X.running /\ N.queue = X.queue
    BY <1>1, <2>2, <2>3, <2>4 DEF SchedulerState
  <2>6. Answered(S, N, a) /\ N.entry[a].status # "refreshing"
    BY <2>2, <2>5 DEF Answered
  <2>7. QED
    BY <2>1, <2>6, RefreshOver
<1>4. QED
  BY <1>2, <1>3

-----------------------------------------------------------------------------
(* The steps *)

\* The scheduler's state, now and next.
LEMMA HereFields ==
  /\ Here.entry = entry /\ Here.task = task /\ Here.running = running
  /\ Here.queue = queue /\ Here.timer = timer /\ Here.orphans = orphans
  /\ Here.call = call /\ Here.live = live
  /\ Here'.entry = entry' /\ Here'.task = task' /\ Here'.running = running'
  /\ Here'.queue = queue' /\ Here'.timer = timer' /\ Here'.orphans = orphans'
  /\ Here'.call = call' /\ Here'.live = live'
BY DEF Here

\* What a step keeps of it, in whom it admits, and in which order.
StepKept(lost) ==
    /\ Consistent(lost, Here', 0)
    /\ ClaimedIn(Here') <= ClaimedIn(Here) \/ running' <= limit
    /\ Serves(Here, Here')

\* A turn of the scheduler leaves the state its operators computed.
LEMMA Settled ==
  ASSUME NEW lost, NEW N, Consistent(lost, N, 0), Becomes(N),
         ClaimedIn(N) <= ClaimedIn(Here) \/ N.running <= limit,
         Serves(Here, N)
  PROVE  StepKept(lost)
<1>1. /\ entry' = N.entry /\ task' = N.task /\ running' = N.running
      /\ queue' = N.queue /\ timer' = N.timer /\ orphans' = N.orphans
      /\ call' = N.call /\ live' = N.live
  BY DEF Becomes
<1>2. N \in SchedulerState
  BY DEF Consistent
<1>3. N = [entry |-> N.entry, task |-> N.task, running |-> N.running, queue |-> N.queue,
           timer |-> N.timer, orphans |-> N.orphans, call |-> N.call, live |-> N.live]
  BY <1>2 DEF SchedulerState
<1>4. Here' = N
  BY <1>1, <1>3 DEF Here
<1>5. QED
  BY <1>1, <1>4 DEF StepKept

\* scheduleOne sets the timer or refreshes at once.
LEMMA ScheduledWell ==
  ASSUME NEW lost, NEW S, Consistent(lost, S, 0), NEW a \in Account, NEW due \in BOOLEAN, limit \in Limits
  PROVE  /\ Consistent(lost, ScheduleOne(S, a, due), 0)
         /\ \/ ClaimedIn(ScheduleOne(S, a, due)) <= ClaimedIn(S)
            \/ ScheduleOne(S, a, due).running <= limit
         /\ Admits(S, ScheduleOne(S, a, due))
<1>1. /\ S \in SchedulerState /\ S.timer \in [Account -> BOOLEAN] /\ S.running \in Int
  BY DEF Consistent, SchedulerState
<1>2. ASSUME NEW b \in BOOLEAN
      PROVE  /\ [S EXCEPT !.timer[a] = b] \in SchedulerState
             /\ Consistent(lost, [S EXCEPT !.timer[a] = b], 0)
             /\ [S EXCEPT !.timer[a] = b].running = S.running
             /\ [S EXCEPT !.timer[a] = b].task = S.task
             /\ [S EXCEPT !.timer[a] = b].queue = S.queue
  <2> DEFINE R == [S.timer EXCEPT ![a] = b]
             T == [S EXCEPT !.timer[a] = b]
  <2>1. R \in [Account -> BOOLEAN]
    BY <1>1
  <2>2. T = [S EXCEPT !.timer = R]
    BY <1>1 DEF SchedulerState
  <2> HIDE DEF R, T
  <2>3. /\ T \in SchedulerState /\ T.entry = S.entry
        /\ T.task = S.task /\ T.call = S.call /\ T.live = S.live
        /\ T.running = S.running /\ T.queue = S.queue
    BY <1>1, <2>1, <2>2 DEF SchedulerState
  <2>4. Consistent(lost, T, 0)
    BY <2>3, Rescheduled
  <2>5. QED
    BY <2>3, <2>4 DEF T
<1>3. CASE due
  <2>1. ScheduleOne(S, a, due) = DoRefresh(ClearOne(S, a), a)
    BY <1>3 DEF ScheduleOne
  <2> DEFINE T == ClearOne(S, a)
  <2>2. /\ Consistent(lost, T, 0) /\ ClaimedIn(T) = ClaimedIn(S)
        /\ T.task = S.task /\ T.queue = S.queue
    BY <1>1, <1>2, SameClaims DEF ClearOne
  <2> HIDE DEF T
  <2>3. Admits(T, DoRefresh(T, a)) => Admits(S, DoRefresh(T, a))
    BY <2>2 DEF Admits, InOrder, WorkingIn
  <2>4. QED
    BY <2>1, <2>2, <2>3, Refreshes DEF T
<1>4. CASE ~ due
  <2> DEFINE T == [S EXCEPT !.timer[a] = TRUE]
  <2>1. ScheduleOne(S, a, due) = T
    BY <1>4 DEF ScheduleOne
  <2>2. Consistent(lost, T, 0) /\ ClaimedIn(T) <= ClaimedIn(S) /\ T.task = S.task
    BY <1>1, <1>2, SameClaims
  <2> HIDE DEF T
  <2>3. QED
    BY <1>1, <2>1, <2>2, TasksServe
<1>5. QED
  BY <1>3, <1>4

\* A step that is no turn of the scheduler.
LEMMA AsideKept ==
  ASSUME NEW lost, Consistent(lost, Here, 0), Here' \in SchedulerState,
         \A a \in Account : AccountOK(lost, Here', a),
         UNCHANGED <<running, queue>>,
         \A a \in Account :
            \/ task'[a] = task[a]
            \/ /\ task[a].pc = "sleeping" /\ task'[a].pc = "calling"
               /\ task'[a].attempt = task[a].attempt + 1
  PROVE  StepKept(lost)
<1>1. /\ WorkingIn(Here') = WorkingIn(Here) /\ QueuedIn(Here') = QueuedIn(Here)
      /\ WokenIn(Here') = WokenIn(Here)
  BY HereFields DEF WorkingIn, QueuedIn, WokenIn
<1>2. Semaphore(Here, 0) /\ Here'.running = Here.running /\ Here'.queue = Here.queue
  BY HereFields DEF Consistent
<1>3. Semaphore(Here', 0)
  BY <1>1, <1>2 DEF Semaphore
<1>4. ClaimedIn(Here') <= ClaimedIn(Here)
  BY <1>1, <1>2, Few DEF Consistent, SchedulerState, ClaimedIn
<1>5. Serves(Here, Here')
  <2>1. \A a \in QueuedIn(Here) : Here'.task[a].pc = "queued"
    BY <1>1 DEF QueuedIn
  <2>2. InOrder(Here, Here')
    BY <1>2, <2>1, NobodyLeaves
  <2>3. ASSUME NEW a \in WorkingIn(Here) PROVE GoesOn(task[a], task'[a])
    <3>1. a \in Account /\ task[a].pc \in {"calling", "sleeping"}
      BY HereFields DEF WorkingIn
    <3>2. QED
      BY <3>1 DEF GoesOn
  <2>4. QED
    BY <2>2, <2>3, HereFields DEF Serves
<1>6. QED
  BY <1>3, <1>4, <1>5 DEF Consistent, StepKept

LEMMA TimerFiresKeeps ==
  ASSUME NEW lost, IInv(lost), NEW a \in Account, TimerFires(a)
  PROVE  StepKept(lost)
<1>1. Consistent(lost, Here, 0) /\ limit \in Limits
  BY DEF IInv
<1>2. /\ Here \in SchedulerState
      /\ Here.timer \in [Account -> BOOLEAN] /\ Here.orphans \in [Account -> Nat]
      /\ Here.running = running
  BY <1>1, HereFields DEF Consistent, SchedulerState
<1> DEFINE fewer == [Here.orphans EXCEPT ![a] = IF timer[a] THEN @ ELSE @ - 1]
           R == [Here.timer EXCEPT ![a] = FALSE]
<1>3. ASSUME NEW O \in [Account -> Nat],
             NEW T, T = [Here EXCEPT !.timer = R, !.orphans = O],
             Becomes(DoRefresh(T, a))
      PROVE  StepKept(lost)
  <2>1. R \in [Account -> BOOLEAN]
    BY <1>2
  <2> HIDE DEF R
  <2>2. /\ T \in SchedulerState /\ T.entry = Here.entry
        /\ T.task = Here.task /\ T.call = Here.call /\ T.live = Here.live
        /\ T.running = Here.running /\ T.queue = Here.queue
    BY <1>2, <1>3, <2>1 DEF SchedulerState
  <2>3. Consistent(lost, T, 0)
    BY <1>1, <2>2, Rescheduled
  <2> DEFINE N == DoRefresh(T, a)
  <2>4. /\ Consistent(lost, N, 0) /\ Admits(T, N)
        /\ ClaimedIn(N) <= ClaimedIn(T) \/ N.running <= limit
    BY <1>1, <2>3, Refreshes
  <2>5. Becomes(N)
    BY <1>3
  <2> HIDE DEF N
  <2>6. Serves(Here, N)
    BY <2>2, <2>4, AdmitsServes
  <2>7. ClaimedIn(T) = ClaimedIn(Here)
    BY <1>2, <2>2, SameClaims
  <2>8. QED
    BY <2>4, <2>5, <2>6, <2>7, Settled
<1>4. CASE timer[a] /\ Becomes(DoRefresh([Here EXCEPT !.timer[a] = FALSE], a))
  <2>1. [Here EXCEPT !.timer[a] = FALSE] = [Here EXCEPT !.timer = R, !.orphans = Here.orphans]
    BY <1>2 DEF SchedulerState
  <2>2. QED
    BY <1>2, <1>3, <1>4, <2>1
<1>5. CASE /\ orphans[a] > 0
           /\ Becomes(DoRefresh([Here EXCEPT !.timer[a] = FALSE,
                                             !.orphans[a] = IF timer[a] THEN @ ELSE @ - 1], a))
  <2>1. fewer \in [Account -> Nat]
    BY <1>2, <1>5, HereFields
  <2>2. [Here EXCEPT !.timer[a] = FALSE, !.orphans[a] = IF timer[a] THEN @ ELSE @ - 1]
          = [Here EXCEPT !.timer = R, !.orphans = fewer]
    BY <1>2 DEF SchedulerState
  <2>3. QED
    BY <1>3, <1>5, <2>1, <2>2
<1>6. QED
  BY <1>4, <1>5 DEF TimerFires

\* The answer that was granted is in the entry, or spent with it.
LEMMA StoredFields ==
  ASSUME NEW S \in SchedulerState, NEW a \in Account
  PROVE  LET T == Stored(S, a)
         IN  /\ T \in SchedulerState
             /\ T.running = S.running /\ T.queue = S.queue
             /\ T.task = S.task /\ T.call = S.call
             /\ \A b \in Account \ {a} : T.live[b] = S.live[b]
             /\ a \notin OneTime => T.live[a] = S.live[a]
             /\ a \in OneTime => T.live[a] \in {"pool", "spent"}
             /\ T.entry[a].status # "refreshing"
             /\ \A b \in Account :
                   T.entry[b].status = "refreshing" => S.entry[b].status = "refreshing"
<1> DEFINE E == UpdateToken(S.entry, a, 1, NoPlan, 0)
           l == IF a \notin OneTime THEN S.live[a]
                ELSE IF Present(S.entry, a) THEN "pool" ELSE "spent"
           L == [S.live EXCEPT ![a] = l]
           T == Stored(S, a)
<1>1. S.entry \in [Account -> Entry] /\ S.live \in [Account -> Place]
  BY DEF SchedulerState
<1>2. /\ E \in [Account -> Entry] /\ E[a].status # "refreshing"
      /\ \A b \in Account : E[b].status = "refreshing" => S.entry[b].status = "refreshing"
  BY <1>1, EntriesKept
<1>3. /\ l \in Place
      /\ a \notin OneTime => l = S.live[a]
      /\ a \in OneTime => l \in {"pool", "spent"}
  BY <1>1 DEF Place
<1> HIDE DEF l
<1>4. L \in [Account -> Place] /\ L[a] = l /\ \A b \in Account \ {a} : L[b] = S.live[b]
  BY <1>1, <1>3
<1>5. T = [S EXCEPT !.entry = E, !.live = L]
  BY DEF Stored, SchedulerState, l
<1> HIDE DEF E, L, T
<1>6. /\ T \in SchedulerState /\ T.entry = E /\ T.live = L
      /\ T.running = S.running /\ T.queue = S.queue
      /\ T.task = S.task /\ T.call = S.call
  BY <1>2, <1>4, <1>5 DEF SchedulerState
<1>7. QED
  BY <1>2, <1>3, <1>4, <1>6 DEF T

\* No answer: what was in it is spent.
LEMMA MissedFields ==
  ASSUME NEW S \in SchedulerState, NEW a \in Account, NEW who \in Caller
  PROVE  LET T == Missed(S, a, who)
         IN  /\ T \in SchedulerState
             /\ T.running = S.running /\ T.queue = S.queue
             /\ T.task = S.task /\ T.call = S.call /\ T.entry = S.entry
             /\ \A b \in Account \ {a} : T.live[b] = S.live[b]
             /\ T.live[a] = IF S.live[a] = who THEN "spent" ELSE S.live[a]
<1> DEFINE L == [S.live EXCEPT ![a] = IF @ = who THEN "spent" ELSE @]
           T == Missed(S, a, who)
<1>1. S.live \in [Account -> Place]
  BY DEF SchedulerState
<1>2. L \in [Account -> Place]
  BY <1>1 DEF Place
<1>3. /\ \A b \in Account \ {a} : L[b] = S.live[b]
      /\ L[a] = IF S.live[a] = who THEN "spent" ELSE S.live[a]
  BY <1>1
<1>4. T = [S EXCEPT !.live = L]
  BY DEF Missed, SchedulerState
<1> HIDE DEF L, T
<1>5. /\ T \in SchedulerState /\ T.live = L
      /\ T.running = S.running /\ T.queue = S.queue
      /\ T.task = S.task /\ T.call = S.call /\ T.entry = S.entry
  BY <1>2, <1>4 DEF SchedulerState
<1>6. QED
  BY <1>3, <1>5 DEF T

\* The running refresh is still the account's when its new token is scheduled:
\* however soon that one is due, no second refresh starts.
LEMMA GrantedKeeps ==
  ASSUME NEW lost, IInv(lost), NEW a \in Account, NEW due \in Dues, Granted(a, due)
  PROVE  StepKept(lost)
<1> DEFINE S == Stored(Here, a)
           R == [S.timer EXCEPT ![a] = ~ due]
           X == ScheduleOne(S, a, due)
<1>1. /\ Consistent(lost, Here, 0) /\ Here \in SchedulerState /\ Here.running = running
      /\ Here.call = call /\ call[<<a, "scheduler">>] = "granted" /\ AccountOK(lost, Here, a)
  BY HereFields DEF IInv, Consistent, Granted
<1>2. /\ Here.task[a].pc = "calling"
      /\ Here.live[a] \in Caller => a \in OneTime
      /\ a \in OneTime => Here.live[a] = "scheduler"
  BY <1>1 DEF AccountOK, Caller, Holder
<1>3. /\ S \in SchedulerState
      /\ S.running = Here.running /\ S.queue = Here.queue
      /\ S.task = Here.task /\ S.call = Here.call
      /\ \A b \in Account \ {a} : S.live[b] = Here.live[b]
      /\ a \notin OneTime => S.live[a] = Here.live[a]
      /\ a \in OneTime => S.live[a] \in {"pool", "spent"}
      /\ S.entry[a].status # "refreshing"
      /\ \A b \in Account :
            S.entry[b].status = "refreshing" => Here.entry[b].status = "refreshing"
  BY <1>1, StoredFields
<1> HIDE DEF S
<1>4. X = [S EXCEPT !.timer = R]
  <2>1. due \in BOOLEAN /\ S.timer \in [Account -> BOOLEAN]
    BY <1>3, RefreshAssumption DEF SchedulerState
  <2>2. CASE due
    <3>1. ClearOne(S, a) = [S EXCEPT !.timer = R]
      BY <1>3, <2>1, <2>2 DEF ClearOne, SchedulerState
    <3>2. ClearOne(S, a).task = S.task
      BY <1>3 DEF ClearOne, SchedulerState
    <3>3. QED
      BY <1>2, <1>3, <2>2, <3>1, <3>2 DEF ScheduleOne, DoRefresh
  <2>3. CASE ~ due
    BY <1>3, <2>1, <2>3 DEF ScheduleOne, SchedulerState
  <2>4. QED
    BY <2>1, <2>2, <2>3
<1>5. R \in [Account -> BOOLEAN]
  BY <1>3, RefreshAssumption DEF SchedulerState
<1> HIDE DEF R, X
<1>6. /\ X \in SchedulerState /\ X.entry = S.entry /\ X.live = S.live
      /\ X.task = S.task /\ X.call = S.call
      /\ X.running = S.running /\ X.queue = S.queue
  BY <1>3, <1>4, <1>5 DEF SchedulerState
<1>7. Answered(Here, X, a) /\ X.entry[a].status # "refreshing"
  <2>1. X.live[a] # "scheduler"
    BY <1>2, <1>3, <1>6 DEF Caller, Holder
  <2>2. X.live[a] # Here.live[a] => Here.live[a] = "scheduler" /\ X.live[a] \notin Caller
    BY <1>2, <1>3, <1>6 DEF Caller, Holder
  <2>3. QED
    BY <1>3, <1>6, <2>1, <2>2 DEF Answered
<1>8. /\ Consistent(lost, Over(X, a), 0) /\ ClaimedIn(Over(X, a)) <= ClaimedIn(Here)
      /\ Serves(Here, Over(X, a))
  BY <1>1, <1>2, <1>7, RefreshOver
<1>9. Becomes(Over(X, a))
  BY DEF Granted, X, S
<1>10. QED
  BY <1>1, <1>8, <1>9, Settled

\* A permanent error counts, and the account is marked at the threshold.
LEMMA RefusedKeeps ==
  ASSUME NEW lost, IInv(lost), NEW a \in Account, Refused(a)
  PROVE  StepKept(lost)
<1> DEFINE S == [Here EXCEPT !.task[a].hits = @ + 1]
           U == [Here.task EXCEPT ![a].hits = @ + 1]
           X == [S EXCEPT !.entry = MarkStatus(@, a, "expired")]
           E == MarkStatus(Here.entry, a, "expired")
<1>1. /\ Consistent(lost, Here, 0) /\ Here \in SchedulerState /\ Here.running = running
      /\ Here.call = call /\ call[<<a, "scheduler">>] = "refused" /\ AccountOK(lost, Here, a)
      /\ Here.task \in [Account -> Task] /\ Here.entry \in [Account -> Entry]
  BY HereFields DEF IInv, Consistent, Refused, SchedulerState
<1>2. /\ Here.task[a].pc = "calling" /\ Here.live[a] # "scheduler"
      /\ Here.task[a].hits < PermanentThreshold
  BY <1>1 DEF AccountOK, Caller, Holder
<1>3. [Here.task[a] EXCEPT !.hits = @ + 1] \in Task
  BY <1>1, <1>2, RefreshAssumption DEF Task
<1>4. /\ U \in [Account -> Task]
      /\ \A b \in Account \ {a} : U[b] = Here.task[b]
  BY <1>1, <1>3
<1>5. S = [Here EXCEPT !.task = U]
  BY <1>1 DEF SchedulerState
<1>6. Becomes(IF S.task[a].hits >= PermanentThreshold THEN Over(X, a) ELSE TryLater(S, a))
  BY DEF Refused
<1> HIDE DEF U, S
<1>7. /\ S \in SchedulerState /\ S.task = U /\ S.entry = Here.entry
      /\ S.live = Here.live /\ S.call = Here.call
      /\ S.running = Here.running /\ S.queue = Here.queue
  BY <1>1, <1>4, <1>5 DEF SchedulerState
<1>8. Answered(Here, S, a)
  BY <1>2, <1>4, <1>7 DEF Answered
<1>9. CASE S.task[a].hits >= PermanentThreshold
  <2>1. /\ E \in [Account -> Entry] /\ E[a].status # "refreshing"
        /\ \A b \in Account : E[b].status = "refreshing" => Here.entry[b].status = "refreshing"
    <3>1. "expired" \in Status \ {"refreshing"}
      BY DEF Status
    <3>2. QED
      BY <1>1, <3>1, MarkKept
  <2>2. X = [S EXCEPT !.entry = E]
    BY <1>7
  <2> HIDE DEF E, X
  <2>3. /\ X \in SchedulerState /\ X.entry = E /\ X.task = S.task
        /\ X.live = S.live /\ X.call = S.call
        /\ X.running = S.running /\ X.queue = S.queue
    BY <1>7, <2>1, <2>2 DEF SchedulerState
  <2>4. Answered(Here, X, a) /\ X.entry[a].status # "refreshing"
    BY <1>8, <2>1, <2>3 DEF Answered
  <2>5. QED
    BY <1>1, <1>2, <1>6, <1>9, <2>4, RefreshOver, Settled
<1>10. CASE ~ (S.task[a].hits >= PermanentThreshold)
  <2>1. S.task[a].hits < PermanentThreshold
    <3>1. S.task[a].hits \in Int
      BY <1>4, <1>7 DEF Task
    <3>2. QED
      BY <1>10, <3>1, RefreshAssumption
  <2>2. S.task[a].attempt = Here.task[a].attempt
    BY <1>1, <1>7 DEF U, Task
  <2>3. QED
    BY <1>1, <1>2, <1>6, <1>8, <1>10, <2>1, <2>2, TriedLater, Settled
<1>11. QED
  BY <1>9, <1>10

LEMMA UnansweredKeeps ==
  ASSUME NEW lost, IInv(lost), NEW a \in Account, Unanswered(a)
  PROVE  StepKept(lost)
<1> DEFINE X == Missed(Here, a, "scheduler")
<1>1. /\ Consistent(lost, Here, 0) /\ Here \in SchedulerState /\ Here.running = running
      /\ Here.call = call /\ call[<<a, "scheduler">>] # "idle" /\ AccountOK(lost, Here, a)
      /\ "scheduler" \in Caller
  BY HereFields DEF IInv, Consistent, Unanswered, Caller, Holder
<1>2. Here.task[a].pc = "calling" /\ Here.task[a].hits < PermanentThreshold
  BY <1>1 DEF AccountOK
<1>3. /\ X \in SchedulerState
      /\ X.running = Here.running /\ X.queue = Here.queue
      /\ X.task = Here.task /\ X.call = Here.call /\ X.entry = Here.entry
      /\ \A b \in Account \ {a} : X.live[b] = Here.live[b]
      /\ X.live[a] = IF Here.live[a] = "scheduler" THEN "spent" ELSE Here.live[a]
  BY <1>1, MissedFields
<1>4. Becomes(TryLater(X, a))
  BY DEF Unanswered
<1> HIDE DEF X
<1>5. Answered(Here, X, a)
  BY <1>3 DEF Answered, Caller, Holder
<1>6. QED
  BY <1>1, <1>2, <1>3, <1>4, <1>5, TriedLater, Settled

\* A probe that has its answer, or gave up, no longer calls; nor does an import
\* that was decided keep its copy.
LetsGo(S, T, a, h) ==
    /\ T.task = S.task /\ T.running = S.running /\ T.queue = S.queue
    /\ T.call = [S.call EXCEPT ![<<a, h>>] = "idle"]
    /\ \A b \in Account \ {a} : T.live[b] = S.live[b]
    /\ T.live[a] # h
    /\ T.live[a] # S.live[a] => S.live[a] \in {"pool", h} /\ T.live[a] \notin Caller
    /\ \A b \in Account : T.entry[b].status = "refreshing" => S.entry[b].status = "refreshing"

LEMMA HolderOver ==
  ASSUME NEW lost, NEW S, Consistent(lost, S, 0), NEW a \in Account, NEW h \in {"probe", "import"},
         NEW T \in SchedulerState, LetsGo(S, T, a, h)
  PROVE  Consistent(lost, T, 0) /\ ClaimedIn(T) = ClaimedIn(S)
<1> USE DEF LetsGo
<1>1. /\ S \in SchedulerState /\ S.call \in [Account \X Holder -> CallState]
      /\ \A b \in Account : AccountOK(lost, S, b)
      /\ h \in Holder
  BY DEF Consistent, SchedulerState, Caller, Holder
<1>2. \A b \in Account, w \in Holder :
         T.call[<<b, w>>] = IF b = a /\ w = h THEN "idle" ELSE S.call[<<b, w>>]
  BY <1>1
<1>3. ASSUME NEW b \in Account PROVE AccountOK(lost, T, b)
  <2>1. AccountOK(lost, S, b)
    BY <1>1
  <2>2. CASE b = a
    <3>1. /\ T.call[<<a, h>>] = "idle"
          /\ \A w \in Holder \ {h} : T.call[<<a, w>>] = S.call[<<a, w>>]
      BY <1>1, <1>2
    <3>2. QED
      BY <2>1, <2>2, <3>1 DEF AccountOK, Caller, Holder
  <2>3. CASE b # a
    BY <1>2, <2>1, <2>3 DEF AccountOK, Caller, Holder
  <2>4. QED
    BY <2>2, <2>3
<1>4. WorkingIn(T) = WorkingIn(S) /\ QueuedIn(T) = QueuedIn(S) /\ WokenIn(T) = WokenIn(S)
  BY DEF WorkingIn, QueuedIn, WokenIn
<1>5. Semaphore(T, 0)
  BY <1>4 DEF Consistent, Semaphore
<1>6. QED
  BY <1>3, <1>4, <1>5 DEF Consistent, ClaimedIn

LEMMA ProbeOver ==
  ASSUME NEW lost, NEW S, Consistent(lost, S, 0), NEW a \in Account,
         NEW T \in SchedulerState,
         T.task = S.task, T.running = S.running, T.queue = S.queue,
         T.call = [S.call EXCEPT ![<<a, "probe">>] = "idle"],
         \A b \in Account \ {a} : T.live[b] = S.live[b],
         T.live[a] # "probe",
         T.live[a] # S.live[a] => S.live[a] = "probe" /\ T.live[a] \notin Caller,
         \A b \in Account : T.entry[b].status = "refreshing" => S.entry[b].status = "refreshing"
  PROVE  Consistent(lost, T, 0) /\ ClaimedIn(T) = ClaimedIn(S)
<1>1. LetsGo(S, T, a, "probe")
  BY DEF LetsGo
<1>2. "probe" \in {"probe", "import"}
  OBVIOUS
<1>3. QED
  BY <1>1, <1>2, HolderOver

LEMMA ProbeGrantedKeeps ==
  ASSUME NEW lost, IInv(lost), NEW a \in Account, NEW due \in Dues, ProbeGranted(a, due)
  PROVE  StepKept(lost)
<1> DEFINE S == Stored(Here, a)
           C == [S.call EXCEPT ![<<a, "probe">>] = "idle"]
           T == [S EXCEPT !.call[<<a, "probe">>] = "idle"]
<1>1. /\ Consistent(lost, Here, 0) /\ Here \in SchedulerState /\ Here.running = running
      /\ Here.call = call /\ call[<<a, "probe">>] = "granted" /\ AccountOK(lost, Here, a)
      /\ limit \in Limits /\ due \in BOOLEAN
  BY HereFields, RefreshAssumption DEF IInv, Consistent, ProbeGranted
<1>2. /\ Here.live[a] \in Caller => a \in OneTime
      /\ a \in OneTime => Here.live[a] = "probe"
  BY <1>1 DEF AccountOK, Caller, Holder
<1>3. /\ S \in SchedulerState
      /\ S.running = Here.running /\ S.queue = Here.queue
      /\ S.task = Here.task /\ S.call = Here.call
      /\ \A b \in Account \ {a} : S.live[b] = Here.live[b]
      /\ a \notin OneTime => S.live[a] = Here.live[a]
      /\ a \in OneTime => S.live[a] \in {"pool", "spent"}
      /\ \A b \in Account :
            S.entry[b].status = "refreshing" => Here.entry[b].status = "refreshing"
  BY <1>1, StoredFields
<1>4. Becomes(ScheduleOne(T, a, due))
  BY DEF ProbeGranted
<1> HIDE DEF S
<1>5. C \in [Account \X Holder -> CallState] /\ T = [S EXCEPT !.call = C]
  BY <1>3 DEF SchedulerState, CallState
<1> HIDE DEF C, T
<1>6. /\ T \in SchedulerState /\ T.call = C
      /\ T.entry = S.entry /\ T.live = S.live /\ T.task = S.task
      /\ T.running = S.running /\ T.queue = S.queue
  BY <1>3, <1>5 DEF SchedulerState
<1>7. /\ T.live[a] # "probe"
      /\ T.live[a] # Here.live[a] => Here.live[a] = "probe" /\ T.live[a] \notin Caller
  BY <1>2, <1>3, <1>6 DEF Caller, Holder
<1>8. Consistent(lost, T, 0) /\ ClaimedIn(T) = ClaimedIn(Here)
  BY <1>1, <1>3, <1>6, <1>7, ProbeOver DEF C
<1> DEFINE N == ScheduleOne(T, a, due)
<1>9. /\ Consistent(lost, N, 0) /\ Admits(T, N)
      /\ ClaimedIn(N) <= ClaimedIn(T) \/ N.running <= limit
  BY <1>1, <1>8, ScheduledWell
<1> HIDE DEF N
<1>10. Serves(Here, N)
  BY <1>3, <1>6, <1>9, AdmitsServes
<1>11. QED
  BY <1>4, <1>8, <1>9, <1>10, Settled DEF N

LEMMA ProbeRefusedKeeps ==
  ASSUME NEW lost, IInv(lost), NEW a \in Account, ProbeRefused(a)
  PROVE  StepKept(lost)
<1> DEFINE E == MarkStatus(Here.entry, a, "expired")
           C == [Here.call EXCEPT ![<<a, "probe">>] = "idle"]
           T == [Here EXCEPT !.entry = MarkStatus(@, a, "expired"),
                             !.call[<<a, "probe">>] = "idle"]
<1>1. /\ Consistent(lost, Here, 0) /\ Here \in SchedulerState /\ Here.running = running
      /\ Here.entry \in [Account -> Entry]
      /\ Here.call = call /\ call[<<a, "probe">>] = "refused" /\ AccountOK(lost, Here, a)
  BY HereFields DEF IInv, Consistent, ProbeRefused, SchedulerState
<1>2. Here.live[a] # "probe"
  BY <1>1 DEF AccountOK, Caller, Holder
<1>3. /\ E \in [Account -> Entry]
      /\ \A b \in Account : E[b].status = "refreshing" => Here.entry[b].status = "refreshing"
  <2>1. "expired" \in Status \ {"refreshing"}
    BY DEF Status
  <2>2. QED
    BY <1>1, <2>1, MarkKept
<1>4. C \in [Account \X Holder -> CallState] /\ T = [Here EXCEPT !.entry = E, !.call = C]
  BY <1>1 DEF SchedulerState, CallState
<1>5. Becomes(T)
  BY DEF ProbeRefused
<1> HIDE DEF C, E, T
<1>6. /\ T \in SchedulerState /\ T.call = C /\ T.entry = E
      /\ T.live = Here.live /\ T.task = Here.task
      /\ T.running = Here.running /\ T.queue = Here.queue
  BY <1>1, <1>3, <1>4 DEF SchedulerState
<1>7. Consistent(lost, T, 0) /\ ClaimedIn(T) = ClaimedIn(Here)
  BY <1>1, <1>2, <1>3, <1>6, ProbeOver DEF C
<1>8. ClaimedIn(T) <= ClaimedIn(Here)
  BY <1>1, <1>6, SameClaims
<1>9. QED
  BY <1>1, <1>5, <1>6, <1>7, <1>8, TasksServe, Settled

LEMMA ProbeUnansweredKeeps ==
  ASSUME NEW lost, IInv(lost), NEW a \in Account, ProbeUnanswered(a)
  PROVE  StepKept(lost)
<1> DEFINE S == Missed(Here, a, "probe")
           C == [S.call EXCEPT ![<<a, "probe">>] = "idle"]
           T == [S EXCEPT !.call[<<a, "probe">>] = "idle"]
<1>1. /\ Consistent(lost, Here, 0) /\ Here \in SchedulerState /\ Here.running = running
      /\ "probe" \in Caller
  BY HereFields DEF IInv, Consistent, Caller, Holder
<1>2. /\ S \in SchedulerState
      /\ S.running = Here.running /\ S.queue = Here.queue
      /\ S.task = Here.task /\ S.call = Here.call /\ S.entry = Here.entry
      /\ \A b \in Account \ {a} : S.live[b] = Here.live[b]
      /\ S.live[a] = IF Here.live[a] = "probe" THEN "spent" ELSE Here.live[a]
  BY <1>1, MissedFields
<1>3. Becomes(T)
  BY DEF ProbeUnanswered
<1> HIDE DEF S
<1>4. C \in [Account \X Holder -> CallState] /\ T = [S EXCEPT !.call = C]
  BY <1>2 DEF SchedulerState, CallState
<1> HIDE DEF C, T
<1>5. /\ T \in SchedulerState /\ T.call = C /\ T.entry = S.entry
      /\ T.live = S.live /\ T.task = S.task
      /\ T.running = S.running /\ T.queue = S.queue
  BY <1>2, <1>4 DEF SchedulerState
<1>6. /\ T.live[a] # "probe"
      /\ T.live[a] # Here.live[a] => Here.live[a] = "probe" /\ T.live[a] \notin Caller
  BY <1>2, <1>5 DEF Caller, Holder
<1>7. Consistent(lost, T, 0)
  BY <1>1, <1>2, <1>5, <1>6, ProbeOver DEF C
<1>8. ClaimedIn(T) <= ClaimedIn(Here)
  BY <1>1, <1>2, <1>5, SameClaims
<1>9. QED
  BY <1>1, <1>2, <1>3, <1>5, <1>7, <1>8, TasksServe, Settled

\* An import leaves no account refreshing.
LEMMA TokenReplaced ==
  ASSUME NEW E \in [Account -> Entry], NEW a \in Account
  PROVE  LET F == ReplaceToken(E, a, 1, NoPlan, 0)
         IN  /\ F \in [Account -> Entry]
             /\ \A b \in Account : F[b].status = "refreshing" => E[b].status = "refreshing"
<1> DEFINE F == ReplaceToken(E, a, 1, NoPlan, 0)
           e == [E[a] EXCEPT !.status = "active", !.exp = 1, !.plan = E[a].plan]
<1>1. TokenStatus(1, 0) = "active" /\ PlanAfter(E[a], NoPlan) = E[a].plan
  BY DEF TokenStatus, PlanAfter
<1>2. F = [E EXCEPT ![a] = e]
  BY <1>1 DEF ReplaceToken
<1>3. E[a] \in Entry
  OBVIOUS
<1>4. e \in Entry /\ e.status # "refreshing"
  BY <1>3 DEF Entry, Status
<1> HIDE DEF e, F
<1>5. F \in [Account -> Entry] /\ \A b \in Account : F[b].status = "refreshing" => E[b].status = "refreshing"
  BY <1>2, <1>4
<1>6. QED
  BY <1>5 DEF F

\* A re-imported token may be the next to refresh.
LEMMA ImportManyKeeps ==
  ASSUME NEW lost, IInv(lost), NEW a \in Account, NEW due \in Dues, ImportMany(a, due)
  PROVE  StepKept(lost)
<1> DEFINE E == ReplaceToken(Here.entry, a, 1, NoPlan, 0)
           T == [Here EXCEPT !.entry = ReplaceToken(@, a, 1, NoPlan, 0)]
<1>1. /\ Consistent(lost, Here, 0) /\ Here \in SchedulerState
      /\ Here.entry \in [Account -> Entry]
      /\ limit \in Limits /\ due \in BOOLEAN
  BY HereFields, RefreshAssumption DEF IInv, Consistent, SchedulerState
<1>2. /\ E \in [Account -> Entry]
      /\ \A b \in Account : E[b].status = "refreshing" => Here.entry[b].status = "refreshing"
  BY <1>1, TokenReplaced
<1>3. Becomes(ScheduleOne(T, a, due))
  BY DEF ImportMany
<1>4. T = [Here EXCEPT !.entry = E]
  BY <1>1
<1> HIDE DEF E, T
<1>5. /\ T \in SchedulerState /\ T.call = Here.call /\ T.entry = E
      /\ T.live = Here.live /\ T.task = Here.task
      /\ T.running = Here.running /\ T.queue = Here.queue
  BY <1>1, <1>2, <1>4 DEF SchedulerState
<1>6. Consistent(lost, T, 0) /\ ClaimedIn(T) = ClaimedIn(Here)
  BY <1>1, <1>2, <1>5, Rescheduled, SameClaims
<1> DEFINE N == ScheduleOne(T, a, due)
<1>7. /\ Consistent(lost, N, 0) /\ Admits(T, N)
      /\ ClaimedIn(N) <= ClaimedIn(T) \/ N.running <= limit
  BY <1>1, <1>6, ScheduledWell
<1> HIDE DEF N
<1>8. Serves(Here, N)
  BY <1>5, <1>7, AdmitsServes
<1>9. QED
  BY <1>1, <1>3, <1>6, <1>7, <1>8, Settled DEF N

\* A verified token is put back, over a newer one even.
LEMMA ImportVerifiedKeeps ==
  ASSUME NEW lost, IInv(lost), NEW a \in Account, NEW due \in Dues, ImportVerified(a, due)
  PROVE  StepKept(lost)
<1> DEFINE E == ReplaceToken(Here.entry, a, 1, NoPlan, 0)
           l == IF Here.live[a] = "pool" /\ Here.call[<<a, "import">>] = "bad"
                THEN "spent" ELSE Here.live[a]
           L == [Here.live EXCEPT ![a] = l]
           C == [Here.call EXCEPT ![<<a, "import">>] = "idle"]
           T == [PutBack(Here, a) EXCEPT !.call[<<a, "import">>] = "idle"]
<1>1. /\ Consistent(lost, Here, 0) /\ Here \in SchedulerState
      /\ Here.entry \in [Account -> Entry] /\ Here.live \in [Account -> Place]
      /\ Here.call \in [Account \X Holder -> CallState]
      /\ limit \in Limits /\ due \in BOOLEAN
  BY HereFields, RefreshAssumption DEF IInv, Consistent, SchedulerState
<1>2. /\ E \in [Account -> Entry]
      /\ \A b \in Account : E[b].status = "refreshing" => Here.entry[b].status = "refreshing"
  BY <1>1, TokenReplaced
<1>3. Becomes(ScheduleOne(T, a, due))
  BY DEF ImportVerified
<1>4. l \in Place /\ l # "import" /\ (l # Here.live[a] => Here.live[a] = "pool" /\ l \notin Caller)
  BY <1>1 DEF Place, Caller, Holder
<1> HIDE DEF l
<1>5. /\ L \in [Account -> Place] /\ L[a] = l /\ \A b \in Account \ {a} : L[b] = Here.live[b]
      /\ C \in [Account \X Holder -> CallState]
  BY <1>1, <1>4 DEF CallState
<1>6. T = [Here EXCEPT !.entry = E, !.live = L, !.call = C]
  BY <1>1 DEF PutBack, SchedulerState, l
<1> HIDE DEF E, L, T
<1>7. /\ T \in SchedulerState /\ T.call = C /\ T.entry = E
      /\ T.live = L /\ T.task = Here.task
      /\ T.running = Here.running /\ T.queue = Here.queue
  BY <1>1, <1>2, <1>5, <1>6 DEF SchedulerState
<1>8. Consistent(lost, T, 0) /\ ClaimedIn(T) = ClaimedIn(Here)
  <2>1. T.live[a] # "import"
    BY <1>4, <1>5, <1>7
  <2>2. T.live[a] # Here.live[a] => Here.live[a] \in {"pool", "import"} /\ T.live[a] \notin Caller
    BY <1>4, <1>5, <1>7
  <2>3. \A b \in Account \ {a} : T.live[b] = Here.live[b]
    BY <1>5, <1>7
  <2>4. T.call = [Here.call EXCEPT ![<<a, "import">>] = "idle"]
    BY <1>7
  <2>5. \A b \in Account : T.entry[b].status = "refreshing" => Here.entry[b].status = "refreshing"
    BY <1>2, <1>7
  <2>6. LetsGo(Here, T, a, "import") /\ "import" \in {"probe", "import"}
    BY <1>7, <2>1, <2>2, <2>3, <2>4, <2>5 DEF LetsGo
  <2>7. QED
    BY <1>1, <1>7, <2>6, HolderOver
<1> DEFINE N == ScheduleOne(T, a, due)
<1>9. /\ Consistent(lost, N, 0) /\ Admits(T, N)
      /\ ClaimedIn(N) <= ClaimedIn(T) \/ N.running <= limit
  BY <1>1, <1>8, ScheduledWell
<1> HIDE DEF N
<1>10. Serves(Here, N)
  BY <1>7, <1>9, AdmitsServes
<1>11. QED
  BY <1>3, <1>8, <1>9, <1>10, Settled DEF N

\* A woken waiter takes its slot.
LEMMA AdmitKeeps ==
  ASSUME NEW lost, IInv(lost), NEW a \in Account, Admit(a)
  PROVE  StepKept(lost)
<1>1. Consistent(lost, Here, 0) /\ Here.task[a].pc = "woken" /\ Becomes(Enter(Here, a))
  BY HereFields DEF IInv, Admit
<1>2. /\ Consistent(lost, Enter(Here, a), 0) /\ ClaimedIn(Enter(Here, a)) <= ClaimedIn(Here)
      /\ Admits(Here, Enter(Here, a))
  BY <1>1, Entered
<1> DEFINE N == Enter(Here, a)
<1> HIDE DEF N
<1>3. Serves(Here, N)
  BY <1>2, AdmitsServes DEF N
<1>4. QED
  BY <1>1, <1>2, <1>3, Settled DEF N

LEMMA DeleteKeeps ==
  ASSUME NEW lost, IInv(lost), NEW a \in Account, Delete(a)
  PROVE  StepKept(lost)
<1> DEFINE E == RemoveEntry(Here.entry, a)
           R == [Here.timer EXCEPT ![a] = FALSE]
           T == [ClearOne(Here, a) EXCEPT !.entry = RemoveEntry(@, a)]
<1>1. /\ Consistent(lost, Here, 0) /\ Here \in SchedulerState /\ Here.running = running
      /\ Here.entry \in [Account -> Entry] /\ Here.timer \in [Account -> BOOLEAN]
  BY HereFields DEF IInv, Consistent, SchedulerState
<1>2. /\ E \in [Account -> Entry]
      /\ \A b \in Account : E[b].status = "refreshing" => Here.entry[b].status = "refreshing"
  BY <1>1, EntriesKept
<1>3. R \in [Account -> BOOLEAN] /\ T = [Here EXCEPT !.entry = E, !.timer = R]
  BY <1>1 DEF SchedulerState, ClearOne
<1>4. Becomes(T)
  BY DEF Delete
<1> HIDE DEF E, R, T
<1>5. /\ T \in SchedulerState /\ T.call = Here.call /\ T.entry = E
      /\ T.live = Here.live /\ T.task = Here.task
      /\ T.running = Here.running /\ T.queue = Here.queue
  BY <1>1, <1>2, <1>3 DEF SchedulerState
<1>6. Consistent(lost, T, 0)
  BY <1>1, <1>2, <1>5, Rescheduled
<1>7. ClaimedIn(T) <= ClaimedIn(Here)
  BY <1>1, <1>5, SameClaims
<1>8. QED
  BY <1>1, <1>4, <1>5, <1>6, <1>7, TasksServe, Settled

-----------------------------------------------------------------------------
(* The steps outside the scheduler's own turns *)

LEMMA ServeKeeps ==
  ASSUME NEW lost, IInv(lost), NEW a \in Account, NEW who \in Caller, Serve(a, who)
  PROVE  StepKept(lost)
<1> DEFINE granted == call[<<a, who>>] = "good"
           rotated == granted /\ a \in OneTime
<1>1. /\ Consistent(lost, Here, 0) /\ Here \in SchedulerState
      /\ \A b \in Account : AccountOK(lost, Here, b)
      /\ call \in [Account \X Holder -> CallState] /\ live \in [Account -> Place]
  BY HereFields DEF IInv, Consistent, SchedulerState
<1>2. /\ call[<<a, who>>] \in {"good", "bad"}
      /\ call' = [x \in Account \X Holder |->
                    IF x = <<a, who>> THEN (IF granted THEN "granted" ELSE "refused")
                    ELSE IF rotated /\ x[1] = a /\ call[x] = "good" THEN "bad"
                    ELSE call[x]]
      /\ live' = IF rotated THEN [live EXCEPT ![a] = who] ELSE live
      /\ UNCHANGED <<entry, task, running, queue, timer, orphans>>
  BY DEF Serve
<1>3. \A b \in Account, w \in Holder :
         call'[<<b, w>>] = IF b = a /\ w = who THEN (IF granted THEN "granted" ELSE "refused")
                           ELSE IF rotated /\ b = a /\ call[<<b, w>>] = "good" THEN "bad"
                           ELSE call[<<b, w>>]
  BY <1>2
<1>4. \A b \in Account : live'[b] = IF rotated /\ b = a THEN who ELSE live[b]
  BY <1>1, <1>2
<1>5. Here' \in SchedulerState
  <2>1. call' \in [Account \X Holder -> CallState]
    BY <1>1, <1>2 DEF CallState
  <2>2. live' \in [Account -> Place]
    BY <1>1, <1>2 DEF Place
  <2>3. QED
    BY <1>1, <1>2, <2>1, <2>2, HereFields DEF Here, SchedulerState
<1>6. ASSUME NEW b \in Account PROVE AccountOK(lost, Here', b)
  <2> DEFINE ok(t, C, L) ==
               /\ C[<<b, "scheduler">>] # "idle" <=> t = "calling"
               /\ L[b] \in Caller => b \in OneTime /\ C[<<b, L[b]>>] = "granted"
               /\ \A w \in Holder : C[<<b, w>>] = "good" => L[b] \notin Caller
               /\ \A w \in Caller : C[<<b, w>>] = "granted" /\ b \in OneTime => L[b] = w
  <2>1. ok(task[b].pc, call, live)
    BY <1>1, HereFields DEF AccountOK
  <2>2. ok(task[b].pc, call', live')
    <3>1. CASE b = a
      <4>1. CASE granted
        BY <1>2, <1>3, <1>4, <2>1, <3>1, <4>1 DEF Caller, Holder
      <4>2. CASE ~ granted
        BY <1>2, <1>3, <1>4, <2>1, <3>1, <4>2 DEF Caller, Holder
      <4>3. QED
        BY <4>1, <4>2
    <3>2. CASE b # a
      BY <1>3, <1>4, <2>1, <3>2 DEF Caller, Holder
    <3>3. QED
      BY <3>1, <3>2
  <2>3. AccountOK(lost, Here, b)
    BY <1>1
  <2>4. QED
    BY <1>2, <2>2, <2>3, HereFields DEF AccountOK
<1>7. QED
  BY <1>1, <1>2, <1>5, <1>6, AsideKept

LEMMA RevokeKeeps ==
  ASSUME NEW lost, IInv(lost), NEW a \in Account, Revoke(a)
  PROVE  StepKept(lost)
<1>1. /\ Consistent(lost, Here, 0) /\ Here \in SchedulerState
      /\ \A b \in Account : AccountOK(lost, Here, b)
      /\ call \in [Account \X Holder -> CallState] /\ live \in [Account -> Place]
  BY HereFields DEF IInv, Consistent, SchedulerState
<1>2. /\ live[a] = "pool" /\ live' = [live EXCEPT ![a] = "revoked"]
      /\ call' = [x \in Account \X Holder |->
                    IF x[1] = a /\ call[x] = "good" THEN "bad" ELSE call[x]]
      /\ UNCHANGED <<entry, task, running, queue, timer, orphans>>
  BY DEF Revoke
<1>3. \A b \in Account, w \in Holder :
         call'[<<b, w>>] = IF b = a /\ call[<<b, w>>] = "good" THEN "bad" ELSE call[<<b, w>>]
  BY <1>2
<1>4. \A b \in Account : live'[b] = IF b = a THEN "revoked" ELSE live[b]
  BY <1>1, <1>2
<1>5. Here' \in SchedulerState
  <2>1. call' \in [Account \X Holder -> CallState]
    BY <1>1, <1>2 DEF CallState
  <2>2. live' \in [Account -> Place]
    BY <1>1, <1>2 DEF Place
  <2>3. QED
    BY <1>1, <1>2, <2>1, <2>2, HereFields DEF Here, SchedulerState
<1>6. ASSUME NEW b \in Account PROVE AccountOK(lost, Here', b)
  <2>1. AccountOK(lost, Here, b)
    BY <1>1
  <2>2. QED
    BY <1>2, <1>3, <1>4, <2>1, HereFields DEF AccountOK, Caller, Holder
<1>7. QED
  BY <1>1, <1>2, <1>5, <1>6, AsideKept

\* A call that begins: its token is good only if the pool has the good one.
LEMMA RetryKeeps ==
  ASSUME NEW lost, IInv(lost), NEW a \in Account, Retry(a)
  PROVE  StepKept(lost)
<1>1. /\ Consistent(lost, Here, 0) /\ Here \in SchedulerState
      /\ \A b \in Account : AccountOK(lost, Here, b)
      /\ call \in [Account \X Holder -> CallState] /\ task \in [Account -> Task]
      /\ "scheduler" \in Caller
  BY HereFields DEF IInv, Consistent, SchedulerState, Caller, Holder
<1>2. /\ task[a].pc = "sleeping"
      /\ task' = [task EXCEPT ![a].pc = "calling", ![a].attempt = @ + 1]
      /\ call' = [call EXCEPT ![<<a, "scheduler">>] = Sent(live, a)]
      /\ UNCHANGED <<entry, running, queue, timer, orphans, live>>
  BY DEF Retry
<1>3. Sent(live, a) \in {"good", "bad"} /\ (Sent(live, a) = "good" => live[a] = "pool")
  BY DEF Sent
<1>4. /\ task[a].attempt < MaxAttempts /\ task[a] \in Task
      /\ task[a].hits < PermanentThreshold
      /\ call[<<a, "scheduler">>] = "idle"
  BY <1>1, <1>2, HereFields DEF AccountOK
<1>5. /\ task' \in [Account -> Task]
      /\ task'[a].pc = "calling" /\ task'[a].hits = task[a].hits
      /\ task'[a].attempt = task[a].attempt + 1
      /\ \A b \in Account \ {a} : task'[b] = task[b]
  <2> DEFINE t == [task[a] EXCEPT !.pc = "calling", !.attempt = @ + 1]
  <2>0. task[a].attempt + 1 \in 1 .. MaxAttempts
    BY <1>4, RefreshAssumption DEF Task
  <2>1. t \in Task /\ t.pc = "calling" /\ t.hits = task[a].hits
        /\ t.attempt = task[a].attempt + 1
    BY <1>4, <2>0 DEF Task
  <2>2. task' = [task EXCEPT ![a] = t]
    BY <1>1, <1>2
  <2> HIDE DEF t
  <2>3. QED
    BY <1>1, <2>1, <2>2
<1>6. \A b \in Account, w \in Holder :
         call'[<<b, w>>] = IF b = a /\ w = "scheduler" THEN Sent(live, a) ELSE call[<<b, w>>]
  BY <1>1, <1>2
<1>7. Here' \in SchedulerState
  <2>1. call' \in [Account \X Holder -> CallState]
    BY <1>1, <1>2, <1>3 DEF CallState
  <2>2. QED
    BY <1>1, <1>2, <1>5, <2>1, HereFields DEF Here, SchedulerState
<1>8. ASSUME NEW b \in Account PROVE AccountOK(lost, Here', b)
  <2>1. AccountOK(lost, Here, b)
    BY <1>1
  <2>2. CASE b = a
    BY <1>2, <1>3, <1>4, <1>5, <1>6, <2>1, <2>2, HereFields DEF AccountOK, Caller, Holder
  <2>3. CASE b # a
    BY <1>2, <1>5, <1>6, <2>1, <2>3, HereFields DEF AccountOK, Caller, Holder
  <2>4. QED
    BY <2>2, <2>3
<1>9. \A b \in Account :
         \/ task'[b] = task[b]
         \/ /\ task[b].pc = "sleeping" /\ task'[b].pc = "calling"
            /\ task'[b].attempt = task[b].attempt + 1
  BY <1>2, <1>5
<1>10. QED
  BY <1>1, <1>2, <1>7, <1>8, <1>9, AsideKept

LEMMA CopyTaken ==
  ASSUME NEW lost, IInv(lost), NEW a \in Account, NEW h \in {"probe", "import"}, NEW c \in {"idle", "good", "bad"},
         c = "good" => live[a] = "pool",
         call' = [call EXCEPT ![<<a, h>>] = c],
         UNCHANGED <<entry, task, running, queue, timer, orphans, live>>,
         h = "import" \/ call[<<a, h>>] = "idle"
  PROVE  StepKept(lost)
<1>1. /\ Consistent(lost, Here, 0) /\ Here \in SchedulerState
      /\ \A b \in Account : AccountOK(lost, Here, b)
      /\ call \in [Account \X Holder -> CallState]
      /\ h \in Holder
  BY HereFields DEF IInv, Consistent, SchedulerState, Caller, Holder
<1>2. \A b \in Account, w \in Holder :
         call'[<<b, w>>] = IF b = a /\ w = h THEN c ELSE call[<<b, w>>]
  BY <1>1
<1>3. Here' \in SchedulerState
  <2>1. call' \in [Account \X Holder -> CallState]
    BY <1>1 DEF CallState
  <2>2. QED
    BY <1>1, <2>1, HereFields DEF Here, SchedulerState
<1>4. ASSUME NEW b \in Account PROVE AccountOK(lost, Here', b)
  <2>1. AccountOK(lost, Here, b)
    BY <1>1
  <2>2. CASE b = a
    BY <1>2, <2>1, <2>2, HereFields DEF AccountOK, Caller, Holder
  <2>3. CASE b # a
    BY <1>2, <2>1, <2>3, HereFields DEF AccountOK, Caller, Holder
  <2>4. QED
    BY <2>2, <2>3
<1>5. QED
  BY <1>1, <1>3, <1>4, AsideKept

LEMMA ProbeStartsKeeps ==
  ASSUME NEW lost, IInv(lost), NEW a \in Account, ProbeStarts(a)
  PROVE  StepKept(lost)
<1>1. Sent(live, a) \in {"idle", "good", "bad"} /\ (Sent(live, a) = "good" => live[a] = "pool")
  BY DEF Sent
<1>2. /\ call[<<a, "probe">>] = "idle" /\ call' = [call EXCEPT ![<<a, "probe">>] = Sent(live, a)]
      /\ UNCHANGED <<entry, task, running, queue, timer, orphans, live>>
  BY DEF ProbeStarts
<1>3. QED
  BY <1>1, <1>2, CopyTaken

LEMMA ImportStartsKeeps ==
  ASSUME NEW lost, IInv(lost), NEW a \in Account, ImportStarts(a)
  PROVE  StepKept(lost)
<1>1. Sent(live, a) \in {"idle", "good", "bad"} /\ (Sent(live, a) = "good" => live[a] = "pool")
  BY DEF Sent
<1>2. /\ call' = [call EXCEPT ![<<a, "import">>] = Sent(live, a)]
      /\ UNCHANGED <<entry, task, running, queue, timer, orphans, live>>
  BY DEF ImportStarts
<1>3. QED
  BY <1>1, <1>2, CopyTaken

LEMMA ImportGivenUpKeeps ==
  ASSUME NEW lost, IInv(lost), NEW a \in Account, ImportGivenUp(a)
  PROVE  StepKept(lost)
<1>1. /\ call' = [call EXCEPT ![<<a, "import">>] = "idle"]
      /\ UNCHANGED <<entry, task, running, queue, timer, orphans, live>>
  BY DEF ImportGivenUp
<1>2. QED
  BY <1>1, CopyTaken

\* The operator, and the clock, may move an account to any other status.
LEMMA StatusKeeps ==
  ASSUME NEW lost, IInv(lost), entry' \in [Account -> Entry],
         \A b \in Account : entry'[b].status = "refreshing" => entry[b].status = "refreshing",
         UNCHANGED <<task, running, queue, timer, orphans, call, live>>
  PROVE  StepKept(lost)
<1>1. Consistent(lost, Here, 0) /\ Here \in SchedulerState
  BY DEF IInv, Consistent
<1>2. Here' \in SchedulerState
  BY <1>1, HereFields DEF Here, SchedulerState
<1>3. Consistent(lost, Here', 0)
  BY <1>1, <1>2, HereFields, Rescheduled
<1>4. Serves(Here, Here')
  BY <1>1, HereFields, TasksServe
<1>5. ClaimedIn(Here') <= ClaimedIn(Here)
  BY <1>1, HereFields, SameClaims
<1>6. QED
  BY <1>3, <1>4, <1>5 DEF StepKept

LEMMA SetStatusKeeps ==
  ASSUME NEW lost, IInv(lost), NEW a \in Account, NEW s \in {"active", "disabled", "banned"}, SetStatus(a, s)
  PROVE  StepKept(lost)
<1>1. entry \in [Account -> Entry]
  BY HereFields DEF IInv, Consistent, SchedulerState
<1>2. s \in Status \ {"refreshing"}
  BY DEF Status
<1>3. entry' = MarkStatus(entry, a, s) /\ UNCHANGED <<task, running, queue, timer, orphans, call, live>>
  BY DEF SetStatus
<1>4. /\ entry' \in [Account -> Entry]
      /\ \A b \in Account : entry'[b].status = "refreshing" => entry[b].status = "refreshing"
  BY <1>1, <1>2, <1>3, MarkKept
<1>5. QED
  BY <1>3, <1>4, StatusKeeps

LEMMA TokenExpiresKeeps ==
  ASSUME NEW lost, IInv(lost), NEW a \in Account, TokenExpires(a)
  PROVE  StepKept(lost)
<1>1. entry \in [Account -> Entry]
  BY HereFields DEF IInv, Consistent, SchedulerState
<1>2. /\ entry[a].status = "active" /\ entry' = [entry EXCEPT ![a] = RefreshStatus(entry[a], 1)]
      /\ UNCHANGED <<task, running, queue, timer, orphans, call, live>>
  BY DEF TokenExpires
<1>3. entry[a] \in Entry
  BY <1>1
<1>4. RefreshStatus(entry[a], 1) \in Entry /\ RefreshStatus(entry[a], 1).status # "refreshing"
  BY <1>2, <1>3 DEF RefreshStatus, TokenChecked, LimitLifted, Entry, Status
<1>5. /\ entry' \in [Account -> Entry]
      /\ \A b \in Account : entry'[b].status = "refreshing" => entry[b].status = "refreshing"
  BY <1>1, <1>2, <1>4
<1>6. QED
  BY <1>2, <1>5, StatusKeeps

-----------------------------------------------------------------------------
(* The theorems *)

LEMMA LimitAndCount ==
  ASSUME NEW lost, IInv(lost), Next
  PROVE  limit' \in Limits /\ outside' \in 0 .. MaxOutside /\ (limit' = limit \/ UNCHANGED <<running, task>>)
<1>1. /\ limit \in Limits /\ outside \in 0 .. MaxOutside /\ MaxOutside \in Nat
  BY RefreshAssumption DEF IInv
<1>2. \/ UNCHANGED <<limit, outside>>
      \/ outside < MaxOutside /\ outside' = outside + 1 /\ limit' = limit
      \/ limit' \in Limits /\ UNCHANGED <<outside, running, task>>
  <2> DEFINE Either == \/ UNCHANGED <<limit, outside>>
                       \/ outside < MaxOutside /\ outside' = outside + 1 /\ limit' = limit
  <2>1. ASSUME NEW a \in Account, TimerFires(a) \/ Scheduler(a)
        PROVE  Either
    BY <2>1 DEF TimerFires, Scheduler, Admit, Serve, Granted, Refused, Unanswered, Retry
  <2>2. ASSUME NEW a \in Account, Probe(a) \/ ProbeStarts(a)
        PROVE  Either
    BY <2>2 DEF Probe, Serve, ProbeStarts, ProbeGranted, ProbeRefused, ProbeUnanswered
  <2>3. ASSUME NEW a \in Account, Operator(a) \/ Imports(a)
        PROVE  Either
    BY <2>3 DEF Operator, SetStatus, Delete, ImportStarts, Imports, ImportMany, ImportVerified,
                ImportGivenUp
  <2>4. ASSUME NEW a \in Account, TokenExpires(a) \/ Revoke(a)
        PROVE  Either
    BY <2>4 DEF TokenExpires, Revoke
  <2>5. ASSUME NEW n \in Limits, SetLimit(n)
        PROVE  limit' \in Limits /\ UNCHANGED <<outside, running, task>>
    BY <2>5 DEF SetLimit
  <2>6. QED
    BY <2>1, <2>2, <2>3, <2>4, <2>5 DEF Next
<1>3. QED
  BY <1>1, <1>2

LEMMA NextKeeps ==
  ASSUME NEW lost, IInv(lost), Next
  PROVE  StepKept(lost)
<1>1. CASE \E n \in Limits : SetLimit(n)
  <2>1. UNCHANGED <<entry, task, running, queue, timer, orphans, call, live>>
    BY <1>1 DEF SetLimit
  <2>2. entry \in [Account -> Entry]
    BY HereFields DEF IInv, Consistent, SchedulerState
  <2>3. QED
    BY <2>1, <2>2, StatusKeeps
<1>2. ASSUME NEW a \in Account,
             \/ Scheduler(a) \/ Probe(a) \/ Imports(a) \/ TokenExpires(a) \/ Revoke(a)
             \/ TimerFires(a) \/ ProbeStarts(a) \/ Operator(a)
      PROVE  StepKept(lost)
  <2>1. CASE TimerFires(a) \/ TokenExpires(a) \/ Revoke(a)
    BY <2>1, TimerFiresKeeps, TokenExpiresKeeps, RevokeKeeps
  <2>2. CASE Scheduler(a)
    BY <2>2, AdmitKeeps, ServeKeeps, GrantedKeeps, RefusedKeeps, UnansweredKeeps, RetryKeeps
    DEF Scheduler, Caller, Holder
  <2>3. CASE Probe(a) \/ ProbeStarts(a)
    BY <2>3, ServeKeeps, ProbeStartsKeeps, ProbeGrantedKeeps, ProbeRefusedKeeps,
       ProbeUnansweredKeeps
    DEF Probe, Caller, Holder
  <2>4. CASE Operator(a) \/ Imports(a)
    BY <2>4, SetStatusKeeps, DeleteKeeps, ImportStartsKeeps, ImportManyKeeps,
       ImportVerifiedKeeps, ImportGivenUpKeeps
    DEF Operator, Imports
  <2>5. QED
    BY <1>2, <2>1, <2>2, <2>3, <2>4
<1>3. QED
  BY <1>1, <1>2 DEF Next

\* scheduleAll: the refreshes found interrupted start again, as many as the
\* limit admits, and the others wait, once each.
LEMMA InitGivesIInv ==
  ASSUME Init
  PROVE  IInv(Account)
<1>1. PICK status \in [Account -> Loaded], enabled \in BOOLEAN :
        LET scheduled == {a \in Account : enabled /\ HasToken(live, a)}
            recovering == {a \in scheduled : status[a] = "refreshing"}
        IN  /\ entry = [a \in Account |-> LoadedEntry(status[a])]
            /\ timer = [a \in Account |-> a \in scheduled /\ status[a] \in {"active", "expired"}]
            /\ \E first \in SUBSET recovering :
                  /\ first = recovering
                     \/ Cardinality(first) = limit
                  /\ Cardinality(first) <= limit
                  /\ running = Cardinality(first)
                  /\ queue \in [1 .. Cardinality(recovering \ first) -> recovering \ first]
                  /\ {queue[i] : i \in DOMAIN queue} = recovering \ first
                  /\ task = [a \in Account |->
                               IF a \in first THEN [NoTask EXCEPT !.pc = "calling"]
                               ELSE IF a \in recovering THEN [NoTask EXCEPT !.pc = "queued"]
                               ELSE NoTask]
                  /\ call = [x \in Account \X Holder |->
                               IF x[1] \in first /\ x[2] = "scheduler" THEN "good" ELSE "idle"]
  BY DEF Init
<1> DEFINE scheduled == {a \in Account : enabled /\ HasToken(live, a)}
           recovering == {a \in scheduled : status[a] = "refreshing"}
<1>2. /\ \A a \in recovering : HasToken(live, a)
      /\ entry = [a \in Account |-> LoadedEntry(status[a])]
      /\ timer \in [Account -> BOOLEAN]
  BY <1>1
<1>3. PICK first \in SUBSET recovering :
        /\ first = recovering \/ Cardinality(first) = limit
        /\ running = Cardinality(first)
        /\ queue \in [1 .. Cardinality(recovering \ first) -> recovering \ first]
        /\ {queue[i] : i \in DOMAIN queue} = recovering \ first
        /\ task = [a \in Account |->
                     IF a \in first THEN [NoTask EXCEPT !.pc = "calling"]
                     ELSE IF a \in recovering THEN [NoTask EXCEPT !.pc = "queued"]
                     ELSE NoTask]
        /\ call = [x \in Account \X Holder |->
                     IF x[1] \in first /\ x[2] = "scheduler" THEN "good" ELSE "idle"]
  BY <1>1
<1>4. /\ limit \in Limits /\ live \in [Account -> {"pool", "none"}]
      /\ orphans = [a \in Account |-> 0] /\ outside = 0
  BY DEF Init
<1>5. first \subseteq Account /\ recovering \subseteq Account
  OBVIOUS
<1> DEFINE waiting == recovering \ first
           n == Cardinality(waiting)
<1>6. IsFiniteSet(waiting) /\ n \in Nat
  BY <1>5, RefreshAssumption, FS_Subset, FS_CardinalityType
<1> HIDE DEF scheduled, recovering
<1>8. /\ \A a \in Account : entry[a].status = status[a] /\ entry[a] \in Entry
      /\ entry \in [Account -> Entry] /\ timer \in [Account -> BOOLEAN]
      /\ orphans \in [Account -> Nat] /\ live \in [Account -> Place]
  <2>1. \A s \in Loaded : LoadedEntry(s) \in Entry /\ LoadedEntry(s).status = s
    BY DEF Loaded, LoadedEntry, Entry, Status
  <2>2. \A a \in Account : status[a] \in Loaded
    OBVIOUS
  <2>3. \A a \in Account : entry[a] = LoadedEntry(status[a])
    BY <1>2
  <2>4. entry \in [Account -> Entry]
    BY <1>2, <2>1, <2>2
  <2>5. live \in [Account -> Place]
    BY <1>4 DEF Place
  <2>6. timer \in [Account -> BOOLEAN] /\ orphans \in [Account -> Nat]
    BY <1>2, <1>4
  <2>7. QED
    BY <2>1, <2>2, <2>3, <2>4, <2>5, <2>6
<1>9. /\ task \in [Account -> Task]
      /\ \A a \in Account :
            /\ task[a].pc = IF a \in first THEN "calling"
                            ELSE IF a \in recovering THEN "queued" ELSE "none"
            /\ task[a].hits = 0
  <2>1. /\ NoTask \in Task /\ NoTask.pc = "none" /\ NoTask.hits = 0
        /\ \A p \in {"calling", "queued"} :
              LET t == [NoTask EXCEPT !.pc = p]
              IN  t \in Task /\ t.pc = p /\ t.hits = 0
    BY RefreshAssumption DEF NoTask, Task
  <2>2. \A a \in Account : task[a] \in Task
    BY <1>3, <2>1
  <2>3. task \in [Account -> Task]
    BY <1>3, <2>2
  <2>4. \A a \in Account :
            /\ task[a].pc = IF a \in first THEN "calling"
                            ELSE IF a \in recovering THEN "queued" ELSE "none"
            /\ task[a].hits = 0
    BY <1>3, <2>1
  <2>5. QED
    BY <2>3, <2>4
<1>10. /\ call \in [Account \X Holder -> CallState]
       /\ \A a \in Account, w \in Holder :
             call[<<a, w>>] = IF a \in first /\ w = "scheduler" THEN "good" ELSE "idle"
  BY <1>3 DEF CallState
<1>11. queue \in Seq(Account) /\ Len(queue) = n /\ DOMAIN queue = 1 .. n
       /\ {queue[i] : i \in 1 .. n} = waiting
  <2>1. /\ queue \in [1 .. n -> waiting] /\ {queue[i] : i \in DOMAIN queue} = waiting
        /\ waiting \subseteq Account
    BY <1>3, <1>5
  <2> HIDE DEF n, waiting
  <2>2. queue \in [1 .. n -> Account] /\ DOMAIN queue = 1 .. n
    BY <2>1
  <2>3. queue \in Seq(Account) /\ Len(queue) = n
    BY <1>6, <2>2
  <2>4. QED
    BY <2>1, <2>2, <2>3
<1>12. \A i, j \in 1 .. n : queue[i] = queue[j] => i = j
  <2>1. queue \in [1 .. n -> waiting]
    BY <1>3
  <2>2. queue \in Surjection(1 .. n, waiting)
    BY <1>11, <2>1 DEF Surjection
  <2>3. IsFiniteSet(1 .. n) /\ Cardinality(1 .. n) = n
    BY <1>6, FS_Interval
  <2>4. queue \in Injection(1 .. n, waiting)
    BY <2>2, <2>3, FS_Surjection
  <2>5. QED
    BY <2>4 DEF Injection, IsInjective
<1>13. WorkingIn(Here) = first /\ QueuedIn(Here) = waiting
  BY <1>5, <1>9, HereFields DEF WorkingIn, QueuedIn
<1>14. Cardinality(first) \in Nat
  BY <1>5, RefreshAssumption, FS_Subset, FS_CardinalityType
<1>15. queue # <<>> => running > 0
  <2>1. limit \in Nat /\ limit > 0
    BY <1>4, RefreshAssumption
  <2>2. first = recovering => waiting = {}
    OBVIOUS
  <2>3. queue # <<>> => waiting # {}
    <3>1. SUFFICES ASSUME waiting = {} PROVE queue = <<>>
      OBVIOUS
    <3>2. n = 0
      BY <3>1, FS_EmptySet
    <3>3. QED
      BY <1>11, <3>2, EmptySeq
  <2>4. QED
    BY <1>3, <2>1, <2>2, <2>3
<1>16. Here \in SchedulerState
  <2>1. running \in Int
    BY <1>3, <1>14
  <2>2. QED
    BY <1>8, <1>9, <1>10, <1>11, <2>1 DEF Here, SchedulerState
<1>17. Semaphore(Here, 0)
  <2>1. running = Cardinality(first) + 0
    BY <1>3, <1>14
  <2>2. /\ \A i, j \in DOMAIN queue : queue[i] = queue[j] => i = j
        /\ {queue[i] : i \in DOMAIN queue} = waiting
    BY <1>3, <1>11, <1>12
  <2>3. QED
    BY <1>13, <1>15, <2>1, <2>2, HereFields DEF Semaphore
<1>18. ASSUME NEW a \in Account PROVE AccountOK(Account, Here, a)
  <2>1. live[a] \in {"pool", "none"}
    BY <1>4
  <2>2. live[a] \notin Caller
    BY <1>4 DEF Caller, Holder
  <2>3. 0 < PermanentThreshold
    BY RefreshAssumption
  <2>4. QED
    BY <1>8, <1>9, <1>10, <2>1, <2>2, <2>3, HereFields DEF AccountOK, Caller, Holder
<1>19. QED
  BY <1>4, <1>16, <1>17, <1>18, RefreshAssumption DEF IInv, Consistent

\* A step keeps the invariant, whoever is lost.
LEMMA StepInv ==
  ASSUME NEW lost, IInv(lost), [Next]_vars
  PROVE  IInv(lost)'
<1>1. CASE Next
  BY <1>1, NextKeeps, LimitAndCount DEF IInv, StepKept
<1>2. CASE UNCHANGED vars
  <2>1. entry \in [Account -> Entry]
    BY HereFields DEF IInv, Consistent, SchedulerState
  <2>2. StepKept(lost)
    BY <1>2, <2>1, StatusKeeps DEF vars
  <2>3. QED
    BY <1>2, <2>2 DEF IInv, StepKept, vars
<1>3. QED
  BY <1>1, <1>2

\* The scheduler's record, the accounts and the counters fit together always.
THEOREM Inductive == Spec => []IInv(Account)
<1>1. Init => IInv(Account)
  BY InitGivesIInv
<1>2. IInv(Account) /\ [Next]_vars => IInv(Account)'
  BY StepInv
<1>3. QED
  BY <1>1, <1>2, PTL DEF Spec

\* Every variable keeps its type: no answer, lost or late, and no retry takes a
\* counter of the scheduler out of its range.
THEOREM TypeCorrect == Spec => []TypeOK
<1>1. IInv(Account) => TypeOK
  <2> SUFFICES ASSUME IInv(Account) PROVE TypeOK
    OBVIOUS
  <2>1. running \in Nat
    BY Few, HereFields DEF IInv, Consistent, Semaphore
  <2>2. QED
    BY <2>1, HereFields DEF IInv, Consistent, SchedulerState, Task, TypeOK
<1>2. QED
  BY <1>1, Inductive, PTL

\* No step strands an account in the transient status: one that is refreshing
\* has its refresh in _inFlight, or was loaded so by a scheduler that passed it
\* over and has kept the status since.
THEOREM NobodyStranded == Spec => RefreshingIsOwned
<1> DEFINE Kept == \A a \in Account : Stranded(a)' => Stranded(a)
<1>1. IInv(Account) /\ [Next]_vars => Kept
  <2> SUFFICES ASSUME IInv(Account), [Next]_vars PROVE Kept
    OBVIOUS
  <2>1. PICK lost : lost = {a \in Account : Stranded(a)}
    OBVIOUS
  <2>2. \A a \in Account : AccountOK(lost, Here, a)
    <3>1. ASSUME NEW a \in Account PROVE AccountOK(lost, Here, a)
      <4>1. AccountOK(Account, Here, a)
        BY DEF IInv, Consistent
      <4>2. entry[a].status = "refreshing" => task[a].pc # "none" \/ a \in lost
        BY <2>1 DEF Stranded
      <4>3. QED
        BY <4>1, <4>2, HereFields DEF AccountOK
    <3>2. QED
      BY <3>1
  <2>3. IInv(lost)
    BY <2>2 DEF IInv, Consistent
  <2>4. IInv(lost)'
    BY <2>3, StepInv
  <2>5. ASSUME NEW a \in Account, Stranded(a)' PROVE a \in lost
    <3>1. entry'[a].status = "refreshing" /\ task'[a].pc = "none"
      BY <2>5 DEF Stranded
    <3>2. AccountOK(lost, Here', a)
      BY <2>4 DEF IInv, Consistent
    <3>3. QED
      BY <3>1, <3>2, HereFields DEF AccountOK
  <2>6. QED
    BY <2>1, <2>5
<1>2. Spec => [][Kept]_vars
  <2> HIDE DEF Kept
  <2>1. QED
    BY <1>1, Inductive, PTL DEF Spec
<1>3. QED
  BY <1>2 DEF RefreshingIsOwned

\* A single-use refresh token that the server handed out is never in the hands
\* of a caller that finished, whichever answers overtake each other.
THEOREM TokenNotDropped == Spec => []NoTokenDropped
<1>1. IInv(Account) => NoTokenDropped
  BY HereFields DEF IInv, Consistent, AccountOK, NoTokenDropped
<1>2. QED
  BY <1>1, Inductive, PTL

\* As many waiters as accounts that wait.
LEMMA QueueCounts ==
  ASSUME NEW lost, NEW S, Consistent(lost, S, 0)
  PROVE  Len(S.queue) = Cardinality(QueuedIn(S))
<1>1. /\ S.queue \in Seq(Account)
      /\ \A i, j \in DOMAIN S.queue : S.queue[i] = S.queue[j] => i = j
      /\ {S.queue[i] : i \in DOMAIN S.queue} = QueuedIn(S)
  BY DEF Consistent, Semaphore, SchedulerState
<1> DEFINE n == Len(S.queue)
<1>2. n \in Nat /\ DOMAIN S.queue = 1 .. n
  BY <1>1
<1>3. S.queue \in [1 .. n -> QueuedIn(S)]
  <2>1. \A i \in 1 .. n : S.queue[i] \in QueuedIn(S)
    BY <1>1, <1>2
  <2>2. S.queue \in [1 .. n -> Account]
    BY <1>1, LenProperties
  <2> HIDE DEF n
  <2>3. QED
    BY <2>1, <2>2
<1> HIDE DEF n
<1>4. \A x \in QueuedIn(S) : \E i \in 1 .. n : S.queue[i] = x
  BY <1>1, <1>2
<1>5. S.queue \in Bijection(1 .. n, QueuedIn(S))
  BY <1>1, <1>2, <1>3, <1>4 DEF Bijection, Injection, Surjection, IsInjective
<1>6. ExistsBijection(1 .. n, QueuedIn(S))
  BY <1>5 DEF ExistsBijection
<1>7. Cardinality(QueuedIn(S)) = n
  BY <1>2, <1>6, FS_CountingElements
<1>8. QED
  BY <1>7 DEF n

\* The semaphore counts the refreshes under way exactly and nobody waits for a
\* slot that is free and not on its way; the slots held and on their way only
\* grow by a refresh that finds fewer than the limit then in force held.
THEOREM SemaphoreTheorem == Spec => SemaphoreKept
<1>1. IInv(Account) => SemaphoreExact
  <2> SUFFICES ASSUME IInv(Account) PROVE SemaphoreExact
    OBVIOUS
  <2>1. /\ WorkingIn(Here) = Working /\ WokenIn(Here) = Woken
        /\ QueuedIn(Here) = {a \in Account : task[a].pc = "queued"}
    BY HereFields DEF WorkingIn, QueuedIn, WokenIn, Working, Woken
  <2>2. Consistent(Account, Here, 0)
    BY DEF IInv
  <2>3. Len(queue) = Cardinality(QueuedIn(Here))
    BY <2>2, QueueCounts, HereFields
  <2>4. running = Cardinality(WorkingIn(Here))
    BY <2>2, Few, HereFields DEF Consistent, Semaphore
  <2>5. /\ {queue[i] : i \in DOMAIN queue} = QueuedIn(Here)
        /\ queue # <<>> => running > 0 \/ WokenIn(Here) # {}
    BY <2>2, HereFields DEF Consistent, Semaphore
  <2>6. QED
    BY <2>1, <2>3, <2>4, <2>5 DEF SemaphoreExact
<1>2. IInv(Account) /\ [Next]_vars => [Claimed' > Claimed => running' <= limit]_vars
  <2> SUFFICES ASSUME IInv(Account), [Next]_vars
               PROVE  [Claimed' > Claimed => running' <= limit]_vars
    OBVIOUS
  <2>1. CASE Next
    <3>1. Claimed = ClaimedIn(Here) /\ Claimed' = ClaimedIn(Here')
      BY HereFields DEF Claimed, Woken, ClaimedIn, WokenIn
    <3>2. StepKept(Account)
      BY <2>1, NextKeeps
    <3>3. ClaimedIn(Here) \in Int /\ ClaimedIn(Here') \in Int
      BY <3>2, Few DEF IInv, StepKept, Consistent, SchedulerState, ClaimedIn
    <3>4. QED
      BY <3>1, <3>2, <3>3 DEF StepKept
  <2>2. CASE UNCHANGED vars
    BY <2>2
  <2>3. QED
    BY <2>1, <2>2
<1>3. QED
  BY <1>1, <1>2, TypeCorrect, Inductive, PTL DEF Spec, SemaphoreKept, ConcurrencyLimited

\* What a step of the whole system does to a refresh in its slot, and to the
\* order of the queue.
LEMMA StepServes ==
  ASSUME NEW lost, IInv(lost), Next
  PROVE  /\ \A a, b \in Account :
               WaitsBefore(a, b) /\ task'[b].pc # "queued" => task'[a].pc # "queued"
         /\ \A a \in Working :
               \/ task'[a].pc = "none"
               \/ /\ task'[a].pc \in {"calling", "sleeping"}
                  /\ task'[a].attempt =
                       IF task[a].pc = "sleeping" /\ task'[a].pc = "calling"
                       THEN task[a].attempt + 1 ELSE task[a].attempt
<1>1. Serves(Here, Here')
  BY NextKeeps DEF StepKept
<1>2. ASSUME NEW a \in Account, NEW b \in Account, WaitsBefore(a, b), task'[b].pc # "queued"
      PROVE  task'[a].pc # "queued"
  <2>1. PICK i \in DOMAIN queue, j \in DOMAIN queue : i < j /\ queue[i] = a /\ queue[j] = b
    BY <1>2 DEF WaitsBefore
  <2>2. QED
    BY <1>1, <1>2, <2>1, HereFields DEF Serves, InOrder
<1>3. ASSUME NEW a \in Working PROVE GoesOn(task[a], task'[a])
  <2>1. a \in WorkingIn(Here)
    BY HereFields DEF Working, WorkingIn
  <2>2. QED
    BY <1>1, <2>1, HereFields DEF Serves
<1>4. QED
  BY <1>2, <1>3 DEF GoesOn

\* Whoever waits for a slot is served in the order of arrival, and a refresh
\* that has one ends or uses up its attempts: what the scheduler contributes to
\* the end of every refresh, for any number of accounts and any limit.
THEOREM OrderTheorem == Spec => ServedInOrder
<1> DEFINE Order == \A a, b \in Account :
                      WaitsBefore(a, b) /\ task'[b].pc # "queued" => task'[a].pc # "queued"
           Count == \A a \in Working :
                      \/ task'[a].pc = "none"
                      \/ /\ task'[a].pc \in {"calling", "sleeping"}
                         /\ task'[a].attempt =
                              IF task[a].pc = "sleeping" /\ task'[a].pc = "calling"
                              THEN task[a].attempt + 1 ELSE task[a].attempt
<1>1. IInv(Account) /\ [Next]_vars => [Order]_vars /\ [Count]_vars
  <2> SUFFICES ASSUME IInv(Account), [Next]_vars PROVE [Order]_vars /\ [Count]_vars
    OBVIOUS
  <2> HIDE DEF Order, Count
  <2>1. CASE Next
    <3>1. Order /\ Count
      BY <2>1, StepServes DEF Order, Count
    <3>2. QED
      BY <3>1
  <2>2. CASE UNCHANGED vars
    BY <2>2
  <2>3. QED
    BY <2>1, <2>2
<1>2. Spec => [][Order]_vars /\ [][Count]_vars
  <2> HIDE DEF Order, Count
  <2>1. QED
    BY <1>1, Inductive, PTL DEF Spec
<1>3. QED
  BY <1>2 DEF ServedInOrder, NobodyOvertaken, AttemptsCounted
===============================================================================
