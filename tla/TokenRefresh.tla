------------------------------ MODULE TokenRefresh ------------------------------
(***************************************************************************)
(* Keeping access tokens fresh: the refresh scheduler                      *)
(* (src/auth/refresh-scheduler.ts), the health-check probe                 *)
(* (src/auth/health-check.ts) and the operator, against an OAuth server    *)
(* whose refresh tokens may be single-use.                                 *)
(*                                                                         *)
(* The code between two awaits is one step.  A waiter that releaseSlot     *)
(* wakes up takes its slot in a microtask of its own: answers and imports  *)
(* handled in the same turn come in between, timers and requests do not.   *)
(*                                                                         *)
(* External: the OAuth server.  Of all refresh tokens of an account at     *)
(* most one is good; live says where it is.                                *)
(*                                                                         *)
(* Abstracted: timers fire at any moment (their delays are minutes to      *)
(* days); whether a new token is already due for refresh is a choice;      *)
(* tokens are valid when they arrive.  Bounds: at most MaxOutside probes   *)
(* and imports, and one probe and one verified import per account at a     *)
(* time.                                                                   *)
(***************************************************************************)
EXTENDS AccountRegistry, Sequences, FiniteSets

CONSTANTS
    OneTime,            \* accounts whose refresh tokens are single-use (oaistb_rt_)
    Limits,             \* values the operator may give refresh_concurrency
    MaxAttempts,        \* MAX_ATTEMPTS
    PermanentThreshold, \* PERMANENT_THRESHOLD
    Dues,               \* may a token be within refresh_margin of its expiry at birth
    MaxOutside

ASSUME RefreshAssumption ==
    /\ IsFiniteSet(Account)
    /\ OneTime \subseteq Account
    /\ Limits \subseteq Nat \ {0} /\ Limits # {}
    /\ MaxAttempts \in Nat \ {0} /\ PermanentThreshold \in Nat \ {0}
    /\ Dues \subseteq BOOLEAN
    /\ MaxOutside \in Nat

VARIABLES
    entry,      \* AccountRegistry.accounts
    task,       \* the running doRefresh of an account; pc "none": not in _inFlight
    running,    \* _running
    queue,      \* _queue, the accounts whose doRefresh waits
    timer,      \* account has a timer in timers
    orphans,    \* pending timers of the account that timers no longer maps
    call,       \* token requests at the OAuth server, and copies of tokens, by holder
    live,       \* where the good refresh token of the account is
    limit,      \* config.auth.refresh_concurrency, hot-reloaded
    outside     \* probes and imports so far

vars == <<entry, task, running, queue, timer, orphans, call, live, limit, outside>>

Caller == {"scheduler", "probe"}

\* importOne keeps a copy of the account's token while the account is verified.
Holder == Caller \cup {"import"}

\* In the pool's entry; in the answer to a caller; none was ever there; lost
\* in an answer that did not arrive, or dropped with the entry; revoked.
Place == {"pool", "none", "spent", "revoked"} \cup Caller

\* A call was sent with (a copy is of) a good or a bad refresh token, or the
\* server has decided the call and the answer is on its way.
CallState == {"idle", "good", "bad", "granted", "refused"}

NoTask == [pc |-> "none", attempt |-> 1, hits |-> 0]

\* L: where the good token of every account is.
HasToken(L, a) == L[a] # "none"

Sent(L, a) == IF L[a] = "pool" THEN "good" ELSE "bad"

-----------------------------------------------------------------------------
(* The scheduler's state as a record, so that one call can run another. *)

Here == [entry |-> entry, task |-> task, running |-> running, queue |-> queue,
         timer |-> timer, orphans |-> orphans, call |-> call, live |-> live]

\* (The quantifier makes TLC evaluate the next record once.)
Becomes(next) ==
    \E S \in {next} :
        /\ entry' = S.entry /\ task' = S.task
        /\ running' = S.running /\ queue' = S.queue
        /\ timer' = S.timer /\ orphans' = S.orphans
        /\ call' = S.call /\ live' = S.live

\* _doRefreshInner up to its first await, in a slot already taken.
HasWork(S, a) == Present(S.entry, a) /\ HasToken(S.live, a)

Begin(S, a) ==
    [S EXCEPT !.entry = MarkStatus(@, a, "refreshing"),
              !.task[a] = [NoTask EXCEPT !.pc = "calling"],
              !.call[<<a, "scheduler">>] = Sent(S.live, a)]

\* Without an entry or a refresh token there is nothing to await: the entry,
\* if any, is marked expired and the refresh is over.
Skip(S, a) == [S EXCEPT !.entry = MarkStatus(@, a, "expired"), !.task[a] = NoTask]

\* Mutant: the slot is freed and nobody woken up.
ReleaseSlotSilently(S) == [S EXCEPT !.running = @ - 1]

\* Mutant: the waiter that came last is served first.
ReleaseSlotToNewest(S) ==
    IF S.queue = <<>> THEN [S EXCEPT !.running = @ - 1]
    ELSE [S EXCEPT !.running = @ - 1, !.queue = SubSeq(@, 1, Len(@) - 1),
                   !.task[S.queue[Len(S.queue)]].pc = "woken"]

\* The first waiter is woken up; it takes its slot later, in Admit.
ReleaseSlot(S) ==
    IF S.queue = <<>> THEN [S EXCEPT !.running = @ - 1]
    ELSE [S EXCEPT !.running = @ - 1, !.queue = Tail(@),
                   !.task[Head(S.queue)].pc = "woken"]

\* The rest of acquireSlot, and the refresh up to its first await.
Enter(S, a) ==
    LET T == [S EXCEPT !.running = @ + 1]
    IN  IF HasWork(S, a) THEN Begin(T, a) ELSE ReleaseSlot(Skip(T, a))

\* Mutant: one slot too many.
DoRefreshOverLimit(S, a) ==
    IF S.task[a].pc # "none" THEN S
    ELSE IF S.running > limit
         THEN [S EXCEPT !.task[a].pc = "queued", !.queue = Append(@, a)]
    ELSE Enter(S, a)

DoRefresh(S, a) ==
    IF S.task[a].pc # "none" THEN S
    ELSE IF S.running >= limit
         THEN [S EXCEPT !.task[a].pc = "queued", !.queue = Append(@, a)]
    ELSE Enter(S, a)

\* The finally block of doRefresh.
Over(S, a) ==
    ReleaseSlot([S EXCEPT !.task[a] = NoTask, !.call[<<a, "scheduler">>] = "idle"])

ClearOne(S, a) == [S EXCEPT !.timer[a] = FALSE]

ScheduleOne(S, a, due) ==
    IF due THEN DoRefresh(ClearOne(S, a), a) ELSE [S EXCEPT !.timer[a] = TRUE]

\* The old timer, if any, keeps running without its handle.
ScheduleRecovery(S, a) ==
    [S EXCEPT !.timer[a] = TRUE, !.orphans[a] = IF S.timer[a] THEN @ + 1 ELSE @]

-----------------------------------------------------------------------------
(* scheduleAll on the accounts loaded from disk; the constructor runs it.  *)
(* With refresh_enabled off it does nothing; without a refresh token an    *)
(* account is passed over.                                                 *)

Loaded == {"active", "expired", "refreshing", "disabled", "banned"}

LoadedEntry(status) == [status |-> status, until |-> 0, exp |-> 1, plan |-> NoPlan]

Init ==
    /\ limit \in Limits
    /\ live \in [Account -> {"pool", "none"}]
    /\ \E status \in [Account -> Loaded], enabled \in BOOLEAN :
          LET scheduled == {a \in Account : enabled /\ HasToken(live, a)}
              recovering == {a \in scheduled : status[a] = "refreshing"}
          IN  /\ entry = [a \in Account |-> LoadedEntry(status[a])]
              /\ timer = [a \in Account |-> a \in scheduled /\ status[a] \in {"active", "expired"}]
              /\ \E first \in SUBSET recovering :
                    /\ first = recovering
                       \/ Cardinality(first) = limit
                    /\ Cardinality(first) <= limit
                    /\ running = Cardinality(first)
                    /\ queue \in [1 .. Cardinality(recovering \ first) -> recovering \ first]
                    /\ {queue[i] : i \in DOMAIN queue} = recovering \ first
                    /\ task = [a \in Account |->
                                 IF a \in first THEN [NoTask EXCEPT !.pc = "calling"]
                                 ELSE IF a \in recovering THEN [NoTask EXCEPT !.pc = "queued"]
                                 ELSE NoTask]
                    /\ call = [x \in Account \X Holder |->
                                 IF x[1] \in first /\ x[2] = "scheduler" THEN "good" ELSE "idle"]
    /\ orphans = [a \in Account |-> 0]
    /\ outside = 0

-----------------------------------------------------------------------------
(* The OAuth server decides a call.  External. *)

Serve(a, who) ==
    /\ call[<<a, who>>] \in {"good", "bad"}
    /\ LET granted == call[<<a, who>>] = "good"
           rotated == granted /\ a \in OneTime
       IN  /\ call' = [x \in Account \X Holder |->
                         IF x = <<a, who>> THEN (IF granted THEN "granted" ELSE "refused")
                         ELSE IF rotated /\ x[1] = a /\ call[x] = "good" THEN "bad"
                         ELSE call[x]]
           /\ live' = IF rotated THEN [live EXCEPT ![a] = who] ELSE live
    /\ UNCHANGED <<entry, task, running, queue, timer, orphans, limit, outside>>

\* The grant is withdrawn by its owner or the provider.
Revoke(a) ==
    /\ live[a] = "pool"
    /\ live' = [live EXCEPT ![a] = "revoked"]
    /\ call' = [x \in Account \X Holder |->
                  IF x[1] = a /\ call[x] = "good" THEN "bad" ELSE call[x]]
    /\ UNCHANGED <<entry, task, running, queue, timer, orphans, limit, outside>>

\* The answer to a call arrived: updateToken stores its tokens in the entry, if
\* there still is one.  Or it did not.
Stored(S, a) ==
    [S EXCEPT !.entry = UpdateToken(@, a, 1, NoPlan, 0),
              !.live[a] = IF a \notin OneTime THEN @
                          ELSE IF Present(S.entry, a) THEN "pool" ELSE "spent"]

Missed(S, a, who) == [S EXCEPT !.live[a] = IF @ = who THEN "spent" ELSE @]

-----------------------------------------------------------------------------
(* A waiter takes its slot; the retry loop of _doRefreshInner *)

Admit(a) ==
    /\ task[a].pc = "woken"
    /\ Becomes(Enter(Here, a))
    /\ UNCHANGED <<limit, outside>>

TimerFires(a) ==
    /\ \/ /\ timer[a]
          /\ Becomes(DoRefresh([Here EXCEPT !.timer[a] = FALSE], a))
       \/ /\ orphans[a] > 0
          /\ Becomes(DoRefresh([Here EXCEPT !.timer[a] = FALSE,
                                            !.orphans[a] = IF timer[a] THEN @ ELSE @ - 1], a))
    /\ UNCHANGED <<limit, outside>>

\* Mutant: only the access token of the answer is stored.
GrantedTokenIgnored(a, due) ==
    /\ call[<<a, "scheduler">>] = "granted"
    /\ LET updated == [Here EXCEPT !.entry = UpdateToken(@, a, 1, NoPlan, 0)]
       IN  Becomes(Over(ScheduleOne(updated, a, due), a))
    /\ UNCHANGED <<limit, outside>>

\* The new token is scheduled before the refresh leaves _inFlight.
Granted(a, due) ==
    /\ call[<<a, "scheduler">>] = "granted"
    /\ Becomes(Over(ScheduleOne(Stored(Here, a), a, due), a))
    /\ UNCHANGED <<limit, outside>>

\* Back off, or give up: the account stays usable and recovery is scheduled.
Sleeps(S, a) == [S EXCEPT !.task[a].pc = "sleeping", !.call[<<a, "scheduler">>] = "idle"]

TryLater(S, a) ==
    IF S.task[a].attempt < MaxAttempts THEN Sleeps(S, a)
    ELSE Over(ScheduleRecovery([S EXCEPT !.entry = MarkStatus(@, a, "active")], a), a)

\* Mutant: a refresh that fails for good leaves the status alone.
RefusedUnmarked(a) ==
    /\ call[<<a, "scheduler">>] = "refused"
    /\ LET S == [Here EXCEPT !.task[a].hits = @ + 1]
       IN  Becomes(IF S.task[a].hits >= PermanentThreshold THEN Over(S, a) ELSE TryLater(S, a))
    /\ UNCHANGED <<limit, outside>>

Refused(a) ==
    /\ call[<<a, "scheduler">>] = "refused"
    /\ LET S == [Here EXCEPT !.task[a].hits = @ + 1]
       IN  Becomes(IF S.task[a].hits >= PermanentThreshold
                   THEN Over([S EXCEPT !.entry = MarkStatus(@, a, "expired")], a)
                   ELSE TryLater(S, a))
    /\ UNCHANGED <<limit, outside>>

\* No answer: the request, or the answer, is lost, or the server fails.
Unanswered(a) ==
    /\ call[<<a, "scheduler">>] \in {"good", "bad", "granted"}
    /\ Becomes(TryLater(Missed(Here, a, "scheduler"), a))
    /\ UNCHANGED <<limit, outside>>

Retry(a) ==
    /\ task[a].pc = "sleeping"
    /\ task' = [task EXCEPT ![a].pc = "calling", ![a].attempt = @ + 1]
    /\ call' = [call EXCEPT ![<<a, "scheduler">>] = Sent(live, a)]
    /\ UNCHANGED <<entry, running, queue, timer, orphans, live, limit, outside>>

-----------------------------------------------------------------------------
(* probeAccount *)

ProbeStarts(a) ==
    /\ outside < MaxOutside
    /\ call[<<a, "probe">>] = "idle"
    /\ Present(entry, a) /\ HasToken(live, a) /\ entry[a].status # "disabled"
    /\ call' = [call EXCEPT ![<<a, "probe">>] = Sent(live, a)]
    /\ outside' = outside + 1
    /\ UNCHANGED <<entry, task, running, queue, timer, orphans, live, limit>>

ProbeGranted(a, due) ==
    /\ call[<<a, "probe">>] = "granted"
    /\ Becomes(ScheduleOne([Stored(Here, a) EXCEPT !.call[<<a, "probe">>] = "idle"], a, due))
    /\ UNCHANGED <<limit, outside>>

ProbeRefused(a) ==
    /\ call[<<a, "probe">>] = "refused"
    /\ Becomes([Here EXCEPT !.entry = MarkStatus(@, a, "expired"),
                            !.call[<<a, "probe">>] = "idle"])
    /\ UNCHANGED <<limit, outside>>

ProbeUnanswered(a) ==
    /\ call[<<a, "probe">>] \in {"good", "bad", "granted"}
    /\ Becomes([Missed(Here, a, "probe") EXCEPT !.call[<<a, "probe">>] = "idle"])
    /\ UNCHANGED <<limit, outside>>

-----------------------------------------------------------------------------
(* The operator and the rest of the program *)

\* setStatusBatch, and the request path when the backend bans the account.
SetStatus(a, status) ==
    /\ Present(entry, a)
    /\ entry' = MarkStatus(entry, a, status)
    /\ UNCHANGED <<task, running, queue, timer, orphans, call, live, limit, outside>>

\* deleteBatch: the timer is cancelled, a refresh under way is not.
Delete(a) ==
    /\ Present(entry, a)
    /\ Becomes([ClearOne(Here, a) EXCEPT !.entry = RemoveEntry(@, a)])
    /\ UNCHANGED <<limit, outside>>

\* importMany given the refresh token of a known account adds its own tokens
\* again; nothing is awaited.
ImportMany(a, due) ==
    /\ outside < MaxOutside
    /\ Present(entry, a) /\ HasToken(live, a)
    /\ Becomes(ScheduleOne([Here EXCEPT !.entry = ReplaceToken(@, a, 1, NoPlan, 0)], a, due))
    /\ outside' = outside + 1
    /\ UNCHANGED limit

\* importOne takes them out and verifies the account ...
ImportStarts(a) ==
    /\ outside < MaxOutside
    /\ call[<<a, "import">>] = "idle"
    /\ Present(entry, a) /\ HasToken(live, a)
    /\ call' = [call EXCEPT ![<<a, "import">>] = Sent(live, a)]
    /\ outside' = outside + 1
    /\ UNCHANGED <<entry, task, running, queue, timer, orphans, live, limit>>

\* ... and puts them back, over the ones a refresh has stored meanwhile.  (For
\* an account deleted meanwhile it adds a new one, which is not followed.)
PutBack(S, a) ==
    [S EXCEPT !.entry = ReplaceToken(@, a, 1, NoPlan, 0),
              !.live[a] = IF @ = "pool" /\ S.call[<<a, "import">>] = "bad" THEN "spent" ELSE @]

ImportVerified(a, due) ==
    /\ call[<<a, "import">>] # "idle"
    /\ Present(entry, a)
    /\ Becomes(ScheduleOne([PutBack(Here, a) EXCEPT !.call[<<a, "import">>] = "idle"], a, due))
    /\ UNCHANGED <<limit, outside>>

ImportGivenUp(a) ==
    /\ call[<<a, "import">>] # "idle"
    /\ call' = [call EXCEPT ![<<a, "import">>] = "idle"]
    /\ UNCHANGED <<entry, task, running, queue, timer, orphans, live, limit, outside>>

\* Any reader of the registry notices that the token expired.
TokenExpires(a) ==
    /\ entry[a].status = "active"
    /\ entry' = [entry EXCEPT ![a] = RefreshStatus(@, 1)]
    /\ UNCHANGED <<task, running, queue, timer, orphans, call, live, limit, outside>>

SetLimit(n) ==
    /\ limit' = n
    /\ UNCHANGED <<entry, task, running, queue, timer, orphans, call, live, outside>>

-----------------------------------------------------------------------------
Scheduler(a) ==
    \/ Admit(a)
    \/ Serve(a, "scheduler")
    \/ \E due \in Dues : Granted(a, due)
    \/ Refused(a) \/ Unanswered(a) \/ Retry(a)

Probe(a) ==
    \/ Serve(a, "probe")
    \/ \E due \in Dues : ProbeGranted(a, due)
    \/ ProbeRefused(a) \/ ProbeUnanswered(a)

Imports(a) ==
    \/ \E due \in Dues : ImportMany(a, due) \/ ImportVerified(a, due)
    \/ ImportGivenUp(a)

Operator(a) ==
    \/ \E s \in {"active", "disabled", "banned"} : SetStatus(a, s)
    \/ Delete(a) \/ ImportStarts(a)

\* Nobody is between the release of a slot and taking it.
Quiet == \A a \in Account : task[a].pc # "woken"

\* (A retry, which is a timer too, and what happens outside the program do not
\* touch the semaphore.)
Next ==
    \/ \E a \in Account :
          Scheduler(a) \/ Probe(a) \/ Imports(a) \/ TokenExpires(a) \/ Revoke(a)
    \/ /\ Quiet
       /\ \/ \E a \in Account : TimerFires(a) \/ ProbeStarts(a) \/ Operator(a)
          \/ \E n \in Limits : SetLimit(n)

Spec == Init /\ [][Next]_vars

\* Token requests time out and backoff sleeps end.
FairSpec == Spec /\ \A a \in Account : WF_vars(Scheduler(a))

-----------------------------------------------------------------------------
(* Properties *)

\* Every variable keeps its type.
TypeOK ==
    /\ entry \in [Account -> Entry]
    /\ task \in [Account -> [pc : {"none", "queued", "woken", "calling", "sleeping"},
                             attempt : 1 .. MaxAttempts, hits : 0 .. PermanentThreshold]]
    /\ running \in Nat /\ queue \in Seq(Account)
    /\ timer \in [Account -> BOOLEAN] /\ orphans \in [Account -> Nat]
    /\ call \in [Account \X Holder -> CallState]
    /\ live \in [Account -> Place]
    /\ limit \in Limits /\ outside \in 0 .. MaxOutside

Working == {a \in Account : task[a].pc \in {"calling", "sleeping"}}

Woken == {a \in Account : task[a].pc = "woken"}

\* The semaphore counts exactly the refreshes under way, the queue holds
\* exactly the ones waiting, once each, and nobody waits while every slot is
\* free and not on its way to a waiter: no release is forgotten, doubled or
\* missed by a waiter.
SemaphoreExact ==
    /\ running = Cardinality(Working)
    /\ {queue[i] : i \in DOMAIN queue} = {a \in Account : task[a].pc = "queued"}
    /\ Len(queue) = Cardinality({a \in Account : task[a].pc = "queued"})
    /\ queue # <<>> => running > 0 \/ Woken # {}

\* Slots held, or given back for a waiter that has yet to take them.
Claimed == running + Cardinality(Woken)

\* The slots held and on their way only grow by a refresh that finds fewer than
\* the limit in force held, although the operator may lower or raise it
\* meanwhile: a waiter takes no more than was given back for it.
ConcurrencyLimited == [][Claimed' > Claimed => running' <= limit]_vars

\* "Acquire a semaphore slot, waiting if at capacity": a slot on its way to a
\* waiter is not free.
SlotsWithinLimit == [][Claimed' > Claimed => Claimed' <= limit]_vars

\* The semaphore of the refreshes, in what it counts and in whom it admits, and
\* the types of what it works on.
SemaphoreKept == [](TypeOK /\ SemaphoreExact) /\ ConcurrencyLimited

\* a waits in the queue, and before b.
WaitsBefore(a, b) ==
    \E i, j \in DOMAIN queue : i < j /\ queue[i] = a /\ queue[j] = b

\* Nobody leaves the queue before one who waited longer.
NobodyOvertaken ==
    [][\A a, b \in Account :
         WaitsBefore(a, b) /\ task'[b].pc # "queued" => task'[a].pc # "queued"]_vars

\* A refresh in its slot ends or goes on: it does not wait again, nor start
\* over, and only its retries count as attempts.
AttemptsCounted ==
    [][\A a \in Working :
         \/ task'[a].pc = "none"
         \/ /\ task'[a].pc \in {"calling", "sleeping"}
            /\ task'[a].attempt =
                 IF task[a].pc = "sleeping" /\ task'[a].pc = "calling"
                 THEN task[a].attempt + 1 ELSE task[a].attempt]_vars

\* Who waits for a slot is served in the order of arrival, whatever timers,
\* answers and operator do meanwhile, and nobody holds a slot for more than the
\* attempts of one refresh: a waiter is behind finitely many attempts of others.
\* (A newcomer that finds a free slot, because the limit was raised, takes it
\* at once; the queue moves on with every release all the same.)
ServedInOrder == NobodyOvertaken /\ AttemptsCounted

\* In the transient status refreshing, without a refresh under way or waiting.
Stranded(a) == entry[a].status = "refreshing" /\ task[a].pc = "none"

\* Whatever the server answers and the operator does meanwhile, no step strands
\* an account in that status: the only ones stranded are loaded in it by a
\* scheduler that is switched off, or finds no refresh token, and stay so only
\* until somebody sets their status or renews their token.
RefreshingIsOwned == [][\A a \in Account : Stranded(a)' => Stranded(a)]_vars

\* "Crash recovery: refreshing -> immediate retry": a start leaves no account
\* stranded.
CrashRecovered == \A a \in Account : ~ Stranded(a)

\* The single-use token the server hands out in an answer is stored or, with
\* its account, deleted: it is never in the hands of a caller that has
\* finished.  (An import verified meanwhile may put the old one over it.)
NoTokenDropped ==
    \A a \in Account : live[a] \in Caller => call[<<a, live[a]>>] = "granted"

\* Every refresh ends, in the queue or not, so that the account can be
\* refreshed again.
RefreshEnds == \A a \in Account : (task[a].pc # "none") ~> (task[a].pc = "none")

\* "Don't reactivate manually disabled or banned accounts": only the operator
\* takes an account out of these statuses.
DisabledStaysDisabled ==
    [][\A a \in Account :
         /\ entry[a].status \in {"disabled", "banned"}
         /\ entry'[a].status \notin {"disabled", "banned"}
         => Operator(a) \/ Imports(a)]_vars

\* A single-use token the server may have consumed is not sent again ("retrying
\* would cause refresh_token_reused and permanently kill the RT").
SpentTokenNotResent ==
    [][\A a \in Account :
         task[a].pc = "sleeping" /\ task'[a].pc = "calling" => live[a] # "spent"]_vars

\* The permanent errors that expire an account are consecutive: a failure of
\* another kind between them starts the count again.
PermanentErrorsConsecutive ==
    [][\A a \in Account :
         task[a].pc = "calling" /\ task'[a].pc = "sleeping" =>
            task'[a].hits \in {0, task[a].hits + 1}]_vars
=============================================================================
