------------------------------ MODULE ProxyHandler ------------------------------
(***************************************************************************)
(* Proxied requests competing for the accounts of one pool                 *)
(* (src/routes/shared/proxy-handler.ts, proxy-error-handler.ts and         *)
(* account-acquisition.ts), over the pool's own operators.                 *)
(*                                                                         *)
(* A request runs alone between two awaits, so a step is everything the    *)
(* handler does from one answer of the backend to the next await: classify *)
(* the error, mutate the pool, release, acquire another account.           *)
(*                                                                         *)
(* External: the backend answers as it likes.  withRetry (three attempts   *)
(* on 5xx with the same account) and the stagger delay change nothing but  *)
(* time, and belong to the wait for an answer.                             *)
(*                                                                         *)
(* Bounds: time stops at MaxTime; tokens outlive it (AccountPool has their *)
(* expiry); requests ask for a model every plan serves.                    *)
(***************************************************************************)
EXTENDS AccountLifecycle

CONSTANTS
    Request,
    None,             \* no account, no previous response
    Limit,            \* max_concurrent_per_account
    MaxEmptyRetries,  \* MAX_EMPTY_RETRIES
    Backoffs,         \* lengths of a rate limit
    MaxTime

ASSUME HandlerAssumption ==
    /\ None \notin Account \cup Request
    /\ Limit \in Nat \ {0}
    /\ MaxEmptyRetries \in Nat
    /\ Backoffs \subseteq Nat \ {0}
    /\ MaxTime \in Nat
    /\ IsFiniteSet(Account)

VARIABLES
    entry,      \* AccountRegistry.accounts
    slots,      \* AccountLifecycle.acquireLocks
    now,        \* Date.now()
    req,        \* the local variables of every handler
    affinity    \* SessionAffinityMap, keyed by the request that got the response

vars == <<entry, slots, now, req, affinity>>

\* Waiting for the backend: for response headers, for the rest of the body
\* (stream or collect), for the headers again after an empty response.
InFlight == {"sending", "streaming", "collecting", "resending"}

\* Fields outer and acct are the handler's entryId and handleNonStreaming's
\* currentEntryId; turn is the account whose response gave upstreamTurnState.
\* History: owed is 1 from an acquire of the account to the release that reaches
\* the pool, lost counts the releases the guard swallowed though one was owed,
\* counted how often the current attempt was recorded in the usage counters.
NewRequest ==
    [pc |-> "idle", outer |-> None, acct |-> None, tried |-> {},
     modelRetried |-> FALSE, released |-> {}, attempt |-> 1, turn |-> None,
     owed |-> [a \in Account |-> 0], lost |-> [a \in Account |-> 0], counted |-> 0]

Init ==
    /\ entry = [a \in Account |-> [status |-> "active", until |-> 0,
                                   exp |-> MaxTime + 1, plan |-> NoPlan]]
    /\ slots = [a \in Account |-> <<>>]
    /\ now = 1
    /\ req = [r \in Request |-> NewRequest]
    /\ affinity = [r \in Request |-> None]

-----------------------------------------------------------------------------
(* Building blocks of a step: pool maps E and S, request q *)

Pool(E, S) == entry' = E /\ slots' = S

Becomes(r, q) == req' = [req EXCEPT ![r] = q]

Replied(q) == [q EXCEPT !.pc = "done"]

Counted(q, E, a) == [q EXCEPT !.counted = IF Present(E, a) THEN @ + 1 ELSE @]

\* acquireAccount: the accounts that may be picked, and what a pick does.
Usable(E, S, excluded) ==
    Candidates(RefreshEntries(E, Account, now), DropStale(S, now), Limit, excluded, {}, {})

Acquired(q, b) ==
    [q EXCEPT !.acct = b, !.owed[b] = 1, !.counted = 0]

PoolRefreshed(E, S) == Pool(RefreshEntries(E, Account, now), DropStale(S, now))

PoolAcquired(E, S, b) ==
    Pool(RefreshEntries(E, Account, now), PushSlot(DropStale(S, now), b, now))

\* releaseAccount with the request's guard: the second release of an account
\* is skipped.
SlotsReleased(S, q, a) == IF a \in q.released THEN S ELSE PopSlot(S, a)

\* Mutant: the release does not look at the guard.
ReleasedUnguarded(q, a) ==
    Counted([q EXCEPT !.released = @ \cup {a}, !.owed[a] = @ - 1], entry, a)

Released(q, a) ==
    IF a \in q.released
    THEN [q EXCEPT !.lost[a] = IF q.owed[a] > 0 THEN @ + 1 ELSE @]
    ELSE Counted([q EXCEPT !.released = @ \cup {a}, !.owed[a] = @ - 1], entry, a)

\* Release the current account and answer.
ReleaseAndReply(r) ==
    /\ Pool(entry, SlotsReleased(slots, req[r], req[r].acct))
    /\ Becomes(r, Replied(Released(req[r], req[r].acct)))

\* Mutant: the accounts tried are not excluded.
FailoverAnywhere(r, E, S, q) ==
    \/ /\ Usable(E, S, {}) = {}
       /\ PoolRefreshed(E, S)
       /\ Becomes(r, Replied(q))
    \/ \E b \in Usable(E, S, {}) :
          /\ PoolAcquired(E, S, b)
          /\ Becomes(r, [Acquired(q, b) EXCEPT !.outer = b, !.tried = @ \cup {b}])

\* Acquire an account not tried before, or give up with an error.
Failover(r, E, S, q) ==
    \/ /\ Usable(E, S, q.tried) = {}
       /\ PoolRefreshed(E, S)
       /\ Becomes(r, Replied(q))
    \/ \E b \in Usable(E, S, q.tried) :
          /\ PoolAcquired(E, S, b)
          /\ Becomes(r, [Acquired(q, b) EXCEPT !.outer = b, !.tried = @ \cup {b}])

-----------------------------------------------------------------------------
(* handleProxyRequest *)

\* prev: the request whose response this one continues; its account is preferred.
Start(r, prev) ==
    /\ req[r].pc = "idle"
    /\ prev # None => affinity[prev] # None
    /\ LET preferred == IF prev = None THEN {} ELSE {affinity[prev].acct}
           C == Usable(entry, slots, {})
       IN  \/ /\ C = {}
              /\ PoolRefreshed(entry, slots)
              /\ Becomes(r, Replied(req[r]))
           \/ \E b \in Choices(C, preferred) :
                 /\ PoolAcquired(entry, slots, b)
                 /\ Becomes(r, [Acquired(req[r], b) EXCEPT
                                   !.pc = "sending", !.outer = b, !.tried = {b}])
    /\ UNCHANGED <<now, affinity>>

\* Response headers arrive.  When they say the limit is reached the account is
\* parked at once, with its locks.
Opens(r, body) ==
    /\ req[r].pc = "sending"
    /\ Pool(entry, slots)
    /\ Becomes(r, [req[r] EXCEPT !.pc = body, !.turn = req[r].acct])
    /\ UNCHANGED <<now, affinity>>

OpensExhausted(r, body, backoff) ==
    /\ req[r].pc = "sending"
    /\ Pool(MarkRateLimited(entry, req[r].acct, now + backoff),
            ClearLockOf(slots, entry, req[r].acct))
    /\ Becomes(r, [req[r] EXCEPT !.pc = body, !.turn = req[r].acct])
    /\ UNCHANGED <<now, affinity>>

\* A failure that is not a CodexApiError, and a CodexApiError of no known kind.
SendFails(r) ==
    /\ req[r].pc = "sending"
    /\ ReleaseAndReply(r)
    /\ UNCHANGED <<now, affinity>>

\* The plan does not serve the model: one other account is tried.
ModelUnsupported(r) ==
    /\ req[r].pc = "sending"
    /\ \/ /\ req[r].modelRetried
          /\ ReleaseAndReply(r)
       \/ /\ ~req[r].modelRetried
          /\ Failover(r, entry, SlotsReleased(slots, req[r], req[r].acct),
                      [Released(req[r], req[r].acct) EXCEPT !.modelRetried = TRUE])
    /\ UNCHANGED <<now, affinity>>

\* Mutants: the locks survive the mark; the account is also released.
RateLimitedLocked(r, backoff) ==
    /\ req[r].pc = "sending"
    /\ Failover(r, MarkRateLimited(entry, req[r].acct, now + backoff), slots,
                Counted(req[r], entry, req[r].acct))
    /\ UNCHANGED <<now, affinity>>

RateLimitedAndReleased(r, backoff) ==
    /\ req[r].pc = "sending"
    /\ Failover(r, MarkRateLimited(entry, req[r].acct, now + backoff),
                ClearLockOf(slots, entry, req[r].acct),
                Released(Counted(req[r], entry, req[r].acct), req[r].acct))
    /\ UNCHANGED <<now, affinity>>

\* 429: the mark counts the request and clears the locks, there is no release.
RateLimited(r, backoff) ==
    /\ req[r].pc = "sending"
    /\ Failover(r, MarkRateLimited(entry, req[r].acct, now + backoff),
                ClearLockOf(slots, entry, req[r].acct),
                Counted(req[r], entry, req[r].acct))
    /\ UNCHANGED <<now, affinity>>

\* 402, 403, 401: the account is parked and another one tried.
Rejected(r, status) ==
    /\ req[r].pc = "sending"
    /\ Failover(r, MarkStatus(entry, req[r].acct, status),
                ClearLockOf(slots, entry, req[r].acct), req[r])
    /\ UNCHANGED <<now, affinity>>

-----------------------------------------------------------------------------
(* The body *)

\* affinityMap.record, for a response that carried an id.
Recorded(r) ==
    affinity' \in {affinity,
                   [affinity EXCEPT ![r] = [acct |-> req[r].acct, turn |-> req[r].turn]]}

\* The stream ends, completely or not; its finally block releases.
StreamEnds(r) ==
    /\ req[r].pc = "streaming"
    /\ Recorded(r)
    /\ ReleaseAndReply(r)
    /\ UNCHANGED now

Collected(r) ==
    /\ req[r].pc = "collecting"
    /\ Recorded(r)
    /\ ReleaseAndReply(r)
    /\ UNCHANGED now

\* Any collect error but an empty response, or one empty response too many.
CollectFails(r) ==
    /\ req[r].pc = "collecting"
    /\ ReleaseAndReply(r)
    /\ UNCHANGED <<now, affinity>>

\* Mutant: one retry too many.
EmptyOnceMore(r) ==
    /\ req[r].pc = "collecting"
    /\ req[r].attempt <= MaxEmptyRetries + 1
    /\ LET q == Released(req[r], req[r].acct)
           S == SlotsReleased(slots, req[r], req[r].acct)
       IN  \E b \in Usable(entry, S, {}) :
              /\ PoolAcquired(entry, S, b)
              /\ Becomes(r, [Acquired(q, b) EXCEPT !.pc = "resending"])
    /\ UNCHANGED <<now, affinity>>

\* An empty response: release and acquire again, no account excluded.
Empty(r) ==
    /\ req[r].pc = "collecting"
    /\ req[r].attempt <= MaxEmptyRetries
    /\ LET q == Released(req[r], req[r].acct)
           S == SlotsReleased(slots, req[r], req[r].acct)
       IN  \/ /\ Usable(entry, S, {}) = {}
              /\ PoolRefreshed(entry, S)
              /\ Becomes(r, Replied(q))
           \/ \E b \in Usable(entry, S, {}) :
                 /\ PoolAcquired(entry, S, b)
                 /\ Becomes(r, [Acquired(q, b) EXCEPT !.pc = "resending"])
    /\ UNCHANGED <<now, affinity>>

\* The retry's headers are not looked at.
Reopens(r) ==
    /\ req[r].pc = "resending"
    /\ Pool(entry, slots)
    /\ Becomes(r, [req[r] EXCEPT !.pc = "collecting", !.attempt = @ + 1])
    /\ UNCHANGED <<now, affinity>>

\* Mutant: a rejected retry fails over as the first attempt does.
ResendFailsOver(r) ==
    /\ req[r].pc = "resending"
    /\ Failover(r, entry, SlotsReleased(slots, req[r], req[r].acct),
                Released(req[r], req[r].acct))
    /\ UNCHANGED <<now, affinity>>

\* A CodexApiError of the retry is answered as it is, whatever its kind.
ResendRejected(r) ==
    /\ req[r].pc = "resending"
    /\ ReleaseAndReply(r)
    /\ UNCHANGED <<now, affinity>>

\* Any other error is thrown on, and the caller's catch releases once more.
ResendThrows(r) ==
    /\ req[r].pc = "resending"
    /\ LET q == Released(req[r], req[r].acct)
           S == SlotsReleased(slots, req[r], req[r].acct)
       IN  /\ Pool(entry, SlotsReleased(S, q, q.outer))
           /\ Becomes(r, Replied(Released(q, q.outer)))
    /\ UNCHANGED <<now, affinity>>

-----------------------------------------------------------------------------
(* Environment: the dashboard, the clock *)

OperatorMarks(a, status) ==
    /\ Present(entry, a)
    /\ Pool(MarkStatus(entry, a, status), ClearLockOf(slots, entry, a))
    /\ UNCHANGED <<now, req, affinity>>

OperatorRemoves(a) ==
    /\ Present(entry, a)
    /\ Pool(RemoveEntry(entry, a), ClearLock(slots, a))
    /\ UNCHANGED <<now, req, affinity>>

Tick ==
    /\ now < MaxTime
    /\ now' = now + 1
    /\ UNCHANGED <<entry, slots, req, affinity>>

Answer(r) ==
    \/ \E body \in {"streaming", "collecting"} :
          Opens(r, body) \/ \E b \in Backoffs : OpensExhausted(r, body, b)
    \/ SendFails(r) \/ ModelUnsupported(r)
    \/ \E b \in Backoffs : RateLimited(r, b)
    \/ \E s \in {"quota_exhausted", "banned", "expired"} : Rejected(r, s)
    \/ StreamEnds(r) \/ Collected(r) \/ CollectFails(r) \/ Empty(r)
    \/ Reopens(r) \/ ResendRejected(r) \/ ResendThrows(r)

Next ==
    \/ \E r \in Request : Answer(r) \/ \E prev \in Request \cup {None} : Start(r, prev)
    \/ \E a \in Account : OperatorRemoves(a) \/ \E s \in {"active", "disabled"} : OperatorMarks(a, s)
    \/ Tick

Spec == Init /\ [][Next]_vars

\* The wait for headers ends by the transport's timeout; that a body the backend
\* has begun also ends is an assumption, nothing in the program enforces it.
FairSpec == Spec /\ \A r \in Request : WF_vars(Answer(r))

-----------------------------------------------------------------------------
(* Properties *)

RequestType ==
    [pc : {"idle", "done"} \cup InFlight, outer : Account \cup {None},
     acct : Account \cup {None}, tried : SUBSET Account, modelRetried : BOOLEAN,
     released : SUBSET Account, attempt : 1 .. MaxEmptyRetries + 1,
     turn : Account \cup {None},
     owed : [Account -> Int], lost : [Account -> Nat], counted : Nat]

\* Every variable keeps its type.
TypeOK ==
    /\ entry \in [Account -> Entry]
    /\ slots \in [Account -> Seq(Nat)]
    /\ now \in Nat
    /\ req \in [Request -> RequestType]
    /\ affinity \in [Request -> {None} \cup [acct : Account, turn : Account]]

Holders(a) == {r \in Request : req[r].pc \in InFlight /\ req[r].acct = a}

\* One element for every release on a that the guard swallowed.
LostOn(a) == UNION {{r} \X (1 .. req[r].lost[a]) : r \in Request}

\* Whatever way a request leaves an account (answered, failed over, thrown,
\* streamed to the end), it leaves no slot behind on it: an account has at most as
\* many slots as requests in flight on it, and one for each release the guard
\* swallowed, which NoOrphanSlot is about.  It may have fewer: see NoRequestWithoutSlot.
SlotsAccounted ==
    \A a \in Account : Len(slots[a]) <= Cardinality(Holders(a)) + Cardinality(LostOn(a))

\* "Each entry = one in-flight request": a slot is never left without a
\* request in flight on its account.
NoOrphanSlot == \A a \in Account : Len(slots[a]) <= Cardinality(Holders(a))

\* The same words, the other way round: a request in flight always has its slot.  A mark
\* drops the slots of the requests still at work, whose late releases then pop those of
\* requests that came after it.
NoRequestWithoutSlot == \A a \in Account : Len(slots[a]) >= Cardinality(Holders(a))

\* No double release: on no retry branch does a request release an account
\* more often than it acquired it, which would hand back the slot of another
\* request ("prevents double-release across retry branches").  A single release may do
\* that too, when the request's own slot was dropped before (NoRequestWithoutSlot).
NoDoubleRelease == \A r \in Request, a \in Account : req[r].owed[a] >= 0

\* On every branch of every request a slot that was taken is given back, and not twice:
\* an account is never held at its limit by requests that have left it, but for the
\* releases the guard swallowed.
SlotsGivenBackOnce == SlotsAccounted /\ NoDoubleRelease

\* An attempt (one account, one request to the backend) is counted at most once
\* in the usage counters, whether the 429 mark or the release counts it.
CountedAtMostOnce == \A r \in Request : req[r].counted <= 1

\* What failover is about of a request's record.
CourseOf(q) ==
    IF q.pc \notin InFlight THEN [phase |-> q.pc, at |-> None, tried |-> {}, retries |-> 0]
    ELSE [phase |-> IF q.pc = "resending" THEN "collecting" ELSE q.pc,
          at |-> q.acct, tried |-> q.tried,
          retries |-> IF q.pc = "resending" THEN q.attempt ELSE q.attempt - 1]

Promise == INSTANCE Failover WITH course <- [r \in Request |-> CourseOf(req[r])]

\* However the answers of the backend, the limits and the operator's changes fall: no
\* account gets a request twice before an answer has begun, no other account gets it after,
\* but for an empty response, and every step brings the request nearer to its end.
FailsOverInOrder == Promise!FailoverSpec /\ Promise!EveryStepCounts

\* The account remembered for a response is the one that produced it, and the
\* turn state remembered with it came in that response ("the upstream
\* turn-state token for a given response").
TurnStateOfResponse ==
    \A r \in Request : affinity[r] # None => affinity[r].turn = affinity[r].acct

\* Every request is answered: failing over ends, whatever the backend answers
\* and however often the operator reactivates the accounts it rejected.
EveryRequestAnswered ==
    \A r \in Request : (req[r].pc \in InFlight) ~> (req[r].pc = "done")
=============================================================================
