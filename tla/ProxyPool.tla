------------------------------- MODULE ProxyPool -------------------------------
(***************************************************************************)
(* The proxies of the pool, their assignment to accounts and their health  *)
(* (src/proxy/proxy-pool.ts), driven by the dashboard's routes             *)
(* (src/routes/proxies.ts), by requests and by the health timer.           *)
(*                                                                         *)
(* A health check is an await: whatever the operator does to the proxy     *)
(* meanwhile, its answer is applied to the entry it began with.            *)
(*                                                                         *)
(* Bounds: every id is used once, MaxChecks checks of a proxy run at a     *)
(* time, MaxRestarts restarts.                                             *)
(***************************************************************************)
EXTENDS Integers, Sequences, FiniteSets, SequencesExt

CONSTANTS
    Proxy,        \* ids (random, never used again)
    Url,
    Account,      \* ids the dashboard assigns proxies to, whether they exist or not
    Keyword,      \* of "global", "direct" and "auto"
    MaxChecks, MaxRestarts

ASSUME ProxyAssumption ==
    /\ IsFiniteSet(Account)
    /\ (Proxy \cup Url) \cap {"global", "direct", "auto", "unassigned"} = {}
    /\ Keyword \subseteq {"global", "direct", "auto"}
    /\ MaxChecks \in Nat /\ MaxRestarts \in Nat

VARIABLES
    proxies,    \* ProxyPool.proxies, by id
    order,      \* the ids in the order of the Map
    assigned,   \* ProxyPool.assignments
    next,       \* _roundRobinIndex
    checks,     \* health checks awaiting their answer, by entry and URL
    timer,      \* healthTimer is set
    pending,    \* persistTimer is set
    disk,       \* proxies.json
    failed,     \* the last write of proxies.json failed
    restarts,
    turn        \* history: proxies picked in the present round of the round robin

pool == <<proxies, order, assigned>>
files == <<pending, disk, failed>>
vars == <<pool, next, checks, timer, files, restarts, turn>>

ProxyStatus == {"active", "unreachable", "disabled"}

NoUrl == "none"

NoEntry(status) == [status |-> status, url |-> NoUrl]

ActiveEntry(u) == [status |-> "active", url |-> u]

ProxyEntry == [status : ProxyStatus, url : Url]
              \cup {NoEntry("unused"), NoEntry("removed")}

Target == Proxy \cup Keyword

Exists(p) == proxies[p].status \in ProxyStatus

PlaceOf(p) == CHOOSE i \in DOMAIN order : order[i] = p

\* Mutant: a target is not looked up.
AnyTarget(t) == TRUE

\* A check of the routes: a keyword or an existing proxy.
ValidTarget(t) == t \in Proxy => Exists(t)

Memory == [proxies |-> proxies, order |-> order, assigned |-> assigned]

-----------------------------------------------------------------------------
(* Resolution *)

\* The active proxies in the order of the Map: the k-th has k of them up to itself.
ActiveProxies(P, O) ==
    LET active == {i \in DOMAIN O : P[O[i]].status = "active"}
        UpTo(i) == {j \in active : j <= i}
    IN  [k \in 1 .. Cardinality(active) |-> O[CHOOSE i \in active : Cardinality(UpTo(i)) = k]]

\* resolveProxyUrl of an account not on "auto": a URL, no proxy, or the global one.
Resolved(a, skipUnhealthy) ==
    LET t == assigned[a]
    IN  CASE t = "direct" -> "direct"
          [] t \in {"global", "unassigned"} -> "global"
          [] OTHER ->
               IF ~Exists(t) \/ proxies[t].status = "disabled"
                  \/ (proxies[t].status = "unreachable" /\ skipUnhealthy)
               THEN "global" ELSE proxies[t].url

\* A round ends when every active proxy has been picked, or when they change.
Rounds == turn' = IF ActiveProxies(proxies', order') = ActiveProxies(proxies, order)
                  THEN turn ELSE {}

Picked == LET active == ActiveProxies(proxies, order)
          IN  active[(next % Len(active)) + 1]

\* Mutant: the index is reduced but not moved on.
PickRoundRobinStuck(a) ==
    LET active == ActiveProxies(proxies, order)
    IN  /\ assigned[a] = "auto" /\ active # <<>>
        /\ next' = next % Len(active)
        /\ turn' = IF turn \cup {Picked} = ToSet(active) THEN {} ELSE turn \cup {Picked}
        /\ UNCHANGED <<pool, checks, timer, files, restarts>>

\* pickRoundRobin for an account on "auto"; without active proxies it changes nothing.
PickRoundRobin(a) ==
    LET active == ActiveProxies(proxies, order)
    IN  /\ assigned[a] = "auto" /\ active # <<>>
        /\ next' = ((next % Len(active)) + 1) % Len(active)
        /\ turn' = IF turn \cup {Picked} = ToSet(active) THEN {} ELSE turn \cup {Picked}
        /\ UNCHANGED <<pool, checks, timer, files, restarts>>

-----------------------------------------------------------------------------
(* Persistence *)

PersistNow ==
    /\ pending' = FALSE
    /\ \/ disk' = Memory' /\ failed' = FALSE
       \/ disk' = disk /\ failed' = TRUE

SchedulePersist == pending' = TRUE /\ UNCHANGED <<disk, failed>>

PersistTimer ==
    /\ pending
    /\ UNCHANGED pool
    /\ PersistNow
    /\ UNCHANGED <<next, checks, timer, restarts, turn>>

-----------------------------------------------------------------------------
(* Proxies *)

\* add: a known URL adds nothing.  The route then (re)starts the health timer.
Add(p, u) ==
    /\ proxies[p].status = "unused"
    /\ IF \E q \in Proxy : Exists(q) /\ proxies[q].url = u
       THEN UNCHANGED <<pool, files>>
       ELSE /\ proxies' = [proxies EXCEPT ![p] = ActiveEntry(u)]
            /\ order' = Append(order, p)
            /\ UNCHANGED assigned
            /\ PersistNow
    /\ timer' = TRUE
    /\ Rounds
    /\ UNCHANGED <<next, checks, restarts>>

\* Importing a list adds its proxies one by one in one turn of the event loop:
\* proxies.json may miss the last ones if their writes fail.
ImportTwo(p, q, u, v) ==
    LET one == [proxies |-> [proxies EXCEPT ![p] = ActiveEntry(u)],
                order |-> Append(order, p), assigned |-> assigned]
    IN  /\ p # q /\ u # v
        /\ proxies[p].status = "unused" /\ proxies[q].status = "unused"
        /\ \A r \in Proxy : Exists(r) => proxies[r].url \notin {u, v}
        /\ proxies' = [one.proxies EXCEPT ![q] = ActiveEntry(v)]
        /\ order' = Append(one.order, q)
        /\ UNCHANGED assigned
        /\ pending' = FALSE
        /\ \/ disk' = Memory' /\ failed' = FALSE
           \/ disk' \in {disk, one} /\ failed' = TRUE
        /\ timer' = TRUE
        /\ Rounds
        /\ UNCHANGED <<next, checks, restarts>>

\* Mutant: the assignments of the proxy stay.
RemoveProxyOnly(p) ==
    /\ Exists(p)
    /\ proxies' = [proxies EXCEPT ![p] = NoEntry("removed")]
    /\ order' = RemoveAt(order, PlaceOf(p))
    /\ UNCHANGED assigned
    /\ PersistNow
    /\ Rounds
    /\ UNCHANGED <<next, checks, timer, restarts>>

RemoveProxy(p) ==
    /\ Exists(p)
    /\ proxies' = [proxies EXCEPT ![p] = NoEntry("removed")]
    /\ order' = RemoveAt(order, PlaceOf(p))
    /\ assigned' = [a \in Account |-> IF assigned[a] = p THEN "unassigned" ELSE assigned[a]]
    /\ PersistNow
    /\ Rounds
    /\ UNCHANGED <<next, checks, timer, restarts>>

\* update, enable, disable: the timer writes them.
Changed(p, e) ==
    /\ Exists(p)
    /\ proxies' = [proxies EXCEPT ![p] = e]
    /\ UNCHANGED <<order, assigned>>
    /\ SchedulePersist
    /\ Rounds
    /\ UNCHANGED <<next, checks, timer, restarts>>

UpdateName(p) == Changed(p, proxies[p])

UpdateUrl(p, u) == Changed(p, ActiveEntry(u))

Enable(p) == Changed(p, [proxies[p] EXCEPT !.status = "active"])

Disable(p) == Changed(p, [proxies[p] EXCEPT !.status = "disabled"])

-----------------------------------------------------------------------------
(* Assignments; every change is written at once *)

\* assign, assign-bulk, assign-rule and apply: nothing if one target is unknown.
Assign(targets) ==
    /\ \A a \in DOMAIN targets : ValidTarget(targets[a])
    /\ assigned' = [a \in Account |-> IF a \in DOMAIN targets THEN targets[a] ELSE assigned[a]]
    /\ UNCHANGED <<proxies, order>>
    /\ PersistNow
    /\ Rounds
    /\ UNCHANGED <<next, checks, timer, restarts>>

\* The accounts in the order given take the targets in turn (assign-rule); one account
\* and one target, or as many targets as accounts, are the other routes.
ByRule(as, ts) ==
    [a \in ToSet(as) |->
        LET i == CHOOSE j \in DOMAIN as : as[j] = a
        IN  ts[((i - 1) % Len(ts)) + 1]]

Unassign(a) ==
    /\ assigned[a] # "unassigned"
    /\ assigned' = [assigned EXCEPT ![a] = "unassigned"]
    /\ UNCHANGED <<proxies, order>>
    /\ PersistNow
    /\ Rounds
    /\ UNCHANGED <<next, checks, timer, restarts>>

-----------------------------------------------------------------------------
(* Health checks *)

CheckStarts(p) ==
    /\ Exists(p) /\ checks[<<p, proxies[p].url>>] < MaxChecks
    /\ checks' = [checks EXCEPT ![<<p, proxies[p].url>>] = @ + 1]
    /\ UNCHANGED <<pool, next, timer, files, restarts, turn>>

\* The timer while it runs, or the route: every proxy not disabled.
CheckAll ==
    LET targets == {p \in Proxy : Exists(p) /\ proxies[p].status # "disabled"}
    IN  /\ targets # {}
        /\ \A p \in targets : checks[<<p, proxies[p].url>>] < MaxChecks
        /\ checks' = [c \in Proxy \X Url |->
                         IF c[1] \in targets /\ c[2] = proxies[c[1]].url
                         THEN checks[c] + 1 ELSE checks[c]]
        /\ UNCHANGED <<pool, next, timer, files, restarts, turn>>

\* Mutant: the status is not looked at.
CheckedAnyway(e, answered) ==
    [e EXCEPT !.status = IF answered THEN "active" ELSE "unreachable"]

Checked(e, answered) ==
    [e EXCEPT !.status = IF @ = "disabled" THEN @
                         ELSE IF answered THEN "active" ELSE "unreachable"]

\* The entry of a removed proxy is out of the Map by now; a write is scheduled anyway.
CheckEnds(p, u, answered) ==
    /\ checks[<<p, u>>] > 0
    /\ checks' = [checks EXCEPT ![<<p, u>>] = @ - 1]
    /\ proxies' = IF Exists(p) THEN [proxies EXCEPT ![p] = Checked(@, answered)]
                  ELSE proxies
    /\ UNCHANGED <<order, assigned>>
    /\ SchedulePersist
    /\ Rounds
    /\ UNCHANGED <<next, timer, restarts>>

-----------------------------------------------------------------------------
\* Killed, or (flushed) closed in order; the next start loads the file and starts
\* the timer if there are proxies.
Restart(flushed) ==
    /\ restarts < MaxRestarts
    /\ disk' = IF flushed THEN Memory ELSE disk
    /\ proxies' = disk'.proxies
    /\ order' = disk'.order
    /\ assigned' = disk'.assigned
    /\ timer' = (order' # <<>>)
    /\ pending' = FALSE /\ failed' = FALSE
    /\ next' = 0 /\ turn' = {}
    /\ checks' = [c \in Proxy \X Url |-> 0]
    /\ restarts' = restarts + 1

Init ==
    /\ proxies = [p \in Proxy |-> NoEntry("unused")]
    /\ order = <<>>
    /\ assigned = [a \in Account |-> "unassigned"]
    /\ next = 0 /\ turn = {}
    /\ checks = [c \in Proxy \X Url |-> 0]
    /\ timer = FALSE /\ pending = FALSE /\ failed = FALSE
    /\ disk = Memory
    /\ restarts = 0

ProxyStep(p) ==
    \/ \E u \in Url : Add(p, u) \/ UpdateUrl(p, u)
    \/ \E q \in Proxy, u, v \in Url : ImportTwo(p, q, u, v)
    \/ RemoveProxy(p) \/ UpdateName(p) \/ Enable(p) \/ Disable(p) \/ CheckStarts(p)
    \/ \E u \in Url, answered \in BOOLEAN : CheckEnds(p, u, answered)

AccountStep ==
    \/ \E a \in Account : Unassign(a) \/ PickRoundRobin(a)
    \/ \E S \in (SUBSET Account) \ {{}} :
           \E as \in SetToSeqs(S), ts \in [1 .. Cardinality(S) -> Target] :
               Assign(ByRule(as, ts))

Next ==
    \/ \E p \in Proxy : ProxyStep(p)
    \/ AccountStep
    \/ CheckAll \/ PersistTimer
    \/ \E flushed \in BOOLEAN : Restart(flushed)

Spec == Init /\ [][Next]_vars

-----------------------------------------------------------------------------
(* Properties *)

\* Every variable keeps its type.
TypeOK ==
    /\ proxies \in [Proxy -> ProxyEntry] /\ order \in Seq(Proxy)
    /\ assigned \in [Account -> Target \cup {"unassigned"}]
    /\ next \in Nat /\ turn \subseteq Proxy
    /\ checks \in [Proxy \X Url -> 0 .. MaxChecks]
    /\ timer \in BOOLEAN /\ pending \in BOOLEAN /\ failed \in BOOLEAN
    /\ restarts \in 0 .. MaxRestarts

\* No account is assigned to a proxy that is gone, in memory or in the file a
\* restart loads; so an account with a proxy of its own goes the global way only
\* while the operator has that proxy disabled (proxy-pool.ts:221-231).
AssignmentsResolve ==
    /\ \A state \in {Memory, disk}, a \in Account :
          state.assigned[a] \in Proxy =>
            /\ state.proxies[state.assigned[a]].status \in ProxyStatus
            /\ state.assigned[a] \in ToSet(state.order)
    /\ \A a \in Account :
          assigned[a] \in Proxy =>
            (Resolved(a, FALSE) = "global" <=> proxies[assigned[a]].status = "disabled")

\* "Only change status if not manually disabled": between two restarts, only the
\* operator brings a disabled proxy back, however many checks of it are under way.
DisabledByOperator ==
    [][\A p \in Proxy :
         proxies[p].status = "disabled" /\ proxies'[p].status \in ProxyStatus \ {"disabled"}
         => Enable(p) \/ (\E u \in Url : UpdateUrl(p, u)) \/ restarts' # restarts]_vars

\* The round robin gives every active proxy its turn before any a second one, as
\* long as the active proxies stay the same, also if they changed before: the one it
\* picks next had no turn yet.
RoundRobinFair == ActiveProxies(proxies, order) # <<>> => Picked \notin turn

\* With no write pending or failed, the file is what the pool holds; and a proxy
\* or an assignment the operator added or took away survives any crash.
FileFollows ==
    ~failed =>
        /\ disk.assigned = assigned /\ disk.order = order
        /\ ~pending => disk.proxies = proxies

\* What the proxy pool keeps to, whatever the operator does while checks are under way:
\* the types, its assignments, its file, the operator's word and the turns.
PoolKept ==
    /\ [](TypeOK /\ AssignmentsResolve /\ FileFollows /\ RoundRobinFair)
    /\ DisabledByOperator

\* "reset health on URL change" (proxy-pool.ts:122): a check judges a proxy by the
\* URL it has.  One that was under way when the URL changed judges the new URL by
\* the old one's answer.
JudgedByPresentUrl ==
    [][\A p \in Proxy, u \in Url, answered \in BOOLEAN :
         CheckEnds(p, u, answered) /\ Exists(p) => u = proxies[p].url]_vars
=============================================================================
