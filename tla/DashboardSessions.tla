--------------------------- MODULE DashboardSessions ---------------------------
(***************************************************************************)
(* The login gate of the dashboard: sessions                               *)
(* (src/auth/dashboard-session.ts), the login, logout and status routes    *)
(* with their count of failures per address (src/routes/dashboard-login.ts)*)
(* and the gate itself (src/middleware/dashboard-auth.ts).                 *)
(*                                                                         *)
(* A login looks at the count, waits for its body, and only then fails or  *)
(* succeeds.  Addresses are remote: localhost passes the gate unasked, as  *)
(* everybody does while no proxy_api_key is set.  Left out: cookies'       *)
(* attributes, the paths that need no session.  Bounds: MaxTick, MaxLogins, *)
(* and each session id is drawn once.                                      *)
(***************************************************************************)
EXTENDS Integers

CONSTANTS
    Address,       \* remote addresses
    SessionId,     \* ids createSession may draw
    MaxAttempts,   \* MAX_ATTEMPTS
    Window,        \* WINDOW_MS
    TTL,           \* session.ttl_minutes
    MaxLogins,     \* bound of the logins under way per address
    MaxTick        \* bound of the clock

ASSUME DashboardAssumption ==
    MaxAttempts \in Nat \ {0} /\ {Window, TTL, MaxLogins, MaxTick} \subseteq Nat

VARIABLES
    now,
    keySet,          \* proxy_api_key is configured
    sessions,        \* expiresAt of each stored session
    failedAttempts,  \* per address: failures counted, and until when
    loggingIn,       \* logins past the limit that wait for their body
    keyed,           \* those of them whose configuration has a key
    drawn            \* ids drawn so far

dashboardVars == <<now, keySet, sessions, failedAttempts, loggingIn, keyed, drawn>>

NoSession == -1
NoFailure == [count |-> 0, resetAt |-> -1]

-----------------------------------------------------------------------------
(* Failures *)

Counting(a) == now <= failedAttempts[a].resetAt

CheckRateLimit(a) == Counting(a) => failedAttempts[a].count < MaxAttempts

\* Mutant: every failure starts the window anew.
RecordFailureAnew(a) ==
    [failedAttempts EXCEPT ![a] = [count |-> (IF Counting(a) THEN @.count ELSE 0) + 1,
                                   resetAt |-> now + Window]]

RecordFailure(a) ==
    IF Counting(a) THEN [failedAttempts EXCEPT ![a].count = @ + 1]
    ELSE [failedAttempts EXCEPT ![a] = [count |-> 1, resetAt |-> now + Window]]

-----------------------------------------------------------------------------
(* Sessions *)

\* An expired session is deleted by whoever finds it.
Forgotten(id) == [sessions EXCEPT ![id] = IF now > @ THEN NoSession ELSE @]

ValidateSession(id) == sessions[id] # NoSession /\ now <= sessions[id]

\* Mutant: the sweep compares the wrong way round.
CleanupLive ==
    /\ sessions' = [id \in SessionId |-> IF now < sessions[id] THEN NoSession ELSE sessions[id]]
    /\ UNCHANGED <<now, keySet, failedAttempts, loggingIn, keyed, drawn>>

CleanupExpired ==
    /\ sessions' = [id \in SessionId |-> IF now > sessions[id] THEN NoSession ELSE sessions[id]]
    /\ UNCHANGED <<now, keySet, failedAttempts, loggingIn, keyed, drawn>>

\* POST /auth/dashboard-login, up to its await.
LoginAsked(a) ==
    /\ loggingIn[a] < MaxLogins /\ CheckRateLimit(a)
    /\ loggingIn' = [loggingIn EXCEPT ![a] = @ + 1]
    /\ keyed' = [keyed EXCEPT ![a] = @ + IF keySet THEN 1 ELSE 0]
    /\ failedAttempts' = [failedAttempts EXCEPT ![a] = IF Counting(a) THEN @ ELSE NoFailure]
    /\ UNCHANGED <<now, keySet, sessions, drawn>>

\* The login that is answered is one with a key, or one without.
LoginAnswered(a) ==
    /\ loggingIn[a] > 0
    /\ loggingIn' = [loggingIn EXCEPT ![a] = @ - 1]
    /\ \/ keyed[a] > 0 /\ keyed' = [keyed EXCEPT ![a] = @ - 1]
       \/ keyed[a] < loggingIn[a] /\ UNCHANGED keyed

\* A body that is no JSON, or has no password, counts as nothing.
LoginMalformed(a) ==
    /\ LoginAnswered(a)
    /\ UNCHANGED <<now, keySet, sessions, failedAttempts, drawn>>

LoginFails(a) ==
    /\ LoginAnswered(a)
    /\ failedAttempts' = RecordFailure(a)
    /\ UNCHANGED <<now, keySet, sessions, drawn>>

\* A success neither clears the failures nor needs a key to be set still: the
\* configuration is the one from before the await.
LoginSucceeds(a, id) ==
    /\ loggingIn[a] > 0 /\ keyed[a] > 0 /\ id \notin drawn
    /\ drawn' = drawn \cup {id}
    /\ loggingIn' = [loggingIn EXCEPT ![a] = @ - 1]
    /\ keyed' = [keyed EXCEPT ![a] = @ - 1]
    /\ sessions' = [sessions EXCEPT ![id] = now + TTL]
    /\ UNCHANGED <<now, keySet, failedAttempts>>

Logout(id) ==
    /\ sessions[id] # NoSession
    /\ sessions' = [sessions EXCEPT ![id] = NoSession]
    /\ UNCHANGED <<now, keySet, failedAttempts, loggingIn, keyed, drawn>>

\* A request that shows a session, to the gate or to /auth/dashboard-status.
DashboardAuth(id) ==
    /\ keySet /\ sessions[id] # NoSession
    /\ sessions' = Forgotten(id)
    /\ UNCHANGED <<now, keySet, failedAttempts, loggingIn, keyed, drawn>>

\* POST /admin/settings: the sessions there are stay.
SetProxyApiKey ==
    /\ keySet' = ~keySet
    /\ UNCHANGED <<now, sessions, failedAttempts, loggingIn, keyed, drawn>>

Later ==
    /\ now < MaxTick /\ now' = now + 1
    /\ UNCHANGED <<keySet, sessions, failedAttempts, loggingIn, keyed, drawn>>

DashboardInit ==
    /\ now = 0 /\ keySet \in BOOLEAN /\ drawn = {}
    /\ loggingIn = [a \in Address |-> 0] /\ keyed = [a \in Address |-> 0]
    /\ sessions = [id \in SessionId |-> NoSession]
    /\ failedAttempts = [a \in Address |-> NoFailure]

DashboardNext ==
    \/ \E a \in Address :
          \/ LoginAsked(a) \/ LoginMalformed(a) \/ LoginFails(a)
          \/ \E id \in SessionId : LoginSucceeds(a, id)
    \/ \E id \in SessionId : Logout(id) \/ DashboardAuth(id)
    \/ CleanupExpired \/ SetProxyApiKey \/ Later

DashboardSpec == DashboardInit /\ [][DashboardNext]_dashboardVars

-----------------------------------------------------------------------------
(* Properties *)

\* Every variable keeps its type.
DashboardTypeOK ==
    /\ now \in 0 .. MaxTick /\ keySet \in BOOLEAN
    /\ sessions \in [SessionId -> 0 .. MaxTick + TTL \cup {NoSession}]
    /\ failedAttempts \in [Address -> [count : 0 .. MaxAttempts + MaxLogins - 1,
                                       resetAt : -1 .. MaxTick + Window]]
    /\ loggingIn \in [Address -> 0 .. MaxLogins] /\ drawn \subseteq SessionId
    /\ keyed \in [Address -> 0 .. MaxLogins] /\ \A a \in Address : keyed[a] <= loggingIn[a]

\* An address that is locked out is heard again one window after the first failure that
\* counts: later failures, those of logins that were under way when the lock came
\* included, never move that moment (dashboard-login.ts:36-44).
LockNeverProlonged ==
    [][\A a \in Address :
          now <= failedAttempts[a].resetAt
            => failedAttempts'[a] # NoFailure /\ failedAttempts'[a].resetAt = failedAttempts[a].resetAt
                 ]_dashboardVars

\* The sweep and the look-ups that forget a session on the way only take sessions that
\* no longer admit; none that admits ends but by its logout
\* (dashboard-session.ts:35-43, :53-60).
OnlyLogoutEnds ==
    [][\A id \in SessionId :
          sessions[id] # NoSession /\ now <= sessions[id]
            => sessions'[id] = sessions[id] \/ Logout(id)]_dashboardVars

\* What the dashboard's logins keep to, for who may try and for who is in.
SessionsKept == []DashboardTypeOK /\ LockNeverProlonged /\ OnlyLogoutEnds
=============================================================================
