--------------------------------- MODULE Logins ---------------------------------
(***************************************************************************)
(* Logging an account in with OAuth (src/auth/oauth-pkce.ts and            *)
(* src/routes/auth.ts).                                                    *)
(*                                                                         *)
(* A login has a session, keyed by its state, and a temporary server for   *)
(* the browser's callback; the same code may also be pasted (code-relay)   *)
(* or come back through /auth/callback, a route with the same effects.     *)
(* A device login has neither: the dashboard polls.  Whoever brings the    *)
(* code exchanges it for tokens, through the global proxy first.           *)
(*                                                                         *)
(* A server is named after the login that started it.  The authorisation   *)
(* server is external: it grants a code once.  Left out: what pages say,   *)
(* PKCE itself, the account an exchange adds to (AccountStore).  Bounds:   *)
(* each login starts once, LastTick, MaxExchanges.                         *)
(***************************************************************************)
EXTENDS Integers, FiniteSets

CONSTANTS
    Login,         \* browser logins, by their state
    Device,        \* device logins, by their device code
    SessionTTL,    \* SESSION_TTL_MS, also the life of a callback server
    LastTick,      \* bound of the clock
    MaxExchanges   \* bound of the exchanges under way at once

ASSUME LoginsAssumption ==
    SessionTTL \in Nat /\ LastTick \in Nat /\ Login \cap Device = {}

VARIABLES
    clock,
    begun,         \* when the login started, if it did
    pending,       \* pendingSessions: when the session was created
    completed,     \* completedSessions
    active,        \* activeCallbackServer
    serving,       \* servers that listen on the port
    closing,       \* servers whose scheduleClose timer runs
    portTaken,     \* another program listens on the port
    exchanges,     \* token requests under way
    spent,         \* codes the authorisation server has granted
    answerLost,    \* codes whose tokens never arrived
    loggedIn       \* when the login's account was added

serverVars == <<active, serving, closing, portTaken>>
loginVars == <<clock, begun, pending, completed, serverVars, exchanges, spent, answerLost,
               loggedIn>>

Never == -1
NoServer == "no server"
Route == {"proxy", "again", "direct"}

Session(s) == pending[s] # Never /\ clock - pending[s] <= SessionTTL

-----------------------------------------------------------------------------
(* Sessions and servers *)

\* startOAuthFlow: the session, and a server in place of the active one.
StartLogin(s) ==
    /\ begun[s] = Never
    /\ begun' = [begun EXCEPT ![s] = clock]
    /\ pending' = [pending EXCEPT ![s] = clock]
    /\ active' = s
    /\ LET left == serving \ {active}
       IN  serving' = IF left = {} /\ ~portTaken THEN {s} ELSE left
    /\ UNCHANGED <<clock, completed, closing, portTaken, exchanges, spent, answerLost,
                   loggedIn>>

StartDeviceLogin(d) ==
    /\ begun[d] = Never
    /\ begun' = [begun EXCEPT ![d] = clock]
    /\ UNCHANGED <<clock, pending, completed, serverVars, exchanges, spent, answerLost,
                   loggedIn>>

\* Mutant: the server that closes forgets whichever server is active.
CloseServerAndForget(s) ==
    /\ s \in closing \/ (begun[s] # Never /\ s \in serving /\ clock - begun[s] >= SessionTTL)
    /\ serving' = serving \ {s} /\ closing' = closing \ {s}
    /\ active' = NoServer
    /\ UNCHANGED <<clock, begun, pending, completed, portTaken, exchanges, spent, answerLost,
                   loggedIn>>

\* Two seconds after a callback, or when nothing has come for the life of a session.
CloseServer(s) ==
    /\ s \in closing \/ (begun[s] # Never /\ s \in serving /\ clock - begun[s] >= SessionTTL)
    /\ serving' = serving \ {s} /\ closing' = closing \ {s}
    /\ active' = IF active = s THEN NoServer ELSE active
    /\ UNCHANGED <<clock, begun, pending, completed, portTaken, exchanges, spent, answerLost,
                   loggedIn>>

PortTaken ==
    /\ serving = {} /\ portTaken' = ~portTaken
    /\ UNCHANGED <<clock, begun, pending, completed, active, serving, closing, exchanges, spent,
                   answerLost, loggedIn>>

SweepSessions ==
    /\ pending' = [s \in Login |-> IF Session(s) THEN pending[s] ELSE Never]
    /\ completed' = [s \in Login |->
                        IF clock - completed[s] > SessionTTL THEN Never ELSE completed[s]]
    /\ UNCHANGED <<clock, begun, serverVars, exchanges, spent, answerLost, loggedIn>>

Wait ==
    /\ clock < LastTick
    /\ clock' = clock + 1
    /\ UNCHANGED <<begun, pending, completed, serverVars, exchanges, spent, answerLost, loggedIn>>

-----------------------------------------------------------------------------
(* Bringing the code *)

Exchange(s, by, route) == [login |-> s, by |-> by, route |-> route, at |-> "sent"]

\* A callback that reports an error, or lacks its parameters, closes the server too.
StrayCallback(v) ==
    /\ v \in serving
    /\ closing' = closing \cup {v}
    /\ UNCHANGED <<clock, begun, pending, completed, active, serving, portTaken, exchanges,
                   spent, answerLost, loggedIn>>

\* Nobody is pending: who brings the code is told whether the login is known to be
\* completed, and nothing else happens.
SaysYes(s) == ~Session(s) /\ completed[s] # Never

NothingPending(s, v) ==
    /\ ~Session(s)
    /\ pending' = [pending EXCEPT ![s] = Never]
    /\ closing' = closing \cup (IF v = NoServer THEN {} ELSE {v})
    /\ UNCHANGED <<clock, begun, completed, active, serving, portTaken, exchanges, spent,
                   answerLost, loggedIn>>

\* Mutant: the session is consumed (the deprecated consumeSession), not looked at.
BringConsuming(s, v) ==
    /\ Session(s)
    /\ Cardinality(exchanges) < MaxExchanges
    /\ \A x \in exchanges : x.login = s => x.by # v
    /\ exchanges' = exchanges \cup {Exchange(s, v, "proxy")}
    /\ pending' = [pending EXCEPT ![s] = Never]
    /\ UNCHANGED <<clock, begun, completed, serverVars, spent, answerLost, loggedIn>>

Bring(s, v) ==
    /\ Session(s)
    /\ Cardinality(exchanges) < MaxExchanges
    /\ \A x \in exchanges : x.login = s => x.by # v
    /\ exchanges' = exchanges \cup {Exchange(s, v, "proxy")}
    /\ UNCHANGED <<clock, begun, pending, completed, serverVars, spent, answerLost, loggedIn>>

Callback(s, v) == begun[s] # Never /\ v \in serving /\ (Bring(s, v) \/ NothingPending(s, v))

\* POST /auth/code-relay, GET /auth/callback
CodeRelay(s) == begun[s] # Never /\ (Bring(s, NoServer) \/ NothingPending(s, NoServer))

\* GET /auth/device-poll: polls overlap as the dashboard sends them.
DevicePoll(d) ==
    /\ begun[d] # Never /\ Cardinality(exchanges) < MaxExchanges
    /\ exchanges' = exchanges \cup {Exchange(d, NoServer, "proxy")}
    /\ UNCHANGED <<clock, begun, pending, completed, serverVars, spent, answerLost, loggedIn>>

-----------------------------------------------------------------------------
(* The exchange *)

Moved(x, at) == (exchanges \ {x}) \cup {[x EXCEPT !.at = at]}

\* A code is granted once; a device code may not be authorised yet.
ExchangeAnswer(x) ==
    /\ x.at = "sent"
    /\ \/ /\ x.login \notin spent
          /\ spent' = spent \cup {x.login}
          /\ exchanges' = Moved(x, "granted")
       \/ /\ x.login \in spent \cup Device
          /\ exchanges' = Moved(x, "refused")
          /\ UNCHANGED spent
    /\ UNCHANGED <<clock, begun, pending, completed, serverVars, answerLost, loggedIn>>

\* The connection through the proxy breaks: once more, directly.  Cloudflare challenges
\* it: directly, and once again if that breaks.
DirectFallback(x) ==
    /\ x.route # "direct" /\ x.at # "refused"
    /\ \E route \in {"direct"} \cup IF x.route = "proxy" /\ x.at = "sent" THEN {"again"} ELSE {} :
          exchanges' = (exchanges \ {x}) \cup {Exchange(x.login, x.by, route)}
    /\ answerLost' = IF x.at = "granted" THEN answerLost \cup {x.login} ELSE answerLost
    /\ UNCHANGED <<clock, begun, pending, completed, serverVars, spent, loggedIn>>

Finished(x) ==
    /\ exchanges' = exchanges \ {x}
    /\ closing' = closing \cup ({x.by} \cap Login)

\* Mutant: an exchange that lasted longer than its session is given up.
LandPendingOnly(x) ==
    /\ x.at = "granted"
    /\ Finished(x)
    /\ IF x.login \in Login /\ ~Session(x.login)
       THEN UNCHANGED <<loggedIn, pending, completed>>
       ELSE /\ loggedIn' = [loggedIn EXCEPT ![x.login] = clock]
            /\ pending' = [s \in Login |-> IF s = x.login THEN Never ELSE pending[s]]
            /\ completed' = [s \in Login |-> IF s \in {x.login, x.by} THEN clock
                                             ELSE completed[s]]
    /\ UNCHANGED <<clock, begun, active, serving, portTaken, spent, answerLost>>

\* Mutant: the login is not recorded as completed.
LandUnmarked(x) ==
    /\ x.at = "granted"
    /\ Finished(x)
    /\ loggedIn' = [loggedIn EXCEPT ![x.login] = clock]
    /\ pending' = [s \in Login |-> IF s = x.login THEN Never ELSE pending[s]]
    /\ UNCHANGED <<clock, begun, completed, active, serving, portTaken, spent, answerLost>>

\* The account is added and the session completed: the one exchanged, and, from a
\* server, also the one that server was started for.
Land(x) ==
    /\ x.at = "granted"
    /\ Finished(x)
    /\ loggedIn' = [loggedIn EXCEPT ![x.login] = clock]
    /\ pending' = [s \in Login |-> IF s = x.login THEN Never ELSE pending[s]]
    /\ completed' = [s \in Login |-> IF s \in {x.login, x.by} THEN clock ELSE completed[s]]
    /\ UNCHANGED <<clock, begun, active, serving, portTaken, spent, answerLost>>

\* The session stays: the user can retry.
ExchangeFails(x) ==
    /\ Finished(x)
    /\ answerLost' = IF x.at = "granted" THEN answerLost \cup {x.login} ELSE answerLost
    /\ UNCHANGED <<clock, begun, pending, completed, active, serving, portTaken, spent, loggedIn>>

-----------------------------------------------------------------------------
LoginInit ==
    /\ clock = 0
    /\ begun = [s \in Login \cup Device |-> Never]
    /\ pending = [s \in Login |-> Never] /\ completed = [s \in Login |-> Never]
    /\ active = NoServer /\ serving = {} /\ closing = {} /\ portTaken \in BOOLEAN
    /\ exchanges = {} /\ spent = {} /\ answerLost = {} 
    /\ loggedIn = [s \in Login \cup Device |-> Never]

LoginNext ==
    \/ \E s \in Login :
          \/ StartLogin(s) \/ CloseServer(s) \/ StrayCallback(s) \/ CodeRelay(s)
          \/ \E v \in Login : Callback(s, v)
    \/ \E d \in Device : StartDeviceLogin(d) \/ DevicePoll(d)
    \/ \E x \in exchanges : ExchangeAnswer(x) \/ DirectFallback(x) \/ Land(x) \/ ExchangeFails(x)
    \/ PortTaken \/ SweepSessions \/ Wait

LoginSpec == LoginInit /\ [][LoginNext]_loginVars

-----------------------------------------------------------------------------
(* Properties *)

\* Every variable keeps its type.
LoginTypeOK ==
    LET Time == 0 .. LastTick \cup {Never} IN
    /\ clock \in 0 .. LastTick /\ portTaken \in BOOLEAN
    /\ begun \in [Login \cup Device -> Time] /\ loggedIn \in [Login \cup Device -> Time]
    /\ pending \in [Login -> Time] /\ completed \in [Login -> Time]
    /\ active \in Login \cup {NoServer}
    /\ serving \subseteq Login /\ Cardinality(serving) <= 1 /\ closing \subseteq Login
    /\ exchanges \subseteq [login : Login \cup Device, by : Login \cup {NoServer},
                            route : Route, at : {"sent", "granted", "refused"}]
    /\ (spent \cup answerLost) \subseteq Login \cup Device

\* The server that listens is the one the next login knows to close: however the timers
\* of replaced servers fire, the port is never left to a server nobody remembers
\* (oauth-pkce.ts:414, :433).
ListenerIsActive == serving \subseteq {active}

\* "Session stays in map -- user can retry" (oauth-pkce.ts:401): as long as a login has
\* not succeeded and is young enough its session is there, whatever exchanges failed or
\* are still under way.
RetryPossible ==
    \A s \in Login :
        begun[s] # Never /\ loggedIn[s] = Never /\ clock - begun[s] <= SessionTTL => Session(s)

\* The tokens of a code the server has granted are in an account, on their way to one,
\* or were lost with their answer: no bringer drops them because another one came first,
\* the session expired meanwhile, or the server was replaced.
GrantedLoginsLand ==
    \A s \in spent : \/ loggedIn[s] # Never \/ s \in answerLost
                     \/ \E x \in exchanges : x.login = s /\ x.at = "granted"

\* "so code-relay doesn't error after callback server already handled it"
\* (oauth-pkce.ts:51): who brings the code of a login that succeeded not long ago is
\* told that it did.
HandledLoginsKnown ==
    \A s \in Login : loggedIn[s] # Never /\ clock - loggedIn[s] <= SessionTTL => completed[s] # Never

\* What a login keeps to, whoever brings its code and however servers, timers and
\* exchanges race.
LoginsKept ==
    /\ LoginTypeOK
    /\ ListenerIsActive /\ RetryPossible /\ GrantedLoginsLand /\ HandledLoginsKnown

\* "Mark a session as successfully completed" (oauth-pkce.ts:70): who is told that a
\* login succeeded has an account.  The server of one login that handles the callback
\* of another marks its own as completed as well.
YesMeansLoggedIn == \A s \in Login : SaysYes(s) => loggedIn[s] # Never
=============================================================================
