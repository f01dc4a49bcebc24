---------------------------- MODULE Operations_proofs ----------------------------
(***************************************************************************)
(* What surrounds the accounts, proved for every value of the constants:   *)
(* logins, imports, the token exchange, the migration at a start, the      *)
(* dashboard's sessions and its pages.                                     *)
(*                                                                         *)
(* Each part has an inductive invariant of its own; a behaviour of the     *)
(* composition is one of every part (Composition), so what is proved of    *)
(* the parts holds of the whole.                                           *)
(***************************************************************************)
EXTENDS MCOperations, FiniteSetTheorems, SequenceTheorems, TLAPS

-----------------------------------------------------------------------------
(* Logins *)

\* Mutual facts about a login's times: nothing is in the future; the session of a young
\* login that has not succeeded is the one it began with; the mark that it succeeded is
\* not older than its success.
TimesOK ==
    /\ \A s \in Login \cup Device : begun[s] <= clock /\ loggedIn[s] <= clock
    /\ \A s \in Login :
          /\ begun[s] # Never /\ loggedIn[s] = Never /\ clock - begun[s] <= SessionTTL
                => pending[s] = begun[s]
          /\ loggedIn[s] # Never /\ clock - loggedIn[s] <= SessionTTL
                => loggedIn[s] <= completed[s]

LoginTypes ==
    LET Time == 0 .. LastTick \cup {Never} IN
    /\ clock \in 0 .. LastTick /\ portTaken \in BOOLEAN
    /\ begun \in [Login \cup Device -> Time] /\ loggedIn \in [Login \cup Device -> Time]
    /\ pending \in [Login -> Time] /\ completed \in [Login -> Time]
    /\ active \in Login \cup {NoServer}
    /\ serving \subseteq Login /\ closing \subseteq Login
    /\ exchanges \subseteq [login : Login \cup Device, by : Login \cup {NoServer},
                            route : Route, at : {"sent", "granted", "refused"}]
    /\ (spent \cup answerLost) \subseteq Login \cup Device

LoginInv == LoginTypes /\ ListenerIsActive /\ TimesOK /\ GrantedLoginsLand

\* The first state has it.
LEMMA LoginStarts == LoginInit => LoginInv
<1> SUFFICES ASSUME LoginInit PROVE LoginInv
  OBVIOUS
<1> USE LoginsAssumption DEF LoginInit, Never
<1>1. LoginTypes  BY DEF LoginTypes
<1>2. ListenerIsActive  BY DEF ListenerIsActive
<1>3. TimesOK  BY DEF TimesOK
<1>4. GrantedLoginsLand  BY DEF GrantedLoginsLand
<1> QED  BY <1>1, <1>2, <1>3, <1>4 DEF LoginInv

\* Bringing a code adds an exchange and changes nothing else.
LEMMA BringKeeps ==
    ASSUME LoginInv, NEW s \in Login, NEW v \in Login \cup {NoServer}, Bring(s, v)
    PROVE  LoginInv'
<1> USE DEF LoginInv, Bring, serverVars
<1>1. Exchange(s, v, "proxy") \in [login : Login \cup Device, by : Login \cup {NoServer},
                                  route : Route, at : {"sent", "granted", "refused"}]
  BY DEF Exchange, Route
<1>2. LoginTypes'  BY <1>1 DEF LoginTypes
<1>3. ListenerIsActive'  BY DEF ListenerIsActive
<1>4. TimesOK'  BY DEF TimesOK
<1>5. GrantedLoginsLand'  BY DEF GrantedLoginsLand
<1> QED  BY <1>2, <1>3, <1>4, <1>5

\* Finding nobody pending only forgets a session that is too old.
LEMMA NothingPendingKeeps ==
    ASSUME LoginInv, NEW s \in Login, NEW v \in Login \cup {NoServer}, NothingPending(s, v)
    PROVE  LoginInv'
<1> USE LoginsAssumption DEF LoginInv, NothingPending
<1>1. LoginTypes'  BY DEF LoginTypes
<1>2. ListenerIsActive'  BY DEF ListenerIsActive
<1>3. TimesOK'  BY DEF TimesOK, Session, LoginTypes, Never
<1>4. GrantedLoginsLand'  BY DEF GrantedLoginsLand
<1> QED  BY <1>1, <1>2, <1>3, <1>4

\* Sessions and servers.
LEMMA ServerStepsKeep ==
    ASSUME LoginInv,
           \/ \E s \in Login : StartLogin(s) \/ CloseServer(s) \/ StrayCallback(s)
           \/ \E d \in Device : StartDeviceLogin(d)
           \/ PortTaken \/ SweepSessions \/ Wait
    PROVE  LoginInv'
<1> USE LoginsAssumption DEF LoginInv, Never
<1>1. ASSUME NEW s \in Login, StartLogin(s) PROVE LoginInv'
  <2> USE <1>1 DEF StartLogin
  <2>1. LoginTypes'  BY DEF LoginTypes, ListenerIsActive
  <2>2. ListenerIsActive'  BY DEF ListenerIsActive
  <2>3. TimesOK'  BY DEF TimesOK, LoginTypes
  <2>4. GrantedLoginsLand'  BY DEF GrantedLoginsLand
  <2> QED  BY <2>1, <2>2, <2>3, <2>4
<1>2. ASSUME NEW s \in Login, CloseServer(s) PROVE LoginInv'
  <2> USE <1>2 DEF CloseServer
  <2>1. LoginTypes'  BY DEF LoginTypes
  <2>2. ListenerIsActive'  BY DEF ListenerIsActive
  <2>3. TimesOK'  BY DEF TimesOK
  <2>4. GrantedLoginsLand'  BY DEF GrantedLoginsLand
  <2> QED  BY <2>1, <2>2, <2>3, <2>4
<1>3. ASSUME NEW s \in Login, StrayCallback(s) PROVE LoginInv'
  BY <1>3 DEF StrayCallback, LoginTypes, ListenerIsActive, TimesOK, GrantedLoginsLand
<1>4. ASSUME NEW d \in Device, StartDeviceLogin(d) PROVE LoginInv'
  <2> USE <1>4 DEF StartDeviceLogin, serverVars
  <2>1. LoginTypes'  BY DEF LoginTypes
  <2>2. TimesOK'  BY DEF TimesOK, LoginTypes
  <2> QED  BY <2>1, <2>2 DEF ListenerIsActive, GrantedLoginsLand
<1>5. CASE PortTaken
  BY <1>5 DEF PortTaken, LoginTypes, ListenerIsActive, TimesOK, GrantedLoginsLand
<1>6. CASE SweepSessions
  <2> USE <1>6 DEF SweepSessions, serverVars
  <2>1. LoginTypes'  BY DEF LoginTypes
  <2>2. TimesOK'  BY DEF TimesOK, LoginTypes, Session
  <2> QED  BY <2>1, <2>2 DEF ListenerIsActive, GrantedLoginsLand
<1>7. CASE Wait
  <2> USE <1>7 DEF Wait, serverVars
  <2>1. LoginTypes'  BY DEF LoginTypes
  <2>2. TimesOK'  BY DEF TimesOK, LoginTypes
  <2> QED  BY <2>1, <2>2 DEF ListenerIsActive, GrantedLoginsLand
<1> QED  BY <1>1, <1>2, <1>3, <1>4, <1>5, <1>6, <1>7

\* The exchange of a code, and how it ends: tokens that were granted are stored, or lost.
LEMMA ExchangeStepsKeep ==
    ASSUME LoginInv, NEW x \in exchanges,
           ExchangeAnswer(x) \/ DirectFallback(x) \/ Land(x) \/ ExchangeFails(x)
    PROVE  LoginInv'
<1> USE LoginsAssumption DEF LoginInv, Never
<1> DEFINE Exchanges == [login : Login \cup Device, by : Login \cup {NoServer},
                         route : Route, at : {"sent", "granted", "refused"}]
<1>x. x \in Exchanges  BY DEF LoginTypes
<1>1. CASE ExchangeAnswer(x)
  <2> USE <1>1 DEF ExchangeAnswer, Moved, serverVars
  <2>1. [x EXCEPT !.at = "granted"] \in Exchanges /\ [x EXCEPT !.at = "refused"] \in Exchanges
    BY <1>x
  <2>2. LoginTypes'  BY <2>1, <1>x DEF LoginTypes
  <2>3. TimesOK' /\ ListenerIsActive'  BY DEF TimesOK, ListenerIsActive
  <2>4. GrantedLoginsLand'
    <3>1. [x EXCEPT !.at = "granted"].at = "granted" /\ [x EXCEPT !.at = "granted"].login = x.login
      BY <1>x
    <3>2. \A y \in exchanges : y.at = "granted" => y \in exchanges'  OBVIOUS
    <3>3. \A s \in spent : loggedIn'[s] # Never \/ s \in answerLost'
                            \/ \E y \in exchanges' : y.login = s /\ y.at = "granted"
      BY <3>2 DEF GrantedLoginsLand
    <3>4. spent' = spent \/ (spent' = spent \cup {x.login}
                              /\ [x EXCEPT !.at = "granted"] \in exchanges')
      OBVIOUS
    <3> HIDE <1>1 DEF ExchangeAnswer, Moved, serverVars, LoginInv
    <3> QED  BY <3>1, <3>3, <3>4 DEF GrantedLoginsLand
  <2> QED  BY <2>2, <2>3, <2>4
<1>2. CASE DirectFallback(x)
  <2> USE <1>2 DEF DirectFallback, serverVars
  <2>1. \A route \in Route : Exchange(x.login, x.by, route) \in Exchanges
    BY <1>x DEF Exchange
  <2>2. LoginTypes'  BY <2>1, <1>x DEF LoginTypes, Route
  <2>3. TimesOK' /\ ListenerIsActive'  BY DEF TimesOK, ListenerIsActive
  <2>4. GrantedLoginsLand'  BY DEF GrantedLoginsLand
  <2> QED  BY <2>2, <2>3, <2>4
<1>3. CASE Land(x)
  <2> USE <1>3, <1>x DEF Land, Finished
  <2>1. LoginTypes'  BY DEF LoginTypes
  <2>2. TimesOK'  BY DEF TimesOK, LoginTypes
  <2>3. ListenerIsActive'  BY DEF ListenerIsActive
  <2>4. GrantedLoginsLand'  BY DEF GrantedLoginsLand, LoginTypes
  <2> QED  BY <2>1, <2>2, <2>3, <2>4
<1>4. CASE ExchangeFails(x)
  <2> USE <1>4, <1>x DEF ExchangeFails, Finished
  <2>1. LoginTypes'  BY DEF LoginTypes
  <2>2. TimesOK' /\ ListenerIsActive'  BY DEF TimesOK, ListenerIsActive
  <2>3. GrantedLoginsLand'  BY DEF GrantedLoginsLand
  <2> QED  BY <2>1, <2>2, <2>3
<1> QED  BY <1>1, <1>2, <1>3, <1>4

\* No step breaks it.
LEMMA LoginSteps == LoginInv /\ [LoginNext]_loginVars => LoginInv'
<1> SUFFICES ASSUME LoginInv, [LoginNext]_loginVars PROVE LoginInv'
  OBVIOUS
<1>1. ASSUME NEW s \in Login, NEW v \in Login, Callback(s, v) PROVE LoginInv'
  BY <1>1, BringKeeps, NothingPendingKeeps DEF Callback
<1>2. ASSUME NEW s \in Login, CodeRelay(s) PROVE LoginInv'
  BY <1>2, BringKeeps, NothingPendingKeeps DEF CodeRelay
<1>3. ASSUME NEW d \in Device, DevicePoll(d) PROVE LoginInv'
  <2> USE <1>3 DEF LoginInv, DevicePoll, serverVars
  <2>1. Exchange(d, NoServer, "proxy") \in
           [login : Login \cup Device, by : Login \cup {NoServer}, route : Route,
            at : {"sent", "granted", "refused"}]
    BY DEF Exchange, Route
  <2>2. LoginTypes'  BY <2>1 DEF LoginTypes
  <2>3. TimesOK' /\ ListenerIsActive' /\ GrantedLoginsLand'
    BY DEF TimesOK, ListenerIsActive, GrantedLoginsLand
  <2> QED  BY <2>2, <2>3
<1>4. CASE UNCHANGED loginVars
  BY <1>4 DEF loginVars, serverVars, LoginInv, LoginTypes, ListenerIsActive, TimesOK,
              GrantedLoginsLand
<1> QED  BY <1>1, <1>2, <1>3, <1>4, ServerStepsKeep, ExchangeStepsKeep DEF LoginNext

\* It has the properties in it: at most one server listens, the session of a young login
\* is there, a login that succeeded not long ago is known to have.
LEMMA LoginInvGives == LoginInv => LoginsKept
<1> SUFFICES ASSUME LoginInv PROVE LoginsKept
  OBVIOUS
<1> USE LoginsAssumption DEF LoginInv
<1>1. IsFiniteSet(serving) /\ Cardinality(serving) <= 1
  <2>1. CASE serving = {}  BY <2>1, FS_EmptySet
  <2>2. CASE serving = {active}
    <3>1. IsFiniteSet({active}) /\ Cardinality({active}) = 1  BY FS_Singleton, Zenon
    <3> QED  BY <2>2, <3>1
  <2> QED  BY <2>1, <2>2 DEF ListenerIsActive
<1>2. LoginTypeOK  BY <1>1 DEF LoginTypes, LoginTypeOK
<1>3. RetryPossible  BY DEF TimesOK, LoginTypes, RetryPossible, Session, Never
<1>4. HandledLoginsKnown  BY DEF TimesOK, LoginTypes, HandledLoginsKnown, Never
<1> QED  BY <1>2, <1>3, <1>4 DEF LoginsKept

\* However the bringers of a code, the servers, their timers and the exchanges race, the
\* port is never left to a forgotten server, a failed login can be retried, tokens that
\* were granted are stored or lost with their answer, and a login that succeeded is known
\* (startOAuthFlow, the callback, /auth/code-relay, /auth/device-poll).
THEOREM LoginsTheorem == LoginSpec => []LoginsKept
<1>1. LoginSpec => []LoginInv
  BY LoginStarts, LoginSteps, PTL DEF LoginSpec
<1> QED  BY <1>1, LoginInvGives, PTL

-----------------------------------------------------------------------------
(* Imports *)

\* What is left of a list is an end of it: what the next entry is taken from.
LEMMA ListsHaveEnds ==
    /\ <<>> \in Ends
    /\ \A list \in ImportLists : list \in Ends
    /\ \A end \in Ends : end # <<>> => Head(end) \in Token /\ Tail(end) \in Ends
<1> USE ImportsAssumption
<1>1. \A list \in ImportLists : list \in Seq(Token)
  <2>1. \A rt \in Token : <<rt>> \in Seq(Token)  OBVIOUS
  <2> QED  BY <2>1 DEF ImportLists
<1>2. \A end : end \in Ends <=> \E l \in ImportLists : \E i \in 1 .. Len(l) + 1 : end = SubSeq(l, i, Len(l))
  BY DEF Ends
<1>3. <<>> \in Ends
  <2>1. <<0>> \in ImportLists  BY DEF ImportLists, Token
  <2>2. <<0>> \in Seq(Token) /\ Len(<<0>>) = 1  BY <1>1, <2>1
  <2>3. SubSeq(<<0>>, 2, Len(<<0>>)) = <<>>  BY <2>2, SubSeqEmpty
  <2>4. 2 \in 1 .. Len(<<0>>) + 1  BY <2>2
  <2> HIDE DEF Ends
  <2> QED  BY <1>2, <2>1, <2>3, <2>4, Zenon
<1>4. ASSUME NEW list \in ImportLists PROVE list \in Ends
  <2>1. list \in Seq(Token)  BY <1>1
  <2>2. SubSeq(list, 1, Len(list)) = list  BY <2>1, SubSeqFull
  <2>3. 1 \in 1 .. Len(list) + 1  BY <2>1
  <2> QED  BY <1>2, <2>2, <2>3
<1>5. ASSUME NEW end \in Ends, end # <<>> PROVE Head(end) \in Token /\ Tail(end) \in Ends
  <2>1. PICK l \in ImportLists : \E i \in 1 .. Len(l) + 1 : end = SubSeq(l, i, Len(l))
    BY <1>2
  <2>2. PICK i \in 1 .. Len(l) + 1 : end = SubSeq(l, i, Len(l))
    BY <2>1
  <2>3. l \in Seq(Token) /\ Len(l) \in Nat  BY <1>1
  <2>4. i \in 1 .. Len(l) /\ Len(l) \in i .. Len(l)
    <3>1. Len(l) < i => end = <<>>  BY <2>2, <2>3, SubSeqEmpty
    <3> QED  BY <3>1, <1>5, <2>3
  <2>5. Head(end) = l[i] /\ Tail(end) = SubSeq(l, i + 1, Len(l))
    BY <2>2, <2>3, <2>4, HeadTailOfSubSeq
  <2>6. l[i] \in Token  BY <2>3, <2>4
  <2>7. i + 1 \in 1 .. Len(l) + 1  BY <2>3, <2>4
  <2> QED  BY <1>2, <2>5, <2>6, <2>7
<1> QED  BY <1>3, <1>4, <1>5

MaybeToken == Token \cup {Absent}

ImportRequest ==
    [at : {"idle", "ready", "asking", "granted", "refused", "verifying"}, left : Ends,
     using : MaybeToken, got : MaybeToken, since : Token]

SchedulerRefresh ==
    [at : {"idle", "asking", "granted", "refused"}, left : {<<>>}, using : MaybeToken,
     got : MaybeToken, since : Token]

ImportTypes ==
    /\ valid \in Token /\ revoked \in BOOLEAN /\ held \in MaybeToken
    /\ refreshingRTs \subseteq Token
    /\ request \in [Request -> ImportRequest] /\ refresh \in SchedulerRefresh

\* A request that exchanges a token has the entry of it still in front.
EntryInFront == \A r \in Request : Exchanging(r) => request[r].left # <<>>

ImportInv == ImportTypes /\ EntryInFront /\ ExchangesGuarded

\* The first state has it.
LEMMA ImportStarts == ImportInit => ImportInv
<1> SUFFICES ASSUME ImportInit PROVE ImportInv
  OBVIOUS
<1>1. Idle \in ImportRequest /\ Idle \in SchedulerRefresh /\ Idle.at = "idle"
  BY ImportsAssumption, ListsHaveEnds DEF Idle, ImportRequest, SchedulerRefresh, MaybeToken, Token, Absent
<1>2. ImportTypes
  <2>1. 0 \in Token /\ held \in MaybeToken
    BY ImportsAssumption DEF ImportInit, MaybeToken, Token
  <2> QED  BY <1>1, <2>1 DEF ImportInit, ImportTypes
<1>3. \A r \in Request : ~Exchanging(r)
  BY <1>1 DEF ImportInit, Exchanging
<1>4. EntryInFront  BY <1>3 DEF EntryInFront
<1>5. refreshingRTs = {request[r].using : r \in {q \in Request : Exchanging(q)}}
  BY <1>3 DEF ImportInit
<1> QED  BY <1>2, <1>3, <1>4, <1>5 DEF ExchangesGuarded, ImportInv

\* A request that goes from one stage to another without holding a token under exchange
\* before or after leaves the guard as it is.
LEMMA OutsideExchange ==
    ASSUME ImportInv, NEW r \in Request, NEW new \in ImportRequest,
           ~Exchanging(r), new.at \notin {"asking", "granted", "refused"},
           request' = [request EXCEPT ![r] = new], UNCHANGED refreshingRTs
    PROVE  EntryInFront' /\ ExchangesGuarded'
<1>1. \A q \in Request : request'[q] = IF q = r THEN new ELSE request[q]
  BY DEF ImportInv, ImportTypes
<1>2. \A q \in Request : Exchanging(q)' <=> Exchanging(q)
  BY <1>1 DEF Exchanging
<1>3. \A q \in Request : Exchanging(q) => request'[q] = request[q]
  BY <1>1
<1>4. {request'[q].using : q \in {p \in Request : Exchanging(p)'}}
         = {request[q].using : q \in {p \in Request : Exchanging(p)}}
  BY <1>2, <1>3
<1> QED  BY <1>2, <1>3, <1>4 DEF ImportInv, EntryInFront, ExchangesGuarded

\* One that goes on with the token it exchanges does so too.
LEMMA WithinExchange ==
    ASSUME ImportInv, NEW r \in Request, NEW new \in ImportRequest,
           Exchanging(r), new.at \in {"asking", "granted", "refused"},
           new.using = request[r].using, new.left = request[r].left,
           request' = [request EXCEPT ![r] = new], UNCHANGED refreshingRTs
    PROVE  EntryInFront' /\ ExchangesGuarded'
<1>1. \A q \in Request : request'[q] = IF q = r THEN new ELSE request[q]
  BY DEF ImportInv, ImportTypes
<1>2. \A q \in Request : Exchanging(q)' <=> Exchanging(q)
  BY <1>1 DEF Exchanging
<1>3. \A q \in Request : request'[q].using = request[q].using /\ request'[q].left = request[q].left
  BY <1>1
<1>4. {request'[q].using : q \in {p \in Request : Exchanging(p)'}}
         = {request[q].using : q \in {p \in Request : Exchanging(p)}}
  BY <1>2, <1>3
<1> QED  BY <1>2, <1>3, <1>4 DEF ImportInv, EntryInFront, ExchangesGuarded

\* The end of an exchange frees its token: nobody else exchanges that one.
LEMMA EndOfExchange ==
    ASSUME ImportInv, NEW r \in Request, NEW new \in ImportRequest,
           Exchanging(r), new.at \notin {"asking", "granted", "refused"},
           request' = [request EXCEPT ![r] = new], Exchanged(r)
    PROVE  EntryInFront' /\ ExchangesGuarded'
<1>1. \A q \in Request : request'[q] = IF q = r THEN new ELSE request[q]
  BY DEF ImportInv, ImportTypes
<1>2. \A q \in Request : Exchanging(q)' <=> Exchanging(q) /\ q # r
  BY <1>1 DEF Exchanging
<1>3. \A q \in Request : q # r => request'[q] = request[q]
  BY <1>1
<1>4. refreshingRTs' = {request'[q].using : q \in {p \in Request : Exchanging(p)'}}
  BY <1>2, <1>3 DEF ImportInv, ExchangesGuarded, Exchanged
<1> QED  BY <1>2, <1>3, <1>4 DEF ImportInv, EntryInFront, ExchangesGuarded

\* An entry is done: what request and pool are then.
LEMMA EntryDone ==
    ASSUME ImportInv, NEW r \in Request, NEW rt \in MaybeToken, request[r].left # <<>>,
           Skipped(r) \/ Resolved(r, rt)
    PROVE  \E new \in ImportRequest :
              /\ new.at \notin {"asking", "granted", "refused"}
              /\ request' = [request EXCEPT ![r] = new] /\ held' \in MaybeToken
<1> DEFINE old == request[r]
           next == [old EXCEPT !.at = "ready", !.using = Absent, !.left = Tail(old.left)]
           verify == [old EXCEPT !.at = "verifying", !.using = Absent, !.got = rt]
<1>1. old \in ImportRequest /\ Tail(old.left) \in Ends /\ Absent \in MaybeToken
  BY ListsHaveEnds DEF ImportInv, ImportTypes, ImportRequest, MaybeToken
<1>2. next \in ImportRequest /\ verify \in ImportRequest /\ next.at = "ready" /\ verify.at = "verifying"
  BY <1>1 DEF ImportRequest
<1>3. request' = [request EXCEPT ![r] = next] \/ request' = [request EXCEPT ![r] = verify]
  BY DEF Skipped, Resolved, ImportInv, ImportTypes
<1>4. held' \in MaybeToken
  BY DEF Skipped, Resolved, ImportInv, ImportTypes
<1> HIDE DEF next, verify
<1> QED  BY <1>2, <1>3, <1>4

\* A request comes, and its entries are taken up: skipped, known, or exchanged.
LEMMA EntriesTaken ==
    ASSUME ImportInv, NEW r \in Request,
           \/ \E list \in ImportLists : StartImport(r, list)
           \/ KnownToken(r) \/ DuplicateToken(r) \/ Ask(r)
    PROVE  ImportInv'
<1> USE DEF ImportInv
<1>t. request[r] \in ImportRequest /\ Idle \in ImportRequest
  BY ImportsAssumption, ListsHaveEnds
     DEF ImportTypes, Idle, ImportRequest, SchedulerRefresh, MaybeToken, Token, Absent
<1>1. ASSUME NEW list \in ImportLists, StartImport(r, list) PROVE ImportInv'
  <2> DEFINE new == [Idle EXCEPT !.at = "ready", !.left = list, !.since = valid]
  <2>1. new \in ImportRequest /\ new.at = "ready"
    BY <1>t, ListsHaveEnds DEF ImportRequest, ImportTypes
  <2>2. request' = [request EXCEPT ![r] = new] /\ UNCHANGED <<valid, revoked, held, refreshingRTs, refresh>>
    BY <1>1 DEF StartImport
  <2>3. ~Exchanging(r)
    <3>1. Idle.at = "idle"  BY DEF Idle
    <3> QED  BY <1>1, <3>1 DEF StartImport, Exchanging
  <2> HIDE DEF new
  <2>4. EntryInFront' /\ ExchangesGuarded'  BY <2>1, <2>2, <2>3, OutsideExchange
  <2>5. ImportTypes'  BY <2>1, <2>2 DEF ImportTypes
  <2> QED  BY <2>4, <2>5
<1>2. CASE KnownToken(r)
  <2>1. held \in MaybeToken /\ ~Exchanging(r)
    BY <1>2 DEF KnownToken, Ready, Exchanging, ImportTypes
  <2>2. PICK new \in ImportRequest :
           /\ new.at \notin {"asking", "granted", "refused"}
           /\ request' = [request EXCEPT ![r] = new] /\ held' \in MaybeToken
    BY <1>2, <2>1, EntryDone DEF KnownToken, Ready
  <2>3. EntryInFront' /\ ExchangesGuarded'
    BY <1>2, <2>1, <2>2, OutsideExchange DEF KnownToken
  <2>4. ImportTypes'  BY <1>2, <2>2 DEF KnownToken, ImportTypes
  <2> QED  BY <2>3, <2>4
<1>3. CASE DuplicateToken(r)
  <2>1. Absent \in MaybeToken /\ ~Exchanging(r)
    BY <1>3 DEF DuplicateToken, Ready, Exchanging, MaybeToken
  <2>2. PICK new \in ImportRequest :
           /\ new.at \notin {"asking", "granted", "refused"}
           /\ request' = [request EXCEPT ![r] = new] /\ held' \in MaybeToken
    BY <1>3, <2>1, EntryDone DEF DuplicateToken, Ready
  <2>3. EntryInFront' /\ ExchangesGuarded'
    BY <1>3, <2>1, <2>2, OutsideExchange DEF DuplicateToken
  <2>4. ImportTypes'  BY <1>3, <2>2 DEF DuplicateToken, ImportTypes
  <2> QED  BY <2>3, <2>4
<1>4. CASE Ask(r)
  <2> DEFINE token == Head(request[r].left)
             new == [request[r] EXCEPT !.at = "asking", !.using = token]
  <2>1. token \in Token /\ request[r].left # <<>> /\ ~Exchanging(r)
    BY <1>4, <1>t, ListsHaveEnds DEF Ask, Ready, Exchanging, ImportRequest
  <2>2. new \in ImportRequest /\ new.at = "asking" /\ new.using = token /\ new.left = request[r].left
    BY <1>t, <2>1 DEF ImportRequest, MaybeToken
  <2>3. /\ request' = [request EXCEPT ![r] = new] /\ token \notin refreshingRTs
        /\ refreshingRTs' = refreshingRTs \cup {token} /\ UNCHANGED <<valid, revoked, held, refresh>>
    BY <1>4 DEF Ask, ImportTypes
  <2> HIDE DEF token, new
  <2>4. ImportTypes'  BY <2>1, <2>2, <2>3 DEF ImportTypes
  <2>5. \A q \in Request : request'[q] = IF q = r THEN new ELSE request[q]
    BY <2>3 DEF ImportTypes
  <2>6. \A q \in Request : Exchanging(q)' <=> Exchanging(q) \/ q = r
    BY <2>2, <2>5 DEF Exchanging
  <2>7. EntryInFront'  BY <2>1, <2>2, <2>5, <2>6 DEF EntryInFront
  <2>8. refreshingRTs' = {request'[q].using : q \in {p \in Request : Exchanging(p)'}}
    BY <2>1, <2>2, <2>3, <2>5, <2>6 DEF ExchangesGuarded
  <2>9. \A q \in Request : Exchanging(q) => request[q].using \in refreshingRTs
    BY DEF ExchangesGuarded
  <2>10. ExchangesGuarded'
    BY <2>1, <2>2, <2>3, <2>5, <2>6, <2>8, <2>9 DEF ExchangesGuarded
  <2> QED  BY <2>4, <2>7, <2>10
<1> QED  BY <1>1, <1>2, <1>3, <1>4

\* The server's side: a token it replaces is the newest.
LEMMA ServesTypes ==
    ASSUME valid \in Token, revoked \in BOOLEAN, valid < LastToken, NEW rt, Serves(rt)
    PROVE  valid' \in Token /\ revoked' \in BOOLEAN /\ valid + 1 \in Token
BY ImportsAssumption DEF Serves, Token

\* An exchange is served, and ends; an account that was verified is added.
LEMMA ExchangesEnd ==
    ASSUME ImportInv, NEW r \in Request,
           \/ ServeImport(r) \/ AnswerFails(r)
           \/ \E rotated \in BOOLEAN : AnswerLands(r, rotated)
           \/ \E usable \in BOOLEAN : Verified(r, usable)
    PROVE  ImportInv'
<1> USE DEF ImportInv
<1>t. request[r] \in ImportRequest
  BY DEF ImportTypes
<1>1. CASE ServeImport(r)
  <2> DEFINE good == [request[r] EXCEPT !.at = "granted", !.got = valid + 1]
             bad == [request[r] EXCEPT !.at = "refused"]
  <2>1. valid' \in Token /\ revoked' \in BOOLEAN /\ valid + 1 \in Token
    BY <1>1, ServesTypes DEF ServeImport, ImportTypes
  <2>2. Exchanging(r)  BY <1>1 DEF ServeImport, Exchanging
  <2>3. /\ good \in ImportRequest /\ good.at = "granted"
        /\ good.using = request[r].using /\ good.left = request[r].left
    BY <1>t, <2>1 DEF ImportRequest, MaybeToken
  <2>4. /\ bad \in ImportRequest /\ bad.at = "refused"
        /\ bad.using = request[r].using /\ bad.left = request[r].left
    BY <1>t DEF ImportRequest
  <2>5. PICK new \in {good, bad} : request' = [request EXCEPT ![r] = new]
    BY <1>1 DEF ServeImport, ImportTypes
  <2> HIDE DEF good, bad
  <2>6. EntryInFront' /\ ExchangesGuarded'
    BY <1>1, <2>2, <2>3, <2>4, <2>5, WithinExchange DEF ServeImport
  <2>7. ImportTypes'
    <3>1. new \in ImportRequest  BY <2>3, <2>4, <2>5
    <3>2. request' \in [Request -> ImportRequest]  BY <2>5, <3>1 DEF ImportTypes
    <3> QED  BY <1>1, <2>1, <3>2 DEF ServeImport, ImportTypes
  <2> QED  BY <2>6, <2>7
<1>2. ASSUME NEW rt \in MaybeToken, Skipped(r) \/ Resolved(r, rt), Exchanging(r),
             Exchanged(r), UNCHANGED <<valid, revoked, refresh>>
      PROVE  ImportInv'
  <2>1. request[r].left # <<>>  BY <1>2 DEF EntryInFront
  <2>2. PICK new \in ImportRequest :
           /\ new.at \notin {"asking", "granted", "refused"}
           /\ request' = [request EXCEPT ![r] = new] /\ held' \in MaybeToken
    BY <1>2, <2>1, EntryDone
  <2>3. EntryInFront' /\ ExchangesGuarded'  BY <1>2, <2>2, EndOfExchange
  <2>4. ImportTypes'  BY <1>2, <2>2 DEF Exchanged, ImportTypes
  <2> QED  BY <2>3, <2>4
<1>3. CASE AnswerFails(r)
  <2>1. Absent \in MaybeToken /\ Exchanging(r)  BY <1>3 DEF AnswerFails, Exchanging, MaybeToken
  <2> QED  BY <1>2, <1>3, <2>1 DEF AnswerFails
<1>4. ASSUME NEW rotated \in BOOLEAN, AnswerLands(r, rotated) PROVE ImportInv'
  <2>1. (IF rotated THEN request[r].got ELSE Absent) \in MaybeToken
    BY <1>t DEF ImportRequest, MaybeToken
  <2>2. Exchanging(r)  BY <1>4 DEF AnswerLands, Exchanging
  <2> QED  BY <1>2, <1>4, <2>1, <2>2 DEF AnswerLands
<1>5. ASSUME NEW usable \in BOOLEAN, Verified(r, usable) PROVE ImportInv'
  <2> DEFINE new == [Idle EXCEPT !.at = "ready"]
  <2>1. new \in ImportRequest /\ new.at = "ready"
    BY ImportsAssumption, ListsHaveEnds DEF Idle, ImportRequest, MaybeToken, Token, Absent
  <2>2. ~Exchanging(r)  BY <1>5 DEF Verified, Exchanging
  <2>3. request' = [request EXCEPT ![r] = new] /\ UNCHANGED <<valid, revoked, refreshingRTs, refresh>>
    BY <1>5 DEF Verified
  <2>4. held' \in MaybeToken
    BY <1>5, <1>t DEF Verified, ImportTypes, ImportRequest
  <2> HIDE DEF new
  <2>5. EntryInFront' /\ ExchangesGuarded'  BY <2>1, <2>2, <2>3, OutsideExchange
  <2>6. ImportTypes'  BY <2>1, <2>3, <2>4 DEF ImportTypes
  <2> QED  BY <2>5, <2>6
<1> QED  BY <1>1, <1>3, <1>4, <1>5

\* The scheduler's refresh touches no import.
LEMMA RefreshLeavesImports ==
    ASSUME ImportInv, RefreshStarts \/ ServeRefresh \/ RefreshLands
    PROVE  ImportInv'
<1> USE DEF ImportInv
<1>1. UNCHANGED <<request, refreshingRTs>>
  BY DEF RefreshStarts, ServeRefresh, RefreshLands
<1>2. EntryInFront' /\ ExchangesGuarded'
  BY <1>1 DEF EntryInFront, ExchangesGuarded, Exchanging
<1>3. Idle \in SchedulerRefresh
  BY ImportsAssumption DEF Idle, SchedulerRefresh, MaybeToken, Token, Absent
<1>4. refresh \in SchedulerRefresh  BY DEF ImportTypes
<1>5. CASE RefreshStarts
  <2>1. [Idle EXCEPT !.at = "asking", !.using = held] \in SchedulerRefresh
    BY <1>3 DEF SchedulerRefresh, ImportTypes
  <2> QED  BY <1>1, <1>2, <1>5, <2>1 DEF RefreshStarts, ImportTypes
<1>6. CASE ServeRefresh
  <2>1. valid' \in Token /\ revoked' \in BOOLEAN /\ valid + 1 \in Token
    BY <1>6, ServesTypes DEF ServeRefresh, ImportTypes
  <2>2. /\ [refresh EXCEPT !.at = "granted", !.got = valid + 1] \in SchedulerRefresh
        /\ [refresh EXCEPT !.at = "refused"] \in SchedulerRefresh
    BY <1>4, <2>1 DEF SchedulerRefresh, MaybeToken
  <2> QED  BY <1>1, <1>2, <1>6, <2>1, <2>2 DEF ServeRefresh, ImportTypes
<1>7. CASE RefreshLands
  <2>1. refresh.got \in MaybeToken  BY <1>4 DEF SchedulerRefresh
  <2> QED  BY <1>1, <1>2, <1>3, <1>7, <2>1 DEF RefreshLands, ImportTypes
<1> QED  BY <1>5, <1>6, <1>7

\* No step breaks it.
LEMMA ImportSteps == ImportInv /\ [ImportNext]_importVars => ImportInv'
<1> SUFFICES ASSUME ImportInv, [ImportNext]_importVars PROVE ImportInv'
  OBVIOUS
<1>1. ASSUME NEW r \in Batch, NEW list \in Batches, StartImport(r, list) PROVE ImportInv'
  BY <1>1, EntriesTaken DEF ImportLists, Request
<1>2. ASSUME NEW r \in Single, NEW rt \in Token, StartImport(r, <<rt>>) PROVE ImportInv'
  BY <1>2, EntriesTaken DEF ImportLists, Request
<1>3. ASSUME NEW r \in Request, ImportStep(r) PROVE ImportInv'
  BY <1>3, EntriesTaken, ExchangesEnd DEF ImportStep
<1>4. CASE UNCHANGED importVars
  BY <1>4 DEF importVars, ImportInv, ImportTypes, EntryInFront, ExchangesGuarded, Exchanging
<1> QED  BY <1>1, <1>2, <1>3, <1>4, RefreshLeavesImports DEF ImportNext

\* What is left of a list is a list of tokens.
LEMMA EndsAreLists == \A end \in Ends : end \in Seq(Token)
<1> SUFFICES ASSUME NEW end \in Ends PROVE end \in Seq(Token)
  OBVIOUS
<1>1. PICK l \in ImportLists : \E i \in 1 .. Len(l) + 1 : end = SubSeq(l, i, Len(l))
  BY DEF Ends
<1>2. PICK i \in 1 .. Len(l) + 1 : end = SubSeq(l, i, Len(l))
  BY <1>1
<1>3. \A rt \in Token : <<rt>> \in Seq(Token)
  OBVIOUS
<1>4. l \in Seq(Token)
  BY <1>3, ImportsAssumption DEF ImportLists
<1>5. \A j \in i .. Len(l) : l[j] \in Token
  BY <1>4
<1> QED  BY <1>2, <1>4, <1>5, SubSeqProperties

\* Nobody but the one answer that brings it has the newest token before it arrives: the
\* pool, the lists, the verifications and the refresh have older ones.
NewestOnce ==
    /\ HandedOut(held)
    /\ \A r \in Request : \A i \in DOMAIN request[r].left : HandedOut(request[r].left[i])
    /\ \A r \in Request : request[r].at = "verifying" => HandedOut(request[r].got)
    /\ refresh.at = "asking" => HandedOut(refresh.using)
    /\ \A r \in Request : request[r].at = "granted" => request[r].got = valid
    /\ refresh.at = "granted" => refresh.got = valid
    /\ \A q, r \in Request : request[q].at = "granted" /\ request[r].at = "granted" => q = r
    /\ \A r \in Request : ~(refresh.at = "granted" /\ request[r].at = "granted")

\* A request that exchanges a token exchanges the one in front of its list.
UsesItsEntry == \A r \in Request : request[r].at = "asking" => request[r].using = Head(request[r].left)

\* Only single imports verify.
SinglesVerify == \A r \in Request : request[r].at = "verifying" => r \in Single

NewestInv == ImportInv /\ NewestOnce /\ UsesItsEntry /\ SinglesVerify

\* The first state has it.
LEMMA NewestStarts == ImportInit => NewestOnce /\ UsesItsEntry /\ SinglesVerify
<1> SUFFICES ASSUME ImportInit PROVE NewestOnce /\ UsesItsEntry /\ SinglesVerify
  OBVIOUS
<1>1. \A r \in Request : request[r].at = "idle" /\ request[r].left = <<>>
  BY DEF ImportInit, Idle
<1>2. refresh.at = "idle"
  BY DEF ImportInit, Idle
<1>3. HandedOut(held)
  BY <1>1, <1>2 DEF ImportInit, HandedOut, OnItsWay, Absent
<1> QED  BY <1>1, <1>2, <1>3 DEF NewestOnce, UsesItsEntry, SinglesVerify

\* An entry in front was handed out, and so was what is behind it.
LEMMA EntryHandedOut ==
    ASSUME NewestInv, NEW r \in Request, request[r].left # <<>>
    PROVE  /\ HandedOut(Head(request[r].left))
           /\ \A i \in DOMAIN Tail(request[r].left) : HandedOut(Tail(request[r].left)[i])
<1> DEFINE left == request[r].left
<1>1. left \in Seq(Token)
  BY EndsAreLists DEF NewestInv, ImportInv, ImportTypes, ImportRequest
<1>2. \A i \in DOMAIN left : HandedOut(left[i])
  BY DEF NewestInv, NewestOnce
<1> HIDE DEF left
<1>3. left # <<>>  BY DEF left
<1>4. Head(left) = left[1] /\ 1 \in DOMAIN left
  BY <1>1, <1>3
<1>5. \A i \in DOMAIN Tail(left) : i + 1 \in DOMAIN left /\ Tail(left)[i] = left[i + 1]
  BY <1>1, <1>3
<1> QED  BY <1>2, <1>4, <1>5 DEF left

\* A step of request r after which it waits for no answer that brings a token keeps it,
\* if what it then has was handed out.
LEMMA RequestKeepsNewest ==
    ASSUME NewestInv, NEW r \in Request, NEW new,
           request' = [request EXCEPT ![r] = new], UNCHANGED <<valid, refresh>>,
           new.at # "granted",
           \A i \in DOMAIN new.left : HandedOut(new.left[i])',
           new.at = "verifying" => HandedOut(new.got)',
           HandedOut(held)',
           new.at = "asking" => new.using = Head(new.left)
    PROVE  NewestOnce' /\ UsesItsEntry'
<1>1. \A q \in Request : request'[q] = IF q = r THEN new ELSE request[q]
  BY DEF NewestInv, ImportInv, ImportTypes
<1>2. OnItsWay' => OnItsWay
  BY <1>1 DEF OnItsWay
<1>3. ASSUME NEW rt, HandedOut(rt) PROVE HandedOut(rt)'
  BY <1>2, <1>3 DEF HandedOut
<1>h. HandedOut(held)'  OBVIOUS
<1>4. ASSUME NEW q \in Request, NEW i \in DOMAIN request'[q].left
      PROVE  HandedOut(request[q].left[i])'
  <2>1. PICK e : e = request'[q].left[i]
    OBVIOUS
  <2>2. HandedOut(e)'
    <3>1. q = r => e = new.left[i] /\ i \in DOMAIN new.left  BY <1>1, <2>1
    <3>2. q # r => HandedOut(e)  BY <1>1, <1>4, <2>1 DEF NewestInv, NewestOnce
    <3> QED  BY <1>3, <3>1, <3>2
  <2> QED  BY <2>1, <2>2 DEF HandedOut
<1>5. ASSUME NEW q \in Request, request'[q].at = "verifying" PROVE HandedOut(request[q].got)'
  <2>1. PICK e : e = request'[q].got
    OBVIOUS
  <2>2. HandedOut(e)'
    <3>1. q = r => e = new.got /\ new.at = "verifying"  BY <1>1, <1>5, <2>1
    <3>2. q # r => HandedOut(e)  BY <1>1, <1>5, <2>1 DEF NewestInv, NewestOnce
    <3> QED  BY <1>3, <3>1, <3>2
  <2> QED  BY <2>1, <2>2 DEF HandedOut
<1>6. ASSUME refresh'.at = "asking" PROVE HandedOut(refresh.using)'
  <2>1. PICK e : e = refresh.using /\ e = refresh'.using
    OBVIOUS
  <2>2. HandedOut(e)'  BY <1>3, <1>6, <2>1 DEF NewestInv, NewestOnce
  <2> QED  BY <2>1, <2>2 DEF HandedOut
<1>7. \A q \in Request : request'[q].at = "granted" => q # r /\ request'[q] = request[q]
  BY <1>1
<1>8. UsesItsEntry'
  BY <1>1 DEF NewestInv, UsesItsEntry
<1>9. NewestOnce'
  <2>1. /\ refresh'.at = "granted" => refresh'.got = valid'
        /\ \A q \in Request : request'[q].at = "granted" => request'[q].got = valid'
        /\ \A q, p \in Request : request'[q].at = "granted" /\ request'[p].at = "granted" => q = p
        /\ \A q \in Request : ~(refresh'.at = "granted" /\ request'[q].at = "granted")
    BY <1>7 DEF NewestInv, NewestOnce
  <2> QED  BY <1>h, <1>4, <1>5, <1>6, <2>1 DEF NewestOnce
<1> QED  BY <1>8, <1>9

\* A request comes, or an entry is taken up: nobody gets a newer token by that.
LEMMA TakenKeepsNewest ==
    ASSUME NewestInv, NEW r \in Request,
           \/ \E list \in ImportLists : StartImport(r, list)
           \/ KnownToken(r) \/ DuplicateToken(r) \/ Ask(r)
    PROVE  NewestOnce' /\ UsesItsEntry'
<1>t. request[r] \in ImportRequest /\ Idle \in ImportRequest /\ Idle.at = "idle"
  BY ImportsAssumption, ListsHaveEnds
     DEF NewestInv, ImportInv, ImportTypes, Idle, ImportRequest, MaybeToken, Token, Absent
<1>h. HandedOut(held) /\ \A i \in DOMAIN request[r].left : HandedOut(request[r].left[i])
  BY DEF NewestInv, NewestOnce
<1>s. ASSUME UNCHANGED <<valid, refresh>>, NEW new, request' = [request EXCEPT ![r] = new],
             new.at # "granted", NEW rt, HandedOut(rt)
      PROVE  HandedOut(rt)'
  <2>1. \A q \in Request : request'[q] = IF q = r THEN new ELSE request[q]
    BY <1>s DEF NewestInv, ImportInv, ImportTypes
  <2>2. OnItsWay' => OnItsWay  BY <1>s, <2>1 DEF OnItsWay
  <2> QED  BY <1>s, <2>2 DEF HandedOut
<1>1. ASSUME NEW list \in ImportLists, StartImport(r, list) PROVE NewestOnce' /\ UsesItsEntry'
  <2>2. PICK new : /\ new = [Idle EXCEPT !.at = "ready", !.left = list, !.since = valid]
                   /\ request' = [request EXCEPT ![r] = new] /\ UNCHANGED <<valid, held, refresh>>
    BY <1>1 DEF StartImport
  <2>1. new.at = "ready" /\ new.left = list
    BY <1>t, <2>2 DEF ImportRequest
  <2>3. \A i \in DOMAIN new.left : HandedOut(new.left[i])
    BY <1>1, <2>1 DEF StartImport
  <2>4. \A i \in DOMAIN new.left : HandedOut(new.left[i])'
    BY <1>s, <2>1, <2>2, <2>3
  <2>5. HandedOut(held)'
    BY <1>s, <1>h, <2>1, <2>2 DEF HandedOut
  <2> QED  BY <2>1, <2>2, <2>4, <2>5, RequestKeepsNewest
<1>2. CASE KnownToken(r) \/ DuplicateToken(r)
  <2> DEFINE old == request[r]
             next == [old EXCEPT !.at = "ready", !.using = Absent, !.left = Tail(old.left)]
             verify == [old EXCEPT !.at = "verifying", !.using = Absent, !.got = held]
  <2>1. old.left # <<>> /\ UNCHANGED <<valid, refresh, held>>
    BY <1>2 DEF KnownToken, DuplicateToken, Ready, Resolved, Skipped
  <2>2. request' = [request EXCEPT ![r] = next] \/ request' = [request EXCEPT ![r] = verify]
    BY <1>2 DEF KnownToken, DuplicateToken, Resolved, Skipped, NewestInv, ImportInv, ImportTypes
  <2>3. /\ next.at = "ready" /\ next.left = Tail(old.left)
        /\ verify.at = "verifying" /\ verify.left = old.left /\ verify.got = held
    BY <1>t DEF ImportRequest
  <2>4. \A i \in DOMAIN Tail(old.left) : HandedOut(Tail(old.left)[i])
    BY <2>1, EntryHandedOut
  <2> HIDE DEF old, next, verify
  <2>5. PICK new \in {next, verify} : request' = [request EXCEPT ![r] = new]
    BY <2>2
  <2>6. \A i \in DOMAIN new.left : HandedOut(new.left[i])
    BY <1>h, <2>3, <2>4, <2>5 DEF old
  <2>7. new.at \in {"ready", "verifying"} /\ (new.at = "verifying" => new.got = held)
    BY <2>3, <2>5
  <2>8. \A i \in DOMAIN new.left : HandedOut(new.left[i])'
    BY <1>s, <2>1, <2>5, <2>6, <2>7
  <2>9. HandedOut(held)'
    BY <1>s, <1>h, <2>1, <2>5, <2>7 DEF HandedOut
  <2>10. new.at = "verifying" => HandedOut(new.got)'
    BY <2>1, <2>7, <2>9 DEF HandedOut
  <2> QED  BY <2>1, <2>5, <2>7, <2>8, <2>9, <2>10, RequestKeepsNewest
<1>3. CASE Ask(r)
  <2>2. PICK new : /\ new = [request[r] EXCEPT !.at = "asking", !.using = Head(request[r].left)]
                   /\ request' = [request EXCEPT ![r] = new] /\ UNCHANGED <<valid, held, refresh>>
    BY <1>3 DEF Ask, NewestInv, ImportInv, ImportTypes
  <2>1. /\ new.at = "asking" /\ new.left = request[r].left /\ new.using = Head(new.left)
    BY <1>t, <2>2 DEF ImportRequest
  <2>3. \A i \in DOMAIN new.left : HandedOut(new.left[i])'
    BY <1>s, <1>h, <2>1, <2>2
  <2>4. HandedOut(held)'
    BY <1>s, <1>h, <2>1, <2>2 DEF HandedOut
  <2> QED  BY <2>1, <2>2, <2>3, <2>4, RequestKeepsNewest
<1> QED  BY <1>1, <1>2, <1>3

\* The one answer with the newest token is the only one: once it is there, every token up
\* to it was handed out.
LEMMA LandedIsLast ==
    ASSUME NewestInv, NEW r \in Request, request[r].at = "granted",
           NEW new, new.at # "granted", request' = [request EXCEPT ![r] = new],
           UNCHANGED <<valid, refresh>>
    PROVE  \A rt : rt <= valid => HandedOut(rt)'
<1>1. \A q \in Request : request'[q] = IF q = r THEN new ELSE request[q]
  BY DEF NewestInv, ImportInv, ImportTypes
<1>2. ~OnItsWay'
  BY <1>1 DEF OnItsWay, NewestInv, NewestOnce
<1> QED  BY <1>2 DEF HandedOut

\* What was handed out stays so where no answer with a newer one comes on its way.
LEMMA StillHandedOut ==
    ASSUME NewestInv, NEW r \in Request, NEW new, new.at # "granted",
           request' = [request EXCEPT ![r] = new], UNCHANGED <<valid, refresh>>
    PROVE  \A rt : HandedOut(rt) => HandedOut(rt)'
<1>1. \A q \in Request : request'[q] = IF q = r THEN new ELSE request[q]
  BY DEF NewestInv, ImportInv, ImportTypes
<1>2. OnItsWay' => OnItsWay
  BY <1>1 DEF OnItsWay
<1> QED  BY <1>2 DEF HandedOut

\* The server grants or refuses an import's exchange.
LEMMA ServedKeepsNewest ==
    ASSUME NewestInv, NEW r \in Request, ServeImport(r)
    PROVE  NewestOnce' /\ UsesItsEntry'
<1>t. request[r] \in ImportRequest /\ valid \in Int /\ request \in [Request -> ImportRequest]
  BY ImportsAssumption DEF NewestInv, ImportInv, ImportTypes, Token
<1>u. HandedOut(request[r].using)
  <2>1. request[r].at = "asking" /\ request[r].left # <<>>
    BY DEF ServeImport, Exchanging, NewestInv, ImportInv, EntryInFront
  <2> QED  BY <2>1, EntryHandedOut DEF NewestInv, UsesItsEntry
<1>1. CASE Granted(request[r].using)
  <2>1. PICK new : /\ new = [request[r] EXCEPT !.at = "granted", !.got = valid + 1]
                   /\ request' = [request EXCEPT ![r] = new] /\ UNCHANGED <<held, refresh>>
    BY <1>1, <1>t DEF ServeImport
  <2>2. new.at = "granted" /\ new.got = valid + 1 /\ new.left = request[r].left
    BY <1>t, <2>1 DEF ImportRequest
  <2>3. valid' = valid + 1 /\ ~OnItsWay
    BY <1>t, <1>1, <1>u DEF ServeImport, Serves, Granted, HandedOut
  <2>4. \A q \in Request : request'[q] = IF q = r THEN new ELSE request[q]
    BY <1>t, <2>1
  <2>5. ASSUME NEW rt \in MaybeToken, HandedOut(rt) PROVE HandedOut(rt)'
    BY <1>t, <2>3, <2>5, ImportsAssumption DEF HandedOut, MaybeToken, Token, Absent
  <2>6. /\ refresh.at # "granted" /\ \A q \in Request : request[q].at # "granted"
    BY <2>3 DEF OnItsWay
  <2>7. \A q \in Request : /\ request[q].got \in MaybeToken
                           /\ \A i \in DOMAIN request[q].left : request[q].left[i] \in MaybeToken
    BY <1>t, EndsAreLists DEF ImportRequest, MaybeToken
  <2>8. held \in MaybeToken /\ refresh.using \in MaybeToken
    BY DEF NewestInv, ImportInv, ImportTypes, SchedulerRefresh
  <2>9. HandedOut(held)'
    <3>1. HandedOut(held)  BY DEF NewestInv, NewestOnce
    <3>2. PICK h : h = held  OBVIOUS
    <3>3. HandedOut(h)'  BY <2>5, <2>8, <3>1, <3>2
    <3> QED  BY <2>1, <3>2, <3>3 DEF HandedOut
  <2>10. ASSUME NEW q \in Request, NEW i \in DOMAIN request'[q].left
         PROVE  HandedOut(request[q].left[i])'
    <3>1. PICK e : e = request[q].left[i] /\ e \in MaybeToken /\ HandedOut(e)
      BY <2>2, <2>4, <2>7 DEF NewestInv, NewestOnce
    <3>2. request'[q].left[i] = e  BY <2>2, <2>4, <3>1
    <3>3. HandedOut(e)'  BY <2>5, <3>1
    <3> QED  BY <3>2, <3>3 DEF HandedOut
  <2>11. ASSUME NEW q \in Request, request'[q].at = "verifying" PROVE HandedOut(request[q].got)'
    <3>1. PICK e : e = request[q].got /\ e \in MaybeToken /\ HandedOut(e) /\ request'[q].got = e
      BY <2>2, <2>4, <2>7, <2>11 DEF NewestInv, NewestOnce
    <3>2. HandedOut(e)'  BY <2>5, <3>1
    <3> QED  BY <3>1, <3>2 DEF HandedOut
  <2>12. ASSUME refresh'.at = "asking" PROVE HandedOut(refresh.using)'
    <3>1. PICK e : e = refresh.using /\ e \in MaybeToken /\ HandedOut(e) /\ refresh'.using = e
      BY <2>1, <2>8, <2>12 DEF NewestInv, NewestOnce
    <3>2. HandedOut(e)'  BY <2>5, <3>1
    <3> QED  BY <3>1, <3>2 DEF HandedOut
  <2>13. \A q \in Request : request'[q].at = "granted" => q = r /\ request'[q].got = valid'
    BY <2>2, <2>3, <2>4, <2>6
  <2>14. refresh'.at # "granted"  BY <2>1, <2>6
  <2>15. UsesItsEntry'  BY <2>2, <2>4 DEF UsesItsEntry, NewestInv
  <2> QED  BY <2>9, <2>10, <2>11, <2>12, <2>13, <2>14, <2>15 DEF NewestOnce
<1>2. CASE ~Granted(request[r].using)
  <2>1. PICK new : /\ new = [request[r] EXCEPT !.at = "refused"]
                   /\ request' = [request EXCEPT ![r] = new] /\ UNCHANGED <<held, refresh>>
    BY <1>2, <1>t DEF ServeImport
  <2>2. new.at = "refused" /\ new.left = request[r].left
    BY <1>t, <2>1 DEF ImportRequest
  <2>3. valid' = valid
    BY <1>2 DEF ServeImport, Serves, Granted
  <2>4. \A rt : HandedOut(rt) => HandedOut(rt)'
    BY <2>1, <2>2, <2>3, StillHandedOut
  <2>5. \A i \in DOMAIN new.left : HandedOut(new.left[i])'
    BY <2>2, <2>4 DEF NewestInv, NewestOnce
  <2>6. HandedOut(held)'
    BY <2>1, <2>4 DEF NewestInv, NewestOnce, HandedOut
  <2> QED  BY <2>1, <2>2, <2>3, <2>5, <2>6, RequestKeepsNewest
<1> QED  BY <1>1, <1>2

\* An exchange ends, and a verification: what the account gets is the newest there is.
LEMMA EndsKeepNewest ==
    ASSUME NewestInv, NEW r \in Request,
           \/ AnswerFails(r) \/ \E rotated \in BOOLEAN : AnswerLands(r, rotated)
           \/ \E usable \in BOOLEAN : Verified(r, usable)
    PROVE  NewestOnce' /\ UsesItsEntry'
<1>t. request[r] \in ImportRequest /\ valid \in Nat /\ request \in [Request -> ImportRequest]
  BY ImportsAssumption DEF NewestInv, ImportInv, ImportTypes, Token
<1>h. HandedOut(held) /\ held \in MaybeToken
  BY DEF NewestInv, NewestOnce, ImportInv, ImportTypes
<1>1. ASSUME NEW rt \in MaybeToken, Skipped(r) \/ Resolved(r, rt), Exchanging(r),
             UNCHANGED <<valid, refresh>>, rt # Absent => request[r].at = "granted" /\ rt = valid
      PROVE  NewestOnce' /\ UsesItsEntry'
  <2> DEFINE old == request[r]
             next == [old EXCEPT !.at = "ready", !.using = Absent, !.left = Tail(old.left)]
             verify == [old EXCEPT !.at = "verifying", !.using = Absent, !.got = rt]
  <2>1. old.left # <<>>
    BY <1>1 DEF NewestInv, ImportInv, EntryInFront
  <2>2. request' = [request EXCEPT ![r] = next] \/ request' = [request EXCEPT ![r] = verify]
    BY <1>1, <1>t DEF Resolved, Skipped
  <2>3. /\ next.at = "ready" /\ next.left = Tail(old.left)
        /\ verify.at = "verifying" /\ verify.left = old.left /\ verify.got = rt
    BY <1>t DEF ImportRequest
  <2>4. /\ \A i \in DOMAIN old.left : HandedOut(old.left[i])
        /\ \A i \in DOMAIN Tail(old.left) : HandedOut(Tail(old.left)[i])
    BY <2>1, EntryHandedOut DEF NewestInv, NewestOnce
  <2> HIDE DEF old, next, verify
  <2>5. PICK new \in {next, verify} : request' = [request EXCEPT ![r] = new]
    BY <2>2
  <2>6. new.at \in {"ready", "verifying"} /\ (new.at = "verifying" => new.got = rt)
    BY <2>3, <2>5
  <2>7. \A e : HandedOut(e) => HandedOut(e)'
    BY <1>1, <2>5, <2>6, StillHandedOut
  <2>8. HandedOut(rt)'
    <3>1. CASE rt = Absent
      <4>1. HandedOut(Absent)  BY <1>t DEF HandedOut, Absent
      <4> QED  BY <2>7, <3>1, <4>1
    <3>2. CASE rt # Absent
      <4>1. \A e : e <= valid => HandedOut(e)'
        BY <1>1, <2>5, <2>6, <3>2, LandedIsLast
      <4> QED  BY <1>1, <1>t, <3>2, <4>1
    <3> QED  BY <3>1, <3>2
  <2>9. PICK h : h = held' /\ (h = held \/ h = rt)
    BY <1>1 DEF Skipped, Resolved
  <2>10. HandedOut(h)'  BY <1>h, <2>7, <2>8, <2>9
  <2>11. HandedOut(held)'  BY <2>9, <2>10 DEF HandedOut
  <2>12. \A i \in DOMAIN new.left : HandedOut(new.left[i])'
    BY <2>3, <2>4, <2>5, <2>7
  <2>13. new.at = "verifying" => HandedOut(new.got)'
    BY <2>6, <2>8 DEF HandedOut
  <2> QED  BY <1>1, <2>5, <2>6, <2>11, <2>12, <2>13, RequestKeepsNewest
<1>2. CASE AnswerFails(r)
  <2>1. PICK rt : rt = Absent /\ rt \in MaybeToken  BY DEF MaybeToken
  <2> QED  BY <1>1, <1>2, <2>1 DEF AnswerFails, Exchanging
<1>3. ASSUME NEW rotated \in BOOLEAN, AnswerLands(r, rotated) PROVE NewestOnce' /\ UsesItsEntry'
  <2>1. PICK rt : rt = IF rotated THEN request[r].got ELSE Absent
    OBVIOUS
  <2>2. rt \in MaybeToken  BY <1>t, <2>1 DEF ImportRequest, MaybeToken
  <2>3. request[r].at = "granted" /\ request[r].got = valid
    BY <1>3 DEF AnswerLands, NewestInv, NewestOnce
  <2> QED  BY <1>1, <1>3, <2>1, <2>2, <2>3 DEF AnswerLands, Exchanging
<1>4. ASSUME NEW usable \in BOOLEAN, Verified(r, usable) PROVE NewestOnce' /\ UsesItsEntry'
  <2>1. PICK new : /\ new = [Idle EXCEPT !.at = "ready"]
                   /\ request' = [request EXCEPT ![r] = new] /\ UNCHANGED <<valid, refresh>>
    BY <1>4 DEF Verified
  <2>2. new.at = "ready" /\ new.left = <<>>
    BY <2>1 DEF Idle
  <2>3. \A e : HandedOut(e) => HandedOut(e)'
    BY <2>1, <2>2, StillHandedOut
  <2>4. PICK h : h = held' /\ HandedOut(h)
    BY <1>4, <1>h DEF Verified, NewestInv, NewestOnce
  <2>5. HandedOut(held)'  BY <2>3, <2>4 DEF HandedOut
  <2>6. \A i \in DOMAIN new.left : HandedOut(new.left[i])'
    BY <2>2
  <2> QED  BY <2>1, <2>2, <2>5, <2>6, RequestKeepsNewest
<1> QED  BY <1>2, <1>3, <1>4

\* The scheduler's refresh keeps it too: it is served, and lands, as an exchange is.
LEMMA RefreshKeepsNewest ==
    ASSUME NewestInv, RefreshStarts \/ ServeRefresh \/ RefreshLands
    PROVE  NewestOnce' /\ UsesItsEntry'
<1>t. /\ valid \in Nat /\ held \in MaybeToken /\ refresh \in SchedulerRefresh
      /\ request \in [Request -> ImportRequest]
  BY ImportsAssumption DEF NewestInv, ImportInv, ImportTypes, Token
<1>r. UNCHANGED request
  BY DEF RefreshStarts, ServeRefresh, RefreshLands
<1>u. UsesItsEntry'  BY <1>r DEF NewestInv, UsesItsEntry
<1>k. ASSUME \A rt \in MaybeToken : HandedOut(rt) => HandedOut(rt)'
      PROVE  /\ \A r \in Request : \A i \in DOMAIN request'[r].left : HandedOut(request[r].left[i])'
             /\ \A r \in Request : request'[r].at = "verifying" => HandedOut(request[r].got)'
  <2>1. \A r \in Request : /\ request[r].got \in MaybeToken
                           /\ \A i \in DOMAIN request[r].left : request[r].left[i] \in MaybeToken
    BY <1>t, EndsAreLists DEF ImportRequest, MaybeToken
  <2>2. ASSUME NEW r \in Request, NEW i \in DOMAIN request'[r].left
        PROVE  HandedOut(request[r].left[i])'
    <3>1. PICK e : e = request[r].left[i] /\ e \in MaybeToken /\ HandedOut(e)
      BY <1>r, <2>1 DEF NewestInv, NewestOnce
    <3>2. HandedOut(e)'  BY <1>k, <3>1
    <3> QED  BY <1>r, <3>1, <3>2 DEF HandedOut
  <2>3. ASSUME NEW r \in Request, request'[r].at = "verifying" PROVE HandedOut(request[r].got)'
    <3>1. PICK e : e = request[r].got /\ e \in MaybeToken /\ HandedOut(e)
      BY <1>r, <2>1, <2>3 DEF NewestInv, NewestOnce
    <3>2. HandedOut(e)'  BY <1>k, <3>1
    <3> QED  BY <1>r, <3>1, <3>2 DEF HandedOut
  <2> QED  BY <2>2, <2>3
<1>1. CASE RefreshStarts
  <2>1. /\ refresh'.at = "asking" /\ refresh'.using = held /\ refresh.at = "idle"
        /\ UNCHANGED <<valid, held>>
    BY <1>1 DEF RefreshStarts, Idle
  <2>2. OnItsWay' => OnItsWay  BY <1>r, <2>1 DEF OnItsWay
  <2>3. \A rt : HandedOut(rt) => HandedOut(rt)'  BY <2>1, <2>2 DEF HandedOut
  <2>4. HandedOut(held)' /\ HandedOut(refresh.using)'
    BY <2>1, <2>3 DEF NewestInv, NewestOnce, HandedOut
  <2> QED  BY <1>r, <1>u, <1>k, <2>1, <2>3, <2>4 DEF NewestInv, NewestOnce
<1>2. CASE ServeRefresh /\ Granted(refresh.using)
  <2>1. /\ refresh'.at = "granted" /\ refresh'.got = valid + 1 /\ refresh.at = "asking"
        /\ UNCHANGED held /\ valid' = valid + 1
    BY <1>2, <1>t DEF ServeRefresh, SchedulerRefresh, Serves, Granted
  <2>2. ~OnItsWay
    BY <1>2, <1>t, <2>1 DEF NewestInv, NewestOnce, HandedOut, Granted
  <2>3. ASSUME NEW rt \in MaybeToken, HandedOut(rt) PROVE HandedOut(rt)'
    BY <1>t, <2>1, <2>3, ImportsAssumption DEF HandedOut, MaybeToken, Token, Absent
  <2>4. HandedOut(held)'
    <3>1. PICK h : h = held /\ h \in MaybeToken /\ HandedOut(h)
      BY <1>t DEF NewestInv, NewestOnce
    <3>2. HandedOut(h)'  BY <2>3, <3>1
    <3> QED  BY <2>1, <3>1, <3>2 DEF HandedOut
  <2>5. \A q \in Request : request'[q].at # "granted"
    BY <1>r, <2>2 DEF OnItsWay
  <2> QED  BY <1>u, <1>k, <2>1, <2>3, <2>4, <2>5 DEF NewestOnce
<1>3. CASE ServeRefresh /\ ~Granted(refresh.using)
  <2>1. refresh'.at = "refused" /\ UNCHANGED <<held, valid>>
    BY <1>3, <1>t DEF ServeRefresh, SchedulerRefresh, Serves, Granted
  <2>2. OnItsWay' => OnItsWay  BY <1>r, <2>1 DEF OnItsWay
  <2>3. \A rt : HandedOut(rt) => HandedOut(rt)'  BY <2>1, <2>2 DEF HandedOut
  <2>4. HandedOut(held)'  BY <2>1, <2>3 DEF NewestInv, NewestOnce, HandedOut
  <2> QED  BY <1>r, <1>u, <1>k, <2>1, <2>3, <2>4 DEF NewestInv, NewestOnce
<1>4. CASE RefreshLands
  <2>1. refresh'.at = "idle" /\ UNCHANGED valid
    BY <1>4 DEF RefreshLands, Idle
  <2>2. OnItsWay' => OnItsWay  BY <1>r, <2>1 DEF OnItsWay
  <2>3. \A rt : HandedOut(rt) => HandedOut(rt)'  BY <2>1, <2>2 DEF HandedOut
  <2>4. HandedOut(held)'
    <3>1. CASE refresh.at = "granted"
      <4>1. held' = valid  BY <1>4, <3>1 DEF RefreshLands, NewestInv, NewestOnce
      <4>2. ~OnItsWay'  BY <1>r, <2>1, <3>1 DEF OnItsWay, NewestInv, NewestOnce
      <4> QED  BY <1>t, <2>1, <4>1, <4>2 DEF HandedOut
    <3>2. CASE refresh.at # "granted"
      <4>1. UNCHANGED held  BY <1>4, <3>2 DEF RefreshLands
      <4> QED  BY <2>3, <4>1 DEF NewestInv, NewestOnce, HandedOut
    <3> QED  BY <3>1, <3>2
  <2> QED  BY <1>r, <1>u, <1>k, <2>1, <2>3, <2>4 DEF NewestInv, NewestOnce
<1> QED  BY <1>1, <1>2, <1>3, <1>4

\* A batch never verifies.
LEMMA VerifyStaysSingle ==
    ASSUME ImportInv, SinglesVerify, ImportNext PROVE SinglesVerify'
<1>t. request \in [Request -> ImportRequest]
  BY DEF ImportInv, ImportTypes
<1> SUFFICES ASSUME NEW q \in Request, request'[q].at = "verifying", q \notin Single PROVE FALSE
  BY DEF SinglesVerify
<1>1. request[q].at # "verifying" /\ q \in Batch
  BY DEF SinglesVerify, Request
<1>2. \A r \in Request : \A list : ~StartImport(r, list)
  BY <1>t, <1>1 DEF StartImport, Idle
<1>3. ~RefreshStarts /\ ~ServeRefresh /\ ~RefreshLands
  BY <1>1 DEF RefreshStarts, ServeRefresh, RefreshLands
<1>4. PICK r \in Request : ImportStep(r)
  BY <1>2, <1>3 DEF ImportNext, Request
<1>5. r = q
  BY <1>t, <1>1, <1>4 DEF ImportStep, KnownToken, DuplicateToken, Ask, ServeImport, AnswerFails,
     AnswerLands, Verified, Resolved, Skipped
<1>6. request[q] \in ImportRequest  BY <1>t
<1> QED
  BY <1>t, <1>1, <1>4, <1>5, <1>6 DEF ImportStep, KnownToken, DuplicateToken, Ask, ServeImport,
     AnswerFails, AnswerLands, Verified, Resolved, Skipped, Idle, ImportRequest

\* No step breaks it.
LEMMA NewestSteps == NewestInv /\ [ImportNext]_importVars => NewestInv'
<1> SUFFICES ASSUME NewestInv, [ImportNext]_importVars PROVE NewestInv'
  OBVIOUS
<1>1. ImportInv'  BY ImportSteps DEF NewestInv
<1>2. CASE UNCHANGED importVars
  BY <1>2 DEF importVars, NewestInv, NewestOnce, UsesItsEntry, SinglesVerify, HandedOut, OnItsWay,
     ImportInv, ImportTypes, EntryInFront, ExchangesGuarded, Exchanging
<1>3. ASSUME NEW r \in Batch, NEW list \in Batches, StartImport(r, list)
      PROVE  NewestOnce' /\ UsesItsEntry'
  BY <1>3, TakenKeepsNewest DEF ImportLists, Request
<1>4. ASSUME NEW r \in Single, NEW rt \in Token, StartImport(r, <<rt>>)
      PROVE  NewestOnce' /\ UsesItsEntry'
  BY <1>4, TakenKeepsNewest DEF ImportLists, Request
<1>5. ASSUME NEW r \in Request, ImportStep(r) PROVE NewestOnce' /\ UsesItsEntry'
  BY <1>5, TakenKeepsNewest, ServedKeepsNewest, EndsKeepNewest DEF ImportStep
<1>6. ImportNext => SinglesVerify'
  BY VerifyStaysSingle DEF NewestInv
<1> QED  BY <1>1, <1>2, <1>3, <1>4, <1>5, <1>6, RefreshKeepsNewest DEF ImportNext, NewestInv

\* Only a verification that ends puts an older token back.
LEMMA OthersStoreNewest ==
    ASSUME NewestInv, ImportNext, held' < held
    PROVE  \E r \in Single : request[r].at = "verifying" /\ request'[r] # request[r]
<1>t. valid \in Nat /\ held \in MaybeToken /\ held <= valid /\ request \in [Request -> ImportRequest]
  BY ImportsAssumption DEF NewestInv, NewestOnce, HandedOut, ImportInv, ImportTypes, Token
<1>n. held \in Int /\ held' # held
  BY <1>t, ImportsAssumption DEF MaybeToken, Token, Absent
<1>1. ~RefreshLands
  <2>1. RefreshLands => held' = held \/ held' = valid
    BY DEF RefreshLands, NewestInv, NewestOnce
  <2> QED  BY <1>t, <1>n, <2>1
<1>2. PICK r \in Request : ImportStep(r)
  BY <1>n, <1>1 DEF ImportNext, StartImport, RefreshStarts, ServeRefresh
<1>3. ASSUME NEW rotated \in BOOLEAN, AnswerLands(r, rotated) PROVE FALSE
  <2>1. held' = held \/ held' = valid
    BY <1>3 DEF AnswerLands, Resolved, NewestInv, NewestOnce
  <2> QED  BY <1>t, <1>n, <2>1
<1>4. \E usable \in BOOLEAN : Verified(r, usable)
  BY <1>n, <1>2, <1>3 DEF ImportStep, KnownToken, DuplicateToken, Ask, ServeImport, AnswerFails,
     Resolved, Skipped
<1>5. request[r].at = "verifying" /\ request'[r].at = "ready"
  BY <1>t, <1>4 DEF Verified, Idle
<1>6. r \in Single
  BY <1>5 DEF NewestInv, SinglesVerify
<1> QED  BY <1>5, <1>6

\* However imports and the scheduler's refresh interleave, no token is under two
\* exchanges of imports at once, the guard holds exactly those that are, and the account
\* gets an older token back only from a single import that stores what it took before its
\* verification (importMany, importOne, doRefresh).
THEOREM ImportsTheorem ==
    ImportSpec => []ImportTypeOK /\ []ExchangesGuarded /\ OnlyVerifiedGoesBack
<1>1. ImportInit => NewestInv
  BY ImportStarts, NewestStarts DEF NewestInv
<1>2. ImportSpec => []NewestInv
  BY <1>1, NewestSteps, PTL DEF ImportSpec
<1>3. NewestInv => ImportTypeOK
  BY DEF NewestInv, ImportInv, ImportTypes, ImportTypeOK, ImportRequest, SchedulerRefresh, MaybeToken
<1>4. NewestInv => ExchangesGuarded
  BY DEF NewestInv, ImportInv
<1>5. NewestInv /\ [ImportNext]_importVars
        => [held' < held => \E r \in Single : request[r].at = "verifying" /\ request'[r] # request[r]]_importVars
  BY OthersStoreNewest
<1> QED  BY <1>2, <1>3, <1>4, <1>5, PTL DEF ImportSpec, OnlyVerifiedGoesBack

-----------------------------------------------------------------------------
(* The token exchange *)

\* A chain has one to three steps.
LEMMA ChainIsShort ==
    ASSUME NEW account, NEW global PROVE Len(Chain(account, global)) \in 1 .. 3
<1> DEFINE S == {account, Default, Direct}
           second == IF global # Direct /\ global # account THEN <<Default>> ELSE <<>>
           proxies == <<account>> \o second
<1>1. <<account>> \in Seq(S) /\ Len(<<account>>) = 1
  OBVIOUS
<1>2. second \in Seq(S) /\ Len(second) \in {0, 1}
  <2>1. <<Default>> \in Seq(S) /\ Len(<<Default>>) = 1  OBVIOUS
  <2>2. <<>> \in Seq(S) /\ Len(<<>>) = 0  OBVIOUS
  <2>3. second = <<Default>> \/ second = <<>>  OBVIOUS
  <2> HIDE DEF S, second
  <2> QED  BY <2>1, <2>2, <2>3
<1>3. Chain(account, global) = proxies \/ Chain(account, global) = Append(proxies, Direct)
  BY DEF Chain
<1>4. Direct \in S  OBVIOUS
<1> HIDE DEF S, second
<1>5. proxies \in Seq(S) /\ Len(proxies) = 1 + Len(second)
  BY <1>1, <1>2, ConcatProperties
<1> HIDE DEF proxies
<1>6. Len(Append(proxies, Direct)) = Len(proxies) + 1
  BY <1>4, <1>5, AppendProperties
<1> DEFINE steps == Chain(account, global)
<1>7. Len(steps) = 1 + Len(second) \/ Len(steps) = 1 + Len(second) + 1
  BY <1>3, <1>5, <1>6
<1> HIDE DEF steps
<1> DEFINE k == Len(second)
           n == Len(steps)
<1>8. k \in {0, 1} /\ (n = 1 + k \/ n = 1 + k + 1)  BY <1>2, <1>7
<1> HIDE DEF k, n
<1>9. n \in 1 .. 3  BY <1>8
<1> QED  BY <1>9 DEF n, steps

\* The call is over once an attempt may have used the token up; every attempt but the
\* last one led to the next.
EarlierWentOn ==
    \A i \in 1 .. Len(attempts) : i < Len(attempts) => GoesOn(transport, attempts[i])

ExchangeInv ==
    /\ accountProxy \in AccountProxy \cup GlobalProxy \cup {Default, Direct}
    /\ globalProxy \in GlobalProxy \cup {Direct} /\ transport \in Transports
    /\ attempts \in Seq(Failures \cup Answers) /\ consumed \in BOOLEAN
    /\ Len(attempts) <= Len(Chain(accountProxy, globalProxy))
    /\ EarlierWentOn

LEMMA ExchangeStarts == ExchangeInit => ExchangeInv
<1> SUFFICES ASSUME ExchangeInit PROVE ExchangeInv
  OBVIOUS
<1>1. attempts \in Seq(Failures \cup Answers) /\ Len(attempts) = 0
  BY DEF ExchangeInit
<1>2. Len(attempts) <= Len(Chain(accountProxy, globalProxy))
  BY <1>1, ChainIsShort
<1>3. EarlierWentOn
  BY <1>1 DEF EarlierWentOn
<1> QED  BY <1>1, <1>2, <1>3 DEF ExchangeInit, ExchangeInv

LEMMA ExchangeSteps == ExchangeInv /\ [ExchangeNext]_exchangeVars => ExchangeInv'
<1> SUFFICES ASSUME ExchangeInv, [ExchangeNext]_exchangeVars PROVE ExchangeInv'
  OBVIOUS
<1>1. ASSUME NEW result \in Failures \cup Answers, Attempt(result) PROVE ExchangeInv'
  <2> DEFINE S == Failures \cup Answers
             length == Len(Chain(accountProxy, globalProxy))
  <2>1. length \in 1 .. 3  BY ChainIsShort
  <2>2. /\ attempts' = Append(attempts, result) /\ consumed' \in BOOLEAN
        /\ UNCHANGED <<accountProxy, globalProxy, transport>>
    BY <1>1 DEF Attempt, ExchangeInv
  <2>3. attempts \in Seq(S) /\ result \in S  BY DEF ExchangeInv
  <2>4. attempts = <<>> \/ (GoesOn(transport, attempts[Len(attempts)]) /\ Len(attempts) # length)
    BY <1>1 DEF Attempt, Over
  <2> HIDE DEF S
  <2>5. /\ attempts' \in Seq(S) /\ Len(attempts') = Len(attempts) + 1
        /\ \A i \in 1 .. Len(attempts) : attempts'[i] = attempts[i]
    BY <2>2, <2>3, AppendProperties
  <2>6. Len(attempts) \in Nat /\ Len(attempts) <= length /\ (attempts = <<>> => Len(attempts) = 0)
    BY <2>3 DEF ExchangeInv
  <2>7. Len(attempts') <= length'
    BY <2>1, <2>2, <2>4, <2>5, <2>6
  <2>8. ASSUME NEW i \in 1 .. Len(attempts'), i < Len(attempts')
        PROVE  GoesOn(transport', attempts'[i])
    <3>1. i \in 1 .. Len(attempts) /\ attempts'[i] = attempts[i] /\ transport' = transport
      BY <2>2, <2>5, <2>6, <2>8
    <3>2. CASE i < Len(attempts)  BY <3>1, <3>2 DEF ExchangeInv, EarlierWentOn
    <3>3. CASE i = Len(attempts)  BY <2>4, <2>6, <3>1, <3>3
    <3> QED  BY <2>6, <3>1, <3>2, <3>3
  <2>9. EarlierWentOn'  BY <2>8 DEF EarlierWentOn
  <2> USE DEF S
  <2> QED  BY <2>2, <2>5, <2>7, <2>9 DEF ExchangeInv
<1>2. CASE UNCHANGED exchangeVars
  BY <1>2 DEF exchangeVars, ExchangeInv, EarlierWentOn
<1> QED  BY <1>1, <1>2 DEF ExchangeNext

\* Along whatever chain of proxies, a one-time token is never sent again after a step in
\* which the server may have taken it (refreshAccessToken, isSafeToRetryRefresh).
THEOREM ExchangeTheorem == ExchangeSpec => []ExchangeTypeOK /\ []MidFlightEndsIt
<1>1. ExchangeSpec => []ExchangeInv
  BY ExchangeStarts, ExchangeSteps, PTL DEF ExchangeSpec
<1>2. ExchangeInv => ExchangeTypeOK
  <2> SUFFICES ASSUME ExchangeInv PROVE ExchangeTypeOK
    OBVIOUS
  <2>1. Len(Chain(accountProxy, globalProxy)) \in 1 .. 3  BY ChainIsShort
  <2>2. Len(attempts) \in Nat /\ Len(attempts) <= Len(Chain(accountProxy, globalProxy))
    BY DEF ExchangeInv
  <2> DEFINE length == Len(Chain(accountProxy, globalProxy))
  <2> HIDE DEF length
  <2>3. length \in 1 .. 3 /\ Len(attempts) \in Nat /\ Len(attempts) <= length
    BY <2>1, <2>2 DEF length
  <2>4. Len(attempts) <= 3  BY <2>3
  <2> QED  BY <2>4 DEF ExchangeInv, ExchangeTypeOK
<1>3. ExchangeInv => MidFlightEndsIt
  BY DEF ExchangeInv, EarlierWentOn, MidFlightEndsIt, GoesOn, IsSafeToRetryRefresh, MidFlight
<1> QED  BY <1>1, <1>2, <1>3, PTL

-----------------------------------------------------------------------------
(* The accounts over the starts *)

Kept(entries) == Accounts(entries) \cup removed

\* Where a start is, what the files have of the account of auth.json (Legacy).
LegacySafe ==
    /\ starting \in {"migrating", "writing", "renaming"} => authFile = "there"
    /\ starting = "migrating" => file = Missing
    /\ starting = "writing" => file = Broken
    /\ file = Missing => authFile = "there"
    /\ starting = "renaming" => file.entries = {MigratedEntry}
    /\ starting # "loading" => migrated = {}
    /\ ~harm /\ migrated # {} => file.entries = {MigratedEntry}
    /\ ~harm /\ starting \in {"loading", "running"} => file # Missing
    /\ ~harm /\ authFile # "none" /\ starting # "writing"
          => (file = Missing /\ authFile = "there") \/ Legacy \in Kept(file.entries)

\* No account in accounts.json is missing from a pool that was loaded from it.
PoolHasFile ==
    ~harm /\ starting = "running"
       => (\A e \in pool : e.complete) /\ Accounts(file.entries) \subseteq Kept(pool)

MigrationTypes ==
    /\ file \in [is : {"missing", "broken", "whole"}, entries : SUBSET Entry]
    /\ file.is = "missing" => file = Missing
    /\ file.is = "broken" => file = Broken
    /\ pool \subseteq Entry /\ migrated \subseteq {MigratedEntry} /\ harm \in BOOLEAN
    /\ authFile \in {"none", "there", "bak"} /\ (authFile = "bak" => file # Missing)
    /\ starting \in {"down", "migrating", "writing", "renaming", "loading", "running"}
    /\ pool # {} => starting = "running"

MigrationInv == MigrationTypes /\ LegacySafe /\ PoolHasFile

LEMMA LegacyIsOlder == Legacy \in Older /\ MigratedEntry \in Entry /\ MigratedEntry.account = Legacy
BY MigrationAssumption DEF Legacy, MigratedEntry, Entry

\* What a file is that holds entries, and the two that hold none.
LEMMA Files ==
    /\ \A entries : Holding(entries).is = "whole" /\ Holding(entries).entries = entries
    /\ \A entries \in SUBSET Entry :
          Holding(entries) \in [is : {"missing", "broken", "whole"}, entries : SUBSET Entry]
    /\ Missing.is = "missing" /\ Missing.entries = {} /\ Broken.is = "broken" /\ Broken.entries = {}
    /\ {Missing, Broken} \subseteq [is : {"missing", "broken", "whole"}, entries : SUBSET Entry]
BY DEF Holding, Missing, Broken

LEMMA MigrationStarts == MigrationInit => MigrationInv
<1> SUFFICES ASSUME MigrationInit PROVE MigrationInv
  OBVIOUS
<1> DEFINE older == {[account |-> a, complete |-> FALSE] : a \in Older}
<1>1. older \subseteq Entry /\ Legacy \in Accounts(older)
  <2>1. \A a \in Older : [account |-> a, complete |-> FALSE] \in Entry  BY DEF Entry
  <2>2. MigratedEntry \in older  BY LegacyIsOlder DEF MigratedEntry
  <2>3. MigratedEntry.account \in Accounts(older)  BY <2>2 DEF Accounts
  <2> QED  BY <2>1, <2>3, LegacyIsOlder
<1>2. file = Missing \/ file = Holding(older)  BY DEF MigrationInit
<1> HIDE DEF older
<1>3. MigrationTypes  BY <1>1, <1>2, Files DEF MigrationInit, MigrationTypes
<1>4. LegacySafe /\ PoolHasFile
  BY <1>1, <1>2, Files DEF MigrationInit, LegacySafe, PoolHasFile, Kept
<1> QED  BY <1>3, <1>4 DEF MigrationInv

\* The migration: until the file is written the account is in auth.json, then in the file.
LEMMA MigratingKeeps ==
    ASSUME MigrationInv, Start \/ WriteBegins \/ WriteEnds \/ MigrationFails \/ RenameLegacy
    PROVE  MigrationInv'
<1> USE LegacyIsOlder, Files DEF MigrationInv
<1>a. Accounts({MigratedEntry}) = {Legacy}
  BY DEF Accounts
<1>1. CASE Start
  <2>1. MigrationTypes'  BY <1>1 DEF Start, MigrationTypes
  <2>2. LegacySafe'  BY <1>1 DEF Start, MigrationTypes, LegacySafe, NeedsMigration, Kept
  <2>3. PoolHasFile'  BY <1>1 DEF Start, PoolHasFile
  <2> QED  BY <2>1, <2>2, <2>3
<1>2. CASE WriteBegins
  <2>1. MigrationTypes'  BY <1>2 DEF WriteBegins, MigrationTypes
  <2>2. LegacySafe' /\ PoolHasFile'  BY <1>2 DEF WriteBegins, MigrationTypes, LegacySafe, PoolHasFile
  <2> QED  BY <2>1, <2>2
<1>3. CASE WriteEnds
  <2>1. /\ Holding({MigratedEntry}).entries = {MigratedEntry}
        /\ Holding({MigratedEntry}) \in [is : {"missing", "broken", "whole"}, entries : SUBSET Entry]
        /\ Holding({MigratedEntry}) # Missing /\ Holding({MigratedEntry}) # Broken
    OBVIOUS
  <2>2. MigrationTypes'  BY <1>3, <2>1 DEF WriteEnds, MigrationTypes
  <2>3. LegacySafe' /\ PoolHasFile'
    BY <1>3, <2>1, <1>a DEF WriteEnds, MigrationTypes, LegacySafe, PoolHasFile, Kept
  <2> QED  BY <2>2, <2>3
<1>4. CASE MigrationFails
  <2>1. MigrationTypes'  BY <1>4 DEF MigrationFails, MigrationTypes
  <2>2. LegacySafe' /\ PoolHasFile'
    BY <1>4, <1>a DEF MigrationFails, MigrationTypes, LegacySafe, PoolHasFile, Kept
  <2> QED  BY <2>1, <2>2
<1>5. CASE RenameLegacy
  <2>1. file # Missing  BY <1>5 DEF RenameLegacy, LegacySafe
  <2>2. MigrationTypes'  BY <1>5, <2>1 DEF RenameLegacy, MigrationTypes
  <2>3. LegacySafe' /\ PoolHasFile'
    BY <1>5, <1>a, <2>1 DEF RenameLegacy, MigrationTypes, LegacySafe, PoolHasFile, Kept
  <2> QED  BY <2>2, <2>3
<1> QED  BY <1>1, <1>2, <1>3, <1>4, <1>5

\* Completing entries loses none.
LEMMA BackfillKeeps ==
    ASSUME NEW entries \in SUBSET Entry
    PROVE  /\ Backfill(entries) \subseteq Entry
           /\ \A e \in Backfill(entries) : e.complete
           /\ Accounts(Backfill(entries)) = Accounts(entries)
           /\ Backfill(entries) = {} => entries = {}
<1>1. \A e \in entries : LET c == [e EXCEPT !.complete = TRUE]
                         IN  c \in Entry /\ c.complete /\ c.account = e.account
  BY DEF Entry
<1>2. ASSUME NEW a \in Accounts(Backfill(entries)) PROVE a \in Accounts(entries)
  <2>1. PICK c \in Backfill(entries) : a = c.account  BY <1>2 DEF Accounts
  <2>2. PICK e \in entries : c = [e EXCEPT !.complete = TRUE]  BY DEF Backfill
  <2>3. a = e.account  BY <1>1, <2>1, <2>2
  <2> QED  BY <2>3 DEF Accounts
<1>3. ASSUME NEW a \in Accounts(entries) PROVE a \in Accounts(Backfill(entries))
  <2>1. PICK e \in entries : a = e.account  BY <1>3 DEF Accounts
  <2>2. [e EXCEPT !.complete = TRUE] \in Backfill(entries)  BY DEF Backfill
  <2>3. [e EXCEPT !.complete = TRUE].account = a  BY <1>1, <2>1
  <2> QED  BY <2>2, <2>3, Zenon DEF Accounts
<1> QED  BY <1>1, <1>2, <1>3 DEF Backfill

\* The load, and its failure.
LEMMA LoadingKeeps ==
    ASSUME MigrationInv, LoadPersisted \/ LoadFails
    PROVE  MigrationInv'
<1> USE LegacyIsOlder, Files DEF MigrationInv
<1>1. CASE LoadPersisted
  <2> DEFINE loaded == Backfill(file.entries)
  <2>1. file.entries \in SUBSET Entry  BY DEF MigrationTypes
  <2>2. /\ loaded \subseteq Entry /\ \A e \in loaded : e.complete
        /\ Accounts(loaded) = Accounts(file.entries) /\ (loaded = {} => file.entries = {})
    BY <2>1, BackfillKeeps
  <2>3. /\ starting = "loading" /\ starting' = "running" /\ migrated' = {}
        /\ pool' = (IF loaded = {} THEN migrated ELSE loaded)
        /\ file' = file \/ file' = Holding(loaded)
        /\ UNCHANGED <<authFile, harm, removed>>
    BY <1>1 DEF LoadPersisted
  <2> HIDE DEF loaded
  <2>4. Holding(loaded) # Missing /\ Holding(loaded) # Broken
    OBVIOUS
  <2>5. MigrationTypes'
    <3>1. pool' \subseteq Entry  BY <2>2, <2>3 DEF MigrationTypes
    <3>2. /\ file' \in [is : {"missing", "broken", "whole"}, entries : SUBSET Entry]
          /\ (file'.is = "missing" => file' = Missing) /\ (file'.is = "broken" => file' = Broken)
          /\ (authFile' = "bak" => file' # Missing)
      BY <2>2, <2>3, <2>4 DEF MigrationTypes
    <3> QED  BY <2>3, <3>1, <3>2 DEF MigrationTypes
  <2>6. Accounts(file'.entries) = Accounts(file.entries)
    BY <2>2, <2>3
  <2>7. LegacySafe'
    BY <2>3, <2>4, <2>6 DEF LegacySafe, Kept
  <2>8. PoolHasFile'
    <3> SUFFICES ASSUME ~harm
                 PROVE  (\A e \in pool' : e.complete) /\ Accounts(file'.entries) \subseteq Accounts(pool')
      BY <2>3 DEF PoolHasFile, Kept
    <3>1. CASE loaded = {}
      <4>1. migrated = {}  BY <2>2, <3>1 DEF LegacySafe
      <4>2. Accounts({}) = {}  BY DEF Accounts
      <4> QED  BY <2>2, <2>3, <2>6, <3>1, <4>1, <4>2
    <3>2. CASE loaded # {}
      BY <2>2, <2>3, <2>6, <3>2
    <3> QED  BY <3>1, <3>2
  <2> QED  BY <2>5, <2>7, <2>8
<1>2. CASE LoadFails
  <2>1. MigrationTypes'  BY <1>2 DEF LoadFails, MigrationTypes
  <2>2. LegacySafe' /\ PoolHasFile'  BY <1>2 DEF LoadFails, LegacySafe, PoolHasFile
  <2> QED  BY <2>1, <2>2
<1> QED  BY <1>1, <1>2

\* What a save writes has every account of the file it replaces, but those deleted.
LEMMA SavesKeep ==
    ASSUME MigrationInv, starting = "running",
           pool' \subseteq Entry, SaveAs(pool'), removed \subseteq removed',
           Accounts(pool) \subseteq Kept(pool)' /\ (~harm => \A e \in pool' : e.complete),
           UNCHANGED <<authFile, migrated, starting, harm>>
    PROVE  MigrationInv'
<1> USE Files DEF MigrationInv
<1>1. file' = file \/ file' = Holding(pool')  BY DEF SaveAs
<1>2. Holding(pool') # Missing /\ Holding(pool') # Broken
  OBVIOUS
<1>3. MigrationTypes'
  <2>1. /\ file' \in [is : {"missing", "broken", "whole"}, entries : SUBSET Entry]
        /\ (file'.is = "missing" => file' = Missing) /\ (file'.is = "broken" => file' = Broken)
        /\ (authFile' = "bak" => file' # Missing)
    BY <1>1, <1>2 DEF MigrationTypes
  <2> QED  BY <2>1 DEF MigrationTypes
<1>4. ~harm => Accounts(file.entries) \subseteq Kept(pool)'
  BY DEF PoolHasFile, Kept
<1>5. ~harm => Kept(file.entries) \subseteq Accounts(file'.entries) \cup removed'
  BY <1>1, <1>4 DEF Kept
<1>6. LegacySafe'  BY <1>1, <1>2, <1>5 DEF LegacySafe, Kept
<1>7. PoolHasFile'  BY <1>1, <1>4 DEF PoolHasFile, Kept
<1> QED  BY <1>3, <1>6, <1>7

LEMMA MigrationSteps == MigrationInv /\ [MigrationNext]_migrationVars => MigrationInv'
<1> SUFFICES ASSUME MigrationInv, [MigrationNext]_migrationVars PROVE MigrationInv'
  OBVIOUS
<1>1. ASSUME NEW a \in Newer, AddAccount(a) PROVE MigrationInv'
  <2>1. [account |-> a, complete |-> TRUE] \in Entry  BY DEF Entry
  <2>2. pool' \subseteq Entry  BY <1>1, <2>1 DEF AddAccount, MigrationInv, MigrationTypes
  <2>3. Accounts(pool) \subseteq Accounts(pool')  BY <1>1 DEF AddAccount, Accounts
  <2>4. ~harm => \A e \in pool' : e.complete
    BY <1>1 DEF AddAccount, MigrationInv, PoolHasFile
  <2> QED  BY <1>1, <2>2, <2>3, <2>4, SavesKeep DEF AddAccount, Kept
<1>2. ASSUME NEW a \in Older \cup Newer, RemoveAccount(a) PROVE MigrationInv'
  <2>1. pool' \subseteq Entry  BY <1>2 DEF RemoveAccount, MigrationInv, MigrationTypes
  <2>2. Accounts(pool) \subseteq Accounts(pool') \cup {a}  BY <1>2 DEF RemoveAccount, Accounts
  <2>3. ~harm => \A e \in pool' : e.complete
    BY <1>2 DEF RemoveAccount, MigrationInv, PoolHasFile
  <2> QED  BY <1>2, <2>1, <2>2, <2>3, SavesKeep DEF RemoveAccount, Kept
<1>3. CASE ProcessEnds
  <2>1. MigrationTypes'  BY <1>3 DEF ProcessEnds, MigrationInv, MigrationTypes
  <2>2. LegacySafe' /\ PoolHasFile'
    BY <1>3, Files DEF ProcessEnds, MigrationInv, MigrationTypes, LegacySafe, PoolHasFile, Kept
  <2> QED  BY <2>1, <2>2 DEF MigrationInv
<1>4. CASE UNCHANGED migrationVars
  BY <1>4 DEF migrationVars, MigrationInv, MigrationTypes, LegacySafe, PoolHasFile, Kept
<1> QED  BY <1>1, <1>2, <1>3, <1>4, MigratingKeeps, LoadingKeeps DEF MigrationNext

\* Only a migration or a load that failed can write an account out of the file.
LEMMA NothingWritten ==
    ASSUME MigrationInv, MigrationNext, ~harm
    PROVE  Accounts(file.entries) \subseteq Accounts(file'.entries) \cup removed'
<1> USE Files DEF MigrationInv
<1>0. Accounts({}) = {}  BY DEF Accounts
<1>1. CASE Start \/ MigrationFails \/ RenameLegacy \/ LoadFails \/ ProcessEnds
  BY <1>1 DEF Start, MigrationFails, RenameLegacy, LoadFails, ProcessEnds
<1>2. CASE WriteBegins
  BY <1>0, <1>2 DEF WriteBegins, LegacySafe
<1>3. CASE WriteEnds
  <2>1. Accounts(file.entries) = {}
    BY <1>0, <1>3 DEF WriteEnds, LegacySafe
  <2> QED  BY <2>1
<1>4. CASE LoadPersisted
  <2>1. file.entries \in SUBSET Entry  BY DEF MigrationTypes
  <2>2. Accounts(Backfill(file.entries)) = Accounts(file.entries)  BY <2>1, BackfillKeeps
  <2> QED  BY <1>4, <2>2 DEF LoadPersisted
<1>5. ASSUME NEW a \in Newer, AddAccount(a)
      PROVE  Accounts(file.entries) \subseteq Accounts(file'.entries) \cup removed'
  <2>1. Accounts(pool) \subseteq Accounts(pool')  BY <1>5 DEF AddAccount, Accounts
  <2> QED  BY <1>5, <2>1 DEF AddAccount, SaveAs, PoolHasFile, Kept
<1>6. ASSUME NEW a \in Older \cup Newer, RemoveAccount(a)
      PROVE  Accounts(file.entries) \subseteq Accounts(file'.entries) \cup removed'
  <2>1. Accounts(pool) \subseteq Accounts(pool') \cup {a}  BY <1>6 DEF RemoveAccount, Accounts
  <2> QED  BY <1>6, <2>1 DEF RemoveAccount, SaveAs, PoolHasFile, Kept
<1> QED  BY <1>1, <1>2, <1>3, <1>4, <1>5, <1>6 DEF MigrationNext

\* Wherever starts are killed or fail, but in the middle of writing the migrated file or
\* reading a file, the account of auth.json is kept, no incomplete entry goes into use and
\* nothing is written out of accounts.json (migrateFromLegacy, loadPersisted, save).
THEOREM MigrationTheorem == MigrationSpec => MigrationKeepsAccounts
<1>1. MigrationSpec => []MigrationInv
  BY MigrationStarts, MigrationSteps, PTL DEF MigrationSpec
<1>2. MigrationInv => MigrationTypeOK
  BY Files DEF MigrationInv, MigrationTypes, MigrationTypeOK
<1>3. MigrationInv => AccountsSurviveStarts
  BY DEF MigrationInv, LegacySafe, PoolHasFile, AccountsSurviveStarts, Kept
<1>4. MigrationInv /\ [MigrationNext]_migrationVars
        => [~harm => Accounts(file.entries) \subseteq Accounts(file'.entries) \cup removed']_migrationVars
  BY NothingWritten
<1> QED
  BY <1>1, <1>2, <1>3, <1>4, PTL DEF MigrationSpec, MigrationKeepsAccounts, NothingWrittenOut

-----------------------------------------------------------------------------
(* The dashboard's sessions *)

\* The failures counted for an address and its logins under way are bounded together: a
\* login past the limit may still fail.
FailuresBounded ==
    \A a \in Address :
        failedAttempts[a].count + loggingIn[a] <= MaxAttempts + MaxLogins - 1

OnlyDrawn == \A id \in SessionId : sessions[id] # NoSession => id \in drawn

Failure == [count : Nat, resetAt : -1 .. MaxTick + Window]

DashboardTypes ==
    /\ now \in 0 .. MaxTick /\ keySet \in BOOLEAN
    /\ sessions \in [SessionId -> 0 .. MaxTick + TTL \cup {NoSession}]
    /\ failedAttempts \in [Address -> Failure]
    /\ loggingIn \in [Address -> 0 .. MaxLogins] /\ drawn \subseteq SessionId
    /\ keyed \in [Address -> 0 .. MaxLogins] /\ \A a \in Address : keyed[a] <= loggingIn[a]

DashboardInv == DashboardTypes /\ FailuresBounded /\ OnlyDrawn

LEMMA DashboardConstants ==
    /\ MaxAttempts \in Nat /\ MaxAttempts >= 1
    /\ Window \in Nat /\ TTL \in Nat /\ MaxLogins \in Nat /\ MaxTick \in Nat
BY DashboardAssumption

LEMMA DashboardStarts == DashboardInit => DashboardInv
<1> SUFFICES ASSUME DashboardInit PROVE DashboardInv
  OBVIOUS
<1>1. NoFailure \in Failure /\ NoFailure.count = 0
  BY DashboardConstants DEF NoFailure, Failure
<1>2. DashboardTypes
  BY <1>1, DashboardConstants DEF DashboardInit, DashboardTypes
<1>3. FailuresBounded
  BY <1>1, DashboardConstants DEF DashboardInit, FailuresBounded
<1> QED  BY <1>2, <1>3 DEF DashboardInit, DashboardInv, OnlyDrawn

\* What a failure makes of its address' count.
LEMMA Recorded ==
    ASSUME DashboardInv, NEW a \in Address
    PROVE  \E f \in Failure :
              /\ RecordFailure(a) = [failedAttempts EXCEPT ![a] = f]
              /\ f.count = (IF Counting(a) THEN failedAttempts[a].count + 1 ELSE 1)
              /\ f.resetAt = (IF Counting(a) THEN failedAttempts[a].resetAt ELSE now + Window)
<1> DEFINE old == failedAttempts[a]
           one == [count |-> 1, resetAt |-> now + Window]
           more == [old EXCEPT !.count = old.count + 1]
<1>1. old \in Failure /\ now \in 0 .. MaxTick
  BY DEF DashboardInv, DashboardTypes
<1>2. one \in Failure /\ one.count = 1 /\ one.resetAt = now + Window
  BY <1>1, DashboardConstants DEF Failure
<1>3. more \in Failure /\ more.count = old.count + 1 /\ more.resetAt = old.resetAt
  BY <1>1 DEF Failure
<1>4. CASE Counting(a)
  <2>1. RecordFailure(a) = [failedAttempts EXCEPT ![a] = more]  BY <1>4 DEF RecordFailure
  <2> HIDE DEF more
  <2> QED  BY <1>3, <1>4, <2>1
<1>5. CASE ~Counting(a)
  <2>1. RecordFailure(a) = [failedAttempts EXCEPT ![a] = one]  BY <1>5 DEF RecordFailure
  <2> HIDE DEF one
  <2> QED  BY <1>2, <1>5, <2>1
<1> QED  BY <1>4, <1>5

\* The logins of an address.
LEMMA LoginsOfAddressKeep ==
    ASSUME DashboardInv, NEW a \in Address,
           \/ LoginAsked(a) \/ LoginMalformed(a) \/ LoginFails(a)
           \/ \E id \in SessionId : LoginSucceeds(a, id)
    PROVE  DashboardInv'
<1> USE DashboardConstants DEF DashboardInv
<1>t. /\ loggingIn[a] \in 0 .. MaxLogins /\ failedAttempts[a] \in Failure
      /\ failedAttempts[a].count \in Nat /\ now \in 0 .. MaxTick
      /\ keyed[a] \in 0 .. MaxLogins /\ keyed[a] <= loggingIn[a]
  BY DEF DashboardTypes, Failure
<1>k. ASSUME LoginAnswered(a)
      PROVE  /\ keyed' \in [Address -> 0 .. MaxLogins]
             /\ \A b \in Address : keyed'[b] <= loggingIn'[b]
  BY <1>t, <1>k DEF LoginAnswered, DashboardTypes
<1>1. CASE LoginAsked(a)
  <2>1. PICK f \in Failure :
           /\ failedAttempts' = [failedAttempts EXCEPT ![a] = f]
           /\ f.count <= MaxAttempts - 1
    <3>1. NoFailure \in Failure /\ NoFailure.count = 0  BY DEF NoFailure, Failure
    <3>2. CASE Counting(a)
      <4>1. failedAttempts' = [failedAttempts EXCEPT ![a] = failedAttempts[a]]
        BY <1>1, <3>2 DEF LoginAsked
      <4>2. failedAttempts[a].count <= MaxAttempts - 1
        BY <1>1, <1>t, <3>2 DEF LoginAsked, CheckRateLimit
      <4> QED  BY <1>t, <4>1, <4>2
    <3>3. CASE ~Counting(a)
      <4>1. failedAttempts' = [failedAttempts EXCEPT ![a] = NoFailure]
        BY <1>1, <3>3 DEF LoginAsked
      <4>2. NoFailure.count <= MaxAttempts - 1  BY <3>1
      <4> QED  BY <3>1, <4>1, <4>2
    <3> QED  BY <3>2, <3>3
  <2>2. /\ loggingIn' = [loggingIn EXCEPT ![a] = loggingIn[a] + 1] /\ loggingIn[a] < MaxLogins
        /\ UNCHANGED <<now, keySet, sessions, drawn>>
        /\ keyed' = [keyed EXCEPT ![a] = keyed[a] + IF keySet THEN 1 ELSE 0]
    BY <1>1 DEF LoginAsked
  <2>3. DashboardTypes'  BY <1>t, <2>1, <2>2 DEF DashboardTypes
  <2>4. FailuresBounded'
    <3>1. f.count + (loggingIn[a] + 1) <= MaxAttempts + MaxLogins - 1
      BY <1>t, <2>1, <2>2 DEF Failure
    <3> QED  BY <2>1, <2>2, <3>1 DEF DashboardTypes, FailuresBounded
  <2>5. OnlyDrawn'  BY <2>2 DEF OnlyDrawn
  <2> QED  BY <2>3, <2>4, <2>5
<1>2. CASE LoginMalformed(a)
  <2>1. /\ loggingIn' = [loggingIn EXCEPT ![a] = loggingIn[a] - 1] /\ loggingIn[a] > 0
        /\ UNCHANGED <<now, keySet, sessions, failedAttempts, drawn>>
    BY <1>2 DEF LoginMalformed, LoginAnswered
  <2>2. DashboardTypes'  BY <1>2, <1>k, <1>t, <2>1 DEF DashboardTypes, LoginMalformed
  <2>3. FailuresBounded'  BY <1>t, <2>1 DEF DashboardTypes, FailuresBounded
  <2> QED  BY <2>1, <2>2, <2>3 DEF OnlyDrawn
<1>3. CASE LoginFails(a)
  <2>1. PICK f \in Failure :
           /\ failedAttempts' = [failedAttempts EXCEPT ![a] = f]
           /\ f.count = (IF Counting(a) THEN failedAttempts[a].count + 1 ELSE 1)
    BY <1>3, Recorded DEF LoginFails
  <2>2. /\ loggingIn' = [loggingIn EXCEPT ![a] = loggingIn[a] - 1] /\ loggingIn[a] > 0
        /\ UNCHANGED <<now, keySet, sessions, drawn>>
    BY <1>3 DEF LoginFails, LoginAnswered
  <2>3. DashboardTypes'
    BY <1>3, <1>k, <1>t, <2>1, <2>2 DEF DashboardTypes, LoginFails
  <2>4. FailuresBounded'
    <3>1. failedAttempts[a].count + loggingIn[a] <= MaxAttempts + MaxLogins - 1
      BY DEF FailuresBounded
    <3>2. f.count + (loggingIn[a] - 1) <= MaxAttempts + MaxLogins - 1
      BY <1>t, <2>1, <2>2, <3>1
    <3> QED  BY <2>1, <2>2, <3>2 DEF DashboardTypes, FailuresBounded
  <2> QED  BY <2>2, <2>3, <2>4 DEF OnlyDrawn
<1>4. ASSUME NEW id \in SessionId, LoginSucceeds(a, id) PROVE DashboardInv'
  <2>1. /\ loggingIn' = [loggingIn EXCEPT ![a] = loggingIn[a] - 1] /\ loggingIn[a] > 0
        /\ drawn' = drawn \cup {id} /\ sessions' = [sessions EXCEPT ![id] = now + TTL]
        /\ UNCHANGED <<now, keySet, failedAttempts>>
        /\ keyed' = [keyed EXCEPT ![a] = keyed[a] - 1] /\ keyed[a] > 0
    BY <1>4 DEF LoginSucceeds
  <2>2. now + TTL \in 0 .. MaxTick + TTL  BY <1>t
  <2>3. DashboardTypes'  BY <1>t, <2>1, <2>2 DEF DashboardTypes
  <2>4. FailuresBounded'  BY <1>t, <2>1 DEF DashboardTypes, FailuresBounded
  <2>5. OnlyDrawn'  BY <2>1 DEF DashboardTypes, OnlyDrawn
  <2> QED  BY <2>3, <2>4, <2>5
<1> QED  BY <1>1, <1>2, <1>3, <1>4

LEMMA DashboardSteps == DashboardInv /\ [DashboardNext]_dashboardVars => DashboardInv'
<1> SUFFICES ASSUME DashboardInv, [DashboardNext]_dashboardVars PROVE DashboardInv'
  OBVIOUS
<1> USE DashboardConstants DEF DashboardInv
<1>1. ASSUME NEW id \in SessionId, Logout(id) \/ DashboardAuth(id) PROVE DashboardInv'
  <2>1. /\ sessions' = [sessions EXCEPT ![id] = NoSession] \/ sessions' = sessions
        /\ UNCHANGED <<now, keySet, failedAttempts, loggingIn, keyed, drawn>>
    BY <1>1 DEF Logout, DashboardAuth, Forgotten, DashboardTypes
  <2>2. DashboardTypes'  BY <2>1 DEF DashboardTypes
  <2>3. OnlyDrawn'  BY <2>1 DEF DashboardTypes, OnlyDrawn
  <2> QED  BY <2>1, <2>2, <2>3 DEF FailuresBounded
<1>2. CASE CleanupExpired
  <2>1. DashboardTypes'  BY <1>2 DEF CleanupExpired, DashboardTypes
  <2> QED  BY <1>2, <2>1 DEF CleanupExpired, OnlyDrawn, FailuresBounded
<1>3. CASE SetProxyApiKey
  BY <1>3 DEF SetProxyApiKey, DashboardTypes, OnlyDrawn, FailuresBounded
<1>4. CASE Later
  BY <1>4 DEF Later, DashboardTypes, OnlyDrawn, FailuresBounded
<1>5. CASE UNCHANGED dashboardVars
  BY <1>5 DEF dashboardVars, DashboardTypes, OnlyDrawn, FailuresBounded
<1> QED  BY <1>1, <1>2, <1>3, <1>4, <1>5, LoginsOfAddressKeep DEF DashboardNext

\* A failure that counts leaves the end of its window where it is.
LEMMA LockStays ==
    ASSUME DashboardInv, DashboardNext, NEW a \in Address, now <= failedAttempts[a].resetAt
    PROVE  /\ failedAttempts'[a] # NoFailure
           /\ failedAttempts'[a].resetAt = failedAttempts[a].resetAt
<1> USE DashboardConstants DEF DashboardInv
<1>1. Counting(a) /\ failedAttempts \in [Address -> Failure]
  BY DEF Counting, DashboardTypes
<1>2. failedAttempts'[a].resetAt = failedAttempts[a].resetAt
  <2>1. ASSUME NEW b \in Address, LoginFails(b)
        PROVE  failedAttempts'[a].resetAt = failedAttempts[a].resetAt
    <3>1. PICK f \in Failure :
             /\ failedAttempts' = [failedAttempts EXCEPT ![b] = f]
             /\ f.resetAt = (IF Counting(b) THEN failedAttempts[b].resetAt ELSE now + Window)
      BY <2>1, Recorded DEF LoginFails
    <3> QED  BY <1>1, <3>1
  <2>2. ASSUME NEW b \in Address, LoginAsked(b)
        PROVE  failedAttempts'[a].resetAt = failedAttempts[a].resetAt
    BY <1>1, <2>2 DEF LoginAsked
  <2> QED
    BY <2>1, <2>2 DEF DashboardNext, LoginMalformed, LoginSucceeds, Logout, DashboardAuth,
       CleanupExpired, SetProxyApiKey, Later
<1>3. NoFailure.resetAt = -1  BY DEF NoFailure
<1>4. now \in Nat  BY DEF DashboardTypes
<1>5. failedAttempts[a].resetAt # -1  BY <1>4
<1> QED  BY <1>2, <1>3, <1>5

\* A session that admits stays as it is until its logout.
LEMMA SessionStays ==
    ASSUME DashboardInv, DashboardNext, NEW id \in SessionId,
           sessions[id] # NoSession, now <= sessions[id]
    PROVE  sessions'[id] = sessions[id] \/ Logout(id)
<1> USE DashboardConstants DEF DashboardInv
<1>1. sessions \in [SessionId -> 0 .. MaxTick + TTL \cup {NoSession}] /\ now \in Nat
  BY DEF DashboardTypes
<1>2. ~(now > sessions[id])
  BY <1>1 DEF NoSession
<1>3. ASSUME NEW a \in Address, NEW i \in SessionId, LoginSucceeds(a, i)
      PROVE  sessions'[id] = sessions[id]
  BY <1>1, <1>3 DEF LoginSucceeds, OnlyDrawn
<1>4. ASSUME NEW i \in SessionId, Logout(i) PROVE sessions'[id] = sessions[id] \/ Logout(id)
  BY <1>1, <1>4 DEF Logout
<1>5. ASSUME NEW i \in SessionId, DashboardAuth(i) PROVE sessions'[id] = sessions[id]
  BY <1>1, <1>2, <1>5 DEF DashboardAuth, Forgotten
<1>6. CASE CleanupExpired  BY <1>1, <1>2, <1>6 DEF CleanupExpired
<1> QED
  BY <1>3, <1>4, <1>5, <1>6 DEF DashboardNext, LoginAsked, LoginMalformed, LoginFails,
     SetProxyApiKey, Later

\* A lock ends when its window does, whatever fails meanwhile, and no sweep or look-up
\* ends a session that still admits (dashboard-login.ts, dashboard-session.ts).
THEOREM DashboardTheorem == DashboardSpec => SessionsKept
<1>1. DashboardSpec => []DashboardInv
  BY DashboardStarts, DashboardSteps, PTL DEF DashboardSpec
<1>2. DashboardInv => DashboardTypeOK
  <2> SUFFICES ASSUME DashboardInv PROVE DashboardTypeOK
    OBVIOUS
  <2>1. ASSUME NEW a \in Address
        PROVE  failedAttempts[a] \in [count : 0 .. MaxAttempts + MaxLogins - 1,
                                      resetAt : -1 .. MaxTick + Window]
    <3>1. /\ failedAttempts[a] \in Failure /\ loggingIn[a] \in 0 .. MaxLogins
          /\ failedAttempts[a].count + loggingIn[a] <= MaxAttempts + MaxLogins - 1
      BY DEF DashboardInv, DashboardTypes, FailuresBounded
    <3>2. failedAttempts[a].count \in 0 .. MaxAttempts + MaxLogins - 1
      BY <3>1, DashboardConstants DEF Failure
    <3> QED  BY <3>1, <3>2 DEF Failure
  <2> QED  BY <2>1 DEF DashboardInv, DashboardTypes, DashboardTypeOK
<1>3. DashboardInv /\ [DashboardNext]_dashboardVars
        => [\A a \in Address :
              now <= failedAttempts[a].resetAt
                => failedAttempts'[a] # NoFailure /\ failedAttempts'[a].resetAt = failedAttempts[a].resetAt
           ]_dashboardVars
  BY LockStays
<1>4. DashboardInv /\ [DashboardNext]_dashboardVars
        => [\A id \in SessionId :
              sessions[id] # NoSession /\ now <= sessions[id]
                => sessions'[id] = sessions[id] \/ Logout(id)]_dashboardVars
  BY SessionStays
<1> QED
  BY <1>1, <1>2, <1>3, <1>4, PTL
     DEF DashboardSpec, SessionsKept, LockNeverProlonged, OnlyLogoutEnds

-----------------------------------------------------------------------------
(* The dashboard's pages *)

PageCall ==
    [at : {"idle", "asked", "answered", "loading", "served"}, row : Row \cup {Gone},
     value : Value \cup {Gone}, rows : Rows, moot : BOOLEAN]

AddDialog ==
    [at : {"idle", "counting", "polling", "checking", "last check"}, prevCount : Nat,
     seen : Nat, added : BOOLEAN, told : BOOLEAN]

ViewTypes ==
    /\ hook \in {"accounts", "proxies"} /\ atServer \in Rows /\ listed \in Rows
    /\ refreshing \in BOOLEAN /\ addInfo \in BOOLEAN
    /\ calls \in [Call -> PageCall] /\ adding \in AddDialog

\* What a call knows of the server: an operation that nobody overrode since is there,
\* and in the list that was asked for after it.
CallTells(call, server) ==
    /\ call.at \in {"asked", "answered"} => call.row \in Row
    /\ ~call.moot => call.row \in Row
    /\ ~call.moot /\ call.at \in {"answered", "loading"} => server[call.row] = call.value
    /\ ~call.moot /\ call.at = "served" => call.rows[call.row] = call.value

\* As long as no account came in since the dialog opened, none has been counted, if the
\* number before was told.
CountTells(dialog, number) ==
    ~dialog.added /\ dialog.told =>
       /\ dialog.at \in {"polling", "checking", "last check"} => number <= dialog.prevCount
       /\ dialog.at \in {"checking", "last check"} => dialog.seen <= dialog.prevCount

DialogOpen ==
    /\ adding.at # "idle" => hook = "accounts" /\ ~addInfo
    /\ addInfo => adding.added \/ ~adding.told

ViewInv ==
    /\ ViewTypes /\ DialogOpen
    /\ \A c \in Call : CallTells(calls[c], atServer)
    /\ CountTells(adding, HowMany(atServer))

\* A list has a number of rows, and a row that changes without being new adds none.
LEMMA RowsAreCounted ==
    /\ \A rows : HowMany(rows) \in Nat
    /\ \A rows \in Rows, r \in Row, v \in Value \cup {Gone} :
          rows[r] # Gone => HowMany([rows EXCEPT ![r] = v]) <= HowMany(rows)
<1>1. ASSUME NEW rows PROVE IsFiniteSet({r \in Row : rows[r] # Gone}) /\ HowMany(rows) \in Nat
  <2>1. {r \in Row : rows[r] # Gone} \subseteq Row  OBVIOUS
  <2>2. IsFiniteSet({r \in Row : rows[r] # Gone})  BY <2>1, ViewAssumption, FS_Subset
  <2> QED  BY <2>2, FS_CardinalityType DEF HowMany
<1>2. ASSUME NEW rows \in Rows, NEW r \in Row, NEW v \in Value \cup {Gone}, rows[r] # Gone
      PROVE  HowMany([rows EXCEPT ![r] = v]) <= HowMany(rows)
  <2> DEFINE new == [rows EXCEPT ![r] = v]
             A == {s \in Row : new[s] # Gone}
             B == {s \in Row : rows[s] # Gone}
  <2>1. A \subseteq B  BY <1>2 DEF Rows
  <2>2. IsFiniteSet(B)  BY <1>1
  <2>3. Cardinality(A) <= Cardinality(B)
    <3> HIDE DEF A, B
    <3> QED  BY <2>1, <2>2, FS_Subset
  <2> QED  BY <2>3 DEF HowMany
<1> QED  BY <1>1, <1>2

LEMMA PageConstants ==
    /\ NoRows \in Rows /\ NoCall \in PageCall /\ Loading \in PageCall /\ NoAdding \in AddDialog
    /\ NoCall.at = "idle" /\ NoCall.moot /\ Loading.at = "loading" /\ Loading.moot
    /\ NoAdding.at = "idle"
<1>1. NoRows \in Rows  BY DEF NoRows, Rows
<1>2. NoCall \in PageCall /\ NoCall.at = "idle" /\ NoCall.moot
  BY <1>1 DEF NoCall, PageCall
<1>3. Loading \in PageCall /\ Loading.at = "loading" /\ Loading.moot
  BY <1>2 DEF Loading, PageCall
<1> QED  BY <1>1, <1>2, <1>3 DEF NoAdding, AddDialog

LEMMA ViewStarts == ViewInit => ViewInv
<1> SUFFICES ASSUME ViewInit PROVE ViewInv
  OBVIOUS
<1>1. ViewTypes /\ DialogOpen
  BY PageConstants DEF ViewInit, ViewTypes, DialogOpen
<1>2. \A c \in Call : CallTells(calls[c], atServer)
  BY PageConstants DEF ViewInit, CallTells
<1>3. CountTells(adding, HowMany(atServer))
  BY PageConstants DEF ViewInit, CountTells
<1> QED  BY <1>1, <1>2, <1>3 DEF ViewInv

\* A step of one call alone.
LEMMA CallStep ==
    ASSUME ViewInv, NEW c \in Call, NEW new \in PageCall, CallTells(new, atServer),
           calls' = [calls EXCEPT ![c] = new], listed' \in Rows, refreshing' \in BOOLEAN,
           UNCHANGED <<hook, atServer, adding, addInfo>>
    PROVE  ViewInv'
BY DEF ViewInv, ViewTypes, DialogOpen

\* A step of the dialog alone.
LEMMA DialogStep ==
    ASSUME ViewInv, adding' \in AddDialog, addInfo' \in BOOLEAN, DialogOpen',
           CountTells(adding', HowMany(atServer)),
           UNCHANGED <<hook, atServer, listed, refreshing, calls>>
    PROVE  ViewInv'
BY DEF ViewInv, ViewTypes

\* A change of the server, by a call or by someone else.
LEMMA ChangeKeeps ==
    ASSUME ViewInv, NEW r \in Row, NEW v \in Value \cup {Gone}, NEW by, ChangeTo(r, v, by),
           \A c \in Call : c = by => calls[c].at = "asked" /\ calls[c].row = r /\ calls[c].value = v,
           UNCHANGED <<hook, listed, refreshing, addInfo>>
    PROVE  ViewInv'
<1> USE DEF ViewInv
<1>t. atServer \in Rows /\ calls \in [Call -> PageCall] /\ adding \in AddDialog
  BY DEF ViewTypes
<1>1. atServer' = [atServer EXCEPT ![r] = v] /\ atServer' \in Rows
  BY <1>t DEF ChangeTo, Rows
<1>2. ASSUME NEW c \in Call
      PROVE  calls'[c] \in PageCall /\ CallTells(calls'[c], atServer')
  <2> DEFINE old == calls[c]
             done == [old EXCEPT !.at = "answered"]
             over == [old EXCEPT !.moot = TRUE]
  <2>1. old \in PageCall /\ CallTells(old, atServer)  BY <1>t
  <2>2. /\ done \in PageCall /\ done.at = "answered" /\ done.row = old.row
        /\ done.value = old.value /\ done.moot = old.moot
    BY <2>1 DEF PageCall
  <2>3. over \in PageCall /\ over.moot /\ over.at = old.at /\ over.row = old.row
    BY <2>1 DEF PageCall
  <2>4. calls'[c] = IF c = by THEN done ELSE IF old.row = r THEN over ELSE old
    BY DEF ChangeTo
  <2> HIDE DEF old, done, over
  <2>5. CASE c = by
    BY <1>1, <1>t, <2>1, <2>2, <2>4, <2>5 DEF CallTells, Rows, old
  <2>6. CASE c # by /\ old.row = r
    BY <2>1, <2>3, <2>4, <2>6 DEF CallTells
  <2>7. CASE c # by /\ old.row # r
    BY <1>1, <1>t, <2>1, <2>4, <2>7 DEF CallTells, Rows
  <2> QED  BY <2>5, <2>6, <2>7
<1>3. calls' \in [Call -> PageCall]
  <2>1. calls' = [c \in Call |-> calls'[c]]  BY DEF ChangeTo
  <2> QED  BY <1>2, <2>1
<1>4. /\ adding' \in AddDialog /\ adding'.at = adding.at /\ adding'.prevCount = adding.prevCount
      /\ adding'.seen = adding.seen /\ adding'.added = (adding.added \/ atServer[r] = Gone)
      /\ adding'.told = adding.told
  BY <1>t DEF ChangeTo, AddDialog
<1>5. CountTells(adding', HowMany(atServer'))
  <2>1. HowMany(atServer) \in Nat /\ HowMany(atServer') \in Nat
    BY RowsAreCounted
  <2>2. atServer[r] # Gone => HowMany(atServer') <= HowMany(atServer)
    BY <1>1, <1>t, RowsAreCounted
  <2>3. adding.prevCount \in Nat  BY <1>t DEF AddDialog
  <2>4. atServer[r] # Gone /\ HowMany(atServer) <= adding.prevCount
           => HowMany(atServer') <= adding.prevCount
    BY <2>1, <2>2, <2>3
  <2> QED  BY <1>4, <2>4 DEF CountTells
<1>6. DialogOpen'  BY <1>4 DEF DialogOpen
<1> QED  BY <1>1, <1>2, <1>3, <1>4, <1>5, <1>6 DEF ViewTypes

\* Loads and operations.
LEMMA CallsKeep ==
    ASSUME ViewInv, NEW c \in Call,
           \/ Load(c) \/ Served(c) \/ Shown(c) \/ ListFails(c)
           \/ Applied(c) \/ Answered(c) \/ PatchLocal(c) \/ Refused(c) \/ NewAccountFound(c)
           \/ \E r \in Row, v \in Value \cup {Gone} : Operate(c, r, v)
    PROVE  ViewInv'
<1> DEFINE old == calls[c]
<1>t. /\ old \in PageCall /\ CallTells(old, atServer) /\ calls \in [Call -> PageCall]
      /\ atServer \in Rows /\ listed \in Rows /\ refreshing \in BOOLEAN
  BY DEF ViewInv, ViewTypes
<1>u. CallTells(NoCall, atServer) /\ CallTells(Loading, atServer)
  BY PageConstants DEF CallTells
<1>1. CASE Load(c)
  BY <1>1, <1>t, <1>u, PageConstants, CallStep DEF Load, Refreshing
<1>2. CASE Served(c)
  <2> DEFINE new == [old EXCEPT !.at = "served", !.rows = atServer]
  <2>1. /\ new \in PageCall /\ new.at = "served" /\ new.rows = atServer /\ new.row = old.row
        /\ new.value = old.value /\ new.moot = old.moot
    BY <1>t DEF PageCall
  <2>2. calls' = [calls EXCEPT ![c] = new] /\ old.at = "loading"  BY <1>2, <1>t DEF Served
  <2> HIDE DEF new
  <2>3. CallTells(new, atServer)  BY <1>t, <2>1, <2>2 DEF CallTells
  <2> QED  BY <1>2, <1>t, <2>1, <2>2, <2>3, CallStep DEF Served
<1>3. CASE Shown(c)
  BY <1>3, <1>t, <1>u, PageConstants, CallStep DEF Shown, PageCall
<1>4. CASE ListFails(c)
  BY <1>4, <1>t, <1>u, PageConstants, CallStep DEF ListFails
<1>5. CASE Applied(c)
  <2>1. old.row \in Row /\ old.value \in Value \cup {Gone} /\ old.at = "asked"
    BY <1>5, <1>t DEF Applied, CallTells, PageCall
  <2> QED  BY <1>5, <2>1, ChangeKeeps DEF Applied
<1>6. CASE Answered(c)
  <2> DEFINE new == [old EXCEPT !.at = "loading"]
  <2>1. /\ new \in PageCall /\ new.at = "loading" /\ new.row = old.row
        /\ new.value = old.value /\ new.moot = old.moot
    BY <1>t DEF PageCall
  <2>2. calls' = [calls EXCEPT ![c] = new] /\ old.at = "answered"
    BY <1>6, <1>t DEF Answered, OperationAnswered
  <2> HIDE DEF new
  <2>3. CallTells(new, atServer)  BY <1>t, <2>1, <2>2 DEF CallTells
  <2> QED  BY <1>6, <1>t, <2>1, <2>2, <2>3, CallStep DEF Answered, OperationAnswered, Refreshing
<1>7. CASE PatchLocal(c)
  <2>1. listed' \in Rows
    BY <1>7, <1>t DEF PatchLocal, Rows, PageCall
  <2> QED  BY <1>7, <1>t, <1>u, <2>1, PageConstants, CallStep DEF PatchLocal
<1>8. CASE Refused(c)
  BY <1>8, <1>t, <1>u, PageConstants, CallStep DEF Refused, Refreshing
<1>9. CASE NewAccountFound(c)
  <2>1. /\ adding \in AddDialog /\ CountTells(adding, HowMany(atServer)) /\ hook = "accounts"
        /\ HowMany(atServer) \in Nat /\ adding.seen \in Nat /\ adding.prevCount \in Nat
    BY <1>9, RowsAreCounted DEF NewAccountFound, ViewInv, ViewTypes, DialogOpen, AddDialog
  <2>2. adding.added \/ ~adding.told
    <3>1. adding.seen > adding.prevCount /\ adding.at \in {"checking", "last check"}
      BY <1>9 DEF NewAccountFound
    <3>2. ~(adding.seen <= adding.prevCount)
      <4> DEFINE seen == adding.seen
                 counted == adding.prevCount
      <4>1. seen \in Nat /\ counted \in Nat /\ seen > counted  BY <2>1, <3>1
      <4> HIDE DEF seen, counted
      <4>2. ~(seen <= counted)  BY <4>1
      <4> QED  BY <4>2 DEF seen, counted
    <3>3. ~adding.added /\ adding.told => adding.seen <= adding.prevCount  BY <2>1, <3>1 DEF CountTells
    <3> QED  BY <3>2, <3>3
  <2>3. adding' \in AddDialog /\ adding'.at = "idle" /\ (adding'.added \/ ~adding'.told)
    BY <1>9, <2>1, <2>2 DEF NewAccountFound, AddDialog
  <2>4. DialogOpen' /\ CountTells(adding', HowMany(atServer'))
    BY <2>3 DEF DialogOpen, CountTells
  <2>5. calls' = [calls EXCEPT ![c] = Loading] /\ refreshing' \in BOOLEAN
    BY <1>9 DEF NewAccountFound, Refreshing
  <2>6. \A d \in Call : calls'[d] \in PageCall /\ CallTells(calls'[d], atServer)
    BY <1>t, <1>u, <2>5, PageConstants DEF ViewInv, ViewTypes
  <2> QED
    BY <1>9, <1>t, <2>3, <2>4, <2>5, <2>6, PageConstants DEF NewAccountFound, ViewInv, ViewTypes
<1>10. ASSUME NEW r \in Row, NEW v \in Value \cup {Gone}, Operate(c, r, v) PROVE ViewInv'
  <2> DEFINE new == [NoCall EXCEPT !.at = "asked", !.row = r, !.value = v, !.moot = FALSE]
  <2>1. new \in PageCall /\ new.at = "asked" /\ new.row = r
    BY PageConstants DEF PageCall
  <2>2. calls' = [calls EXCEPT ![c] = new]  BY <1>10 DEF Operate
  <2> HIDE DEF new
  <2>3. CallTells(new, atServer)  BY <2>1 DEF CallTells
  <2> QED  BY <1>10, <1>t, <2>1, <2>2, <2>3, CallStep DEF Operate
<1> QED  BY <1>1, <1>2, <1>3, <1>4, <1>5, <1>6, <1>7, <1>8, <1>9, <1>10

\* The dialog and its poll.
LEMMA DialogKeeps ==
    ASSUME ViewInv, StartAdd \/ PrevCount \/ CountFails \/ CheckForNewAccount \/ Checked \/ AddTimesOut
    PROVE  ViewInv'
<1>t. /\ adding \in AddDialog /\ HowMany(atServer) \in Nat /\ addInfo \in BOOLEAN
      /\ CountTells(adding, HowMany(atServer)) /\ DialogOpen
  BY RowsAreCounted DEF ViewInv, ViewTypes
<1>1. CASE StartAdd
  <2>1. adding' \in AddDialog /\ adding'.at = "counting"
    BY <1>1, PageConstants DEF StartAdd, AddDialog
  <2>2. DialogOpen' /\ CountTells(adding', HowMany(atServer))
    BY <1>1, <2>1 DEF StartAdd, DialogOpen, CountTells
  <2> QED  BY <1>1, <2>1, <2>2, DialogStep DEF StartAdd
<1>2. CASE PrevCount
  <2>1. /\ adding' \in AddDialog /\ adding'.at = "polling" /\ adding'.added = adding.added
        /\ adding'.told => adding'.prevCount = HowMany(atServer)
    <3>1. PICK known \in BOOLEAN, n \in Nat :
             /\ adding' = [adding EXCEPT !.at = "polling", !.told = known, !.prevCount = n]
             /\ known => n = HowMany(atServer)
      BY <1>2, <1>t DEF PrevCount, Counted
    <3> QED  BY <1>t, <3>1 DEF AddDialog
  <2>2. DialogOpen' /\ CountTells(adding', HowMany(atServer))
    BY <1>2, <1>t, <2>1 DEF PrevCount, DialogOpen, CountTells
  <2> QED  BY <1>2, <1>t, <2>1, <2>2, DialogStep DEF PrevCount
<1>3. CASE CheckForNewAccount
  <2>1. /\ adding' \in AddDialog /\ adding'.at = "checking" /\ adding'.added = adding.added
        /\ adding'.prevCount = adding.prevCount /\ adding'.told = adding.told
        /\ adding'.seen \in {0, HowMany(atServer)} /\ adding.prevCount \in Nat
    <3>1. PICK n \in Nat : /\ adding' = [adding EXCEPT !.at = "checking", !.seen = n]
                           /\ n \in {0, HowMany(atServer)}
      BY <1>3, <1>t DEF CheckForNewAccount
    <3> QED  BY <1>t, <3>1 DEF AddDialog
  <2>2. DialogOpen' /\ CountTells(adding', HowMany(atServer))
    BY <1>3, <1>t, <2>1 DEF CheckForNewAccount, DialogOpen, CountTells
  <2> QED  BY <1>3, <1>t, <2>1, <2>2, DialogStep DEF CheckForNewAccount
<1>4. CASE Checked
  <2>1. \/ adding' = NoAdding
        \/ /\ adding' \in AddDialog /\ adding'.at = "polling" /\ adding'.added = adding.added
           /\ adding'.prevCount = adding.prevCount /\ adding'.told = adding.told
    BY <1>4, <1>t DEF Checked, AddDialog
  <2>2. DialogOpen' /\ CountTells(adding', HowMany(atServer)) /\ adding' \in AddDialog
    BY <1>4, <1>t, <2>1, PageConstants DEF Checked, DialogOpen, CountTells
  <2> QED  BY <1>4, <1>t, <2>1, <2>2, DialogStep DEF Checked
<1>5. CASE AddTimesOut
  <2>1. \/ adding' = NoAdding
        \/ /\ adding' \in AddDialog /\ adding'.at = "last check" /\ adding'.added = adding.added
           /\ adding'.prevCount = adding.prevCount /\ adding'.seen = adding.seen
           /\ adding.at = "checking" /\ adding'.told = adding.told
    BY <1>5, <1>t DEF AddTimesOut, AddDialog
  <2>2. DialogOpen' /\ CountTells(adding', HowMany(atServer)) /\ adding' \in AddDialog
    BY <1>5, <1>t, <2>1, PageConstants DEF AddTimesOut, DialogOpen, CountTells
  <2> QED  BY <1>5, <1>t, <2>1, <2>2, DialogStep DEF AddTimesOut
<1>6. CASE CountFails
  <2>1. adding' \in AddDialog /\ adding'.at = "idle" /\ UNCHANGED addInfo /\ ~addInfo
    BY <1>6, <1>t, PageConstants DEF CountFails, DialogOpen
  <2>2. DialogOpen' /\ CountTells(adding', HowMany(atServer))
    BY <1>6, <2>1 DEF DialogOpen, CountTells
  <2> QED  BY <1>6, <1>t, <2>1, <2>2, DialogStep DEF CountFails
<1> QED  BY <1>1, <1>2, <1>3, <1>4, <1>5, <1>6

LEMMA ViewSteps == ViewInv /\ [ViewNext]_viewVars => ViewInv'
<1> SUFFICES ASSUME ViewInv, [ViewNext]_viewVars PROVE ViewInv'
  OBVIOUS
<1>1. CASE Others
  BY <1>1, ChangeKeeps, ViewAssumption DEF Others
<1>2. CASE UNCHANGED viewVars
  BY <1>2 DEF viewVars, ViewInv, ViewTypes, DialogOpen
<1> QED  BY <1>1, <1>2, CallsKeep, DialogKeeps DEF ViewNext

\* A list that the page shows after an operation shows what that did, and "accountAdded"
\* is told only of an account that came in, where the number before was the server's
\* (use-accounts.ts and its like).
THEOREM ViewTheorem == ViewSpec => PageTellsTheTruth
<1>1. ViewSpec => []ViewInv
  BY ViewStarts, ViewSteps, PTL DEF ViewSpec
<1>2. ViewInv => ViewTypeOK /\ NoticeIsTrue
  BY DEF ViewInv, ViewTypes, DialogOpen, ViewTypeOK, NoticeIsTrue, PageCall
<1>3. ViewInv /\ [ViewNext]_viewVars
        => [\A c \in Call : calls[c].at = "served" /\ ~calls[c].moot /\ Shown(c)
              => listed'[calls[c].row] = calls[c].value]_viewVars
  BY DEF ViewInv, CallTells, Shown
<1> QED
  BY <1>1, <1>2, <1>3, PTL DEF ViewSpec, PageTellsTheTruth, OwnChangeShown

-----------------------------------------------------------------------------
(* The whole *)

\* A behaviour of the composition is one of each part.
LEMMA Composition ==
    OperationsSpec => /\ LoginSpec /\ ImportSpec /\ ExchangeSpec
                      /\ MigrationSpec /\ DashboardSpec /\ ViewSpec
<1>1. OperationsInit => /\ LoginInit /\ ImportInit /\ ExchangeInit
                        /\ MigrationInit /\ DashboardInit /\ ViewInit
  BY DEF OperationsInit
<1>2. [OperationsNext]_<<vars, focus>> =>
        /\ [LoginNext]_loginVars /\ [ImportNext]_importVars /\ [ExchangeNext]_exchangeVars
        /\ [MigrationNext]_migrationVars /\ [DashboardNext]_dashboardVars /\ [ViewNext]_viewVars
  BY DEF OperationsNext, vars
<1> QED
  BY <1>1, <1>2, PTL DEF OperationsSpec, LoginSpec, ImportSpec, ExchangeSpec, MigrationSpec,
     DashboardSpec, ViewSpec

\* A one-time token is never under two exchanges of imports at once, nor sent again by a
\* call after a step in which the server may have taken it.
THEOREM OneTimeTokens == OperationsSpec => []OneTimeTokensGuarded
BY Composition, ImportsTheorem, ExchangeTheorem, PTL DEF OneTimeTokensGuarded

\* What logins, imports, starts, the dashboard's sessions and its pages keep to holds of
\* the composition that is model-checked.
THEOREM PartsKeepTheirs ==
    OperationsSpec => /\ []LoginsKept /\ OnlyVerifiedGoesBack /\ SessionsKept
                      /\ MigrationKeepsAccounts /\ PageTellsTheTruth
BY Composition, LoginsTheorem, ImportsTheorem, MigrationTheorem, DashboardTheorem,
   ViewTheorem, PTL
===============================================================================
