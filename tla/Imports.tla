-------------------------------- MODULE Imports --------------------------------
(***************************************************************************)
(* Importing accounts by refresh token (src/services/account-import.ts),   *)
(* next to a scheduler that refreshes the same account.                    *)
(*                                                                         *)
(* One account with single-use refresh tokens, numbered in the order the   *)
(* authorisation server (external) issues them.  An import request is a    *)
(* list of tokens taken one after the other (importMany), or one whose     *)
(* account is verified before it is added (importOne).  Requests overlap   *)
(* wherever one awaits an answer.                                          *)
(*                                                                         *)
(* Left out: entries that bring an access token (AccountPool's Reimport),  *)
(* labels, the quota a verification stores, the warm-up the routes switch  *)
(* off.  Bounds: LastToken, the requests and their lists.                  *)
(***************************************************************************)
EXTENDS Integers, FiniteSets, Sequences

CONSTANTS
    Batch,         \* POST /auth/accounts/import requests
    Single,        \* POST /auth/accounts requests
    Batches,       \* lists a batch may bring
    LastToken      \* bound of the refresh tokens issued

VARIABLES
    valid,         \* the refresh token the server accepts
    revoked,       \* the server saw a spent token and revoked the family
    held,          \* refreshToken of the account in the pool, if there is one
    refreshingRTs, \* tokens the service is exchanging
    request,       \* the import requests
    refresh        \* the scheduler's refresh of the account
importVars == <<valid, revoked, held, refreshingRTs, request, refresh>>

Request == Batch \cup Single
Token == 0 .. LastToken
Absent == -1       \* no account, or no refresh token in an answer

\* at: ready for the next entry, asking the server for using, verifying; got is the
\* refresh token its exchange, or the account found, gave it; since, the token that was
\* valid when the request came.
Idle == [at |-> "idle", left |-> <<>>, using |-> Absent, got |-> Absent, since |-> 0]

ASSUME ImportsAssumption == LastToken \in Nat /\ Batches \subseteq Seq(Token)

-----------------------------------------------------------------------------
\* The newest token is in an answer that has not arrived.
OnItsWay == refresh.at = "granted" \/ \E r \in Request : request[r].at = "granted"

\* Who imports has tokens that were handed out (external).
HandedOut(rt) == rt <= valid /\ (OnItsWay => rt < valid)

StartImport(r, list) ==
    /\ request[r] = Idle
    /\ \A i \in DOMAIN list : HandedOut(list[i])
    /\ request' = [request EXCEPT ![r] = [Idle EXCEPT !.at = "ready", !.left = list,
                                                              !.since = valid]]
    /\ UNCHANGED <<valid, revoked, held, refreshingRTs, refresh>>

Ready(r) == request[r].at = "ready" /\ request[r].left # <<>>

\* Mutant: a batch verifies its accounts as well.
ResolvedVerified(r, rt) ==
    /\ request' = [request EXCEPT ![r].at = "verifying", ![r].using = Absent, ![r].got = rt]
    /\ UNCHANGED held

\* The account of request r is resolved with refresh token rt: a batch adds it at once,
\* where a missing refresh token leaves the account's own; a single import verifies first.
Resolved(r, rt) ==
    IF r \in Batch
    THEN /\ request' = [request EXCEPT ![r].at = "ready", ![r].using = Absent,
                                       ![r].left = Tail(@)]
         /\ held' = IF rt # Absent THEN rt ELSE held
    ELSE /\ request' = [request EXCEPT ![r].at = "verifying", ![r].using = Absent, ![r].got = rt]
         /\ UNCHANGED held

Skipped(r) ==
    /\ request' = [request EXCEPT ![r].at = "ready", ![r].using = Absent, ![r].left = Tail(@)]
    /\ UNCHANGED held

\* The token is the account's own: no exchange.
KnownToken(r) ==
    /\ Ready(r) /\ held = Head(request[r].left)
    /\ Resolved(r, held)
    /\ UNCHANGED <<valid, revoked, refreshingRTs, refresh>>

\* Another request is exchanging it.
DuplicateToken(r) ==
    /\ Ready(r) /\ held # Head(request[r].left) /\ Head(request[r].left) \in refreshingRTs
    /\ Skipped(r)
    /\ UNCHANGED <<valid, revoked, refreshingRTs, refresh>>

\* Mutant: tokens under exchange are not looked at.
AskAnyway(r) ==
    /\ Ready(r) /\ held # Head(request[r].left)
    /\ refreshingRTs' = refreshingRTs \cup {Head(request[r].left)}
    /\ request' = [request EXCEPT ![r].at = "asking", ![r].using = Head(request[r].left)]
    /\ UNCHANGED <<valid, revoked, held, refresh>>

Ask(r) ==
    /\ Ready(r) /\ held # Head(request[r].left) /\ Head(request[r].left) \notin refreshingRTs
    /\ refreshingRTs' = refreshingRTs \cup {Head(request[r].left)}
    /\ request' = [request EXCEPT ![r].at = "asking", ![r].using = Head(request[r].left)]
    /\ UNCHANGED <<valid, revoked, held, refresh>>

\* The server: a spent token revokes the family; a good one is replaced.
Serves(rt) ==
    /\ revoked' = (revoked \/ rt < valid)
    /\ valid' = IF rt = valid /\ ~revoked THEN valid + 1 ELSE valid

Granted(rt) == rt = valid /\ ~revoked

ServeImport(r) ==
    /\ request[r].at = "asking" /\ valid < LastToken
    /\ Serves(request[r].using)
    /\ request' = IF Granted(request[r].using)
                  THEN [request EXCEPT ![r].at = "granted", ![r].got = valid + 1]
                  ELSE [request EXCEPT ![r].at = "refused"]
    /\ UNCHANGED <<held, refreshingRTs, refresh>>

Exchanged(r) == refreshingRTs' = refreshingRTs \ {request[r].using}

\* Mutant: only a good answer ends the exchange.
AnswerFailsHeld(r) ==
    /\ request[r].at \in {"asking", "granted", "refused"}
    /\ Skipped(r)
    /\ UNCHANGED <<valid, revoked, refreshingRTs, refresh>>

\* No answer, a refusal, or an access token that does not validate.
AnswerFails(r) ==
    /\ request[r].at \in {"asking", "granted", "refused"}
    /\ Exchanged(r)
    /\ Skipped(r)
    /\ UNCHANGED <<valid, revoked, refresh>>

\* Without a new refresh token in the answer the spent one is not kept.
AnswerLands(r, rotated) ==
    /\ request[r].at = "granted"
    /\ Exchanged(r)
    /\ Resolved(r, IF rotated THEN request[r].got ELSE Absent)
    /\ UNCHANGED <<valid, revoked, refresh>>

\* verifyAccount: a deactivated account is not added; any other failure passes.
Verified(r, usable) ==
    /\ request[r].at = "verifying"
    /\ request' = [request EXCEPT ![r] = [Idle EXCEPT !.at = "ready"]]
    /\ held' = IF usable /\ request[r].got # Absent THEN request[r].got ELSE held
    /\ UNCHANGED <<valid, revoked, refreshingRTs, refresh>>

-----------------------------------------------------------------------------
(* The scheduler's refresh of the same account *)

RefreshStarts ==
    /\ held # Absent /\ refresh = Idle
    /\ refresh' = [Idle EXCEPT !.at = "asking", !.using = held]
    /\ UNCHANGED <<valid, revoked, held, refreshingRTs, request>>

ServeRefresh ==
    /\ refresh.at = "asking" /\ valid < LastToken
    /\ Serves(refresh.using)
    /\ refresh' = IF Granted(refresh.using)
                  THEN [refresh EXCEPT !.at = "granted", !.got = valid + 1]
                  ELSE [refresh EXCEPT !.at = "refused"]
    /\ UNCHANGED <<held, refreshingRTs, request>>

RefreshLands ==
    /\ refresh.at \in {"granted", "refused"}
    /\ held' = IF refresh.at = "granted" THEN refresh.got ELSE held
    /\ refresh' = Idle
    /\ UNCHANGED <<valid, revoked, refreshingRTs, request>>

-----------------------------------------------------------------------------
ImportInit ==
    /\ valid = 0 /\ revoked = FALSE /\ held \in {Absent, 0} /\ refreshingRTs = {}
    /\ request = [r \in Request |-> Idle] /\ refresh = Idle

ImportStep(r) ==
    \/ KnownToken(r) \/ DuplicateToken(r) \/ Ask(r) \/ ServeImport(r) \/ AnswerFails(r)
    \/ \E rotated \in BOOLEAN : AnswerLands(r, rotated)
    \/ \E usable \in BOOLEAN : Verified(r, usable)

ImportNext ==
    \/ \E r \in Batch, list \in Batches : StartImport(r, list)
    \/ \E r \in Single, rt \in Token : StartImport(r, <<rt>>)
    \/ \E r \in Request : ImportStep(r)
    \/ RefreshStarts \/ ServeRefresh \/ RefreshLands

ImportSpec == ImportInit /\ [][ImportNext]_importVars

-----------------------------------------------------------------------------
(* Properties *)

Exchanging(r) == request[r].at \in {"asking", "granted", "refused"}

ImportLists == Batches \cup {<<rt>> : rt \in Token}
Ends == UNION {{SubSeq(l, i, Len(l)) : i \in 1 .. Len(l) + 1} : l \in ImportLists}

\* Every variable keeps its type; what is left of a list is an end of it.
ImportTypeOK ==
    /\ valid \in Token /\ revoked \in BOOLEAN /\ held \in Token \cup {Absent}
    /\ refreshingRTs \subseteq Token
    /\ \A r \in Request :
          /\ request[r].at \in {"idle", "ready", "asking", "granted", "refused", "verifying"}
          /\ request[r].left \in Ends
          /\ {request[r].using, request[r].got} \subseteq Token \cup {Absent}
          /\ request[r].since \in Token
    /\ refresh.at \in {"idle", "asking", "granted", "refused"}

\* "Prevent concurrent refresh of the same RT" (account-import.ts:178): two imports never
\* exchange one token at once, and a token is under exchange exactly as long as an import
\* exchanges it, however the exchange ends.  (One after the other they may:
\* DuplicatesProtected does not hold.)
ExchangesGuarded ==
    /\ refreshingRTs = {request[r].using : r \in {q \in Request : Exchanging(q)}}
    /\ \A q, r \in Request :
          q # r /\ Exchanging(q) /\ Exchanging(r) => request[q].using # request[r].using

\* Whatever imports and refreshes overlap, the account's token goes back to an older one
\* only when a single import stores what it took before its verification: a batch, which
\* stores in the step that resolves a token, and a refresh never put one back.
OnlyVerifiedGoesBack ==
    [][held' < held => \E r \in Single : request[r].at = "verifying" /\ request'[r] # request[r]]_importVars

\* "(e.g. duplicate entries in import file)", "skipped to protect token"
\* (account-import.ts:178-180): imports alone, without a refresh, never show the server a
\* replaced token that was good when their request came.  A list is imported one entry
\* after the other, so the second of two equal entries finds the first one's exchange over.
DuplicatesProtected ==
    [][\A r \in Request :
          refresh = Idle /\ request[r].at = "asking" /\ request[r].using >= request[r].since
             => revoked' = revoked]_importVars

\* The account's token is not replaced by an older one.  A single import of the account's
\* own token keeps it over the verification and stores it over one refreshed meanwhile.
TokenNeverGoesBack == [][held' >= held]_importVars
=============================================================================
