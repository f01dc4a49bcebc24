----------------------------- MODULE TokenExchange -----------------------------
(***************************************************************************)
(* One call of refreshAccessToken (src/auth/oauth-pkce.ts): a refresh      *)
(* token goes to the authorisation server along a chain of routes --       *)
(* the account's proxy, the global one, no proxy -- until a step answers.  *)
(* What a failed step leads to depends on its text alone                   *)
(* (src/tls/direct-fallback.ts), and the text on the transport.            *)
(*                                                                         *)
(* The server and the network are external: the server consumes the token *)
(* when it has the request, a failure happens before or after that.        *)
(* Retries of the whole call are TokenRefresh's.                           *)
(***************************************************************************)
EXTENDS Integers, Sequences

CONSTANTS AccountProxy, GlobalProxy   \* sets of proxy URLs

VARIABLES
    accountProxy,  \* the argument: a URL, Default (undefined) or Direct (null)
    globalProxy,   \* getProxyUrl(): a URL or Direct; set once, at start-up
    transport,     \* which TLS transport runs
    attempts,      \* how the steps so far ended, in order
    consumed       \* the server has taken the token

exchangeVars == <<accountProxy, globalProxy, transport, attempts, consumed>>

Default == "undefined"
Direct == "null"
Transports == {"cli", "ffi", "native"}

\* Failures on the way to the server, and after the request may have got there.
PreFlight == {"unknown proxy", "unknown host", "connection refused", "TLS handshake"}
MidFlight == {"timeout", "connection reset"}
Failures == PreFlight \cup MidFlight
Answers == {"tokens", "refused", "challenge"}

-----------------------------------------------------------------------------
(* The chain *)

\* account proxy -> global proxy -> direct; a URL that both have is tried once.
Chain(account, global) ==
    LET proxies == <<account>> \o (IF global # Direct /\ global # account THEN <<Default>>
                                   ELSE <<>>)
    IN  IF proxies[Len(proxies)] # Direct /\ (account # Default \/ global # Direct)
        THEN Append(proxies, Direct) ELSE proxies

\* The route a step takes: undefined is the global proxy by the time it is sent.
RouteOf(step) == IF step = Default THEN globalProxy ELSE step

\* Texts that isProxyNetworkError knows, of those a simple POST fails with: only curl's
\* command line says why, and says it in curl's own words.
IsProxyNetworkError(kind, failure) ==
    kind = "cli" /\ failure \in {"unknown proxy", "TLS handshake", "connection reset"}

\* isSafeToRetryRefresh: it also looks for the exit codes of a streaming curl, which no
\* simple POST reports.
IsSafeToRetryRefresh(kind, failure) ==
    kind = "cli" /\ failure \in {"unknown proxy", "unknown host"}

\* Mutant: every failure of the proxy leads to the next step.
GoesOnAfterNetworkErrors(kind, result) ==
    result = "challenge" \/ IsProxyNetworkError(kind, result)

\* A challenge or a harmless failure leads to the next step; else the call is over.
GoesOn(kind, result) == result = "challenge" \/ IsSafeToRetryRefresh(kind, result)

Over ==
    attempts # <<>>
    /\ \/ ~GoesOn(transport, attempts[Len(attempts)])
       \/ Len(attempts) = Len(Chain(accountProxy, globalProxy))

-----------------------------------------------------------------------------
\* Only a proxy has a name of its own; a challenge comes before the server.
Attempt(result) ==
    /\ ~Over
    /\ result = "unknown proxy" => RouteOf(Chain(accountProxy, globalProxy)[Len(attempts) + 1]) # Direct
    /\ result = "tokens" => ~consumed
    /\ attempts' = Append(attempts, result)
    /\ consumed' \in CASE result = "tokens" -> {TRUE}
                       [] result \in MidFlight -> {consumed, TRUE}
                       [] OTHER -> {consumed}
    /\ UNCHANGED <<accountProxy, globalProxy, transport>>

ExchangeInit ==
    /\ accountProxy \in AccountProxy \cup GlobalProxy \cup {Default, Direct}
    /\ globalProxy \in GlobalProxy \cup {Direct}
    /\ transport \in Transports
    /\ attempts = <<>> /\ consumed = FALSE

ExchangeNext == \E result \in Failures \cup Answers : Attempt(result)

ExchangeSpec == ExchangeInit /\ [][ExchangeNext]_exchangeVars

-----------------------------------------------------------------------------
(* Properties *)

\* Every variable keeps its type.
ExchangeTypeOK ==
    /\ accountProxy \in AccountProxy \cup GlobalProxy \cup {Default, Direct}
    /\ globalProxy \in GlobalProxy \cup {Direct} /\ transport \in Transports
    /\ attempts \in Seq(Failures \cup Answers) /\ Len(attempts) <= 3
    /\ consumed \in BOOLEAN

\* "retrying after a mid-connection failure risks permanent RT loss"
\* (direct-fallback.ts:41-42): after a step in which the server may have taken the
\* one-time token, the call never sends it again.
MidFlightEndsIt ==
    \A i \in 1 .. Len(attempts) : i < Len(attempts) => attempts[i] \notin MidFlight

\* "Each step is skipped if it duplicates the previous one" (oauth-pkce.ts:167).  With
\* no proxy for the account, undefined and the global proxy are the same route.
NoRouteTwice ==
    LET chain == Chain(accountProxy, globalProxy)
    IN  \A i \in 2 .. Len(chain) : RouteOf(chain[i]) # RouteOf(chain[i - 1])

\* "connection refused", "TLS handshake (before HTTP)" (direct-fallback.ts:56-57): a
\* failure before the server leads to the next step.
PreFlightFallsBack ==
    Over /\ Len(attempts) < Len(Chain(accountProxy, globalProxy))
        => attempts[Len(attempts)] \notin PreFlight
=============================================================================
