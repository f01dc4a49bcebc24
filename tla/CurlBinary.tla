------------------------------- MODULE CurlBinary -------------------------------
(***************************************************************************)
(* How a request leaves: the transport chosen at the start                 *)
(* (src/tls/transport.ts), the curl binary and its TLS arguments, and the  *)
(* fallback to HTTP/1.1 after a failure of HTTP/2                          *)
(* (src/tls/curl-binary.ts), as the transports use them.                   *)
(*                                                                         *)
(* Everything is cached when it is first asked for, the fallback for       *)
(* FallbackTtl.  A request is sent and fails in two steps, between which   *)
(* others go.  Bounds: clock at most LastTime, Request in flight.          *)
(***************************************************************************)
EXTENDS Integers, FiniteSets

CONSTANTS Request, FallbackTtl, LastTime

ASSUME CurlAssumption == FallbackTtl \in Nat /\ LastTime \in Nat

VARIABLES
    clock,
    setting,        \* tls.transport: auto, native, ffi (or the command line)
    curlSetting,    \* tls.curl_binary: auto, impersonate, plain
    forced,         \* tls.force_http11
    present,        \* what is installed: native, ffi, impersonate
    loads,          \* which of the libraries load
    chosen,         \* _transport: none, native, ffi, cli; refused if the start failed
    resolved,       \* _resolved: none, impersonate, plain
    tlsArgs,        \* _tlsArgs: none, flag (--impersonate), manual
    http11Fallback, \* _http11Fallback
    fallbackUntil,  \* _http11FallbackUntil
    flying,         \* request -> how it was sent, or NotSent
    trouble,        \* history: when HTTP/2 was told to fail, anew after FallbackTtl
    noticed         \* history: every exit with curl's HTTP/2 code began or met a fallback

settingVars == <<setting, curlSetting, forced, present, loads>>
curlVars == <<clock, settingVars, chosen, resolved, tlsArgs, http11Fallback, fallbackUntil, flying,
              trouble, noticed>>

NotSent == [http11 |-> FALSE, args |-> "none", simple |-> FALSE]
Never == 0 - FallbackTtl

-----------------------------------------------------------------------------
\* initTransport: the native addon, libcurl, the command line; one that was asked for
\* by name and does not load stops the start.
InitTransport ==
    LET Wanted(t) == setting = t \/ (setting = "auto" /\ t \in present)
        Works(t) == t \in present \cap loads
        native == Wanted("native")
        ffi == Wanted("ffi")
    IN
    /\ chosen = "none"
    /\ chosen' = IF native /\ Works("native") THEN "native"
                 ELSE IF native /\ setting = "native" THEN "refused"
                 ELSE IF ffi /\ Works("ffi") THEN "ffi"
                 ELSE IF ffi /\ setting = "ffi" THEN "refused"
                 ELSE "cli"
    /\ UNCHANGED <<clock, settingVars, resolved, tlsArgs, http11Fallback, fallbackUntil, flying,
                   trouble, noticed>>

\* resolveCurlBinary, cached.
ResolveCurlBinary ==
    IF resolved # "none" THEN resolved
    ELSE IF curlSetting # "auto" THEN curlSetting
    ELSE IF "impersonate" \in present THEN "impersonate" ELSE "plain"

\* detectImpersonateSupport, cached; --help may fail.
DetectedArgs == IF tlsArgs # "none" THEN {tlsArgs} ELSE {"flag", "manual"}

\* getChromeTlsArgs ends an expired fallback, for curl-impersonate only.
Expires(binary) == binary = "impersonate" /\ clock >= fallbackUntil

\* The arguments of a request, by getChromeTlsArgs or setupEasyHandle; the native addon
\* looks at the configuration alone.
Send(r, simple) ==
    LET binary == ResolveCurlBinary
        lasting == http11Fallback /\ ~Expires(binary)
        told == chosen = "ffi" \/ (chosen = "cli" /\ binary = "impersonate")
        how(args) == [http11 |-> forced \/ (lasting /\ told),
                      args |-> args, simple |-> simple]
    IN
    /\ chosen \in {"native", "ffi", "cli"} /\ flying[r] = NotSent
    /\ IF chosen = "native"
       THEN /\ flying' = [flying EXCEPT ![r] = how("rustls")]
            /\ UNCHANGED <<resolved, tlsArgs, http11Fallback>>
       ELSE /\ resolved' = binary
            /\ http11Fallback' = lasting
            /\ \E args \in IF binary = "impersonate" THEN DetectedArgs ELSE {"none"} :
                   /\ tlsArgs' = IF binary = "impersonate" THEN args ELSE tlsArgs
                   /\ flying' = [flying EXCEPT ![r] = how(args)]
    /\ UNCHANGED <<clock, settingVars, chosen, fallbackUntil, trouble, noticed>>

\* Mutant: a failure under the fallback prolongs it.
CheckHttp2FallbackAnew(text, code16) == text \/ code16

\* checkHttp2Fallback: an HTTP/2 error by its text or by exit code 16, not while a
\* fallback is active.
CheckHttp2Fallback(text, code16) ==
    ~(http11Fallback /\ clock < fallbackUntil) /\ (text \/ code16)

\* A request fails, maybe because of HTTP/2, which its text tells, or only curl's code.
\* The streaming and the simple requests pass on the text and the code: a simple one of
\* the command line no code (execFile has a number where it looks for a string), one of
\* libcurl the code alone, a streaming one of libcurl nothing.
Fail(r, text, code16) ==
    LET textTold == text /\ chosen = "cli"
        codeTold == code16 /\ (flying[r].simple <=> chosen = "ffi")
        told == CheckHttp2Fallback(textTold, codeTold)
        counts == (textTold \/ codeTold) /\ clock >= trouble + FallbackTtl
    IN
    /\ flying[r] # NotSent /\ chosen # "native"
    /\ http11Fallback' = (http11Fallback \/ told)
    /\ fallbackUntil' = IF told THEN clock + FallbackTtl ELSE fallbackUntil
    /\ trouble' = IF counts THEN clock ELSE trouble
    /\ noticed' = (noticed /\ (code16 /\ ~flying[r].http11 => http11Fallback' /\ clock < fallbackUntil'))
    /\ flying' = [flying EXCEPT ![r] = NotSent]
    /\ UNCHANGED <<clock, settingVars, chosen, resolved, tlsArgs>>

Succeed(r) ==
    /\ flying[r] # NotSent
    /\ flying' = [flying EXCEPT ![r] = NotSent]
    /\ UNCHANGED <<clock, settingVars, chosen, resolved, tlsArgs, http11Fallback, fallbackUntil, trouble,
                   noticed>>

\* The operator runs setup-curl.
Install ==
    /\ present' = present \cup {"impersonate"} /\ present' # present
    /\ UNCHANGED <<clock, setting, curlSetting, forced, loads, chosen, resolved, tlsArgs, http11Fallback,
                   fallbackUntil, flying, trouble, noticed>>

Passes ==
    /\ clock < LastTime /\ clock' = clock + 1
    /\ UNCHANGED <<settingVars, chosen, resolved, tlsArgs, http11Fallback, fallbackUntil, flying, trouble,
                   noticed>>

CurlInit ==
    /\ setting \in {"auto", "native", "ffi", "cli"} /\ curlSetting \in {"auto", "impersonate", "plain"}
    /\ forced \in BOOLEAN /\ present \in SUBSET {"native", "ffi", "impersonate"}
    /\ loads \in SUBSET {"native", "ffi"}
    /\ clock = 0 /\ chosen = "none" /\ resolved = "none" /\ tlsArgs = "none"
    /\ http11Fallback = FALSE /\ fallbackUntil = 0
    /\ flying = [r \in Request |-> NotSent] /\ trouble = Never /\ noticed = TRUE

CurlNext ==
    \/ InitTransport \/ Install \/ Passes
    \/ \E r \in Request :
        \/ \E simple \in BOOLEAN : Send(r, simple)
        \/ Succeed(r)
        \/ \E text, code16 \in BOOLEAN : Fail(r, text, code16)

CurlSpec == CurlInit /\ [][CurlNext]_curlVars

-----------------------------------------------------------------------------
\* Every variable keeps its type.
CurlTypeOK ==
    /\ clock \in 0 .. LastTime /\ chosen \in {"none", "native", "ffi", "cli", "refused"}
    /\ resolved \in {"none", "impersonate", "plain"} /\ tlsArgs \in {"none", "flag", "manual"}
    /\ {http11Fallback, forced, noticed} \subseteq BOOLEAN
    /\ fallbackUntil \in 0 .. LastTime + FallbackTtl
    /\ \A r \in Request : flying[r].args \in {"none", "flag", "manual", "rustls"}

\* A request of curl-impersonate goes over HTTP/1.1 against the configuration only within
\* FallbackTtl of a failure of HTTP/2, however many more requests fail while it lasts:
\* after it HTTP/2 is tried again.
Http2Retried ==
    /\ []CurlTypeOK
    /\ [][\A r \in Request :
           flying[r] = NotSent /\ flying'[r].http11 /\ ~forced /\ resolved' = "impersonate"
           => clock < trouble + FallbackTtl]_curlVars

\* "Fallback is temporary (TTL-based) -- after expiry, H2 is retried automatically"
\* (curl-binary.ts:355), whatever the transport and the binary.  With libcurl and without
\* the curl-impersonate binary getChromeTlsArgs returns before it ends the fallback.
FallbackIsTemporary ==
    [][\A r \in Request :
        flying[r] = NotSent /\ flying'[r].http11 /\ ~forced
        => clock < trouble + FallbackTtl]_curlVars

\* "Exit code 16 is curl's dedicated HTTP/2 error and triggers unconditionally"
\* (curl-binary.ts:356).  A simple request of the command line loses the code.
ExitCodeTriggers == noticed
=============================================================================
