------------------------------- MODULE Transports -------------------------------
(***************************************************************************)
(* One streaming request to the backend: createResponse                    *)
(* (src/proxy/codex-api.ts), which goes through a WebSocket first if the   *)
(* request continues another one, and the ways it can be sent:             *)
(* the curl command line, libcurl, the native addon                        *)
(* (src/tls/*-transport.ts, native/src/lib.rs) and the WebSocket           *)
(* (src/proxy/ws-transport.ts).                                            *)
(*                                                                         *)
(* Each way turns what the network does -- a proxy's CONNECT answer, the   *)
(* headers, chunks, the end or a failure -- into a promise that is settled *)
(* and a body that is read.  The process, loop, task or socket behind the  *)
(* request is called its transfer; when it is over the way reports it in   *)
(* one last event.  Left out: what is in headers and chunks.  Bounds:      *)
(* MaxChunks, of which MaxErrorBody are read of an error's body.           *)
(***************************************************************************)
EXTENDS Integers

CONSTANTS MaxChunks, MaxErrorBody

ASSUME TransportsAssumption == MaxChunks \in Nat

VARIABLES
    http,        \* the transport initTransport chose
    proxied,     \* the request goes through an HTTP proxy
    way,         \* the way it goes now
    link,        \* connecting, tunnelled, requested (the request is there), answered
    transfer,    \* running, ended, failed, killed, over
    real,        \* the backend's status, once it has answered
    statusCode,  \* the status the way has seen
    outcome,     \* the promise: pending, answered, rejected
    reported,    \* the status it was resolved with
    sent,        \* chunks the backend has sent
    body,        \* the stream: open, closed, errored, cancelled
    enqueued,    \* chunks in it
    signal,      \* the caller's AbortSignal has fired
    aborted,     \* the way has noticed (libcurl's flag, a killed process, a closed socket)
    timer,       \* the header timer is armed
    received,    \* history: how often the backend got the request
    complete,    \* history: the backend has sent the whole response
    thrown       \* history: a callback threw where nobody catches

networkVars == <<link, transfer, real, sent, received, complete>>
promiseVars == <<statusCode, outcome, reported, timer>>
bodyVars == <<body, enqueued, thrown>>
routeVars == <<http, proxied, way>>
transportVars == <<routeVars, networkVars, promiseVars, bodyVars, signal, aborted>>

Http == {"cli", "ffi", "native"}
OK == 200
Limited == 429

Settled(how) == IF outcome = "pending" THEN how ELSE outcome

-----------------------------------------------------------------------------
(* The network *)

\* The proxy answers CONNECT, with a header block of its own: in curl's output it is passed
\* over if it says "connection established" and is otherwise taken for the response;
\* libcurl's header callback takes its status whatever it says.
TunnelOpens(established) ==
    LET taken == way = "cli" /\ ~established IN
    /\ proxied /\ link = "connecting" /\ transfer = "running"
    /\ link' = "tunnelled"
    /\ statusCode' = IF taken \/ way = "ffi" THEN OK ELSE statusCode
    /\ outcome' = IF taken THEN Settled("answered") ELSE outcome
    /\ reported' = IF outcome' # outcome THEN OK ELSE reported
    /\ timer' = (timer /\ ~taken)
    /\ UNCHANGED <<routeVars, transfer, real, sent, received, complete, bodyVars, signal, aborted>>

\* A WebSocket sends its request when it is open, the others as soon as they are connected.
RequestArrives ==
    /\ transfer = "running" /\ way # "ws"
    /\ link = IF proxied THEN "tunnelled" ELSE "connecting"
    /\ link' = "requested" /\ received' = received + 1
    /\ UNCHANGED <<routeVars, transfer, real, sent, complete, promiseVars, bodyVars, signal, aborted>>

\* Mutant: the promise of a WebSocket waits for its first message.
AnswersAtOnceButWs(w) == w = "cli"

\* libcurl's loop looks at the status after its next turn; the native addon's headers and
\* its chunks come to the event loop each for themselves.
AnswersAtOnce(w) == w \in {"cli", "ws"}

HeadersArrive(status) ==
    /\ transfer = "running" /\ link = "requested"
    /\ link' = "answered" /\ real' = status /\ statusCode' = status
    /\ outcome' = IF AnswersAtOnce(way) THEN Settled("answered") ELSE outcome
    /\ reported' = IF outcome' # outcome THEN status ELSE reported
    /\ timer' = (timer /\ ~AnswersAtOnce(way))
    /\ UNCHANGED <<routeVars, transfer, sent, received, complete, bodyVars, signal, aborted>>

\* on("open"): the request is sent, and the response resolved with status 200.
SocketOpens ==
    /\ way = "ws" /\ transfer = "running" /\ link = (IF proxied THEN "tunnelled" ELSE "connecting")
    /\ link' = "answered" /\ received' = received + 1 /\ real' = OK
    /\ outcome' = IF AnswersAtOnce(way) THEN Settled("answered") ELSE outcome
    /\ reported' = IF outcome' # outcome THEN OK ELSE reported
    /\ UNCHANGED <<routeVars, transfer, sent, complete, statusCode, timer, bodyVars, signal, aborted>>

\* Mutant: what follows the headers in the same piece of output is dropped.
EnqueueButFirst == enqueued' = IF body = "open" /\ sent > 0 THEN enqueued + 1 ELSE enqueued

\* A chunk for a stream that was cancelled throws, unless the way looks or catches.
Enqueue == enqueued' = IF body = "open" THEN enqueued + 1 ELSE enqueued

ChunkArrives ==
    /\ transfer = "running" /\ link = "answered" /\ sent < MaxChunks
    /\ sent' = sent + 1
    /\ Enqueue
    /\ thrown' = (thrown \/ (body # "open" /\ way \in {"cli", "ffi"}))
    /\ UNCHANGED <<routeVars, link, transfer, real, received, complete, promiseVars, body, signal,
                   aborted>>

\* The response is complete; a WebSocket ends with its terminal message.
ResponseEnds ==
    /\ transfer = "running" /\ link = "answered"
    /\ transfer' = "ended" /\ complete' = TRUE
    /\ UNCHANGED <<routeVars, link, real, sent, received, promiseVars, bodyVars, signal, aborted>>

ConnectionFails ==
    /\ transfer = "running"
    /\ transfer' = "failed"
    /\ UNCHANGED <<routeVars, link, real, sent, received, complete, promiseVars, bodyVars, signal,
                   aborted>>

\* Somebody kills curl, or the backend closes the socket.
Killed ==
    /\ transfer = "running" /\ way \in {"cli", "ws"}
    /\ transfer' = "killed" /\ aborted' = TRUE
    /\ UNCHANGED <<routeVars, link, real, sent, received, complete, promiseVars, bodyVars, signal>>

-----------------------------------------------------------------------------
(* The ways *)

\* pollLoop: the status is looked at between two turns, after the one in which the request
\* was aborted too.  The native addon: compute has returned.
LoopResolves ==
    /\ way \in {"ffi", "native"} /\ transfer # "over"
    /\ statusCode # 0 /\ outcome = "pending"
    /\ outcome' = "answered" /\ reported' = statusCode /\ timer' = FALSE
    /\ UNCHANGED <<routeVars, networkVars, statusCode, bodyVars, signal, aborted>>

\* No headers in time: the request is rejected and its transfer told to stop.
HeaderTimeout ==
    /\ timer /\ outcome = "pending"
    /\ timer' = FALSE /\ outcome' = "rejected" /\ aborted' = TRUE
    /\ transfer' = IF transfer = "running" THEN "killed" ELSE transfer
    /\ UNCHANGED <<routeVars, link, real, sent, received, complete, statusCode, reported, bodyVars, signal>>

\* Whether a way listens to the signal now: curl until the headers, the native addon
\* from the headers on.
Listens ==
    CASE way = "cli" -> outcome # "answered"
      [] way = "native" -> outcome = "answered"
      [] OTHER -> TRUE

\* The caller gives up.  The native addon only closes its end of the stream.
Abort ==
    /\ ~signal /\ transfer # "over"
    /\ signal' = TRUE
    /\ aborted' = (aborted \/ (Listens /\ way # "native"))
    /\ transfer' = IF Listens /\ way # "native" /\ transfer = "running" THEN "killed" ELSE transfer
    /\ body' = IF Listens /\ way = "native" /\ body = "open" THEN "closed" ELSE body
    /\ outcome' = IF way = "ws" THEN Settled("rejected") ELSE outcome
    /\ UNCHANGED <<routeVars, link, real, sent, received, complete, statusCode, reported, timer, enqueued,
                   thrown>>

\* createResponse gives up reading an error's body that is too long.
CancelErrorBody ==
    /\ outcome = "answered" /\ reported # OK /\ body = "open" /\ enqueued > MaxErrorBody
    /\ body' = "cancelled"
    /\ aborted' = (way # "native")
    /\ transfer' = IF way # "native" /\ transfer = "running" THEN "killed" ELSE transfer
    /\ UNCHANGED <<routeVars, link, real, sent, received, complete, promiseVars, enqueued, thrown, signal>>

\* Mutant: curl's exit code is not looked at.
EndOfSilently(w, t) == IF w = "ws" /\ t = "failed" THEN "errored" ELSE "closed"

\* The end of the body, as each way tells it: curl's exit code and a socket's error are
\* reported, a curl that was killed and everything else look like a complete response.
EndOf(w, t) == IF w \in {"cli", "ws"} /\ t = "failed" THEN "errored" ELSE "closed"

\* Mutant: the end of a transfer settles nothing.
OverOutcomeAsIs(answered) == outcome

OverOutcome(answered) == Settled(IF answered THEN "answered" ELSE "rejected")

\* close of the process or the socket, the loop's finally, the task's last callback.
TransferOver ==
    LET answered == statusCode # 0 /\ (way = "native" \/ (way = "ffi" /\ ~aborted)) IN
    /\ transfer \in {"ended", "failed", "killed"}
    /\ transfer' = "over" /\ timer' = FALSE
    /\ outcome' = OverOutcome(answered)
    /\ reported' = IF outcome' = "answered" /\ outcome = "pending" THEN statusCode ELSE reported
    /\ body' = IF body = "open" THEN EndOf(way, transfer) ELSE body
    /\ thrown' = (thrown \/ \/ way = "ffi" /\ body = "cancelled"
                            \/ way = "cli" /\ body = "cancelled" /\ transfer # "failed")
    /\ UNCHANGED <<routeVars, link, real, sent, received, complete, statusCode, enqueued, signal, aborted>>

\* createResponse: a WebSocket that failed is replaced by a request over HTTP, which does
\* not name the response it continues; with the signal fired it is rejected at once.
FallBackToHttp ==
    /\ way = "ws" /\ outcome = "rejected"
    /\ way' = http /\ link' = "connecting" /\ real' = 0 /\ sent' = 0
    /\ statusCode' = 0 /\ reported' = 0 /\ body' = "open" /\ enqueued' = 0
    /\ transfer' = IF signal THEN "over" ELSE "running"
    /\ outcome' = IF signal THEN "rejected" ELSE "pending"
    /\ timer' = (~signal /\ http # "native") /\ aborted' = FALSE
    /\ UNCHANGED <<http, proxied, received, complete, signal, thrown>>

TransportInit ==
    /\ http \in Http /\ proxied \in BOOLEAN /\ way \in {http, "ws"}
    /\ link = "connecting" /\ transfer = "running" /\ real = 0 /\ sent = 0 /\ received = 0
    /\ complete = FALSE
    /\ statusCode = 0 /\ outcome = "pending" /\ reported = 0
    /\ timer = (way \in {"cli", "ffi"})
    /\ body = "open" /\ enqueued = 0 /\ signal = FALSE /\ aborted = FALSE /\ thrown = FALSE

TransportNext ==
    \/ \E established \in BOOLEAN : TunnelOpens(established)
    \/ RequestArrives \/ SocketOpens \/ ChunkArrives \/ ResponseEnds
    \/ \E status \in {OK, Limited} : HeadersArrive(status)
    \/ ConnectionFails \/ Killed \/ LoopResolves \/ HeaderTimeout \/ Abort \/ CancelErrorBody
    \/ TransferOver \/ FallBackToHttp

TransportSpec == TransportInit /\ [][TransportNext]_transportVars

-----------------------------------------------------------------------------
(* Properties *)

\* Every variable keeps its type.
TransportTypeOK ==
    /\ http \in Http /\ way \in {http, "ws"} /\ proxied \in BOOLEAN
    /\ link \in {"connecting", "tunnelled", "requested", "answered"}
    /\ transfer \in {"running", "ended", "failed", "killed", "over"}
    /\ {real, statusCode, reported} \subseteq {0, OK, Limited}
    /\ outcome \in {"pending", "answered", "rejected"}
    /\ body \in {"open", "closed", "errored", "cancelled"}
    /\ sent \in 0 .. MaxChunks /\ enqueued \in 0 .. sent /\ received \in 0 .. 2
    /\ {signal, aborted, timer, complete, thrown} \subseteq BOOLEAN

\* Whatever way a request goes and however its transfer comes to an end, its caller is
\* answered or rejected, and a reader is not left waiting at an open body.
NobodyLeftWaiting ==
    transfer = "over" => outcome # "pending" /\ (outcome = "answered" => body # "open")

\* A response whose body ends as if complete has every chunk the backend sent in it,
\* those that came with the headers included, in whatever order headers, chunks and the
\* end overtake the promise.
BodyWhole ==
    outcome = "answered" /\ body = "closed" /\ ~signal => enqueued = sent

\* "curl died mid-stream -- signal error to reader" (curl-cli-transport.ts:171): behind
\* the command line a response that was cut short is never taken for a complete one,
\* unless curl was killed.
CutIsSignalled ==
    way = "cli" /\ outcome = "answered" /\ body = "closed" => complete \/ aborted

\* The fallback from the WebSocket to HTTP never sends the backend a request it has got
\* already.
RequestedOnce == received <= 1

\* What a caller can count on, whichever way its request goes and however it ends.
ResponsesArrive ==
    TransportTypeOK /\ NobodyLeftWaiting /\ BodyWhole /\ CutIsSignalled /\ RequestedOnce

\* "fixed ... the tunnel's HTTP/1.1 200 taken for the real status code"
\* (CHANGELOG.md:274): the status a request is answered with is the backend's.  libcurl's
\* header callback still takes the tunnel's.
StatusIsTheBackends == outcome = "answered" => reported = real

\* A body that ends as if complete is complete, unless this side ended it.
CompleteOrSignalled ==
    outcome = "answered" /\ body = "closed" => complete \/ signal

\* An abort stops the transfer: nothing is downloaded for a caller that has gone.
AbortStopsTransfer == [][signal /\ transfer = "running" => sent' = sent]_transportVars

\* "stream already closed" (curl-cli-transport.ts:174): no callback throws because its
\* stream was cancelled.
CallbacksCatch == ~thrown
=============================================================================
