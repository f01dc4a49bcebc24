------------------------------- MODULE MCEgress -------------------------------
\* The instances of ProxyPool and CookieJar that TLC checks: the way out of the
\* program and what is remembered of it.  They share no state, so a behaviour is
\* one of either, the other left as it starts.
EXTENDS ProxyPool, CookieJar

VARIABLE focus

EgressInit == focus \in {"proxies", "cookies"} /\ Init /\ CookieInit

EgressNext ==
    \/ focus = "proxies" /\ Next /\ UNCHANGED <<cookieVars, focus>>
    \/ focus = "cookies" /\ CookieNext /\ UNCHANGED <<vars, focus>>

EgressSpec == EgressInit /\ [][EgressNext]_<<vars, cookieVars, focus>>

Symmetry == Permutations(Proxy) \cup Permutations(Url) \cup Permutations(Writer)

\* Failed writes are explored before a restart and while no check is under way;
\* checks and the round robin before a restart.  Overlapping writes of cookies are
\* explored before a restart, and what they and failed writes leave with cookies that
\* do not expire.
Bounded ==
    /\ failed => restarts = 0
    /\ failed \/ restarts > 0 => next = 0 /\ \A c \in Proxy \X Url : checks[c] = 0
    /\ starts > 0 \/ now > 0 \/ ~up => Cardinality(Busy) <= 1
    /\ unrepaired => now = 0 /\ \A a \in DOMAIN jar : \A n \in DOMAIN jar[a] :
                        jar[a][n].expires = NoExpiry
=============================================================================
