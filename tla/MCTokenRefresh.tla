---------------------------- MODULE MCTokenRefresh ----------------------------
(***************************************************************************)
(* TokenRefresh on three accounts.  Two of them are combined with probes,  *)
(* imports and changes of the limit, the third one being disabled then;    *)
(* all three compete for one slot, so that two may wait in the queue.      *)
(***************************************************************************)
EXTENDS TokenRefresh

CONSTANT Third

Aside(a) ==
    /\ task[a].pc = "none" /\ ~ timer[a] /\ orphans[a] = 0
    /\ entry[a].status = "disabled" /\ live[a] = "none"

\* A grant that was revoked meets probes and imports on one account alone.
RevokedAlone ==
    \/ outside = 0 \/ \A a \in Account : live[a] # "revoked"
    \/ \E a \in Account \ {Third} : Aside(a)

\* The grants of the three hold, and an error that may be permanent is not
\* repeated.
Undisturbed == \A a \in Account : live[a] # "revoked" /\ orphans[a] = 0 /\ task[a].hits = 0

Bounded == (Aside(Third) /\ RevokedAlone) \/ (limit = 1 /\ outside = 0 /\ Undisturbed)
===============================================================================
