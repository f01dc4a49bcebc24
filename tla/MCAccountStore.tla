---------------------------- MODULE MCAccountStore ----------------------------
(***************************************************************************)
(* The store for TLC.  Every behaviour has a focus: one account with its   *)
(* windows, statuses and time, or two accounts with their counters.        *)
(***************************************************************************)
EXTENDS AccountStore

CONSTANT First     \* the account of the first focus

VARIABLE focus

MCvars == <<vars, focus>>

\* The entries E and the usage u are in focus.
InFocus(E, u) ==
    \/ /\ focus = "windows"
       /\ \A a \in Account \ {First} : E[a] = NoAccount /\ u[a] = NoUsage
       /\ Total(u) <= 1
    \/ /\ focus = "counters"
       /\ \A a \in Account : E[a].status \in NoEntry \cup {"active"} /\ u[a].reset = 0

MCInit ==
    /\ focus \in {"windows", "counters"}
    /\ Init
    /\ InFocus(entry, usage)

MCNext ==
    /\ Next
    /\ focus' = focus
    /\ InFocus(entry', usage')
    /\ focus = "counters" => now' = now

MCSpec == MCInit /\ [][MCNext]_MCvars
=============================================================================
