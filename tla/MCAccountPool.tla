----------------------------- MODULE MCAccountPool -----------------------------
(* Values for AccountPool: interchangeable accounts and a handful of calls. *)
EXTENDS AccountPool, TLC

AnyAccount == [excluded |-> {}, preferred |-> {}, wanted |-> {}, fetched |-> {}]

\* No filter, one account excluded or preferred, a model served by one plan
\* with that plan's models fetched or not.
MCAsks ==
    {AnyAccount}
    \cup {[AnyAccount EXCEPT !.excluded = {a}] : a \in Account}
    \cup {[AnyAccount EXCEPT !.preferred = {a}] : a \in Account}
    \cup {[AnyAccount EXCEPT !.wanted = Plan, !.fetched = F] : F \in SUBSET Plan}

Symmetry == Permutations(Account)
=============================================================================
