----------------------------- MODULE MCProxyHandler -----------------------------
(* Values for ProxyHandler: interchangeable accounts and requests. *)
EXTENDS ProxyHandler, TLC

Symmetry == Permutations(Account) \cup Permutations(Request)
=============================================================================
