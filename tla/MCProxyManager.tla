---------------------------- MODULE MCProxyManager ----------------------------
(* ProxyManager with small constants. *)
EXTENDS ProxyManager, TLC

Symmetry == Permutations(Callers) \cup Permutations(Servers) \cup Permutations(Conns)
=============================================================================
