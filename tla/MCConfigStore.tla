---------------------------- MODULE MCConfigStore ----------------------------
(* Small instances of ConfigStore: a short and a long configuration. *)
EXTENDS ConfigStore, TLC

CONSTANTS short, long

Sizes == short :> 1 @@ long :> 2
Symmetry == Permutations(Users) \cup Permutations(Files)
=============================================================================
