--------------------------------- MODULE Filter ---------------------------------
(***************************************************************************)
(* The elements of a sequence at some of its indices, in their order: what  *)
(* filter returns in ui/src/main.ts, and a loop that appends some of a      *)
(* slice in the engine.  SelectSeq of module Sequences does the same by     *)
(* recursion, about which the prover knows nothing; here the n-th element   *)
(* is the one at the index of rank n.                                       *)
(***************************************************************************)
EXTENDS Naturals, Sequences, FiniteSets

\* The rank of index k in a set of indices.
Rank(K, k) == Cardinality({j \in K : j <= k})

Filter(s, K) ==
    [n \in 1..Cardinality(K) |-> s[CHOOSE k \in K : Rank(K, k) = n]]
=============================================================================
