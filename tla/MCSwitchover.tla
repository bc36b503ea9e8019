----------------------------- MODULE MCSwitchover -----------------------------
(* Switchover with small constants; the lists of upstreams are defined here. *)
EXTENDS Switchover, TLC

CONSTANTS p, q, b, r1, r2, f1, f2

ServerSymmetry == Permutations(Servers)

PrimaryPool == <<p>>
OnePool == <<q>>
OneBackup == <<b>>
TwoBackups == <<q, b>>
=============================================================================
