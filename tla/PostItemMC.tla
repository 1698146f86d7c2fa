------------------------------- MODULE PostItemMC -------------------------------
(***************************************************************************)
(* Instances of PostItem for TLC: one or two shops, one shipper.           *)
(***************************************************************************)
EXTENDS PostItem, TLC

CONSTANTS s1, s2, u1

Symmetry == Permutations(Shops)

(* Liveness is asked of an app that is not killed: killing it forgets the   *)
(* writes it still had to send.                                             *)
NeverKilled == Init /\ [][Running]_vars /\ Fairness
================================================================================
