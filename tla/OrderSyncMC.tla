----------------------------- MODULE OrderSyncMC -----------------------------
(***************************************************************************)
(* Instances of OrderSync for TLC: two phones, one or two accounts, one    *)
(* order; the bounds are in the .cfg files.                                *)
(***************************************************************************)
EXTENDS OrderSync, TLC

CONSTANTS d1, d2, u1, u2, o1, o2

DeviceSymmetry == Permutations(Devices)
UserSymmetry == Permutations(Users)
Symmetry == DeviceSymmetry \cup UserSymmetry

(* Liveness is checked with each phone keeping its account: who is signed   *)
(* in only decides what a tap writes.  The first phone takes, drops and     *)
(* takes again over a connection that drops and through relaunches; the     *)
(* second takes once, stays connected when it is, and is the competitor.    *)
(* Leaving the detail screen without a tap is left out.                     *)
FirstDrops ==
  /\ UNCHANGED user
  /\ ~Back(d1)
  /\ storage'[d2] = storage[d2]
  /\ conn[d2] => conn'[d2]
  /\ \A o \in Orders : Len(regs'[d2][o]) <= 1

(* The accounts may change places, so the first phone has the first one.    *)
FixedAccounts ==
  Init /\ user[d1] = u1 /\ [][Next /\ FirstDrops]_vars /\ Fairness
==============================================================================
