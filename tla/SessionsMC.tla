------------------------------- MODULE SessionsMC -------------------------------
(***************************************************************************)
(* Instances of Sessions for TLC.                                          *)
(***************************************************************************)
EXTENDS Sessions

CONSTANTS p1, p2, p3
================================================================================
