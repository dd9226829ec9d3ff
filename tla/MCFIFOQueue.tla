---------------------------- MODULE MCFIFOQueue ----------------------------
(***************************************************************************)
(* Instances of FIFOQueue for TLC.                                          *)
(***************************************************************************)
EXTENDS FIFOQueue, TLC

CONSTANTS c1, c2, c3, m1, m2, free

Symmetric == Permutations(Calls) \cup Permutations(Managers)
=============================================================================
