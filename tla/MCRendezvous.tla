---------------------------- MODULE MCRendezvous ----------------------------
(***************************************************************************)
(* Instances of Rendezvous for TLC.                                         *)
(***************************************************************************)
EXTENDS Rendezvous, TLC

CONSTANTS s1, s2, r1, r2, r3, a1, m1, k1, k2, none

Symmetric == Permutations(Sends) \cup Permutations(Calls) \cup Permutations(Keys)
=============================================================================
