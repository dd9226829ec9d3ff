------------------------------ MODULE MCDedupe ------------------------------
(***************************************************************************)
(* Instances of Dedupe for TLC.                                             *)
(***************************************************************************)
EXTENDS Dedupe, TLC

CONSTANTS d1, d2, t1, t2, empty

Symmetric == Permutations(Dois) \cup Permutations(Titles)
=============================================================================
