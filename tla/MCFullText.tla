----------------------------- MODULE MCFullText -----------------------------
(***************************************************************************)
(* Instances of FullText for TLC.                                           *)
(***************************************************************************)
EXTENDS FullText, TLC

Symmetric == Permutations(Callers) \cup Permutations(Papers) \cup Permutations(Urls)
=============================================================================
