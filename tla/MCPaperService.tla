--------------------------- MODULE MCPaperService ---------------------------
(***************************************************************************)
(* Instances of PaperService for TLC.                                       *)
(***************************************************************************)
EXTENDS PaperService, TLC

Symmetric ==
    Permutations(Callers) \cup Permutations(Queries)
       \cup Permutations(Quality) \cup Permutations(Papers \ Quality)
=============================================================================
