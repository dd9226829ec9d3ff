--------------------------- MODULE MCWorkerJudge ---------------------------
(***************************************************************************)
(* Instances of WorkerJudge for TLC.                                        *)
(***************************************************************************)
EXTENDS WorkerJudge, TLC

\* Requests, sessions and papers are interchangeable (not used with liveness).
Symmetric == Permutations(Requests) \cup Permutations(Sessions) \cup Permutations(Papers)
=============================================================================
