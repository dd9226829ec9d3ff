---------------------------- MODULE MCChunkText -----------------------------
(***************************************************************************)
(* The instance of ChunkText for TLC: lengths around 0, the 80 characters  *)
(* that are stored at least, and the ends of the first three windows.       *)
(***************************************************************************)
EXTENDS ChunkText

EdgeLengths == (0..3) \cup (78..82) \cup (1197..1203) \cup (2217..2223) \cup (3237..3243)
=============================================================================
