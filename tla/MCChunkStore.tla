---------------------------- MODULE MCChunkStore ----------------------------
(* ChunkStore on a small instance for TLC.                                   *)
EXTENDS ChunkStore, TLC

\* Texts and paths are interchangeable in every action and property.
Symmetric == Permutations(Key) \cup Permutations(Path)
=============================================================================
