---------------------------- MODULE MCWriterLock ----------------------------
(* 200 ms doubled and capped, in small units. *)
EXTENDS WriterLock

Scaled == Schedule(1, 3)
=============================================================================
