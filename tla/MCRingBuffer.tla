---------------------------- MODULE MCRingBuffer ----------------------------
(* Bytes are interchangeable.                                               *)
EXTENDS RingBuffer, TLC

Bytes == Permutations(Byte)
=============================================================================
