---------------------------- MODULE MCRingBuffer ----------------------------
(* RingBuffer.tla on a small instance: two threads, two byte values, a      *)
(* buffer of at most two bytes and reads and writes of at most three.       *)
EXTENDS RingBuffer
=============================================================================
