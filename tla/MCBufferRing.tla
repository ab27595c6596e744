---------------------------- MODULE MCBufferRing ----------------------------
(* An instance of BufferRing for TLC.  Readers are interchangeable.          *)
EXTENDS BufferRing, TLC

Symmetry == Permutations(Reader)
=============================================================================
