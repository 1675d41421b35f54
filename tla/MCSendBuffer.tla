---------------------------- MODULE MCSendBuffer ----------------------------
(* Instance of SendBuffer: two threads, three chunks.                         *)
EXTENDS SendBuffer, TLC

CONSTANTS t1, t2, c1, c2, c3

Symmetry == Permutations(Threads) \cup Permutations(Chunks)
=============================================================================
