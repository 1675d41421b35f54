------------------------- MODULE MCDeadLockProfiler -------------------------
(* Instances of DeadLockProfiler.                                              *)
EXTENDS DeadLockProfiler, TLC

CONSTANTS t1, t2, t3, A, B, C

G == INSTANCE Graphs

\* Cyclic is what Graphs calls a cycle, on every graph of three nodes.
ASSUME CyclicIsHasCycle ==
    \A E \in SUBSET ((1 .. 3) \X (1 .. 3)) :
        Cyclic(E) <=> G!HasCycle([node |-> 1 .. 3, edge |-> E])

Symmetry == Permutations(Threads) \cup Permutations(Names)
=============================================================================
