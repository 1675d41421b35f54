------------------------------ MODULE MCMemory ------------------------------
(* Instance of Memory with the sizes of the code: sizeof(MemoryHeader) is 32 *)
(* on x64, and the loops of MemoryManager run to 1024, 2048 and 4096.        *)
EXTENDS Memory, TLC

CONSTANTS t1, t2, b1, b2, b3, JobData

LoopSteps  == <<32, 128, 256>>
LoopLimits == <<1024, 2048, 4096>>
\* As many bytes as the smaller pooled request: the header does not tell them apart.
TypeSizes == [T \in Types |-> 1100]

Symmetry == Permutations(Threads) \cup Permutations(Blocks)
=============================================================================
