----------------------------- MODULE MCJobQueue -----------------------------
(* Instances of JobQueue: queue qa with jobs a1 and a2, queue qb with b1;     *)
(* bodies that post jobs of their own.                                       *)
EXTENDS JobQueue, TLC

CONSTANTS t1, t2, qa, qb, a1, a2, b1

OwnerAB == [j \in Jobs |-> IF j = b1 THEN qb ELSE qa]

\* Every job is posted by the application.
SpawnsNone == [j \in Jobs |-> << >>]

\* a1 posts b1 from its body; a2 is posted by the application and races a1.
SpawnsOne == [j \in Jobs |-> IF j = a1 THEN <<b1>> ELSE << >>]

=============================================================================
