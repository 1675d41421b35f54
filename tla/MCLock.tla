------------------------------- MODULE MCLock -------------------------------
(* Instances of Lock: a few threads, the nestings of scopes they build.      *)
EXTENDS Lock, TLC

CONSTANTS t1, t2, t3

\* Ids as ThreadManager::InitTLS hands them out, in order of launch.
LaunchedIds ==
    [t \in Threads |-> IF t = t1 THEN 1 ELSE IF t = t2 THEN 2 ELSE 3]

\* Every stack of at most two scopes.
NestingsUpTo2 == {<<m>> : m \in Modes} \cup {<<m, n>> : m, n \in Modes}

\* The same, and an exclusive scope re-entered inside a shared one.
NestingsWithWRW == NestingsUpTo2 \cup {<<"W", "R", "W">>}

\* The instances satisfy what the theorems ask of the callers.
ASSUME MCLockAssumption == IdsFromThreadManager /\ HoldsFit(3)

=============================================================================
