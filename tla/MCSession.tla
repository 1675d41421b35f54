------------------------------ MODULE MCSession ------------------------------
(* Instances of Session: two workers, one or two sessions.                  *)
EXTENDS Session, TLC

CONSTANTS t1, t2, s1, s2

\* Workers are interchangeable, and so are the sessions of a service.
Symmetry == Permutations(Threads) \cup Permutations(Sessions)

=============================================================================
