----------------------------- MODULE MCJobTimer -----------------------------
(* Instance of JobTimer: two workers.                                          *)
EXTENDS JobTimer, TLC

CONSTANTS t1, t2, q1

=============================================================================
