------------------------------ MODULE MCServer ------------------------------
(* An instance of Server: a main thread and two threads to launch.         *)
EXTENDS Server

CONSTANTS w1, w2

=============================================================================
