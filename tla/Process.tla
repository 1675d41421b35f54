------------------------------ MODULE Process -------------------------------
(***************************************************************************)
(* What the components around locks have in common: the threads of the     *)
(* process, and FORCED_CRASH (CoreMacros.h), which ends it.                *)
(***************************************************************************)

CONSTANTS
    Threads      \* the threads of the process

VARIABLES
    crashed      \* the FORCED_CRASH that ended the process, or "none"

=============================================================================
