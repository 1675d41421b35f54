------------------------------- MODULE Server -------------------------------
(***************************************************************************)
(* A server process: ThreadManager and Listener together.  The main thread *)
(* launches workers, starts the ServerService and joins the workers;       *)
(* workers dispatch completion packets until their callback returns, and   *)
(* may launch and join themselves.  Any order of these calls is allowed:   *)
(* the repository's Server.cpp makes none of them yet.                     *)
(***************************************************************************)
EXTENDS ThreadManager

CONSTANTS maxSessionCount, MaxCreated

ASSUME ServerConstants == {maxSessionCount, MaxCreated} \subseteq Nat

VARIABLES starter, stage, acceptEvents, ownerSession, created, requests, acceptPort, fault

L == INSTANCE Listener

listenerVars ==
    <<starter, stage, acceptEvents, ownerSession, created, requests, acceptPort, fault>>

vars == <<threadVars, listenerVars>>

ServerInit == Init /\ L!Init

\* A thread that is in application code, and not inside Start.
Free(t) == at[t] = "idle" /\ starter # t

\* A thread in ServerService::Start goes on with that.
ThreadStep(t) == starter # t /\ Step(t) /\ UNCHANGED listenerVars

\* The main thread starts the service.
StartStep(t) == t = Main /\ Free(t) /\ L!StartAccept(t) /\ UNCHANGED threadVars

ServiceStep(t) == L!ServiceStep(t) /\ UNCHANGED threadVars

\* A worker's loop around DispatchCompletionPacket.
DispatchStep(t) == t # Main /\ Free(t) /\ L!DispatchAccept(t) /\ UNCHANGED threadVars

KernelStep == (\E r \in requests : L!CompleteAccept(r)) /\ UNCHANGED threadVars

Running == ~raced /\ ~terminated /\ fault = "none"

ServerNext ==
    /\ Running
    /\ \/ \E t \in Threads : ThreadStep(t) \/ StartStep(t) \/ ServiceStep(t) \/ DispatchStep(t)
       \/ KernelStep

ServerSpec == ServerInit /\ [][ServerNext]_vars

\* The operating system keeps scheduling threads and every callback returns in
\* the end.
ServerFairness ==
    \A t \in Threads : /\ WF_vars(Running /\ starter # t /\ Run(t) /\ UNCHANGED listenerVars)
                       /\ WF_vars(Running /\ ServiceStep(t))

ServerFairSpec == ServerSpec /\ ServerFairness

-----------------------------------------------------------------------------
(* Properties.                                                              *)

OneAcceptPerEvent == L!OneAcceptPerEvent

\* Join returns once the callbacks do: nobody Join waits for ever waits for
\* something Join holds.
JoinReturns == \A t \in Threads : at[t] = "join" ~> (at[t] # "join" \/ ~Running)

=============================================================================
