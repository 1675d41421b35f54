------------------------------ MODULE Listener ------------------------------
(***************************************************************************)
(* The accept side of the network layer: ServerService::Start (Service.cpp)*)
(* and class Listener (Listener.h/.cpp).  StartAccept makes one AcceptEvent*)
(* for each of maxSessionCount slots; RegisterAccept makes a session for   *)
(* the client to come and asks the kernel, with AcceptEx, to accept into   *)
(* its socket.  When AcceptEx fails RegisterAccept calls itself, with a    *)
(* new session for the same event.                                         *)
(*                                                                         *)
(* An event has one owner pointer.  StartAccept stores the listener there, *)
(* RegisterAccept replaces it by the session, and the completion packet is *)
(* dispatched to the session, whose DispatchEvent has no case for ACCEPT.  *)
(* So Listener::DispatchEvent and ProcessAccept are never called and have  *)
(* no action here; nor has the destructor, since the listener and its      *)
(* service own each other.                                                 *)
(*                                                                         *)
(* The kernel is external: AcceptEx completes at once, later, or fails.    *)
(***************************************************************************)
EXTENDS Integers, Sequences, FiniteSets

CONSTANTS
    maxSessionCount,  \* Service::maxSessionCount
    MaxCreated,       \* bound on the sessions created: AcceptEx fails no more
    None

Slots == 1 .. maxSessionCount

VARIABLES
    starter,       \* the thread in ServerService::Start
    stage,         \* where it is
    acceptEvents,  \* Listener::acceptEvents: the events of the first slots exist
    ownerSession,  \* per event: None, "listener", or a session
    created,       \* CreateSession: the sessions made so far, 1, 2, ...
    requests,      \* kernel: pending accepts <<slot, session>>
    acceptPort,    \* kernel: their completion packets, oldest first
    fault          \* the null pointer that was followed, or "none"

listenerVars ==
    <<starter, stage, acceptEvents, ownerSession, created, requests, acceptPort, fault>>

Init ==
    /\ starter = None
    /\ stage = "none"
    /\ acceptEvents = 0
    /\ ownerSession = [e \in Slots |-> None]
    /\ created = 0
    /\ requests = {}
    /\ acceptPort = << >>
    /\ fault = "none"

In(t, l) == starter = t /\ stage = l

-----------------------------------------------------------------------------
\* ServerService::Start and Listener::StartAccept

\* Up to the loop: the listener is made and its socket created, registered,
\* bound and put to listen, each of which may fail and end the call.
StartAccept(t) ==
    /\ stage = "none"
    /\ \E ok \in BOOLEAN : stage' = IF ok THEN "loop" ELSE "failed"
    /\ starter' = IF stage' = "loop" THEN t ELSE None
    /\ UNCHANGED <<acceptEvents, ownerSession, created, requests, acceptPort, fault>>

\* One iteration makes an event and calls RegisterAccept.
NextSlot(t) ==
    /\ In(t, "loop") /\ acceptEvents < maxSessionCount
    /\ acceptEvents' = acceptEvents + 1
    /\ ownerSession' = [ownerSession EXCEPT ![acceptEvents + 1] = "listener"]
    /\ stage' = "register"
    /\ UNCHANGED <<starter, created, requests, acceptPort, fault>>

StartReturns(t) ==
    /\ In(t, "loop") /\ acceptEvents = maxSessionCount
    /\ stage' = "started"
    /\ starter' = None
    /\ UNCHANGED <<acceptEvents, ownerSession, created, requests, acceptPort, fault>>

-----------------------------------------------------------------------------
\* Listener::RegisterAccept, for the event made last

\* CreateSession, which returns nullptr when the socket cannot be registered
\* with the port; RegisterAccept stores that and follows it.
RegisterAccept(t) ==
    /\ In(t, "register")
    /\ \/ /\ created' = created + 1
          /\ ownerSession' = [ownerSession EXCEPT ![acceptEvents] = created + 1]
          /\ stage' = "accept"
          /\ UNCHANGED fault
       \/ /\ ownerSession' = [ownerSession EXCEPT ![acceptEvents] = None]
          /\ fault' = "null session"
          /\ UNCHANGED <<created, stage>>
    /\ UNCHANGED <<starter, acceptEvents, requests, acceptPort>>

\* Mutant: WSA_IO_PENDING is taken for a failure too.
AcceptExRetriesPending(t) ==
    /\ In(t, "accept")
    /\ \/ /\ acceptPort' = Append(acceptPort, <<acceptEvents, created>>)
          /\ stage' = "loop"
          /\ UNCHANGED requests
       \/ /\ requests' = requests \cup {<<acceptEvents, created>>}
          /\ stage' = IF created < MaxCreated THEN "register" ELSE "loop"
          /\ UNCHANGED acceptPort
    /\ UNCHANGED <<starter, acceptEvents, ownerSession, created, fault>>

\* AcceptEx returns true, or fails with WSA_IO_PENDING, or fails; then
\* RegisterAccept calls itself.
AcceptEx(t) ==
    /\ In(t, "accept")
    /\ \/ /\ acceptPort' = Append(acceptPort, <<acceptEvents, created>>)
          /\ stage' = "loop"
          /\ UNCHANGED requests
       \/ /\ requests' = requests \cup {<<acceptEvents, created>>}
          /\ stage' = "loop"
          /\ UNCHANGED acceptPort
       \/ /\ created < MaxCreated
          /\ stage' = "register"
          /\ UNCHANGED <<requests, acceptPort>>
    /\ UNCHANGED <<starter, acceptEvents, ownerSession, created, fault>>

-----------------------------------------------------------------------------

\* A client connects and a pending accept completes.
CompleteAccept(r) ==
    /\ r \in requests
    /\ requests' = requests \ {r}
    /\ acceptPort' = Append(acceptPort, r)
    /\ UNCHANGED <<starter, stage, acceptEvents, ownerSession, created, fault>>

\* IocpService::DispatchCompletionPacket: the packet goes to the owner the event
\* has now.  Session::DispatchEvent does nothing with an ACCEPT.
DispatchAccept(t) ==
    /\ acceptPort # << >> /\ starter # t
    /\ acceptPort' = Tail(acceptPort)
    /\ fault' = IF ownerSession[Head(acceptPort)[1]] = None THEN "null owner" ELSE fault
    /\ UNCHANGED <<starter, stage, acceptEvents, ownerSession, created, requests>>

ServiceStep(t) == NextSlot(t) \/ StartReturns(t) \/ RegisterAccept(t) \/ AcceptEx(t)

-----------------------------------------------------------------------------
(* Properties.                                                              *)

\* The accepts of event e the kernel knows of, pending or completed.
AcceptsOf(e) ==
    {r \in requests : r[1] = e}
    \cup {acceptPort[i] : i \in {k \in DOMAIN acceptPort : acceptPort[k][1] = e}}

\* An AcceptEvent is one OVERLAPPED: however often AcceptEx failed before
\* (Listener.cpp:102) it stands for at most one accept, that one is into the
\* socket of the session the packet will be dispatched to, and none is on its
\* way while the event is prepared anew.
OneAcceptPerEvent ==
    \A e \in Slots :
        /\ Cardinality(AcceptsOf(e)) <= 1
        /\ \A r \in AcceptsOf(e) : ownerSession[e] = r[2]
        /\ stage \in {"register", "accept"} /\ e = acceptEvents => AcceptsOf(e) = {}

=============================================================================
