------------------------------- MODULE Session -------------------------------
(***************************************************************************)
(* The client side of the network layer: class Session (Session.h/.cpp),   *)
(* the ClientService that owns the sessions (Service.cpp) and the          *)
(* completion port the workers drain (IocpService.cpp).                    *)
(*                                                                         *)
(* An I/O request is an IocpEvent embedded in the session; the event's     *)
(* ownerSession is set before the request is made and read again when its  *)
(* completion packet is dispatched, by whichever worker dequeues it.  The  *)
(* owner fields are modelled as "ownerSession is not null".                *)
(*                                                                         *)
(* The kernel is external: a request completes at once, later, or is       *)
(* refused; a completed request leaves a packet in the port, also when it  *)
(* completed at once.  link is the state of the TCP connection.            *)
(*                                                                         *)
(* WRITE_LOCK scopes of Service and Session are entered and left as in     *)
(* JobQueue: with the guard of ServerCore/Lock.h two threads can be in one,*)
(* which raced records.  Assumed: sessions are created with a socket that  *)
(* is registered with the port.                                            *)
(***************************************************************************)
EXTENDS RecvCursors, Sequences, FiniteSets

CONSTANTS
    Threads,      \* the threads of the process
    Sessions,     \* the sessions ClientService::Start creates
    WriteGuard,   \* "R" or "W", what WriteLockGuard acquires
    Careful,      \* the application disconnects only a session that IsConnected
    Builds,       \* the values of "_DEBUG is defined" to consider
    Outcomes,     \* what an overlapped request may do: "done", "pending", "refused"
    MaxSends,     \* bound on the calls of Send
    MaxPackets,   \* bound on the receive completions
    MaxLoad,      \* bound on the two together
    None

ASSUME SessionConstants ==
    /\ WriteGuard \in {"R", "W"}
    /\ Careful \in BOOLEAN /\ Builds \subseteq BOOLEAN
    /\ Outcomes \subseteq {"done", "pending", "refused"}
    /\ {MaxSends, MaxPackets, MaxLoad} \subseteq Nat
    /\ IsFiniteSet(Sessions)
    /\ None \notin Sessions /\ \A S \in SUBSET Sessions : None # S

EventTypes == {"CONNECT", "DISCONNECT", "RECV"}

VARIABLES
    debug,            \* the build: ASSERT_CRASH evaluates its expression
    isConnected,      \* Session::isConnected
    owner,            \* per session and event: ownerSession is not null
    recvBuffer,       \* the cursors of Session::recvBuffer
    sendQueue,        \* Session::sendQueue
    isSendRegistered, \* Session::isSendRegistered
    sendBuffers,      \* sendEvent.sendBuffers
    sessions,         \* Service::sessions
    sessionCount,     \* Service::sessionCount
    releases,         \* history: the times ReleaseSession took one off the count
    link,             \* kernel: "none", "up" or "closed" by the peer
    inFlight,         \* kernel: pending requests <<session, event, window>>
    port,             \* kernel: the completion packets, oldest first
    started,          \* ClientService::Start: the sessions it has tried
    pc,               \* where each thread is
    self,             \* the session each thread works for
    arg,              \* _bytesTransferred, or the buffer Send was given
    inScope,          \* the object whose WRITE_LOCK scope a thread is in
    cast,             \* BroadCast: the sessions left to visit, None outside its scope
    sends,            \* calls of Send and BroadCast so far, the buffers
    given,            \* history: per session, the buffers Send took on for it
    packets,          \* receive completions so far
    raced,            \* a data race has happened
    crashed           \* what terminated the process, or "none"

netVars    == <<isConnected, owner, recvBuffer>>
sendVars   == <<sendQueue, isSendRegistered, sendBuffers, sends, given>>
svcVars    == <<sessions, sessionCount, releases>>
kernelVars == <<link, inFlight, port, packets>>
ctlVars    == <<pc, self, arg, cast>>
vars == <<debug, netVars, sendVars, svcVars, kernelVars, started, ctlVars, inScope, raced,
          crashed>>

Init ==
    /\ debug \in Builds
    /\ isConnected = [s \in Sessions |-> FALSE]
    /\ owner = [s \in Sessions |-> [e \in EventTypes |-> FALSE]]
    /\ recvBuffer = [s \in Sessions |-> EmptyBuffer]
    /\ sendQueue = [s \in Sessions |-> << >>]
    /\ isSendRegistered = [s \in Sessions |-> FALSE]
    /\ sendBuffers = [s \in Sessions |-> << >>]
    /\ sessions = {}
    /\ sessionCount = 0
    /\ releases = 0
    /\ link = [s \in Sessions |-> "none"]
    /\ inFlight = {}
    /\ port = << >>
    /\ started = {}
    /\ pc = [t \in Threads |-> "idle"]
    /\ self = [t \in Threads |-> None]
    /\ arg = [t \in Threads |-> 0]
    /\ inScope = [t \in Threads |-> None]
    /\ cast = [t \in Threads |-> None]
    /\ sends = 0
    /\ given = [s \in Sessions |-> {}]
    /\ packets = 0
    /\ raced = FALSE
    /\ crashed = "none"

At(t, l) == pc[t] = l

\* Control is at l, in a method of session s with argument x.
Control(t, l, s, x) ==
    /\ pc' = [pc EXCEPT ![t] = l]
    /\ self' = [self EXCEPT ![t] = s]
    /\ arg' = [arg EXCEPT ![t] = x]

\* A method is called with its session and argument.
Begin(t, l, s, x) == Control(t, l, s, x) /\ UNCHANGED cast

\* Control moves on; "idle" is the return to the worker's loop, where the
\* locals are gone.
Goto(t, l) == Begin(t, l, IF l = "idle" THEN None ELSE self[t],
                          IF l = "idle" THEN 0 ELSE arg[t])

SetOwner(s, e, v) == owner' = [owner EXCEPT ![s][e] = v]

\* The load has not reached its bound.
Room == sends + packets < MaxLoad

Crash(why) ==
    /\ crashed' = why
    /\ UNCHANGED <<netVars, sendVars, svcVars, kernelVars, started, ctlVars, inScope,
                   raced>>

-----------------------------------------------------------------------------
\* WRITE_LOCK

Scoped(t) ==
    \/ pc[t] \in {"add_session", "release_session", "send", "register_send"}
    \/ pc[t] = "broadcast" /\ cast[t] = None

ScopeOf(t) == IF pc[t] \in {"add_session", "insert_session", "release_session",
                            "uncount_session", "broadcast"}
              THEN <<"service">> ELSE <<"session", self[t]>>

InScope(t, scope) == inScope[t] = scope \/ (scope = <<"service">> /\ cast[t] # None)

\* BroadCast keeps its scope while it calls Send; it walks the sessions of now.
EnterScope(t) ==
    /\ Scoped(t) /\ inScope[t] = None
    /\ LET others == {u \in Threads \ {t} : InScope(u, ScopeOf(t))}
       IN  /\ WriteGuard = "W" => others = {}
           /\ raced' = (others # {})
    /\ IF pc[t] = "broadcast"
       THEN cast' = [cast EXCEPT ![t] = sessions] /\ UNCHANGED inScope
       ELSE inScope' = [inScope EXCEPT ![t] = ScopeOf(t)] /\ UNCHANGED cast
    /\ UNCHANGED <<netVars, sendVars, svcVars, kernelVars, started, pc, self, arg, crashed>>

LeaveScope(t) ==
    /\ inScope[t] # None
    /\ inScope' = [inScope EXCEPT ![t] = None]

-----------------------------------------------------------------------------
\* The kernel

Packet(s, e, n) == [session |-> s, event |-> e, bytes |-> n]

Pending(s, e) == \E r \in inFlight : r[1] = s /\ r[2] = e

\* What a WSARecv of the given window may deliver: on a live connection at
\* least a byte, unless the window is empty; nothing once the peer closed.
Deliverable(s, window) ==
    IF link[s] = "up" /\ window > 0 THEN 1 .. window ELSE {0}

\* A pending connect completes.  When it failed GetQueuedCompletionStatus
\* returns false, with the packet all the same.
CompleteConnect(s) ==
    /\ Pending(s, "CONNECT")
    /\ inFlight' = {r \in inFlight : ~(r[1] = s /\ r[2] = "CONNECT")}
    /\ port' = Append(port, Packet(s, "CONNECT", 0))
    /\ \E up \in {"up", "none"} : link' = [link EXCEPT ![s] = up]
    /\ UNCHANGED <<netVars, sendVars, svcVars, packets, started, ctlVars, inScope, raced,
                   crashed>>

\* A pending disconnect completes.
CompleteDisconnect(s) ==
    /\ Pending(s, "DISCONNECT")
    /\ inFlight' = {r \in inFlight : ~(r[1] = s /\ r[2] = "DISCONNECT")}
    /\ port' = Append(port, Packet(s, "DISCONNECT", 0))
    /\ link' = [link EXCEPT ![s] = "none"]
    /\ UNCHANGED <<netVars, sendVars, svcVars, packets, started, ctlVars, inScope, raced,
                   crashed>>

\* A pending receive completes.
CompleteRecv(s) ==
    /\ packets < MaxPackets /\ Room
    /\ \E r \in inFlight :
         /\ r[1] = s /\ r[2] = "RECV"
         /\ inFlight' = inFlight \ {r}
         /\ \E n \in Deliverable(s, r[3]) : port' = Append(port, Packet(s, "RECV", n))
    /\ packets' = packets + 1
    /\ UNCHANGED <<netVars, sendVars, svcVars, link, started, ctlVars, inScope, raced,
                   crashed>>

\* The peer closes the connection.
PeerCloses(s) ==
    /\ link[s] = "up"
    /\ link' = [link EXCEPT ![s] = "closed"]
    /\ UNCHANGED <<netVars, sendVars, svcVars, inFlight, port, packets, started, ctlVars,
                   inScope, raced, crashed>>

-----------------------------------------------------------------------------
\* ClientService::Start and Session::RegisterConnect

\* RegisterConnect of a session that is not connected, with outcome o.  It is
\* refused by SetReuseAddress or BindAnyAddress, before the event is touched, or
\* by ConnectEx, when the owner of disconnectEvent is cleared.
RegisterConnect(s, o) ==
    \/ o = "refused" /\ UNCHANGED <<owner, inFlight>>
    \/ /\ owner' = [owner EXCEPT ![s]["CONNECT"] = TRUE,
                                 ![s]["DISCONNECT"] = @ /\ o # "refused"]
       /\ inFlight' = IF o = "refused" THEN inFlight ELSE inFlight \cup {<<s, "CONNECT", 0>>}

\* One iteration of Start's loop, which a refused connect ends.
StartConnect(t, s) ==
    /\ At(t, "idle") /\ s \notin started
    /\ \E o \in Outcomes :
         /\ RegisterConnect(s, o)
         /\ started' = IF o = "refused" THEN Sessions ELSE started \cup {s}
    /\ UNCHANGED <<isConnected, recvBuffer, sendVars, svcVars, link, port, packets,
                   ctlVars, inScope, raced, crashed>>

-----------------------------------------------------------------------------
\* IocpService::DispatchCompletionPacket

\* A packet is dequeued and dispatched through the owner its event has NOW.
Dispatch(t) ==
    /\ At(t, "idle") /\ port # << >>
    /\ LET p == Head(port)
       IN  IF ~owner[p.session][p.event]
           THEN Crash("null ownerSession")
           ELSE /\ port' = Tail(port)
                /\ Begin(t, CASE p.event = "CONNECT"    -> "process_connect"
                              [] p.event = "DISCONNECT" -> "process_disconnect"
                              [] p.event = "RECV"       -> "process_recv",
                         p.session, p.bytes)
                /\ UNCHANGED <<netVars, sendVars, svcVars, link, inFlight, packets, started,
                               inScope, raced, crashed>>

-----------------------------------------------------------------------------
\* Session::ProcessConnect

ProcessConnect(t) ==
    /\ At(t, "process_connect")
    /\ SetOwner(self[t], "CONNECT", FALSE)
    /\ isConnected' = [isConnected EXCEPT ![self[t]] = TRUE]
    /\ Goto(t, "add_session")
    /\ UNCHANGED <<recvBuffer, sendVars, svcVars, kernelVars, started, inScope, raced,
                   crashed>>

\* Mutant: the session is stored and not counted.
AddSessionUncounted(t) ==
    /\ At(t, "add_session") /\ inScope[t] # None
    /\ Goto(t, "insert_session")
    /\ UNCHANGED <<netVars, sendVars, svcVars, kernelVars, started, inScope, raced, crashed>>

\* Service::AddSession, in its scope: the session is counted, ...
AddSession(t) ==
    /\ At(t, "add_session") /\ inScope[t] # None
    /\ sessionCount' = sessionCount + 1
    /\ Goto(t, "insert_session")
    /\ UNCHANGED <<netVars, sendVars, sessions, releases, kernelVars, started, inScope,
                   raced, crashed>>

\* ... then stored; OnConnected of the application, on to RegisterRecv.
InsertSession(t) ==
    /\ At(t, "insert_session") /\ LeaveScope(t)
    /\ sessions' = sessions \cup {self[t]}
    /\ Goto(t, "register_recv")
    /\ UNCHANGED <<netVars, sendVars, sessionCount, releases, kernelVars, started, raced,
                   crashed>>

-----------------------------------------------------------------------------
\* Session::RegisterRecv

\* Mutant: the whole buffer is offered, not what is free.
RecvWindowWhole(s) == capacity

\* The length given to WSARecv.
RecvWindow(s) == FreeSize(recvBuffer[s])

\* The owner is set and WSARecv is called.  A receive that is done at once
\* has its packet in the port before WSARecv returns.
RegisterRecv(t) ==
    /\ At(t, "register_recv")
    /\ LET s == self[t]
           window == RecvWindow(s)
       IN  IF ~isConnected[s]
           THEN Goto(t, "idle") /\ UNCHANGED <<owner, inFlight, port, packets>>
           ELSE /\ SetOwner(s, "RECV", TRUE)
                /\ \/ /\ "pending" \in Outcomes /\ link[s] # "none"
                      /\ inFlight' = inFlight \cup {<<s, "RECV", window>>}
                      /\ Goto(t, "idle")
                      /\ UNCHANGED <<port, packets>>
                   \/ /\ "done" \in Outcomes /\ link[s] # "none" /\ packets < MaxPackets /\ Room
                      /\ \E n \in Deliverable(s, window) :
                            port' = Append(port, Packet(s, "RECV", n))
                      /\ packets' = packets + 1
                      /\ Goto(t, "recv_returned")
                      /\ UNCHANGED inFlight
                   \/ /\ "refused" \in Outcomes \/ link[s] = "none"
                      /\ Goto(t, "idle")
                      /\ UNCHANGED <<inFlight, port, packets>>
    /\ UNCHANGED <<isConnected, recvBuffer, sendVars, svcVars, link, started, inScope, raced, crashed>>

\* Mutant: the return is taken for an error and the receive is retried.
RecvReturnedRetries(t) ==
    /\ At(t, "recv_returned")
    /\ SetOwner(self[t], "RECV", FALSE)
    /\ Goto(t, "register_recv")
    /\ UNCHANGED <<isConnected, recvBuffer, sendVars, svcVars, kernelVars, started,
                   inScope, raced, crashed>>

\* WSARecv did not return SOCKET_ERROR: the last error, which is whatever an
\* earlier call left, is compared with WSA_IO_PENDING.
RecvReturned(t) ==
    /\ At(t, "recv_returned")
    /\ \E clear \in BOOLEAN :
         IF clear THEN SetOwner(self[t], "RECV", FALSE) ELSE UNCHANGED owner
    /\ Goto(t, "idle")
    /\ UNCHANGED <<isConnected, recvBuffer, sendVars, svcVars, kernelVars, started, inScope, raced,
                   crashed>>

-----------------------------------------------------------------------------
\* Session::ProcessRecv

\* Up to the call of OnRecv.  Disconnect is empty: the chain just ends.
ProcessRecv(t) ==
    /\ At(t, "process_recv")
    /\ SetOwner(self[t], "RECV", FALSE)
    /\ LET w == OnWrite(recvBuffer[self[t]], arg[t])
           ok == arg[t] # 0 /\ w.ok
       IN  /\ recvBuffer' = IF ok THEN [recvBuffer EXCEPT ![self[t]] = w.b] ELSE recvBuffer
           /\ Goto(t, IF ok THEN "on_recv" ELSE "idle")
    /\ UNCHANGED <<isConnected, sendVars, svcVars, kernelVars, started, inScope, raced,
                   crashed>>

\* Mutant: what OnRecv returns is trusted.
OnRecvReturnsTrusted(t) ==
    /\ At(t, "on_recv")
    /\ \E processLen \in -1 .. (DataSize(recvBuffer[self[t]]) + 1) :
         recvBuffer' = [recvBuffer EXCEPT ![self[t]].rd = @ + processLen]
    /\ Goto(t, "register_recv")
    /\ UNCHANGED <<isConnected, owner, sendVars, svcVars, kernelVars, started, inScope,
                   raced, crashed>>

\* OnRecv returns some processLen; OnRead and Clean.
OnRecvReturns(t) ==
    /\ At(t, "on_recv")
    /\ \E processLen \in -1 .. (DataSize(recvBuffer[self[t]]) + 1) :
         LET r == OnRead(recvBuffer[self[t]], processLen)
             ok == processLen >= 0 /\ processLen <= DataSize(recvBuffer[self[t]]) /\ r.ok
         IN  /\ recvBuffer' = IF ok THEN [recvBuffer EXCEPT ![self[t]] = Clean(r.b)]
                              ELSE recvBuffer
             /\ Goto(t, IF ok THEN "register_recv" ELSE "idle")
    /\ UNCHANGED <<isConnected, owner, sendVars, svcVars, kernelVars, started, inScope, raced,
                   crashed>>

-----------------------------------------------------------------------------
\* Session::RegisterDisconnect, which the application calls: it tests nothing.
\* DisconnectEx is refused when there is no connection or another disconnect is
\* on its way.
RegisterDisconnect(t, s) ==
    /\ At(t, "idle") /\ (Careful => isConnected[s])
    /\ \/ /\ link[s] # "none" /\ ~Pending(s, "DISCONNECT")
          /\ SetOwner(s, "DISCONNECT", TRUE)
          /\ inFlight' = inFlight \cup {<<s, "DISCONNECT", 0>>}
       \/ /\ "refused" \in Outcomes
          /\ SetOwner(s, "DISCONNECT", FALSE)
          /\ UNCHANGED inFlight
    /\ UNCHANGED <<isConnected, recvBuffer, sendVars, svcVars, link, port, packets, started,
                   ctlVars, inScope, raced, crashed>>

\* ProcessDisconnect, with OnDisconnected of the application.
ProcessDisconnect(t) ==
    /\ At(t, "process_disconnect")
    /\ SetOwner(self[t], "DISCONNECT", FALSE)
    /\ Goto(t, "release_session")
    /\ UNCHANGED <<isConnected, recvBuffer, sendVars, svcVars, kernelVars,
                   started, inScope, raced, crashed>>

\* Service::ReleaseSession, the end of ProcessDisconnect, in its scope.  The
\* erase is the argument of ASSERT_CRASH: it exists in Debug builds only.
ReleaseSession(t) ==
    /\ At(t, "release_session") /\ inScope[t] # None
    /\ IF debug /\ self[t] \notin sessions
       THEN Crash("_session is not exist in the sessions.")
       ELSE /\ sessions' = IF debug THEN sessions \ {self[t]} ELSE sessions
            /\ Goto(t, "uncount_session")
            /\ UNCHANGED <<netVars, sendVars, sessionCount, releases, kernelVars, started,
                           inScope, raced, crashed>>

UncountSession(t) ==
    /\ At(t, "uncount_session") /\ LeaveScope(t)
    /\ sessionCount' = sessionCount - 1
    /\ releases' = releases + 1
    /\ Goto(t, "idle")
    /\ UNCHANGED <<netVars, sendVars, sessions, kernelVars, started, raced, crashed>>

-----------------------------------------------------------------------------
\* Session::Send and RegisterSend, Service::BroadCast

\* Send returns to BroadCast or to the application.
SendReturns(t) ==
    IF cast[t] = None THEN Goto(t, "idle") ELSE Begin(t, "broadcast", None, arg[t])

\* Send of buffer n to a session that is connected.
SendBegins(t, s, n) ==
    /\ Control(t, "send", s, n)
    /\ given' = [given EXCEPT ![s] = @ \cup {n}]

SendCall(t, s) ==
    /\ At(t, "idle") /\ isConnected[s] /\ sends < MaxSends /\ Room
    /\ sends' = sends + 1
    /\ SendBegins(t, s, sends + 1)
    /\ UNCHANGED <<netVars, sendQueue, isSendRegistered, sendBuffers, svcVars, kernelVars,
                   started, inScope, cast, raced, crashed>>

\* Mutant: every call goes on to RegisterSend.
SendAlwaysRegisters(t) ==
    /\ At(t, "send") /\ LeaveScope(t)
    /\ sendQueue' = [sendQueue EXCEPT ![self[t]] = Append(@, arg[t])]
    /\ isSendRegistered' = [isSendRegistered EXCEPT ![self[t]] = TRUE]
    /\ Goto(t, "register_send")
    /\ UNCHANGED <<netVars, sendBuffers, sends, given, svcVars, kernelVars, started, raced,
                   crashed>>

\* The buffer is queued; the first to set isSendRegistered goes on to
\* RegisterSend.
Send(t) ==
    /\ At(t, "send") /\ LeaveScope(t)
    /\ sendQueue' = [sendQueue EXCEPT ![self[t]] = Append(@, arg[t])]
    /\ isSendRegistered' = [isSendRegistered EXCEPT ![self[t]] = TRUE]
    /\ IF isSendRegistered[self[t]] THEN SendReturns(t) ELSE Goto(t, "register_send")
    /\ UNCHANGED <<netVars, sendBuffers, sends, given, svcVars, kernelVars, started, raced,
                   crashed>>

\* Mutant: one buffer is moved and the queue is emptied.
RegisterSendFirst(t) ==
    /\ At(t, "register_send") /\ LeaveScope(t)
    /\ sendBuffers' = [sendBuffers EXCEPT ![self[t]] = Append(@, Head(sendQueue[self[t]]))]
    /\ sendQueue' = [sendQueue EXCEPT ![self[t]] = << >>]
    /\ SendReturns(t)
    /\ UNCHANGED <<netVars, isSendRegistered, sends, given, svcVars, kernelVars, started,
                   raced, crashed>>

\* sendQueue is moved into sendEvent.sendBuffers.  The code ends there: WSASend
\* is never called, so no SEND packet arrives and ProcessSend does not run.
\* (IsConnected, which it tests first, is never reset once Send has seen it;
\* sendEvent.ownerSession, which it sets, is read by nobody, and the WSABUFs it
\* fills from sendBuffers after the lock are dropped.)
RegisterSend(t) ==
    /\ At(t, "register_send") /\ LeaveScope(t)
    /\ sendBuffers' = [sendBuffers EXCEPT ![self[t]] = @ \o sendQueue[self[t]]]
    /\ sendQueue' = [sendQueue EXCEPT ![self[t]] = << >>]
    /\ SendReturns(t)
    /\ UNCHANGED <<netVars, isSendRegistered, sends, given, svcVars, kernelVars, started,
                   raced, crashed>>

BroadCastCall(t) ==
    /\ At(t, "idle") /\ sends < MaxSends /\ Room
    /\ sends' = sends + 1
    /\ Begin(t, "broadcast", None, sends + 1)
    /\ UNCHANGED <<netVars, sendQueue, isSendRegistered, sendBuffers, given, svcVars,
                   kernelVars, started, inScope, raced, crashed>>

\* One iteration of the loop, in the order the set has.
BroadCast(t) ==
    /\ At(t, "broadcast") /\ cast[t] \notin {None, {}}
    /\ \E s \in cast[t] :
         /\ cast' = [cast EXCEPT ![t] = @ \ {s}]
         /\ IF isConnected[s] THEN SendBegins(t, s, arg[t])
            ELSE UNCHANGED <<pc, self, arg, given>>
    /\ UNCHANGED <<netVars, sendQueue, isSendRegistered, sendBuffers, sends, svcVars,
                   kernelVars, started, inScope, raced, crashed>>

BroadCastReturns(t) ==
    /\ At(t, "broadcast") /\ cast[t] = {}
    /\ Control(t, "idle", None, 0)
    /\ cast' = [cast EXCEPT ![t] = None]
    /\ UNCHANGED <<netVars, sendVars, svcVars, kernelVars, started, inScope, raced, crashed>>

-----------------------------------------------------------------------------

Kernel(s) == CompleteConnect(s) \/ CompleteDisconnect(s) \/ CompleteRecv(s)

Call(t) ==
    \/ \E s \in Sessions : RegisterDisconnect(t, s) \/ SendCall(t, s)
    \/ BroadCastCall(t)

Run(t) ==
    \/ EnterScope(t)
    \/ ProcessConnect(t) \/ AddSession(t) \/ InsertSession(t)
    \/ RegisterRecv(t) \/ RecvReturned(t) \/ ProcessRecv(t) \/ OnRecvReturns(t)
    \/ ProcessDisconnect(t) \/ ReleaseSession(t) \/ UncountSession(t)
    \/ Send(t) \/ RegisterSend(t) \/ BroadCast(t) \/ BroadCastReturns(t)

Next ==
    /\ crashed = "none" /\ ~raced /\ UNCHANGED debug
    /\ \/ \E t \in Threads : Call(t) \/ Run(t) \/ Dispatch(t)
       \/ \E t \in Threads, s \in Sessions : StartConnect(t, s)
       \/ \E s \in Sessions : Kernel(s) \/ PeerCloses(s)

Spec == Init /\ [][Next]_vars

-----------------------------------------------------------------------------
(* Properties.                                                              *)

PCs == {"idle", "process_connect", "add_session", "insert_session", "register_recv",
        "recv_returned", "process_recv", "on_recv", "process_disconnect", "release_session",
        "uncount_session", "send", "register_send", "broadcast"}

\* The state of the network layer has its type.
TypeOK ==
    /\ isConnected \in [Sessions -> BOOLEAN]
    /\ owner \in [Sessions -> [EventTypes -> BOOLEAN]]
    /\ recvBuffer \in [Sessions -> [rd : 0 .. capacity, wr : 0 .. capacity]]
    /\ sendQueue \in [Sessions -> Seq(1 .. MaxSends)]
    /\ isSendRegistered \in [Sessions -> BOOLEAN]
    /\ sendBuffers \in [Sessions -> Seq(1 .. MaxSends)]
    /\ sessions \subseteq Sessions /\ sessionCount \in Int /\ releases \in Nat
    /\ link \in [Sessions -> {"none", "up", "closed"}]
    /\ inFlight \subseteq Sessions \X EventTypes \X (0 .. capacity)
    /\ port \in Seq([session : Sessions, event : EventTypes, bytes : 0 .. capacity])
    /\ started \subseteq Sessions
    /\ pc \in [Threads -> PCs]
    /\ self \in [Threads -> Sessions \cup {None}]
    /\ cast \in [Threads -> (SUBSET Sessions) \cup {None}]
    /\ sends \in 0 .. MaxSends
    /\ given \in [Sessions -> SUBSET (1 .. MaxSends)]
    /\ raced \in BOOLEAN

\* What carries the receive chain of s: the request in the kernel, the packet in
\* the port, the thread between dequeuing the packet and the next WSARecv.
Receivers(s) ==
         {<<"kernel", r>> : r \in {x \in inFlight : x[1] = s /\ x[2] \in {"CONNECT", "RECV"}}}
    \cup {<<"port", i>> : i \in {k \in DOMAIN port :
             port[k].session = s /\ port[k].event \in {"CONNECT", "RECV"}}}
    \cup {<<"thread", t>> : t \in {u \in Threads :
             self[u] = s /\ pc[u] \in {"process_connect", "add_session", "insert_session",
                                       "register_recv", "process_recv", "on_recv"}}}

\* A session has one receive chain, from its connect to the last receive: there
\* is never a second WSARecv on recvEvent while one is out, and recvBuffer, which
\* no lock guards, is moved by one thread at a time.  (recvEvent.ownerSession is
\* not covered: a thread that WSARecv has returned to, at "recv_returned", has
\* handed the chain on and may still clear it, Session.cpp:141, beside the worker
\* that dispatches the packet.  OwnerPresent is about that.)
OneReceiver == \A s \in Sessions : Cardinality(Receivers(s)) <= 1

\* RecvBuffer.cpp:43: a completed receive always fits the space the buffer has
\* when it is processed, however much the application left unread.
RecvFits ==
    \A t \in Threads : pc[t] = "process_recv" => arg[t] <= FreeSize(recvBuffer[self[t]])

\* sendEvent, which no lock guards, is prepared by one thread at a time.
OneSender ==
    \A s \in Sessions :
        Cardinality({t \in Threads : pc[t] = "register_send" /\ self[t] = s}) <= 1

\* A buffer given to Send is queued or in sendEvent, once, from the moment the
\* call has had the lock; and a BroadCast that is through has given its buffer to
\* every session of the service.
NoSendLost ==
    /\ \A s \in Sessions :
         LET all == sendBuffers[s] \o sendQueue[s]
             entering == {arg[t] : t \in {u \in Threads : pc[u] = "send" /\ self[u] = s}}
         IN  /\ \A i, j \in DOMAIN all : all[i] = all[j] => i = j
             /\ given[s] \ entering = {all[i] : i \in DOMAIN all}
    /\ \A t \in Threads : pc[t] = "broadcast" /\ cast[t] = {} =>
         \A s \in sessions : arg[t] \in given[s]

\* The sessions the count stands for: those of the service, the one AddSession
\* has counted and not stored, the one ReleaseSession has erased and not uncounted.
Counted ==
    sessions \cup {self[t] : t \in {u \in Threads :
        pc[u] = "insert_session" \/ (debug /\ pc[u] = "uncount_session")}}

\* What GetCurrentSessionCount reads, without the lock, at any moment of any adds
\* and releases: in a Debug build the number of sessions BroadCast reaches, with
\* the one on its way in or out, so never more than there are sessions.  In a
\* Release build nothing is erased, and it is too low by one for every release.
CountMatchesSessions ==
    sessionCount = Cardinality(Counted) - (IF debug THEN 0 ELSE releases)

\* IocpService.cpp:35 "the sessionObject that calls DispatchEvent is a Listener
\* or a Session": a completion packet never meets a null ownerSession.
OwnerPresent == crashed # "null ownerSession"

\* Service.cpp:62 asserts that a session being released is in sessions.
ReleaseFindsSession == crashed # "_session is not exist in the sessions."

=============================================================================
