--------------------------- MODULE SessionProofs ----------------------------
(***************************************************************************)
(* Proofs about Session, for any number of workers and sessions, any       *)
(* buffer sizes, either guard and whatever overlapped requests do: the     *)
(* receive chain is single, a completed receive fits, one thread prepares  *)
(* sendEvent, no buffer given to Send is lost, and the session count is    *)
(* off by the releases of a Release build and by nothing else.             *)
(***************************************************************************)
EXTENDS Session, FiniteSetTheorems, SequenceTheorems, TLAPS

-----------------------------------------------------------------------------
(* The inductive invariant.                                                 *)

ChainPCs == {"process_connect", "add_session", "insert_session", "register_recv",
             "process_recv", "on_recv"}
ScopePCs == {"add_session", "insert_session", "release_session", "uncount_session", "send",
             "register_send"}
HeldPCs  == {"insert_session", "uncount_session"}
SendPCs  == {"send", "register_send", "broadcast"}

\* What a thread has in its hands, by where it is: a session in every method of
\* Session, a scope only where WRITE_LOCK is, the sessions left to visit in
\* BroadCast and in the Send it calls.
InHand ==
    /\ arg \in [Threads -> Nat]
    /\ inScope \in [Threads -> {None, <<"service">>} \cup {<<"session", s>> : s \in Sessions}]
    /\ packets \in Nat
    /\ \A t \in Threads :
         /\ pc[t] \notin {"idle", "broadcast"} => self[t] \in Sessions
         /\ inScope[t] # None => pc[t] \in ScopePCs /\ inScope[t] = ScopeOf(t)
         /\ cast[t] # None => pc[t] \in SendPCs

Shape == TypeOK /\ InHand

\* Threads that have the WRITE_LOCK of the service.
InService(t) ==
    \/ /\ pc[t] \in {"add_session", "insert_session", "release_session", "uncount_session"}
       /\ inScope[t] # None
    \/ cast[t] # None

\* Between its two steps a thread keeps the scope.  Until a race is recorded one
\* thread is in the service's scope.
Alone ==
    /\ \A t \in Threads : pc[t] \in HeldPCs => inScope[t] # None
    /\ ~raced => \A t, u \in Threads : InService(t) /\ InService(u) => t = u

Asks(r, s)   == r[1] = s /\ r[2] \in {"CONNECT", "RECV"}
Reports(p, s) == p.session = s /\ p.event \in {"CONNECT", "RECV"}
Works(t, s)  == self[t] = s /\ pc[t] \in ChainPCs

\* The members of Receivers(s), kind by kind: at most one.
ChainOf(s) ==
    /\ \A p, q \in inFlight : Asks(p, s) /\ Asks(q, s) => p = q
    /\ \A i, j \in DOMAIN port : Reports(port[i], s) /\ Reports(port[j], s) => i = j
    /\ \A t, u \in Threads : Works(t, s) /\ Works(u, s) => t = u
    /\ \A r \in inFlight, i \in DOMAIN port : ~(Asks(r, s) /\ Reports(port[i], s))
    /\ \A r \in inFlight, t \in Threads : ~(Asks(r, s) /\ Works(t, s))
    /\ \A i \in DOMAIN port, t \in Threads : ~(Reports(port[i], s) /\ Works(t, s))

OneChain == \A s \in Sessions : ChainOf(s)

\* A chain begins with the one connect that Start makes for the session.
StartedFirst ==
    /\ \A r \in inFlight : r[2] \in {"CONNECT", "RECV"} => r[1] \in started
    /\ \A i \in DOMAIN port :
         port[i].event \in {"CONNECT", "RECV"} => port[i].session \in started
    /\ \A t \in Threads : pc[t] \in ChainPCs => self[t] \in started
    /\ sessions \subseteq started

\* A session that is still connecting is not in the service; one that is in it
\* has been connected.
AddedOnce ==
    /\ \A r \in inFlight : r[2] = "CONNECT" => r[1] \notin sessions
    /\ \A i \in DOMAIN port : port[i].event = "CONNECT" => port[i].session \notin sessions
    /\ \A t \in Threads :
         pc[t] \in {"process_connect", "add_session", "insert_session"} => self[t] \notin sessions
    /\ \A t \in Threads :
         pc[t] \in {"add_session", "insert_session"} => isConnected[self[t]]
    /\ \A s \in sessions : isConnected[s]

\* From WSARecv to OnWrite the free space is what was offered, and the cursors
\* are in order.
Fits ==
    /\ \A s \in Sessions : recvBuffer[s].rd <= recvBuffer[s].wr
    /\ \A r \in inFlight : r[2] = "RECV" => r[3] <= FreeSize(recvBuffer[r[1]])
    /\ \A i \in DOMAIN port :
         port[i].event = "RECV" => port[i].bytes <= FreeSize(recvBuffer[port[i].session])
    /\ RecvFits

Receiving == OneChain /\ StartedFirst /\ AddedOnce /\ Fits

\* The buffers Send has put in the session, oldest first.
Kept(s) == sendBuffers[s] \o sendQueue[s]

\* Sends under way have a buffer each, of those that were made.
OwnBuffer ==
    /\ \A t \in Threads : pc[t] \in SendPCs => arg[t] \in 1 .. sends
    /\ \A t, u \in Threads :
         pc[t] \in SendPCs /\ pc[u] \in SendPCs /\ arg[t] = arg[u] => t = u
    /\ \A s \in Sessions : given[s] \subseteq 1 .. sends

\* A buffer is given to a session before Send has the lock, and it is stored
\* once; what is stored was given.
Stored ==
    /\ \A t \in Threads : pc[t] = "send" => arg[t] \in given[self[t]]
    /\ \A s \in Sessions : \A i, j \in DOMAIN Kept(s) : Kept(s)[i] = Kept(s)[j] => i = j
    /\ \A s \in Sessions : \A n \in 1 .. MaxSends :
         (\E i \in DOMAIN Kept(s) : Kept(s)[i] = n)
           <=> n \in given[s] /\ \A t \in Threads :
                                   ~(pc[t] = "send" /\ self[t] = s /\ arg[t] = n)

\* BroadCast has given its buffer to the sessions it is through with, to no other.
Visited ==
    \A t \in Threads :
      /\ pc[t] = "broadcast" /\ cast[t] = None => \A s \in Sessions : arg[t] \notin given[s]
      /\ cast[t] # None => /\ \A s \in cast[t] : arg[t] \notin given[s]
                           /\ \A s \in sessions : s \in cast[t] \/ arg[t] \in given[s]

\* Who prepares sendEvent has set isSendRegistered, which nobody resets.
Registered ==
    /\ \A t \in Threads : pc[t] = "register_send" => isSendRegistered[self[t]]
    /\ \A t, u \in Threads :
         pc[t] = "register_send" /\ pc[u] = "register_send" /\ self[t] = self[u] => t = u

Sending == OwnBuffer /\ Stored /\ Visited /\ Registered

\* The threads that make the count differ from the set.
Between(t) == pc[t] = "insert_session" \/ (debug /\ pc[t] = "uncount_session")

\* The count is right, and a session that was erased stays out of the service
\* until it is uncounted.
CountRight ==
    /\ \A t \in Threads : debug /\ pc[t] = "uncount_session" => self[t] \notin sessions
    /\ CountMatchesSessions

IInv == Shape /\ Alone /\ Receiving /\ Sending /\ CountRight

-----------------------------------------------------------------------------
(* The shape of the state.                                                  *)

\* The buffer has room for a receive.
LEMMA CapacityFacts == capacity \in Nat
<1>1. BufferSize \in Nat /\ BufferCount \in Nat
  BY BufferAssumption
<1>. QED
  BY <1>1 DEF capacity

\* No set of sessions is None, no session either.
LEMMA NoneFacts == None \notin Sessions /\ \A S \in SUBSET Sessions : None # S
  BY SessionConstants

\* Where control goes: thread t is at l, in a method of s with argument x, the
\* others are where they were.
Lands(t, l, s, x) ==
    /\ pc'[t] = l /\ self'[t] = s /\ arg'[t] = x
    /\ \A u \in Threads \ {t} : pc'[u] = pc[u] /\ self'[u] = self[u] /\ arg'[u] = arg[u]

\* Thread t alone may enter, leave or walk.
OthersKeep(t) ==
    \A u \in Threads \ {t} : inScope'[u] = inScope[u] /\ cast'[u] = cast[u]

LEMMA ControlLands ==
  ASSUME Shape, NEW t \in Threads, NEW l, NEW s, NEW x, Control(t, l, s, x)
  PROVE  Lands(t, l, s, x)
  BY DEF Shape, TypeOK, InHand, Control, Lands

\* The scope is left.
LEMMA Left ==
  ASSUME Shape, NEW t \in Threads, LeaveScope(t)
  PROVE  /\ inScope'[t] = None
         /\ \A u \in Threads \ {t} : inScope'[u] = inScope[u]
         /\ inScope' \in [Threads -> {None, <<"service">>} \cup {<<"session", s>> : s \in Sessions}]
  BY DEF Shape, InHand, LeaveScope

\* What control has to satisfy where it goes.
LEMMA ControlShape ==
  ASSUME Shape, NEW t \in Threads, NEW l \in PCs, NEW s, NEW x, Control(t, l, s, x),
         s \in Sessions \cup {None}, x \in Nat, l \notin {"idle", "broadcast"} => s \in Sessions
  PROVE  /\ pc' \in [Threads -> PCs]
         /\ self' \in [Threads -> Sessions \cup {None}]
         /\ arg' \in [Threads -> Nat]
         /\ \A u \in Threads : pc'[u] \notin {"idle", "broadcast"} => self'[u] \in Sessions
  BY DEF Shape, TypeOK, InHand, Control

\* Scopes and walks where control goes.
LEMMA ScopeShape ==
  ASSUME Shape, NEW t \in Threads, NEW l, NEW s, NEW x, Lands(t, l, s, x), OthersKeep(t),
         inScope'[t] = None, cast'[t] # None => l \in SendPCs
  PROVE  \A u \in Threads :
           /\ inScope'[u] # None => pc'[u] \in ScopePCs /\ inScope'[u] = ScopeOf(u)'
           /\ cast'[u] # None => pc'[u] \in SendPCs
<1>1. ASSUME NEW u \in Threads, u # t
      PROVE  /\ inScope'[u] # None => pc'[u] \in ScopePCs /\ inScope'[u] = ScopeOf(u)'
             /\ cast'[u] # None => pc'[u] \in SendPCs
  BY <1>1 DEF Shape, InHand, Lands, OthersKeep, ScopeOf
<1>2. /\ inScope'[t] # None => pc'[t] \in ScopePCs /\ inScope'[t] = ScopeOf(t)'
      /\ cast'[t] # None => pc'[t] \in SendPCs
  BY DEF Lands
<1>. QED
  BY <1>1, <1>2

\* Goto in full.
LEMMA GotoLands ==
  ASSUME Shape, NEW t \in Threads, NEW l \in PCs, Goto(t, l),
         l # "idle" => l # "broadcast" /\ self[t] \in Sessions
  PROVE  /\ Lands(t, l, IF l = "idle" THEN None ELSE self[t], IF l = "idle" THEN 0 ELSE arg[t])
         /\ cast' = cast
         /\ pc' \in [Threads -> PCs]
         /\ self' \in [Threads -> Sessions \cup {None}]
         /\ arg' \in [Threads -> Nat]
         /\ \A u \in Threads : pc'[u] \notin {"idle", "broadcast"} => self'[u] \in Sessions
<1>. DEFINE s == IF l = "idle" THEN None ELSE self[t]
            x == IF l = "idle" THEN 0 ELSE arg[t]
<1>1. Control(t, l, s, x) /\ cast' = cast
  BY DEF Goto, Begin
<1>2. /\ s \in Sessions \cup {None} /\ x \in Nat
      /\ l \notin {"idle", "broadcast"} => s \in Sessions
  BY DEF Shape, InHand
<1>. HIDE DEF s, x
<1>3. Lands(t, l, s, x)
  BY <1>1, ControlLands
<1>4. /\ pc' \in [Threads -> PCs]
      /\ self' \in [Threads -> Sessions \cup {None}]
      /\ arg' \in [Threads -> Nat]
      /\ \A u \in Threads : pc'[u] \notin {"idle", "broadcast"} => self'[u] \in Sessions
  BY <1>1, <1>2, ControlShape
<1>. QED
  BY <1>1, <1>3, <1>4 DEF s, x

\* A Goto with the scope as it is, from where there is none.
LEMMA GotoShape ==
  ASSUME Shape, NEW t \in Threads, NEW l \in PCs, Goto(t, l), inScope' = inScope,
         pc[t] \notin ScopePCs, pc[t] \notin SendPCs,
         l # "idle" => l # "broadcast" /\ self[t] \in Sessions
  PROVE  /\ InHand' <=> packets' \in Nat
         /\ pc' \in [Threads -> PCs] /\ self' \in [Threads -> Sessions \cup {None}]
         /\ cast' \in [Threads -> (SUBSET Sessions) \cup {None}]
<1>. DEFINE s == IF l = "idle" THEN None ELSE self[t]
            x == IF l = "idle" THEN 0 ELSE arg[t]
<1>1. /\ Lands(t, l, s, x) /\ cast' = cast
      /\ pc' \in [Threads -> PCs]
      /\ self' \in [Threads -> Sessions \cup {None}]
      /\ arg' \in [Threads -> Nat]
      /\ \A u \in Threads : pc'[u] \notin {"idle", "broadcast"} => self'[u] \in Sessions
  BY GotoLands
<1>. HIDE DEF s, x
<1>2. OthersKeep(t) /\ inScope'[t] = None /\ cast'[t] = None
  BY <1>1 DEF OthersKeep, Shape, InHand
<1>3. \A u \in Threads :
        /\ inScope'[u] # None => pc'[u] \in ScopePCs /\ inScope'[u] = ScopeOf(u)'
        /\ cast'[u] # None => pc'[u] \in SendPCs
  BY <1>1, <1>2, ScopeShape
<1>. QED
  BY <1>1, <1>3 DEF InHand, Shape, TypeOK

\* A Goto that leaves the scope.
LEMMA LeaveShape ==
  ASSUME Shape, NEW t \in Threads, NEW l \in PCs, Goto(t, l), LeaveScope(t),
         cast[t] # None => l \in SendPCs,
         l # "idle" => l # "broadcast" /\ self[t] \in Sessions
  PROVE  /\ InHand' <=> packets' \in Nat
         /\ pc' \in [Threads -> PCs] /\ self' \in [Threads -> Sessions \cup {None}]
         /\ cast' \in [Threads -> (SUBSET Sessions) \cup {None}]
<1>. DEFINE s == IF l = "idle" THEN None ELSE self[t]
            x == IF l = "idle" THEN 0 ELSE arg[t]
<1>1. /\ Lands(t, l, s, x) /\ cast' = cast
      /\ pc' \in [Threads -> PCs]
      /\ self' \in [Threads -> Sessions \cup {None}]
      /\ arg' \in [Threads -> Nat]
      /\ \A u \in Threads : pc'[u] \notin {"idle", "broadcast"} => self'[u] \in Sessions
  BY GotoLands
<1>. HIDE DEF s, x
<1>2. /\ inScope' \in [Threads -> {None, <<"service">>} \cup {<<"session", z>> : z \in Sessions}]
      /\ inScope'[t] = None
      /\ \A u \in Threads \ {t} : inScope'[u] = inScope[u]
  BY Left
<1>3. OthersKeep(t) /\ (cast'[t] # None => l \in SendPCs)
  BY <1>1, <1>2 DEF OthersKeep
<1>4. \A u \in Threads :
        /\ inScope'[u] # None => pc'[u] \in ScopePCs /\ inScope'[u] = ScopeOf(u)'
        /\ cast'[u] # None => pc'[u] \in SendPCs
  BY <1>1, <1>2, <1>3, ScopeShape
<1>. QED
  BY <1>1, <1>2, <1>4 DEF InHand, Shape, TypeOK

\* The kernel's steps keep the shape: a packet carries what fits the window.
LEMMA PacketTyped ==
  ASSUME Shape, NEW s \in Sessions, NEW e \in EventTypes, NEW n \in 0 .. capacity
  PROVE  Append(port, Packet(s, e, n))
            \in Seq([session : Sessions, event : EventTypes, bytes : 0 .. capacity])
<1>1. port \in Seq([session : Sessions, event : EventTypes, bytes : 0 .. capacity])
  BY DEF Shape, TypeOK
<1>2. Packet(s, e, n) \in [session : Sessions, event : EventTypes, bytes : 0 .. capacity]
  BY DEF Packet
<1>. HIDE DEF Packet
<1>. QED
  BY <1>1, <1>2, AppendProperties

\* A packet enters the port, which has it last, after what it had.
Arrives(s, e, n) == port' = Append(port, Packet(s, e, n))

\* The packet of s for e is the new last one, at index last.
LastIs(last, s, e, n) ==
    /\ DOMAIN port' = DOMAIN port \cup {last} /\ last \notin DOMAIN port
    /\ \A i \in DOMAIN port : port'[i] = port[i]
    /\ port'[last].session = s /\ port'[last].event = e /\ port'[last].bytes = n

LEMMA PacketLast ==
  ASSUME Shape, NEW s \in Sessions, NEW e \in EventTypes, NEW n \in 0 .. capacity,
         Arrives(s, e, n)
  PROVE  \E last : LastIs(last, s, e, n)
<1>. DEFINE p == Packet(s, e, n)
<1>2. /\ p.session = s /\ p.event = e /\ p.bytes = n
      /\ p \in [session : Sessions, event : EventTypes, bytes : 0 .. capacity]
  BY DEF Packet
<1>. HIDE DEF p
<1>3. port' = Append(port, p)
  BY DEF p, Arrives
<1>4. port \in Seq([session : Sessions, event : EventTypes, bytes : 0 .. capacity])
  BY DEF Shape, TypeOK
<1>1. /\ Append(port, p) \in Seq([session : Sessions, event : EventTypes, bytes : 0 .. capacity])
      /\ Len(Append(port, p)) = Len(port) + 1
      /\ \A i \in 1 .. Len(port) : Append(port, p)[i] = port[i]
      /\ Append(port, p)[Len(port) + 1] = p
  BY <1>2, <1>4, AppendProperties
<1>5. PICK last : last = Len(port) + 1
  OBVIOUS
<1>6. Len(port) \in Nat /\ DOMAIN port = 1 .. Len(port) /\ DOMAIN port' = 1 .. (Len(port) + 1)
  BY <1>1, <1>3, <1>4, LenProperties
<1>7. DOMAIN port' = DOMAIN port \cup {last} /\ last \notin DOMAIN port
  BY <1>5, <1>6
<1>8. /\ \A i \in DOMAIN port : port'[i] = port[i]
      /\ port'[last] = p
  BY <1>1, <1>3, <1>5, <1>6
<1>9. LastIs(last, s, e, n)
  BY <1>2, <1>7, <1>8 DEF LastIs
<1>. QED
  BY <1>9

\* A window is what the buffer has free, and no more is delivered.
LEMMA WindowTyped ==
  ASSUME Shape, NEW s \in Sessions
  PROVE  /\ RecvWindow(s) \in 0 .. capacity
         /\ RecvWindow(s) = FreeSize(recvBuffer[s])
<1>1. recvBuffer[s].wr \in 0 .. capacity
  BY DEF Shape, TypeOK
<1>. QED
  BY <1>1, CapacityFacts DEF RecvWindow, FreeSize

LEMMA DeliverableFits ==
  ASSUME NEW s, NEW window \in 0 .. capacity, NEW n \in Deliverable(s, window)
  PROVE  n \in 0 .. capacity /\ n <= window
  BY CapacityFacts DEF Deliverable

LEMMA CompleteConnectShape ==
  ASSUME Shape, NEW s \in Sessions, CompleteConnect(s)
  PROVE  Shape'
<1>1. port' \in Seq([session : Sessions, event : EventTypes, bytes : 0 .. capacity])
  <2>1. 0 \in 0 .. capacity /\ "CONNECT" \in EventTypes
    BY CapacityFacts DEF EventTypes
  <2>. QED
    BY <2>1, PacketTyped DEF CompleteConnect
<1>. QED
  BY <1>1 DEF CompleteConnect, Shape, TypeOK, InHand, ScopeOf, netVars, sendVars, svcVars, ctlVars

LEMMA CompleteDisconnectShape ==
  ASSUME Shape, NEW s \in Sessions, CompleteDisconnect(s)
  PROVE  Shape'
<1>1. port' \in Seq([session : Sessions, event : EventTypes, bytes : 0 .. capacity])
  <2>1. 0 \in 0 .. capacity /\ "DISCONNECT" \in EventTypes
    BY CapacityFacts DEF EventTypes
  <2>. QED
    BY <2>1, PacketTyped DEF CompleteDisconnect
<1>. QED
  BY <1>1 DEF CompleteDisconnect, Shape, TypeOK, InHand, ScopeOf, netVars, sendVars, svcVars,
              ctlVars

\* What CompleteRecv does, with the request and the bytes delivered.
LEMMA CompleteRecvEffect ==
  ASSUME Shape, NEW s \in Sessions, CompleteRecv(s)
  PROVE  \E r \in inFlight, n \in 0 .. capacity :
           /\ r[1] = s /\ r[2] = "RECV" /\ n <= r[3]
           /\ inFlight' = inFlight \ {r}
           /\ port' = Append(port, Packet(s, "RECV", n))
<1>1. PICK r \in inFlight :
        /\ r[1] = s /\ r[2] = "RECV" /\ inFlight' = inFlight \ {r}
        /\ \E n \in Deliverable(s, r[3]) : port' = Append(port, Packet(s, "RECV", n))
  BY DEF CompleteRecv
<1>2. PICK n \in Deliverable(s, r[3]) : port' = Append(port, Packet(s, "RECV", n))
  BY <1>1
<1>3. r[3] \in 0 .. capacity
  BY DEF Shape, TypeOK
<1>4. n \in 0 .. capacity /\ n <= r[3]
  BY <1>3, DeliverableFits
<1>. QED
  BY <1>1, <1>2, <1>4

LEMMA CompleteRecvShape ==
  ASSUME Shape, NEW s \in Sessions, CompleteRecv(s)
  PROVE  Shape'
<1>1. PICK r \in inFlight, n \in 0 .. capacity :
           /\ r[1] = s /\ r[2] = "RECV" /\ n <= r[3]
           /\ inFlight' = inFlight \ {r}
           /\ port' = Append(port, Packet(s, "RECV", n))
  BY CompleteRecvEffect
<1>2. port' \in Seq([session : Sessions, event : EventTypes, bytes : 0 .. capacity])
  BY <1>1, PacketTyped DEF EventTypes
<1>3. inFlight' \subseteq Sessions \X EventTypes \X (0 .. capacity)
  BY <1>1 DEF Shape, TypeOK
<1>4. packets' \in Nat
  BY DEF CompleteRecv, Shape, InHand
<1>. QED
  BY <1>2, <1>3, <1>4 DEF CompleteRecv, Shape, TypeOK, InHand, ScopeOf, netVars, sendVars, svcVars,
                          ctlVars

LEMMA PeerClosesShape ==
  ASSUME Shape, NEW s \in Sessions, PeerCloses(s)
  PROVE  Shape'
  BY DEF PeerCloses, Shape, TypeOK, InHand, ScopeOf, netVars, sendVars, svcVars, ctlVars

LEMMA StartConnectShape ==
  ASSUME Shape, NEW t \in Threads, NEW s \in Sessions, StartConnect(t, s)
  PROVE  Shape'
<1>1. PICK o \in Outcomes :
         /\ RegisterConnect(s, o)
         /\ started' = IF o = "refused" THEN Sessions ELSE started \cup {s}
  BY DEF StartConnect
<1>2. owner' \in [Sessions -> [EventTypes -> BOOLEAN]]
  <2>1. CASE owner' = owner
    BY <2>1 DEF Shape, TypeOK
  <2>2. CASE owner' = [owner EXCEPT ![s]["CONNECT"] = TRUE,
                                    ![s]["DISCONNECT"] = @ /\ o # "refused"]
    BY <2>2 DEF Shape, TypeOK, EventTypes
  <2>. QED
    BY <1>1, <2>1, <2>2 DEF RegisterConnect
<1>3. inFlight' \subseteq Sessions \X EventTypes \X (0 .. capacity)
  BY <1>1, CapacityFacts DEF RegisterConnect, Shape, TypeOK, EventTypes
<1>4. started' \subseteq Sessions
  BY <1>1 DEF Shape, TypeOK
<1>. QED
  BY <1>2, <1>3, <1>4 DEF StartConnect, Shape, TypeOK, InHand, ScopeOf, sendVars, svcVars, ctlVars

\* Setting an owner keeps the owners' type.
LEMMA OwnerTyped ==
  ASSUME Shape, NEW s \in Sessions, NEW e \in EventTypes, NEW v \in BOOLEAN, SetOwner(s, e, v)
  PROVE  owner' \in [Sessions -> [EventTypes -> BOOLEAN]]
  BY DEF SetOwner, Shape, TypeOK

LEMMA RegisterDisconnectShape ==
  ASSUME Shape, NEW t \in Threads, NEW s \in Sessions, RegisterDisconnect(t, s)
  PROVE  Shape'
<1>1. owner' \in [Sessions -> [EventTypes -> BOOLEAN]]
  <2>1. "DISCONNECT" \in EventTypes
    BY DEF EventTypes
  <2>2. \E v \in BOOLEAN : SetOwner(s, "DISCONNECT", v)
    BY DEF RegisterDisconnect
  <2>. QED
    BY <2>1, <2>2, OwnerTyped
<1>2. inFlight' \subseteq Sessions \X EventTypes \X (0 .. capacity)
  <2>1. <<s, "DISCONNECT", 0>> \in Sessions \X EventTypes \X (0 .. capacity)
    BY CapacityFacts DEF EventTypes
  <2>2. inFlight' = inFlight \/ inFlight' = inFlight \cup {<<s, "DISCONNECT", 0>>}
    BY DEF RegisterDisconnect
  <2>. QED
    BY <2>1, <2>2 DEF Shape, TypeOK
<1>. QED
  BY <1>1, <1>2 DEF RegisterDisconnect, Shape, TypeOK, InHand, ScopeOf, sendVars, svcVars, ctlVars

LEMMA CrashShape ==
  ASSUME Shape, NEW why, Crash(why)
  PROVE  Shape'
  BY DEF Crash, Shape, TypeOK, InHand, ScopeOf, netVars, sendVars, svcVars, kernelVars, ctlVars

\* What Dispatch does: the oldest packet becomes a call.
LEMMA DispatchEffect ==
  ASSUME Shape, NEW t \in Threads, Dispatch(t)
  PROVE  \/ Crash("null ownerSession")
         \/ \E l \in {"process_connect", "process_disconnect", "process_recv"},
               s \in Sessions, n \in 0 .. capacity :
              /\ Len(port) > 0
              /\ port[1].session = s /\ port[1].bytes = n
              /\ l = "process_connect" <=> port[1].event = "CONNECT"
              /\ l = "process_recv" <=> port[1].event = "RECV"
              /\ Control(t, l, s, n) /\ UNCHANGED cast
              /\ port' \in Seq([session : Sessions, event : EventTypes, bytes : 0 .. capacity])
              /\ Len(port') = Len(port) - 1
              /\ \A i \in 1 .. Len(port') : port'[i] = port[i + 1]
              /\ UNCHANGED <<netVars, sendVars, svcVars, link, inFlight, packets, started,
                             inScope, raced>>
<1>1. /\ port \in Seq([session : Sessions, event : EventTypes, bytes : 0 .. capacity])
      /\ port # << >>
  BY DEF Dispatch, Shape, TypeOK
<1>2. /\ Len(port) > 0 /\ Head(port) = port[1] /\ port[1] \in [session : Sessions, event : EventTypes, bytes : 0 .. capacity]
      /\ Tail(port) \in Seq([session : Sessions, event : EventTypes, bytes : 0 .. capacity])
      /\ Len(Tail(port)) = Len(port) - 1
      /\ \A i \in 1 .. Len(Tail(port)) : Tail(port)[i] = port[i + 1]
  <2>1. Len(port) > 0
    BY <1>1, EmptySeq
  <2>2. 1 \in 1 .. Len(port)
    BY <1>1, <2>1, LenProperties
  <2>3. port[1] \in [session : Sessions, event : EventTypes, bytes : 0 .. capacity]
    BY <1>1, <2>2, ElementOfSeq
  <2>4. Head(port) = port[1]
    BY <1>1, <2>1
  <2>. QED
    BY <1>1, <2>1, <2>3, <2>4, HeadTailProperties
<1>3. CASE ~owner[Head(port).session][Head(port).event]
  BY <1>3 DEF Dispatch
<1>4. CASE owner[Head(port).session][Head(port).event]
  <2>1. port' = Tail(port)
    BY <1>4 DEF Dispatch
  <2>2. UNCHANGED <<netVars, sendVars, svcVars, link, inFlight, packets, started, inScope, raced>>
    BY <1>4 DEF Dispatch
  <2>3. Begin(t, CASE port[1].event = "CONNECT"    -> "process_connect"
                   [] port[1].event = "DISCONNECT" -> "process_disconnect"
                   [] port[1].event = "RECV"       -> "process_recv",
              port[1].session, port[1].bytes)
    BY <1>2, <1>4 DEF Dispatch
  <2>4. PICK l \in {"process_connect", "process_disconnect", "process_recv"} :
          /\ l = "process_connect" <=> port[1].event = "CONNECT"
          /\ l = "process_recv" <=> port[1].event = "RECV"
          /\ Begin(t, l, port[1].session, port[1].bytes)
    <3>1. CASE port[1].event = "CONNECT"
      BY <2>3, <3>1
    <3>2. CASE port[1].event = "DISCONNECT"
      BY <2>3, <3>2
    <3>3. CASE port[1].event = "RECV"
      BY <2>3, <3>3
    <3>. QED
      BY <1>2, <3>1, <3>2, <3>3 DEF EventTypes
  <2>. QED
    BY <1>2, <2>1, <2>2, <2>4 DEF Begin
<1>. QED
  BY <1>3, <1>4

LEMMA DispatchShape ==
  ASSUME Shape, NEW t \in Threads, Dispatch(t)
  PROVE  Shape'
<1>1. CASE Crash("null ownerSession")
  BY <1>1, CrashShape
<1>2. ASSUME NEW l \in {"process_connect", "process_disconnect", "process_recv"},
             NEW s \in Sessions, NEW n \in 0 .. capacity,
             Control(t, l, s, n), cast' = cast,
             port' \in Seq([session : Sessions, event : EventTypes, bytes : 0 .. capacity]),
             UNCHANGED <<netVars, sendVars, svcVars, link, inFlight, packets, started,
                         inScope, raced>>
      PROVE  Shape'
  <2>1. At(t, "idle") /\ inScope[t] = None /\ cast[t] = None
    BY DEF Dispatch, At, Shape, InHand, ScopePCs, SendPCs
  <2>2. l \in PCs /\ n \in Nat
    BY CapacityFacts DEF PCs
  <2>3. Lands(t, l, s, n)
    BY <1>2, ControlLands
  <2>4. /\ pc' \in [Threads -> PCs]
        /\ self' \in [Threads -> Sessions \cup {None}]
        /\ arg' \in [Threads -> Nat]
        /\ \A u \in Threads : pc'[u] \notin {"idle", "broadcast"} => self'[u] \in Sessions
    BY <1>2, <2>2, ControlShape
  <2>5. \A u \in Threads :
           /\ inScope'[u] # None => pc'[u] \in ScopePCs /\ inScope'[u] = ScopeOf(u)'
           /\ cast'[u] # None => pc'[u] \in SendPCs
    BY <1>2, <2>1, <2>3, ScopeShape DEF OthersKeep
  <2>6. InHand'
    BY <1>2, <2>4, <2>5 DEF InHand, Shape
  <2>. QED
    BY <1>2, <2>4, <2>6 DEF Shape, TypeOK, netVars, sendVars, svcVars
<1>. QED
  BY <1>1, <1>2, DispatchEffect

\* RecvBuffer::OnWrite, when it returns true, keeps the cursors in the buffer.
LEMMA OnWriteFacts ==
  ASSUME NEW b \in [rd : 0 .. capacity, wr : 0 .. capacity], NEW n \in Nat, OnWrite(b, n).ok
  PROVE  /\ OnWrite(b, n).b \in [rd : 0 .. capacity, wr : 0 .. capacity]
         /\ b.rd <= b.wr => OnWrite(b, n).b.rd <= OnWrite(b, n).b.wr
<1>1. ~(n > FreeSize(b))
  BY DEF OnWrite
<1>2. OnWrite(b, n).b = [b EXCEPT !.wr = @ + n]
  BY <1>1 DEF OnWrite
<1>. QED
  BY <1>1, <1>2, CapacityFacts DEF FreeSize

\* OnRead of no more than there is, and Clean, keep them there.
LEMMA OnReadFacts ==
  ASSUME NEW b \in [rd : 0 .. capacity, wr : 0 .. capacity], NEW n \in Nat, n <= DataSize(b)
  PROVE  /\ Clean(OnRead(b, n).b) \in [rd : 0 .. capacity, wr : 0 .. capacity]
         /\ Clean(OnRead(b, n).b).rd <= Clean(OnRead(b, n).b).wr
<1>. DEFINE c == OnRead(b, n).b
<1>1. ~(n > DataSize(b))
  BY CapacityFacts DEF DataSize
<1>2. c = [b EXCEPT !.rd = @ + n]
  BY <1>1 DEF OnRead
<1>3. c \in [rd : 0 .. capacity, wr : 0 .. capacity] /\ c.rd <= c.wr
  BY <1>1, <1>2, CapacityFacts DEF DataSize
<1>. HIDE DEF c
<1>4. DataSize(c) \in 0 .. capacity
  BY <1>3, CapacityFacts DEF DataSize
<1>5. CASE DataSize(c) = 0
  BY <1>5, CapacityFacts DEF Clean, EmptyBuffer, c
<1>6. CASE DataSize(c) # 0 /\ Compacts(c)
  <2>1. Clean(c) = [rd |-> 0, wr |-> DataSize(c)]
    BY <1>6 DEF Clean
  <2>. QED
    BY <1>4, <2>1, CapacityFacts DEF c
<1>7. CASE DataSize(c) # 0 /\ ~Compacts(c)
  <2>1. Clean(c) = c
    BY <1>7 DEF Clean
  <2>. QED
    BY <1>3, <2>1 DEF c
<1>. QED
  BY <1>5, <1>6, <1>7

LEMMA ProcessConnectShape ==
  ASSUME Shape, NEW t \in Threads, ProcessConnect(t)
  PROVE  Shape'
<1>1. pc[t] = "process_connect" /\ self[t] \in Sessions
  BY DEF ProcessConnect, At, Shape, InHand
<1>2. /\ InHand' <=> packets' \in Nat
      /\ pc' \in [Threads -> PCs] /\ self' \in [Threads -> Sessions \cup {None}]
      /\ cast' \in [Threads -> (SUBSET Sessions) \cup {None}]
  <2>1. "add_session" \in PCs
    BY DEF PCs
  <2>2. pc[t] \notin ScopePCs /\ pc[t] \notin SendPCs
    BY <1>1 DEF ScopePCs, SendPCs
  <2>3. Goto(t, "add_session") /\ inScope' = inScope
    BY DEF ProcessConnect
  <2>. QED
    BY <1>1, <2>1, <2>2, <2>3, GotoShape
<1>3. InHand'
  BY <1>2 DEF ProcessConnect, kernelVars, Shape, InHand
<1>4. owner' \in [Sessions -> [EventTypes -> BOOLEAN]]
  BY <1>1, OwnerTyped DEF ProcessConnect, EventTypes
<1>. QED
  BY <1>1, <1>2, <1>3, <1>4 DEF ProcessConnect, Shape, TypeOK, sendVars, svcVars, kernelVars

\* A thread goes from one step in the service's scope to the next.
LEMMA HoldShape ==
  ASSUME Shape, NEW t \in Threads, NEW l \in HeldPCs, Goto(t, l), inScope' = inScope,
         pc[t] \in {"add_session", "release_session"}
  PROVE  /\ InHand' <=> packets' \in Nat
         /\ pc' \in [Threads -> PCs] /\ self' \in [Threads -> Sessions \cup {None}]
         /\ cast' \in [Threads -> (SUBSET Sessions) \cup {None}]
<1>1. self[t] \in Sessions /\ cast[t] = None
  BY DEF Shape, InHand, SendPCs
<1>2. l \in PCs /\ l # "idle" /\ l # "broadcast" /\ l \in ScopePCs
  BY DEF HeldPCs, PCs, ScopePCs
<1>3. /\ Lands(t, l, self[t], arg[t]) /\ cast' = cast
      /\ pc' \in [Threads -> PCs]
      /\ self' \in [Threads -> Sessions \cup {None}]
      /\ arg' \in [Threads -> Nat]
      /\ \A u \in Threads : pc'[u] \notin {"idle", "broadcast"} => self'[u] \in Sessions
  BY <1>1, <1>2, GotoLands
<1>4. \A u \in Threads : ScopeOf(u)' = ScopeOf(u)
  BY <1>3 DEF ScopeOf, Lands, HeldPCs
<1>5. \A u \in Threads :
        /\ inScope'[u] # None => pc'[u] \in ScopePCs /\ inScope'[u] = ScopeOf(u)'
        /\ cast'[u] # None => pc'[u] \in SendPCs
  <2>1. \A u \in Threads : pc'[u] \in ScopePCs \/ pc'[u] = pc[u]
    BY <1>2, <1>3 DEF Lands
  <2>2. \A u \in Threads : cast[u] # None => pc'[u] = pc[u]
    BY <1>1, <1>3 DEF Lands
  <2>. QED
    BY <1>3, <1>4, <2>1, <2>2 DEF Shape, InHand
<1>. QED
  BY <1>3, <1>5 DEF InHand, Shape, TypeOK

LEMMA AddSessionShape ==
  ASSUME Shape, NEW t \in Threads, AddSession(t)
  PROVE  Shape'
<1>1. /\ InHand' <=> packets' \in Nat
      /\ pc' \in [Threads -> PCs] /\ self' \in [Threads -> Sessions \cup {None}]
      /\ cast' \in [Threads -> (SUBSET Sessions) \cup {None}]
  BY HoldShape DEF AddSession, At, HeldPCs
<1>2. InHand'
  BY <1>1 DEF AddSession, kernelVars, Shape, InHand
<1>3. sessionCount' \in Int
  BY DEF AddSession, Shape, TypeOK
<1>. QED
  BY <1>1, <1>2, <1>3 DEF AddSession, Shape, TypeOK, netVars, sendVars, kernelVars

LEMMA InsertSessionShape ==
  ASSUME Shape, NEW t \in Threads, InsertSession(t)
  PROVE  Shape'
<1>1. pc[t] = "insert_session" /\ self[t] \in Sessions /\ cast[t] = None
  BY DEF InsertSession, At, Shape, InHand, SendPCs
<1>2. /\ InHand' <=> packets' \in Nat
      /\ pc' \in [Threads -> PCs] /\ self' \in [Threads -> Sessions \cup {None}]
      /\ cast' \in [Threads -> (SUBSET Sessions) \cup {None}]
  <2>1. "register_recv" \in PCs
    BY DEF PCs
  <2>2. Goto(t, "register_recv") /\ LeaveScope(t)
    BY DEF InsertSession
  <2>. QED
    BY <1>1, <2>1, <2>2, LeaveShape
<1>3. InHand'
  BY <1>2 DEF InsertSession, kernelVars, Shape, InHand
<1>4. sessions' \subseteq Sessions
  BY <1>1 DEF InsertSession, Shape, TypeOK
<1>. QED
  BY <1>2, <1>3, <1>4 DEF InsertSession, Shape, TypeOK, netVars, sendVars, kernelVars

\* What RegisterRecv does: it gives up, or the request is pending, or it is
\* done and its packet is in the port.
LEMMA RegisterRecvEffect ==
  ASSUME Shape, NEW t \in Threads, RegisterRecv(t)
  PROVE  /\ pc[t] = "register_recv" /\ self[t] \in Sessions
         /\ owner' \in [Sessions -> [EventTypes -> BOOLEAN]]
         /\ UNCHANGED <<isConnected, recvBuffer, sendVars, svcVars, link, started, inScope, raced,
                        crashed>>
         /\ \/ Goto(t, "idle") /\ UNCHANGED <<inFlight, port, packets>>
            \/ /\ inFlight' = inFlight \cup {<<self[t], "RECV", RecvWindow(self[t])>>}
               /\ Goto(t, "idle") /\ UNCHANGED <<port, packets>>
            \/ /\ \E n \in 0 .. capacity : n <= RecvWindow(self[t])
                                           /\ port' = Append(port, Packet(self[t], "RECV", n))
               /\ packets' \in Nat
               /\ Goto(t, "recv_returned") /\ UNCHANGED inFlight
<1>1. pc[t] = "register_recv" /\ self[t] \in Sessions
  BY DEF RegisterRecv, At, Shape, InHand
<1>2. CASE ~isConnected[self[t]]
  BY <1>1, <1>2 DEF RegisterRecv, Shape, TypeOK
<1>3. CASE isConnected[self[t]]
  <2>1. SetOwner(self[t], "RECV", TRUE)
    BY <1>3 DEF RegisterRecv
  <2>2. owner' \in [Sessions -> [EventTypes -> BOOLEAN]]
    BY <1>1, <2>1, OwnerTyped DEF EventTypes
  <2>3. UNCHANGED <<isConnected, recvBuffer, sendVars, svcVars, link, started, inScope, raced,
                    crashed>>
    BY DEF RegisterRecv
  <2>4. CASE Goto(t, "idle") /\ UNCHANGED <<inFlight, port, packets>>
    BY <1>1, <2>2, <2>3, <2>4
  <2>5. CASE /\ inFlight' = inFlight \cup {<<self[t], "RECV", RecvWindow(self[t])>>}
             /\ Goto(t, "idle") /\ UNCHANGED <<port, packets>>
    BY <1>1, <2>2, <2>3, <2>5
  <2>6. CASE /\ \E n \in Deliverable(self[t], RecvWindow(self[t])) :
                   port' = Append(port, Packet(self[t], "RECV", n))
             /\ packets' = packets + 1
             /\ Goto(t, "recv_returned") /\ UNCHANGED inFlight
    <3>1. packets' \in Nat
      BY <1>1, <2>6 DEF Shape, InHand
    <3>2. PICK n \in Deliverable(self[t], RecvWindow(self[t])) :
            port' = Append(port, Packet(self[t], "RECV", n))
      BY <2>6
    <3>3. n \in 0 .. capacity /\ n <= RecvWindow(self[t])
      BY <1>1, WindowTyped, DeliverableFits
    <3>. QED
      BY <1>1, <2>2, <2>3, <2>6, <3>1, <3>2, <3>3
  <2>. QED
    BY <1>3, <2>4, <2>5, <2>6 DEF RegisterRecv
<1>. QED
  BY <1>2, <1>3

LEMMA RegisterRecvShape ==
  ASSUME Shape, NEW t \in Threads, RegisterRecv(t)
  PROVE  Shape'
<1>1. /\ pc[t] = "register_recv" /\ self[t] \in Sessions
      /\ owner' \in [Sessions -> [EventTypes -> BOOLEAN]]
      /\ UNCHANGED <<isConnected, recvBuffer, sendVars, svcVars, link, started, inScope, raced,
                     crashed>>
  BY RegisterRecvEffect
<1>2. /\ inFlight' \subseteq Sessions \X EventTypes \X (0 .. capacity)
      /\ port' \in Seq([session : Sessions, event : EventTypes, bytes : 0 .. capacity])
      /\ packets' \in Nat
      /\ Goto(t, "idle") \/ Goto(t, "recv_returned")
  <2>1. "RECV" \in EventTypes
    BY DEF EventTypes
  <2>2. CASE Goto(t, "idle") /\ UNCHANGED <<inFlight, port, packets>>
    BY <2>2 DEF Shape, TypeOK, InHand
  <2>3. CASE /\ inFlight' = inFlight \cup {<<self[t], "RECV", RecvWindow(self[t])>>}
             /\ Goto(t, "idle") /\ UNCHANGED <<port, packets>>
    <3>1. RecvWindow(self[t]) \in 0 .. capacity
      BY <1>1, WindowTyped
    <3>. QED
      BY <1>1, <2>1, <2>3, <3>1 DEF Shape, TypeOK, InHand
  <2>4. CASE /\ \E n \in 0 .. capacity : n <= RecvWindow(self[t])
                                         /\ port' = Append(port, Packet(self[t], "RECV", n))
             /\ packets' \in Nat
             /\ Goto(t, "recv_returned") /\ UNCHANGED inFlight
    <3>1. port' \in Seq([session : Sessions, event : EventTypes, bytes : 0 .. capacity])
      <4>1. PICK n \in 0 .. capacity : port' = Append(port, Packet(self[t], "RECV", n))
        BY <2>4
      <4>. QED
        BY <1>1, <2>1, <4>1, PacketTyped
    <3>. QED
      BY <2>4, <3>1 DEF Shape, TypeOK
  <2>. QED
    BY <2>2, <2>3, <2>4, RegisterRecvEffect
<1>3. /\ InHand' <=> packets' \in Nat
      /\ pc' \in [Threads -> PCs] /\ self' \in [Threads -> Sessions \cup {None}]
      /\ cast' \in [Threads -> (SUBSET Sessions) \cup {None}]
  <2>1. "idle" \in PCs /\ "recv_returned" \in PCs
    BY DEF PCs
  <2>2. pc[t] \notin ScopePCs /\ pc[t] \notin SendPCs /\ inScope' = inScope
    BY <1>1 DEF ScopePCs, SendPCs
  <2>3. CASE Goto(t, "idle")
    BY <1>1, <2>1, <2>2, <2>3, GotoShape
  <2>4. CASE Goto(t, "recv_returned")
    BY <1>1, <2>1, <2>2, <2>4, GotoShape
  <2>. QED
    BY <1>2, <2>3, <2>4
<1>. QED
  BY <1>1, <1>2, <1>3 DEF Shape, TypeOK, sendVars, svcVars

LEMMA RecvReturnedShape ==
  ASSUME Shape, NEW t \in Threads, RecvReturned(t)
  PROVE  Shape'
<1>1. pc[t] = "recv_returned" /\ self[t] \in Sessions
  BY DEF RecvReturned, At, Shape, InHand
<1>2. /\ InHand' <=> packets' \in Nat
      /\ pc' \in [Threads -> PCs] /\ self' \in [Threads -> Sessions \cup {None}]
      /\ cast' \in [Threads -> (SUBSET Sessions) \cup {None}]
  <2>1. "idle" \in PCs
    BY DEF PCs
  <2>2. pc[t] \notin ScopePCs /\ pc[t] \notin SendPCs
    BY <1>1 DEF ScopePCs, SendPCs
  <2>3. Goto(t, "idle") /\ inScope' = inScope
    BY DEF RecvReturned
  <2>. QED
    BY <2>1, <2>2, <2>3, GotoShape
<1>3. InHand'
  BY <1>2 DEF RecvReturned, kernelVars, Shape, InHand
<1>4. owner' \in [Sessions -> [EventTypes -> BOOLEAN]]
  <2>1. CASE UNCHANGED owner
    BY <2>1 DEF Shape, TypeOK
  <2>2. CASE SetOwner(self[t], "RECV", FALSE)
    BY <1>1, <2>2, OwnerTyped DEF EventTypes
  <2>. QED
    BY <2>1, <2>2 DEF RecvReturned
<1>. QED
  BY <1>2, <1>3, <1>4 DEF RecvReturned, Shape, TypeOK, sendVars, svcVars, kernelVars

\* ProcessRecv and OnRecvReturns change the buffer of one session, keep its
\* cursors in order and go on in the chain or leave it.
LEMMA ProcessRecvEffect ==
  ASSUME Shape, NEW t \in Threads, ProcessRecv(t)
  PROVE  /\ pc[t] = "process_recv" /\ self[t] \in Sessions
         /\ owner' \in [Sessions -> [EventTypes -> BOOLEAN]]
         /\ recvBuffer' \in [Sessions -> [rd : 0 .. capacity, wr : 0 .. capacity]]
         /\ recvBuffer[self[t]].rd <= recvBuffer[self[t]].wr
              => recvBuffer'[self[t]].rd <= recvBuffer'[self[t]].wr
         /\ \A s \in Sessions : s # self[t] => recvBuffer'[s] = recvBuffer[s]
         /\ Goto(t, "on_recv") \/ Goto(t, "idle")
<1>1. pc[t] = "process_recv" /\ self[t] \in Sessions /\ arg[t] \in Nat
      /\ recvBuffer[self[t]] \in [rd : 0 .. capacity, wr : 0 .. capacity]
      /\ recvBuffer \in [Sessions -> [rd : 0 .. capacity, wr : 0 .. capacity]]
  BY DEF ProcessRecv, At, Shape, InHand, TypeOK
<1>2. owner' \in [Sessions -> [EventTypes -> BOOLEAN]]
  BY <1>1, OwnerTyped DEF ProcessRecv, EventTypes
<1>. DEFINE w == OnWrite(recvBuffer[self[t]], arg[t])
<1>3. CASE arg[t] # 0 /\ w.ok
  <2>1. recvBuffer' = [recvBuffer EXCEPT ![self[t]] = w.b] /\ Goto(t, "on_recv")
    BY <1>3 DEF ProcessRecv
  <2>2. /\ w.b \in [rd : 0 .. capacity, wr : 0 .. capacity]
        /\ recvBuffer[self[t]].rd <= recvBuffer[self[t]].wr => w.b.rd <= w.b.wr
    BY <1>1, <1>3, OnWriteFacts
  <2>. HIDE DEF w
  <2>. QED
    BY <1>1, <1>2, <2>1, <2>2
<1>4. CASE ~(arg[t] # 0 /\ w.ok)
  <2>1. recvBuffer' = recvBuffer /\ Goto(t, "idle")
    BY <1>4 DEF ProcessRecv
  <2>. QED
    BY <1>1, <1>2, <2>1
<1>. QED
  BY <1>3, <1>4

LEMMA OnRecvReturnsEffect ==
  ASSUME Shape, NEW t \in Threads, OnRecvReturns(t)
  PROVE  /\ pc[t] = "on_recv" /\ self[t] \in Sessions
         /\ recvBuffer' \in [Sessions -> [rd : 0 .. capacity, wr : 0 .. capacity]]
         /\ recvBuffer[self[t]].rd <= recvBuffer[self[t]].wr
              => recvBuffer'[self[t]].rd <= recvBuffer'[self[t]].wr
         /\ \A s \in Sessions : s # self[t] => recvBuffer'[s] = recvBuffer[s]
         /\ Goto(t, "register_recv") \/ Goto(t, "idle")
<1>1. pc[t] = "on_recv" /\ self[t] \in Sessions
      /\ recvBuffer[self[t]] \in [rd : 0 .. capacity, wr : 0 .. capacity]
      /\ recvBuffer \in [Sessions -> [rd : 0 .. capacity, wr : 0 .. capacity]]
  BY DEF OnRecvReturns, At, Shape, InHand, TypeOK
<1>. DEFINE b == recvBuffer[self[t]]
            ok(n) == n >= 0 /\ n <= DataSize(b) /\ OnRead(b, n).ok
<1>2. PICK n \in -1 .. (DataSize(b) + 1) :
        /\ recvBuffer' = IF ok(n) THEN [recvBuffer EXCEPT ![self[t]] = Clean(OnRead(b, n).b)]
                         ELSE recvBuffer
        /\ Goto(t, IF ok(n) THEN "register_recv" ELSE "idle")
  BY DEF OnRecvReturns
<1>3. CASE ok(n)
  <2>1. recvBuffer' = [recvBuffer EXCEPT ![self[t]] = Clean(OnRead(b, n).b)]
        /\ Goto(t, "register_recv")
    BY <1>2, <1>3
  <2>2. DataSize(b) \in Int
    BY <1>1 DEF DataSize
  <2>3. n \in Nat /\ n <= DataSize(b)
    BY <1>3, <2>2
  <2>4. /\ Clean(OnRead(b, n).b) \in [rd : 0 .. capacity, wr : 0 .. capacity]
        /\ Clean(OnRead(b, n).b).rd <= Clean(OnRead(b, n).b).wr
    BY <1>1, <2>3, OnReadFacts
  <2>. QED
    BY <1>1, <2>1, <2>4
<1>4. CASE ~ok(n)
  <2>1. recvBuffer' = recvBuffer /\ Goto(t, "idle")
    BY <1>2, <1>4
  <2>. QED
    BY <1>1, <2>1
<1>. QED
  BY <1>3, <1>4

LEMMA ProcessRecvShape ==
  ASSUME Shape, NEW t \in Threads, ProcessRecv(t)
  PROVE  Shape'
<1>1. /\ pc[t] = "process_recv" /\ self[t] \in Sessions
      /\ owner' \in [Sessions -> [EventTypes -> BOOLEAN]]
      /\ recvBuffer' \in [Sessions -> [rd : 0 .. capacity, wr : 0 .. capacity]]
      /\ Goto(t, "on_recv") \/ Goto(t, "idle")
  BY ProcessRecvEffect
<1>2. /\ InHand' <=> packets' \in Nat
      /\ pc' \in [Threads -> PCs] /\ self' \in [Threads -> Sessions \cup {None}]
      /\ cast' \in [Threads -> (SUBSET Sessions) \cup {None}]
  <2>1. "idle" \in PCs /\ "on_recv" \in PCs
    BY DEF PCs
  <2>2. pc[t] \notin ScopePCs /\ pc[t] \notin SendPCs /\ inScope' = inScope
    BY <1>1 DEF ScopePCs, SendPCs, ProcessRecv
  <2>3. CASE Goto(t, "idle")
    BY <1>1, <2>1, <2>2, <2>3, GotoShape
  <2>4. CASE Goto(t, "on_recv")
    BY <1>1, <2>1, <2>2, <2>4, GotoShape
  <2>. QED
    BY <1>1, <2>3, <2>4
<1>3. InHand'
  BY <1>2 DEF ProcessRecv, kernelVars, Shape, InHand
<1>. QED
  BY <1>1, <1>2, <1>3 DEF ProcessRecv, Shape, TypeOK, sendVars, svcVars, kernelVars

LEMMA OnRecvReturnsShape ==
  ASSUME Shape, NEW t \in Threads, OnRecvReturns(t)
  PROVE  Shape'
<1>1. /\ pc[t] = "on_recv" /\ self[t] \in Sessions
      /\ recvBuffer' \in [Sessions -> [rd : 0 .. capacity, wr : 0 .. capacity]]
      /\ Goto(t, "register_recv") \/ Goto(t, "idle")
  BY OnRecvReturnsEffect
<1>2. /\ InHand' <=> packets' \in Nat
      /\ pc' \in [Threads -> PCs] /\ self' \in [Threads -> Sessions \cup {None}]
      /\ cast' \in [Threads -> (SUBSET Sessions) \cup {None}]
  <2>1. "idle" \in PCs /\ "register_recv" \in PCs
    BY DEF PCs
  <2>2. pc[t] \notin ScopePCs /\ pc[t] \notin SendPCs /\ inScope' = inScope
    BY <1>1 DEF ScopePCs, SendPCs, OnRecvReturns
  <2>3. CASE Goto(t, "idle")
    BY <1>1, <2>1, <2>2, <2>3, GotoShape
  <2>4. CASE Goto(t, "register_recv")
    BY <1>1, <2>1, <2>2, <2>4, GotoShape
  <2>. QED
    BY <1>1, <2>3, <2>4
<1>3. InHand'
  BY <1>2 DEF OnRecvReturns, kernelVars, Shape, InHand
<1>. QED
  BY <1>1, <1>2, <1>3 DEF OnRecvReturns, Shape, TypeOK, sendVars, svcVars, kernelVars

LEMMA ProcessDisconnectShape ==
  ASSUME Shape, NEW t \in Threads, ProcessDisconnect(t)
  PROVE  Shape'
<1>1. pc[t] = "process_disconnect" /\ self[t] \in Sessions
  BY DEF ProcessDisconnect, At, Shape, InHand
<1>2. /\ InHand' <=> packets' \in Nat
      /\ pc' \in [Threads -> PCs] /\ self' \in [Threads -> Sessions \cup {None}]
      /\ cast' \in [Threads -> (SUBSET Sessions) \cup {None}]
  <2>1. "release_session" \in PCs
    BY DEF PCs
  <2>2. pc[t] \notin ScopePCs /\ pc[t] \notin SendPCs
    BY <1>1 DEF ScopePCs, SendPCs
  <2>3. Goto(t, "release_session") /\ inScope' = inScope
    BY DEF ProcessDisconnect
  <2>. QED
    BY <1>1, <2>1, <2>2, <2>3, GotoShape
<1>3. InHand'
  BY <1>2 DEF ProcessDisconnect, kernelVars, Shape, InHand
<1>4. owner' \in [Sessions -> [EventTypes -> BOOLEAN]]
  BY <1>1, OwnerTyped DEF ProcessDisconnect, EventTypes
<1>. QED
  BY <1>2, <1>3, <1>4 DEF ProcessDisconnect, Shape, TypeOK, sendVars, svcVars, kernelVars

LEMMA ReleaseSessionShape ==
  ASSUME Shape, NEW t \in Threads, ReleaseSession(t)
  PROVE  Shape'
<1>1. CASE Crash("_session is not exist in the sessions.")
  BY <1>1, CrashShape
<1>2. CASE /\ sessions' = IF debug THEN sessions \ {self[t]} ELSE sessions
           /\ Goto(t, "uncount_session")
           /\ UNCHANGED <<netVars, sendVars, sessionCount, releases, kernelVars, started,
                          inScope, raced, crashed>>
  <2>1. pc[t] = "release_session"
    BY DEF ReleaseSession, At
  <2>2. /\ InHand' <=> packets' \in Nat
        /\ pc' \in [Threads -> PCs] /\ self' \in [Threads -> Sessions \cup {None}]
        /\ cast' \in [Threads -> (SUBSET Sessions) \cup {None}]
    BY <1>2, <2>1, HoldShape DEF HeldPCs
  <2>3. InHand'
    BY <1>2, <2>2 DEF kernelVars, Shape, InHand
  <2>4. sessions' \subseteq Sessions
    BY <1>2 DEF Shape, TypeOK
  <2>. QED
    BY <1>2, <2>2, <2>3, <2>4 DEF Shape, TypeOK, netVars, sendVars, kernelVars
<1>. QED
  BY <1>1, <1>2 DEF ReleaseSession

LEMMA UncountSessionShape ==
  ASSUME Shape, NEW t \in Threads, UncountSession(t)
  PROVE  Shape'
<1>1. pc[t] = "uncount_session" /\ self[t] \in Sessions /\ cast[t] = None
  BY DEF UncountSession, At, Shape, InHand, SendPCs
<1>2. /\ InHand' <=> packets' \in Nat
      /\ pc' \in [Threads -> PCs] /\ self' \in [Threads -> Sessions \cup {None}]
      /\ cast' \in [Threads -> (SUBSET Sessions) \cup {None}]
  <2>1. "idle" \in PCs
    BY DEF PCs
  <2>. QED
    BY <1>1, <2>1, LeaveShape DEF UncountSession
<1>3. InHand'
  BY <1>2 DEF UncountSession, kernelVars, Shape, InHand
<1>4. sessionCount' \in Int /\ releases' \in Nat
  BY DEF UncountSession, Shape, TypeOK
<1>. QED
  BY <1>2, <1>3, <1>4 DEF UncountSession, Shape, TypeOK, netVars, sendVars, kernelVars

LEMMA EnterScopeShape ==
  ASSUME Shape, NEW t \in Threads, EnterScope(t)
  PROVE  Shape'
<1>1. raced' \in BOOLEAN
  BY DEF EnterScope
<1>2. UNCHANGED <<netVars, sendVars, svcVars, kernelVars, started, pc, self, arg>>
  BY DEF EnterScope
<1>3. CASE pc[t] = "broadcast"
  <2>1. cast' = [cast EXCEPT ![t] = sessions] /\ inScope' = inScope
    BY <1>3 DEF EnterScope
  <2>2. cast' \in [Threads -> (SUBSET Sessions) \cup {None}]
    BY <2>1 DEF Shape, TypeOK
  <2>3. \A u \in Threads : /\ inScope'[u] # None => pc'[u] \in ScopePCs /\ inScope'[u] = ScopeOf(u)'
                           /\ cast'[u] # None => pc'[u] \in SendPCs
    BY <1>2, <1>3, <2>1 DEF Shape, TypeOK, InHand, ScopeOf, SendPCs
  <2>4. InHand'
    BY <1>2, <2>1, <2>3 DEF Shape, InHand, kernelVars
  <2>. QED
    BY <1>1, <1>2, <2>1, <2>2, <2>4 DEF Shape, TypeOK, netVars, sendVars, svcVars, kernelVars
<1>4. CASE pc[t] # "broadcast"
  <2>1. inScope' = [inScope EXCEPT ![t] = ScopeOf(t)] /\ cast' = cast
    BY <1>4 DEF EnterScope
  <2>2. pc[t] \in ScopePCs /\ self[t] \in Sessions
    BY <1>4 DEF EnterScope, Scoped, ScopePCs, Shape, InHand
  <2>3. ScopeOf(t) \in {None, <<"service">>} \cup {<<"session", s>> : s \in Sessions}
    BY <2>2 DEF ScopeOf
  <2>4. inScope' \in [Threads -> {None, <<"service">>} \cup {<<"session", s>> : s \in Sessions}]
    BY <2>1, <2>3 DEF Shape, InHand
  <2>5. \A u \in Threads : ScopeOf(u)' = ScopeOf(u)
    BY <1>2 DEF ScopeOf
  <2>6. \A u \in Threads : /\ inScope'[u] # None => pc'[u] \in ScopePCs /\ inScope'[u] = ScopeOf(u)'
                           /\ cast'[u] # None => pc'[u] \in SendPCs
    <3>1. /\ inScope'[t] = ScopeOf(t)
          /\ \A u \in Threads : u # t => inScope'[u] = inScope[u]
      BY <2>1 DEF Shape, InHand
    <3>. QED
      BY <1>2, <2>1, <2>2, <2>5, <3>1 DEF Shape, InHand
  <2>7. InHand'
    BY <1>2, <2>4, <2>6 DEF Shape, InHand, kernelVars
  <2>. QED
    BY <1>1, <1>2, <2>1, <2>7 DEF Shape, TypeOK, netVars, sendVars, svcVars, kernelVars
<1>. QED
  BY <1>3, <1>4

\* SendReturns in full: to BroadCast with its argument, or to the worker's loop.
LEMMA SendReturnsLands ==
  ASSUME Shape, NEW t \in Threads, SendReturns(t)
  PROVE  \E l \in {"idle", "broadcast"}, x \in Nat :
           /\ l = "idle" <=> cast[t] = None
           /\ l = "broadcast" => x = arg[t]
           /\ Control(t, l, None, x) /\ Lands(t, l, None, x) /\ cast' = cast
<1>1. CASE cast[t] = None
  <2>1. Control(t, "idle", None, 0) /\ cast' = cast
    BY <1>1 DEF SendReturns, Goto, Begin
  <2>2. Lands(t, "idle", None, 0)
    BY <2>1, ControlLands
  <2>. QED
    BY <1>1, <2>1, <2>2
<1>2. CASE cast[t] # None
  <2>1. Control(t, "broadcast", None, arg[t]) /\ cast' = cast /\ arg[t] \in Nat
    BY <1>2 DEF SendReturns, Begin, Shape, InHand
  <2>2. Lands(t, "broadcast", None, arg[t])
    BY <2>1, ControlLands
  <2>. QED
    BY <1>2, <2>1, <2>2
<1>. QED
  BY <1>1, <1>2

LEMMA SendReturnsShape ==
  ASSUME Shape, NEW t \in Threads, SendReturns(t), LeaveScope(t)
  PROVE  /\ InHand' <=> packets' \in Nat
         /\ pc' \in [Threads -> PCs] /\ self' \in [Threads -> Sessions \cup {None}]
         /\ cast' \in [Threads -> (SUBSET Sessions) \cup {None}]
<1>1. PICK l \in {"idle", "broadcast"}, x \in Nat :
           /\ l = "idle" <=> cast[t] = None
           /\ Control(t, l, None, x) /\ Lands(t, l, None, x) /\ cast' = cast
  BY SendReturnsLands
<1>2. l \in PCs /\ (l \notin {"idle", "broadcast"} => None \in Sessions)
  BY DEF PCs
<1>3. /\ pc' \in [Threads -> PCs]
      /\ self' \in [Threads -> Sessions \cup {None}]
      /\ arg' \in [Threads -> Nat]
      /\ \A u \in Threads : pc'[u] \notin {"idle", "broadcast"} => self'[u] \in Sessions
  BY <1>1, <1>2, ControlShape
<1>4. /\ inScope' \in [Threads -> {None, <<"service">>} \cup {<<"session", s>> : s \in Sessions}]
      /\ inScope'[t] = None
      /\ \A u \in Threads \ {t} : inScope'[u] = inScope[u]
  BY Left
<1>5. OthersKeep(t) /\ (cast'[t] # None => l \in SendPCs)
  BY <1>1, <1>4 DEF OthersKeep, SendPCs
<1>6. \A u \in Threads :
        /\ inScope'[u] # None => pc'[u] \in ScopePCs /\ inScope'[u] = ScopeOf(u)'
        /\ cast'[u] # None => pc'[u] \in SendPCs
  BY <1>1, <1>4, <1>5, ScopeShape
<1>. QED
  BY <1>1, <1>3, <1>4, <1>6 DEF InHand, Shape, TypeOK

\* The call of Send that SendCall and BroadCast make.
LEMMA SendBeginsShape ==
  ASSUME Shape, NEW t \in Threads, NEW s \in Sessions, NEW n \in 1 .. MaxSends,
         SendBegins(t, s, n), inScope' = inScope, pc[t] \in {"idle", "broadcast"},
         cast' \in [Threads -> (SUBSET Sessions) \cup {None}],
         \A u \in Threads \ {t} : cast'[u] = cast[u],
         packets' = packets
  PROVE  /\ InHand'
         /\ Lands(t, "send", s, n)
         /\ pc' \in [Threads -> PCs] /\ self' \in [Threads -> Sessions \cup {None}]
         /\ given' \in [Sessions -> SUBSET (1 .. MaxSends)]
         /\ given'[s] = given[s] \cup {n}
         /\ \A z \in Sessions : z # s => given'[z] = given[z]
<1>1. Control(t, "send", s, n) /\ "send" \in PCs /\ n \in Nat
  BY DEF SendBegins, PCs
<1>2. Lands(t, "send", s, n)
  BY <1>1, ControlLands
<1>3. /\ pc' \in [Threads -> PCs]
      /\ self' \in [Threads -> Sessions \cup {None}]
      /\ arg' \in [Threads -> Nat]
      /\ \A u \in Threads : pc'[u] \notin {"idle", "broadcast"} => self'[u] \in Sessions
  BY <1>1, ControlShape
<1>4. inScope'[t] = None
  BY DEF Shape, InHand, ScopePCs
<1>5. \A u \in Threads :
        /\ inScope'[u] # None => pc'[u] \in ScopePCs /\ inScope'[u] = ScopeOf(u)'
        /\ cast'[u] # None => pc'[u] \in SendPCs
  BY <1>2, <1>4, ScopeShape DEF OthersKeep, SendPCs
<1>6. /\ given' \in [Sessions -> SUBSET (1 .. MaxSends)]
      /\ given'[s] = given[s] \cup {n}
      /\ \A z \in Sessions : z # s => given'[z] = given[z]
  BY DEF SendBegins, Shape, TypeOK
<1>. QED
  BY <1>2, <1>3, <1>5, <1>6 DEF InHand, Shape

LEMMA SendCallShape ==
  ASSUME Shape, NEW t \in Threads, NEW s \in Sessions, SendCall(t, s)
  PROVE  Shape'
<1>1. /\ pc[t] \in {"idle", "broadcast"} /\ sends + 1 \in 1 .. MaxSends
      /\ SendBegins(t, s, sends + 1) /\ inScope' = inScope /\ cast' = cast /\ packets' = packets
      /\ sends' = sends + 1
  BY SessionConstants DEF SendCall, At, Shape, TypeOK, kernelVars
<1>2. cast' \in [Threads -> (SUBSET Sessions) \cup {None}] /\ \A u \in Threads \ {t} : cast'[u] = cast[u]
  BY <1>1 DEF Shape, TypeOK
<1>3. /\ InHand'
      /\ pc' \in [Threads -> PCs] /\ self' \in [Threads -> Sessions \cup {None}]
      /\ given' \in [Sessions -> SUBSET (1 .. MaxSends)]
  BY <1>1, <1>2, SendBeginsShape
<1>4. sends' \in 0 .. MaxSends
  BY <1>1, SessionConstants DEF Shape, TypeOK
<1>. QED
  BY <1>2, <1>3, <1>4 DEF SendCall, Shape, TypeOK, netVars, svcVars, kernelVars

LEMMA BroadCastShape ==
  ASSUME Shape, OwnBuffer, NEW t \in Threads, BroadCast(t)
  PROVE  Shape'
<1>1. pc[t] = "broadcast" /\ cast[t] \in SUBSET Sessions /\ arg[t] \in 1 .. MaxSends
  <2>1. pc[t] = "broadcast" /\ cast[t] \notin {None, {}}
    BY DEF BroadCast, At
  <2>2. cast[t] \in SUBSET Sessions
    BY <2>1 DEF Shape, TypeOK
  <2>3. arg[t] \in 1 .. sends /\ sends \in 0 .. MaxSends /\ MaxSends \in Nat
    BY <2>1, SessionConstants DEF OwnBuffer, SendPCs, Shape, TypeOK
  <2>. QED
    BY <2>1, <2>2, <2>3
<1>2. PICK s \in cast[t] : /\ cast' = [cast EXCEPT ![t] = @ \ {s}]
                           /\ IF isConnected[s] THEN SendBegins(t, s, arg[t])
                              ELSE UNCHANGED <<pc, self, arg, given>>
  BY DEF BroadCast
<1>3. /\ cast' \in [Threads -> (SUBSET Sessions) \cup {None}]
      /\ \A u \in Threads \ {t} : cast'[u] = cast[u]
      /\ s \in Sessions
  BY <1>1, <1>2 DEF Shape, TypeOK
<1>4. /\ InHand'
      /\ pc' \in [Threads -> PCs] /\ self' \in [Threads -> Sessions \cup {None}]
      /\ given' \in [Sessions -> SUBSET (1 .. MaxSends)]
  <2>1. inScope' = inScope /\ packets' = packets
    BY DEF BroadCast, kernelVars
  <2>2. CASE isConnected[s]
    BY <1>1, <1>2, <1>3, <2>1, <2>2, SendBeginsShape
  <2>3. CASE ~isConnected[s]
    <3>1. UNCHANGED <<pc, self, arg, given>>
      BY <1>2, <2>3
    <3>2. \A u \in Threads : ScopeOf(u)' = ScopeOf(u) /\ (cast'[u] # None => pc'[u] \in SendPCs)
      BY <1>1, <1>3, <3>1 DEF ScopeOf, SendPCs, Shape, InHand
    <3>. QED
      BY <2>1, <3>1, <3>2 DEF Shape, TypeOK, InHand
  <2>. QED
    BY <2>2, <2>3
<1>. QED
  BY <1>3, <1>4 DEF BroadCast, Shape, TypeOK, netVars, svcVars, kernelVars

LEMMA BroadCastCallShape ==
  ASSUME Shape, NEW t \in Threads, BroadCastCall(t)
  PROVE  Shape' /\ Lands(t, "broadcast", None, sends + 1)
<1>1. /\ pc[t] = "idle" /\ sends' = sends + 1 /\ sends' \in 0 .. MaxSends /\ sends + 1 \in Nat
      /\ Control(t, "broadcast", None, sends + 1) /\ cast' = cast /\ inScope' = inScope
  BY SessionConstants DEF BroadCastCall, Begin, At, Shape, TypeOK
<1>2. Lands(t, "broadcast", None, sends + 1)
  BY <1>1, ControlLands
<1>3. /\ pc' \in [Threads -> PCs]
      /\ self' \in [Threads -> Sessions \cup {None}]
      /\ arg' \in [Threads -> Nat]
      /\ \A u \in Threads : pc'[u] \notin {"idle", "broadcast"} => self'[u] \in Sessions
  BY <1>1, ControlShape DEF PCs
<1>4. inScope'[t] = None /\ OthersKeep(t)
  BY <1>1 DEF Shape, InHand, ScopePCs, OthersKeep
<1>5. \A u \in Threads :
        /\ inScope'[u] # None => pc'[u] \in ScopePCs /\ inScope'[u] = ScopeOf(u)'
        /\ cast'[u] # None => pc'[u] \in SendPCs
  BY <1>2, <1>4, ScopeShape DEF SendPCs
<1>6. InHand'
  BY <1>1, <1>3, <1>5 DEF InHand, Shape, BroadCastCall, kernelVars
<1>. QED
  BY <1>1, <1>2, <1>3, <1>6 DEF BroadCastCall, Shape, TypeOK, netVars, svcVars, kernelVars

LEMMA BroadCastReturnsShape ==
  ASSUME Shape, NEW t \in Threads, BroadCastReturns(t)
  PROVE  Shape' /\ Lands(t, "idle", None, 0)
<1>1. /\ pc[t] = "broadcast" /\ Control(t, "idle", None, 0)
      /\ cast' = [cast EXCEPT ![t] = None] /\ inScope' = inScope
  BY DEF BroadCastReturns, At
<1>2. Lands(t, "idle", None, 0)
  BY <1>1, ControlLands
<1>3. /\ pc' \in [Threads -> PCs]
      /\ self' \in [Threads -> Sessions \cup {None}]
      /\ arg' \in [Threads -> Nat]
      /\ \A u \in Threads : pc'[u] \notin {"idle", "broadcast"} => self'[u] \in Sessions
  BY <1>1, ControlShape DEF PCs
<1>4. /\ inScope'[t] = None /\ cast'[t] = None /\ OthersKeep(t)
      /\ cast' \in [Threads -> (SUBSET Sessions) \cup {None}]
  <2>1. cast'[t] = None /\ OthersKeep(t) /\ cast' \in [Threads -> (SUBSET Sessions) \cup {None}]
    BY <1>1 DEF Shape, TypeOK, OthersKeep
  <2>2. inScope'[t] = None
    BY <1>1 DEF Shape, InHand, ScopePCs
  <2>. QED
    BY <2>1, <2>2
<1>5. \A u \in Threads :
        /\ inScope'[u] # None => pc'[u] \in ScopePCs /\ inScope'[u] = ScopeOf(u)'
        /\ cast'[u] # None => pc'[u] \in SendPCs
  BY <1>2, <1>4, ScopeShape
<1>6. InHand'
  BY <1>1, <1>3, <1>5 DEF InHand, Shape, BroadCastReturns, kernelVars
<1>. QED
  BY <1>2, <1>3, <1>4, <1>6 DEF BroadCastReturns, Shape, TypeOK, netVars, sendVars, svcVars, kernelVars

\* Goto, by where it goes.
LEMMA GotoIdle ==
  ASSUME Shape, NEW t \in Threads, Goto(t, "idle")
  PROVE  Lands(t, "idle", None, 0) /\ cast' = cast
<1>1. Control(t, "idle", None, 0) /\ cast' = cast
  BY DEF Goto, Begin
<1>. QED
  BY <1>1, ControlLands

LEMMA GotoOn ==
  ASSUME Shape, NEW t \in Threads, NEW l, l # "idle", Goto(t, l)
  PROVE  Lands(t, l, self[t], arg[t]) /\ cast' = cast
<1>1. Control(t, l, self[t], arg[t]) /\ cast' = cast
  BY DEF Goto, Begin
<1>. QED
  BY <1>1, ControlLands

LEMMA SendShape ==
  ASSUME Shape, OwnBuffer, NEW t \in Threads, Send(t)
  PROVE  Shape'
<1>1. /\ pc[t] = "send" /\ self[t] \in Sessions /\ arg[t] \in 1 .. MaxSends /\ LeaveScope(t)
  <2>1. pc[t] = "send" /\ LeaveScope(t)
    BY DEF Send, At
  <2>2. arg[t] \in 1 .. sends /\ sends \in 0 .. MaxSends /\ MaxSends \in Nat
    BY <2>1, SessionConstants DEF OwnBuffer, SendPCs, Shape, TypeOK
  <2>. QED
    BY <2>1, <2>2 DEF Shape, InHand
<1>2. /\ sendQueue' \in [Sessions -> Seq(1 .. MaxSends)]
      /\ isSendRegistered' \in [Sessions -> BOOLEAN]
  <2>1. sendQueue' = [sendQueue EXCEPT ![self[t]] = Append(@, arg[t])]
        /\ isSendRegistered' = [isSendRegistered EXCEPT ![self[t]] = TRUE]
    BY DEF Send
  <2>2. Append(sendQueue[self[t]], arg[t]) \in Seq(1 .. MaxSends)
    BY <1>1, AppendProperties DEF Shape, TypeOK
  <2>. QED
    BY <1>1, <2>1, <2>2 DEF Shape, TypeOK
<1>3. /\ InHand' <=> packets' \in Nat
      /\ pc' \in [Threads -> PCs] /\ self' \in [Threads -> Sessions \cup {None}]
      /\ cast' \in [Threads -> (SUBSET Sessions) \cup {None}]
  <2>1. CASE SendReturns(t)
    BY <1>1, <2>1, SendReturnsShape
  <2>2. CASE Goto(t, "register_send")
    <3>1. "register_send" \in PCs /\ "register_send" \in SendPCs
      BY DEF PCs, SendPCs
    <3>. QED
      BY <1>1, <2>2, <3>1, LeaveShape
  <2>. QED
    BY <2>1, <2>2 DEF Send
<1>4. InHand'
  BY <1>3 DEF Send, kernelVars, Shape, InHand
<1>. QED
  BY <1>2, <1>3, <1>4 DEF Send, Shape, TypeOK, netVars, svcVars, kernelVars

LEMMA RegisterSendShape ==
  ASSUME Shape, NEW t \in Threads, RegisterSend(t)
  PROVE  Shape'
<1>1. /\ pc[t] = "register_send" /\ self[t] \in Sessions /\ LeaveScope(t) /\ SendReturns(t)
  BY DEF RegisterSend, At, Shape, InHand
<1>2. /\ sendQueue' \in [Sessions -> Seq(1 .. MaxSends)]
      /\ sendBuffers' \in [Sessions -> Seq(1 .. MaxSends)]
  <2>1. /\ sendBuffers' = [sendBuffers EXCEPT ![self[t]] = @ \o sendQueue[self[t]]]
        /\ sendQueue' = [sendQueue EXCEPT ![self[t]] = << >>]
    BY DEF RegisterSend
  <2>2. sendBuffers[self[t]] \o sendQueue[self[t]] \in Seq(1 .. MaxSends)
    BY <1>1, ConcatProperties DEF Shape, TypeOK
  <2>3. << >> \in Seq(1 .. MaxSends)
    OBVIOUS
  <2>. QED
    BY <1>1, <2>1, <2>2, <2>3 DEF Shape, TypeOK
<1>3. /\ InHand' <=> packets' \in Nat
      /\ pc' \in [Threads -> PCs] /\ self' \in [Threads -> Sessions \cup {None}]
      /\ cast' \in [Threads -> (SUBSET Sessions) \cup {None}]
  BY <1>1, SendReturnsShape
<1>4. InHand'
  BY <1>3 DEF RegisterSend, kernelVars, Shape, InHand
<1>. QED
  BY <1>2, <1>3, <1>4 DEF RegisterSend, Shape, TypeOK, netVars, svcVars, kernelVars

\* Every step keeps the types and what threads have in hand.
LEMMA ShapeNext ==
  ASSUME Shape, OwnBuffer, Next
  PROVE  Shape'
<1>1. \A t \in Threads, s \in Sessions : RegisterDisconnect(t, s) => Shape'
  BY RegisterDisconnectShape
<1>2. \A t \in Threads, s \in Sessions : SendCall(t, s) => Shape'
  BY SendCallShape
<1>3. \A t \in Threads : BroadCastCall(t) => Shape'
  BY BroadCastCallShape
<1>4. \A t \in Threads : EnterScope(t) => Shape'
  BY EnterScopeShape
<1>5. \A t \in Threads : ProcessConnect(t) => Shape'
  BY ProcessConnectShape
<1>6. \A t \in Threads : AddSession(t) \/ InsertSession(t) => Shape'
  BY AddSessionShape, InsertSessionShape
<1>7. \A t \in Threads : RegisterRecv(t) => Shape'
  BY RegisterRecvShape
<1>8. \A t \in Threads : RecvReturned(t) => Shape'
  BY RecvReturnedShape
<1>9. \A t \in Threads : ProcessRecv(t) => Shape'
  BY ProcessRecvShape
<1>10. \A t \in Threads : OnRecvReturns(t) => Shape'
  BY OnRecvReturnsShape
<1>11. \A t \in Threads : ProcessDisconnect(t) => Shape'
  BY ProcessDisconnectShape
<1>12. \A t \in Threads : ReleaseSession(t) \/ UncountSession(t) => Shape'
  BY ReleaseSessionShape, UncountSessionShape
<1>13. \A t \in Threads : Send(t) => Shape'
  BY SendShape
<1>14. \A t \in Threads : RegisterSend(t) => Shape'
  BY RegisterSendShape
<1>15. \A t \in Threads : BroadCast(t) => Shape'
  BY BroadCastShape
<1>16. \A t \in Threads : BroadCastReturns(t) => Shape'
  BY BroadCastReturnsShape
<1>17. \A t \in Threads : Dispatch(t) => Shape'
  BY DispatchShape
<1>18. \A t \in Threads, s \in Sessions : StartConnect(t, s) => Shape'
  BY StartConnectShape
<1>19. \A s \in Sessions : CompleteConnect(s) => Shape'
  BY CompleteConnectShape
<1>20. \A s \in Sessions : CompleteDisconnect(s) => Shape'
  BY CompleteDisconnectShape
<1>21. \A s \in Sessions : CompleteRecv(s) => Shape'
  BY CompleteRecvShape
<1>22. \A s \in Sessions : PeerCloses(s) => Shape'
  BY PeerClosesShape
<1>. QED
  BY <1>1, <1>2, <1>3, <1>4, <1>5, <1>6, <1>7, <1>8, <1>9, <1>10, <1>11, <1>12, <1>13, <1>14,
     <1>15, <1>16, <1>17, <1>18, <1>19, <1>20, <1>21, <1>22
  DEF Next, Call, Run, Kernel

-----------------------------------------------------------------------------
(* One thread in the service's scope.                                       *)

\* A step of t that takes it into no scope leaves the service's as it is.
LEMMA ServiceFrame ==
  ASSUME Alone, NEW t \in Threads, raced' = raced,
         \A u \in Threads \ {t} : pc'[u] = pc[u] /\ inScope'[u] = inScope[u] /\ cast'[u] = cast[u],
         InService(t)' => InService(t), pc'[t] \in HeldPCs => inScope'[t] # None
  PROVE  Alone'
<1>1. \A u \in Threads : InService(u)' => InService(u)
  BY DEF InService
<1>. HIDE DEF InService
<1>. QED
  BY <1>1 DEF Alone

LEMMA ServiceUntouched ==
  ASSUME Alone, UNCHANGED <<pc, inScope, cast, raced>>
  PROVE  Alone'
  BY DEF Alone, InService

\* A thread on its way out of a scope, or that has none, is not in the service's.
LEMMA OutOfService ==
  ASSUME Alone, NEW t \in Threads, raced' = raced, cast' = cast, inScope'[t] = None,
         pc'[t] \notin HeldPCs,
         \A u \in Threads \ {t} : pc'[u] = pc[u] /\ inScope'[u] = inScope[u]
  PROVE  Alone'
<1>1. InService(t)' => InService(t)
  BY DEF InService
<1>. QED
  BY <1>1, ServiceFrame

\* The second step of AddSession and ReleaseSession is in the scope of the first.
LEMMA HoldAlone ==
  ASSUME Alone, NEW t \in Threads, NEW l, NEW s, NEW x, Lands(t, l, s, x),
         pc[t] \in {"add_session", "release_session"}, inScope[t] # None,
         UNCHANGED <<inScope, cast, raced>>
  PROVE  Alone'
<1>1. InService(t) /\ inScope'[t] # None
  BY DEF InService
<1>. QED
  BY <1>1, ServiceFrame DEF Lands

\* WriteLockGuard, or the race it records: who enters the service's scope without
\* a race is alone there.
LEMMA EnterScopeAlone ==
  ASSUME Shape, Alone, NEW t \in Threads, EnterScope(t), ~raced
  PROVE  Alone'
<1>0. \A u \in Threads : pc'[u] \in HeldPCs => inScope'[u] # None
  <2>1. inScope[t] = None /\ pc' = pc
    BY DEF EnterScope
  <2>2. pc[t] \notin HeldPCs
    BY <2>1 DEF Alone
  <2>3. \A u \in Threads \ {t} : inScope'[u] = inScope[u]
    BY DEF EnterScope, Shape, InHand
  <2>. QED
    BY <2>1, <2>2, <2>3 DEF Alone
<1>. SUFFICES ASSUME ~raced' PROVE \A u, v \in Threads : InService(u)' /\ InService(v)' => u = v
  BY <1>0 DEF Alone
<1>1. \A u \in Threads \ {t} : ~InScope(u, ScopeOf(t))
  BY DEF EnterScope
<1>2. pc' = pc /\ \A u \in Threads \ {t} : inScope'[u] = inScope[u] /\ cast'[u] = cast[u]
  BY DEF EnterScope, Shape, TypeOK, InHand
<1>3. \A u \in Threads \ {t} : InService(u)' => InService(u)
  BY <1>2 DEF InService
<1>4. CASE pc[t] \in {"add_session", "release_session", "broadcast"}
  <2>1. \A u \in Threads \ {t} : ~InService(u)
    <3>1. ScopeOf(t) = <<"service">>
      BY <1>4 DEF ScopeOf
    <3>2. ASSUME NEW u \in Threads, InService(u)
          PROVE  InScope(u, <<"service">>)
      BY <3>2 DEF InService, InScope, Shape, InHand, ScopeOf
    <3>. QED
      BY <1>1, <3>1, <3>2
  <2>. QED
    BY <1>3, <2>1
<1>5. CASE pc[t] \notin {"add_session", "release_session", "broadcast"}
  <2>1. InService(t)' => InService(t)
    BY <1>2, <1>5 DEF InService, EnterScope, Scoped
  <2>. QED
    BY <1>3, <2>1 DEF Alone
<1>. QED
  BY <1>4, <1>5

\* Every step.
LEMMA AloneNext ==
  ASSUME Shape, Alone, Next
  PROVE  Alone'
<1>1. ASSUME NEW t \in Threads, NEW s \in Sessions, RegisterDisconnect(t, s) \/ StartConnect(t, s)
      PROVE  Alone'
  BY <1>1, ServiceUntouched DEF RegisterDisconnect, StartConnect, ctlVars
<1>2. ASSUME NEW s \in Sessions,
             CompleteConnect(s) \/ CompleteDisconnect(s) \/ CompleteRecv(s) \/ PeerCloses(s)
      PROVE  Alone'
  BY <1>2, ServiceUntouched
  DEF CompleteConnect, CompleteDisconnect, CompleteRecv, PeerCloses, ctlVars
<1>3. ASSUME NEW t \in Threads, NEW s \in Sessions, SendCall(t, s) PROVE Alone'
  <2>1. Control(t, "send", s, sends + 1) /\ cast' = cast /\ inScope' = inScope /\ raced' = raced
        /\ inScope[t] = None
    BY <1>3 DEF SendCall, SendBegins, At, Shape, InHand, ScopePCs
  <2>2. Lands(t, "send", s, sends + 1)
    BY <2>1, ControlLands
  <2>. QED
    BY <2>1, <2>2, OutOfService DEF Lands, HeldPCs
<1>4. ASSUME NEW t \in Threads, BroadCastCall(t) PROVE Alone'
  <2>1. /\ Lands(t, "broadcast", None, sends + 1) /\ cast' = cast /\ inScope' = inScope
        /\ raced' = raced /\ inScope[t] = None
    BY <1>4, BroadCastCallShape DEF BroadCastCall, Begin, At, Shape, InHand, ScopePCs
  <2>. QED
    BY <2>1, OutOfService DEF Lands, HeldPCs
<1>5. ASSUME NEW t \in Threads, EnterScope(t) PROVE Alone'
  BY <1>5, EnterScopeAlone DEF Next
<1>6. ASSUME NEW t \in Threads, ProcessConnect(t) PROVE Alone'
  <2>1. Lands(t, "add_session", self[t], arg[t]) /\ cast' = cast
    BY <1>6, GotoOn DEF ProcessConnect
  <2>2. inScope' = inScope /\ inScope[t] = None /\ raced' = raced
    BY <1>6 DEF ProcessConnect, At, Shape, InHand, ScopePCs
  <2>. QED
    BY <2>1, <2>2, OutOfService DEF Lands, HeldPCs
<1>15. ASSUME NEW t \in Threads, AddSession(t) PROVE Alone'
  <2>1. Lands(t, "insert_session", self[t], arg[t]) /\ cast' = cast
    BY <1>15, GotoOn DEF AddSession
  <2>. QED
    BY <1>15, <2>1, HoldAlone DEF AddSession, At
<1>7. ASSUME NEW t \in Threads, InsertSession(t) PROVE Alone'
  <2>1. Lands(t, "register_recv", self[t], arg[t]) /\ cast' = cast
    BY <1>7, GotoOn DEF InsertSession
  <2>2. inScope'[t] = None /\ \A u \in Threads \ {t} : inScope'[u] = inScope[u]
    BY <1>7, Left DEF InsertSession
  <2>3. raced' = raced
    BY <1>7 DEF InsertSession
  <2>. QED
    BY <2>1, <2>2, <2>3, OutOfService DEF Lands, HeldPCs
<1>8. ASSUME NEW t \in Threads,
             RegisterRecv(t) \/ RecvReturned(t) \/ ProcessRecv(t) \/ OnRecvReturns(t)
      PROVE  Alone'
  <2>1. inScope' = inScope /\ inScope[t] = None /\ raced' = raced
    BY <1>8 DEF RegisterRecv, RecvReturned, ProcessRecv, OnRecvReturns, At, Shape, InHand, ScopePCs
  <2>2. \E l \in {"idle", "recv_returned", "on_recv", "register_recv"} : Goto(t, l)
    BY <1>8, RegisterRecvEffect, ProcessRecvEffect, OnRecvReturnsEffect DEF RecvReturned
  <2>3. cast' = cast /\ pc'[t] \notin HeldPCs /\ \A u \in Threads \ {t} : pc'[u] = pc[u]
    BY <2>2, GotoOn, GotoIdle DEF Lands, HeldPCs
  <2>. QED
    BY <2>1, <2>3, OutOfService
<1>9. ASSUME NEW t \in Threads, ProcessDisconnect(t) PROVE Alone'
  <2>1. Lands(t, "release_session", self[t], arg[t]) /\ cast' = cast
    BY <1>9, GotoOn DEF ProcessDisconnect
  <2>2. inScope' = inScope /\ inScope[t] = None /\ raced' = raced
    BY <1>9 DEF ProcessDisconnect, At, Shape, InHand, ScopePCs
  <2>. QED
    BY <2>1, <2>2, OutOfService DEF Lands, HeldPCs
<1>10. ASSUME NEW t \in Threads, ReleaseSession(t) PROVE Alone'
  <2>1. CASE Crash("_session is not exist in the sessions.")
    BY <2>1, ServiceUntouched DEF Crash, ctlVars
  <2>2. CASE Goto(t, "uncount_session") /\ UNCHANGED <<inScope, raced>>
    <3>1. Lands(t, "uncount_session", self[t], arg[t]) /\ cast' = cast
      BY <2>2, GotoOn
    <3>. QED
      BY <1>10, <2>2, <3>1, HoldAlone DEF ReleaseSession, At
  <2>. QED
    BY <1>10, <2>1, <2>2 DEF ReleaseSession
<1>16. ASSUME NEW t \in Threads, UncountSession(t) PROVE Alone'
  <2>1. Lands(t, "idle", None, 0) /\ cast' = cast
    BY <1>16, GotoIdle DEF UncountSession
  <2>2. inScope'[t] = None /\ \A u \in Threads \ {t} : inScope'[u] = inScope[u]
    BY <1>16, Left DEF UncountSession
  <2>3. raced' = raced
    BY <1>16 DEF UncountSession
  <2>. QED
    BY <2>1, <2>2, <2>3, OutOfService DEF Lands, HeldPCs
<1>11. ASSUME NEW t \in Threads, Send(t) \/ RegisterSend(t) PROVE Alone'
  <2>1. LeaveScope(t) /\ raced' = raced /\ (SendReturns(t) \/ Goto(t, "register_send"))
    BY <1>11 DEF Send, RegisterSend
  <2>2. cast' = cast /\ pc'[t] \notin HeldPCs /\ \A u \in Threads \ {t} : pc'[u] = pc[u]
    BY <2>1, GotoOn, SendReturnsLands DEF Lands, HeldPCs
  <2>3. inScope'[t] = None /\ \A u \in Threads \ {t} : inScope'[u] = inScope[u]
    BY <2>1, Left
  <2>. QED
    BY <2>1, <2>2, <2>3, OutOfService
<1>12. ASSUME NEW t \in Threads, BroadCast(t) PROVE Alone'
  <2>1. /\ cast[t] # None /\ raced' = raced /\ inScope' = inScope
        /\ \A u \in Threads \ {t} : cast'[u] = cast[u]
    BY <1>12 DEF BroadCast, Shape, TypeOK
  <2>2. \A u \in Threads \ {t} : pc'[u] = pc[u]
    BY <1>12 DEF BroadCast, SendBegins, Control, Shape, TypeOK
  <2>3. InService(t) /\ pc'[t] \notin HeldPCs
    BY <1>12, <2>1 DEF InService, BroadCast, At, SendBegins, Control, Shape, TypeOK, HeldPCs
  <2>. QED
    BY <2>1, <2>2, <2>3, ServiceFrame
<1>13. ASSUME NEW t \in Threads, BroadCastReturns(t) PROVE Alone'
  <2>1. /\ cast'[t] = None /\ raced' = raced /\ inScope' = inScope /\ inScope[t] = None
        /\ \A u \in Threads \ {t} : cast'[u] = cast[u]
    BY <1>13 DEF BroadCastReturns, At, Shape, TypeOK, InHand, ScopePCs
  <2>2. \A u \in Threads \ {t} : pc'[u] = pc[u]
    BY <1>13, BroadCastReturnsShape DEF Lands
  <2>3. ~InService(t)' /\ pc'[t] \notin HeldPCs
    BY <1>13, <2>1, BroadCastReturnsShape DEF InService, Lands, HeldPCs
  <2>. QED
    BY <2>1, <2>2, <2>3, ServiceFrame
<1>14. ASSUME NEW t \in Threads, Dispatch(t) PROVE Alone'
  <2>1. CASE Crash("null ownerSession")
    BY <2>1, ServiceUntouched DEF Crash, ctlVars
  <2>2. ASSUME NEW l \in {"process_connect", "process_disconnect", "process_recv"}, NEW s, NEW n,
               Control(t, l, s, n), cast' = cast, inScope' = inScope, raced' = raced
        PROVE  Alone'
    <3>1. Lands(t, l, s, n)
      BY <2>2, ControlLands
    <3>2. inScope[t] = None
      BY <1>14 DEF Dispatch, At, Shape, InHand, ScopePCs
    <3>. QED
      BY <2>2, <3>1, <3>2, OutOfService DEF Lands, HeldPCs
  <2>. QED
    BY <1>14, <2>1, <2>2, DispatchEffect
<1>. QED
  BY <1>1, <1>2, <1>3, <1>4, <1>5, <1>6, <1>7, <1>8, <1>9, <1>10, <1>11, <1>12, <1>13, <1>14,
     <1>15, <1>16
  DEF Next, Call, Run, Kernel

-----------------------------------------------------------------------------
(* The receive chain.                                                       *)

\* A step that starts nothing in the chain, touches no buffer and adds nobody
\* to the service: requests and packets that are new are those of a disconnect.
QuietStep ==
    /\ \A r \in inFlight' : r \in inFlight \/ r[2] = "DISCONNECT"
    /\ \A i \in DOMAIN port' :
         (i \in DOMAIN port /\ port'[i] = port[i]) \/ port'[i].event = "DISCONNECT"
    /\ recvBuffer' = recvBuffer
    /\ started \subseteq started' /\ sessions' \subseteq sessions
    /\ \A s \in Sessions : isConnected[s] => isConnected'[s]
    /\ \A u \in Threads : pc'[u] \in ChainPCs => pc'[u] = pc[u] /\ self'[u] = self[u] /\ arg'[u] = arg[u]

\* Requests, packets and threads of the chain that are left were there before.
LEMMA ChainFrame ==
  ASSUME OneChain, StartedFirst,
         \A r \in inFlight' : r \in inFlight \/ r[2] = "DISCONNECT",
         \A i \in DOMAIN port' :
            (i \in DOMAIN port /\ port'[i] = port[i]) \/ port'[i].event = "DISCONNECT",
         \A u \in Threads : pc'[u] \in ChainPCs => pc[u] \in ChainPCs /\ self'[u] = self[u],
         started \subseteq started', sessions' \subseteq started'
  PROVE  OneChain' /\ StartedFirst'
<1>1. ASSUME NEW s \in Sessions PROVE ChainOf(s)'
  <2>1. ChainOf(s)
    BY DEF OneChain
  <2>2. \A u \in Threads : Works(u, s)' => Works(u, s)
    BY DEF Works
  <2>3. \A r \in inFlight' : Asks(r, s) => r \in inFlight
    BY DEF Asks
  <2>4. \A i \in DOMAIN port' : Reports(port'[i], s) => i \in DOMAIN port /\ port'[i] = port[i]
    BY DEF Reports
  <2>. HIDE DEF Works, Asks, Reports
  <2>. QED
    BY <2>1, <2>2, <2>3, <2>4 DEF ChainOf
<1>2. StartedFirst'
  BY DEF StartedFirst
<1>. QED
  BY <1>1, <1>2 DEF OneChain

LEMMA QuietReceiving ==
  ASSUME Shape, Receiving, QuietStep
  PROVE  Receiving'
<1>1. OneChain' /\ StartedFirst'
  <2>1. sessions' \subseteq started'
    BY DEF QuietStep, Receiving, StartedFirst
  <2>. QED
    BY <2>1, ChainFrame DEF QuietStep, Receiving
<1>2. AddedOnce'
  <2>1. \A t \in Threads : pc[t] \in {"add_session", "insert_session"} => self[t] \in Sessions
    BY DEF Shape, InHand
  <2>2. sessions \subseteq Sessions
    BY DEF Shape, TypeOK
  <2>. QED
    BY <2>1, <2>2 DEF QuietStep, Receiving, AddedOnce, ChainPCs
<1>3. Fits'
  BY DEF QuietStep, Receiving, Fits, RecvFits, ChainPCs, FreeSize
<1>. QED
  BY <1>1, <1>2, <1>3 DEF Receiving

\* Steps of the application, the senders and the disconnecting are quiet.
LEMMA StaysQuiet ==
  ASSUME Receiving, Shape, UNCHANGED <<inFlight, port, recvBuffer, started, isConnected>>,
         sessions' \subseteq sessions,
         \A u \in Threads : pc'[u] \in ChainPCs => pc'[u] = pc[u] /\ self'[u] = self[u] /\ arg'[u] = arg[u]
  PROVE  Receiving'
<1>1. QuietStep
  BY DEF QuietStep
<1>. QED
  BY <1>1, QuietReceiving

\* ... when t lands outside the chain.
LEMMA LandsOutside ==
  ASSUME Shape, Receiving, NEW t \in Threads, NEW l, NEW s, NEW x, Lands(t, l, s, x),
         l \notin ChainPCs,
         UNCHANGED <<inFlight, port, recvBuffer, started, isConnected>>, sessions' \subseteq sessions
  PROVE  Receiving'
<1>1. \A u \in Threads : pc'[u] \in ChainPCs => pc'[u] = pc[u] /\ self'[u] = self[u] /\ arg'[u] = arg[u]
  BY DEF Lands
<1>. QED
  BY <1>1, StaysQuiet

LEMMA QuietNext ==
  ASSUME Shape, Receiving,
         \/ \E t \in Threads : \/ EnterScope(t) \/ RecvReturned(t) \/ ProcessDisconnect(t)
                               \/ ReleaseSession(t) \/ UncountSession(t) \/ Send(t) \/ RegisterSend(t)
                               \/ BroadCastCall(t) \/ BroadCast(t) \/ BroadCastReturns(t)
                               \/ \E s \in Sessions : RegisterDisconnect(t, s) \/ SendCall(t, s)
         \/ \E s \in Sessions : CompleteDisconnect(s) \/ PeerCloses(s)
  PROVE  Receiving'
<1>1. ASSUME NEW t \in Threads, EnterScope(t) PROVE Receiving'
  BY <1>1, StaysQuiet DEF EnterScope, netVars, svcVars, kernelVars
<1>2. ASSUME NEW t \in Threads, RecvReturned(t) PROVE Receiving'
  <2>1. Lands(t, "idle", None, 0)
    BY <1>2, GotoIdle DEF RecvReturned
  <2>. QED
    BY <1>2, <2>1, LandsOutside DEF RecvReturned, svcVars, kernelVars, ChainPCs
<1>3. ASSUME NEW t \in Threads, ProcessDisconnect(t) PROVE Receiving'
  <2>1. Lands(t, "release_session", self[t], arg[t])
    BY <1>3, GotoOn DEF ProcessDisconnect
  <2>. QED
    BY <1>3, <2>1, LandsOutside DEF ProcessDisconnect, svcVars, kernelVars, ChainPCs
<1>4. ASSUME NEW t \in Threads, ReleaseSession(t) PROVE Receiving'
  <2>1. CASE Crash("_session is not exist in the sessions.")
    BY <2>1, StaysQuiet DEF Crash, netVars, svcVars, kernelVars, ctlVars
  <2>2. CASE /\ sessions' = IF debug THEN sessions \ {self[t]} ELSE sessions
             /\ Goto(t, "uncount_session") /\ UNCHANGED <<netVars, kernelVars, started>>
    <3>1. Lands(t, "uncount_session", self[t], arg[t])
      BY <2>2, GotoOn
    <3>2. sessions' \subseteq sessions
      BY <2>2
    <3>. QED
      BY <2>2, <3>1, <3>2, LandsOutside DEF netVars, kernelVars, ChainPCs
  <2>. QED
    BY <1>4, <2>1, <2>2 DEF ReleaseSession
<1>13. ASSUME NEW t \in Threads, UncountSession(t) PROVE Receiving'
  <2>1. Lands(t, "idle", None, 0)
    BY <1>13, GotoIdle DEF UncountSession
  <2>. QED
    BY <1>13, <2>1, LandsOutside DEF UncountSession, netVars, kernelVars, ChainPCs
<1>5. ASSUME NEW t \in Threads, Send(t) \/ RegisterSend(t) PROVE Receiving'
  <2>1. SendReturns(t) \/ Goto(t, "register_send")
    BY <1>5 DEF Send, RegisterSend
  <2>2. \E l \in {"idle", "broadcast", "register_send"} : \E s, x : Lands(t, l, s, x)
    BY <2>1, GotoOn, SendReturnsLands
  <2>3. UNCHANGED <<inFlight, port, recvBuffer, started, isConnected, sessions>>
    BY <1>5 DEF Send, RegisterSend, netVars, svcVars, kernelVars
  <2>. QED
    BY <2>2, <2>3, LandsOutside DEF ChainPCs
<1>6. ASSUME NEW t \in Threads, BroadCastCall(t) PROVE Receiving'
  BY <1>6, BroadCastCallShape, LandsOutside DEF BroadCastCall, netVars, svcVars, kernelVars, ChainPCs
<1>7. ASSUME NEW t \in Threads, BroadCast(t) PROVE Receiving'
  <2>1. UNCHANGED <<inFlight, port, recvBuffer, started, isConnected, sessions>>
    BY <1>7 DEF BroadCast, netVars, svcVars, kernelVars
  <2>2. CASE UNCHANGED <<pc, self, arg>>
    BY <2>1, <2>2, StaysQuiet
  <2>3. ASSUME NEW s, SendBegins(t, s, arg[t]) PROVE Receiving'
    <3>1. Lands(t, "send", s, arg[t])
      BY <2>3, ControlLands DEF SendBegins
    <3>. QED
      BY <2>1, <3>1, LandsOutside DEF ChainPCs
  <2>. QED
    BY <1>7, <2>2, <2>3 DEF BroadCast
<1>8. ASSUME NEW t \in Threads, BroadCastReturns(t) PROVE Receiving'
  BY <1>8, BroadCastReturnsShape, LandsOutside DEF BroadCastReturns, netVars, svcVars, kernelVars, ChainPCs
<1>9. ASSUME NEW t \in Threads, NEW s \in Sessions, RegisterDisconnect(t, s) PROVE Receiving'
  <2>1. QuietStep
    <3>1. UNCHANGED <<isConnected, recvBuffer, sessions, port, started, pc, self, arg>>
      BY <1>9 DEF RegisterDisconnect, svcVars, ctlVars
    <3>2. inFlight' = inFlight \/ inFlight' = inFlight \cup {<<s, "DISCONNECT", 0>>}
      BY <1>9 DEF RegisterDisconnect
    <3>. QED
      BY <3>1, <3>2 DEF QuietStep
  <2>. QED
    BY <2>1, QuietReceiving
<1>10. ASSUME NEW t \in Threads, NEW s \in Sessions, SendCall(t, s) PROVE Receiving'
  <2>1. Lands(t, "send", s, sends + 1)
    BY <1>10, ControlLands DEF SendCall, SendBegins
  <2>. QED
    BY <1>10, <2>1, LandsOutside DEF SendCall, netVars, svcVars, kernelVars, ChainPCs
<1>11. ASSUME NEW s \in Sessions, CompleteDisconnect(s) PROVE Receiving'
  <2>1. port' = Append(port, Packet(s, "DISCONNECT", 0)) /\ inFlight' \subseteq inFlight
        /\ UNCHANGED <<netVars, svcVars, started, ctlVars>>
    BY <1>11 DEF CompleteDisconnect
  <2>2. 0 \in 0 .. capacity /\ "DISCONNECT" \in EventTypes
    BY CapacityFacts DEF EventTypes
  <2>3. \E last : /\ DOMAIN port' = DOMAIN port \cup {last}
                  /\ \A i \in DOMAIN port : port'[i] = port[i]
                  /\ port'[last].event = "DISCONNECT"
    <3>1. Arrives(s, "DISCONNECT", 0)
      BY <2>1 DEF Arrives
    <3>2. PICK last : LastIs(last, s, "DISCONNECT", 0)
      BY <2>2, <3>1, PacketLast
    <3>. QED
      BY <3>2 DEF LastIs
  <2>5. \A i \in DOMAIN port' :
           (i \in DOMAIN port /\ port'[i] = port[i]) \/ port'[i].event = "DISCONNECT"
    BY <2>3
  <2>6. QuietStep
    BY <2>1, <2>5 DEF QuietStep, netVars, svcVars, ctlVars
  <2>. QED
    BY <2>6, QuietReceiving
<1>12. ASSUME NEW s \in Sessions, PeerCloses(s) PROVE Receiving'
  BY <1>12, StaysQuiet DEF PeerCloses, netVars, svcVars, ctlVars
<1>. QED
  BY <1>1, <1>2, <1>3, <1>4, <1>5, <1>6, <1>7, <1>8, <1>9, <1>10, <1>11, <1>12, <1>13

\* The connect of Start begins the session's chain: nothing of it was there.
LEMMA StartConnectReceiving ==
  ASSUME Shape, Receiving, NEW t \in Threads, NEW s \in Sessions, StartConnect(t, s)
  PROVE  Receiving'
<1>1. PICK o \in Outcomes :
         /\ RegisterConnect(s, o)
         /\ started' = IF o = "refused" THEN Sessions ELSE started \cup {s}
  BY DEF StartConnect
<1>2. /\ s \notin started
      /\ UNCHANGED <<isConnected, recvBuffer, sessions, port, pc, self, arg>>
  BY DEF StartConnect, svcVars, ctlVars
<1>3. CASE o = "refused"
  <2>1. started \subseteq started' /\ inFlight' = inFlight
    BY <1>1, <1>3 DEF Shape, TypeOK, RegisterConnect
  <2>2. QuietStep
    BY <1>2, <2>1 DEF QuietStep
  <2>. QED
    BY <2>2, QuietReceiving
<1>4. CASE o # "refused"
  <2>. DEFINE req == <<s, "CONNECT", 0>>
  <2>1. /\ inFlight' = inFlight \cup {req} /\ started' = started \cup {s}
        /\ req[1] = s /\ req[2] = "CONNECT"
    BY <1>1, <1>4 DEF RegisterConnect
  <2>. HIDE DEF req
  <2>2. /\ \A r \in inFlight : ~Asks(r, s)
        /\ \A i \in DOMAIN port : ~Reports(port[i], s)
        /\ \A u \in Threads : ~Works(u, s)
        /\ s \notin sessions
    BY <1>2 DEF Receiving, StartedFirst, Asks, Reports, Works
  <2>3. OneChain'
    <3>1. ASSUME NEW z \in Sessions PROVE ChainOf(z)'
      <4>1. ChainOf(z)
        BY DEF Receiving, OneChain
      <4>2. /\ \A u \in Threads : Works(u, z)' <=> Works(u, z)
            /\ port' = port
        BY <1>2 DEF Works
      <4>3. CASE z = s
        BY <2>1, <2>2, <4>2, <4>3 DEF ChainOf
      <4>4. CASE z # s
        <5>1. ~Asks(req, z)
          BY <2>1, <4>4 DEF Asks
        <5>. QED
          BY <2>1, <4>1, <4>2, <5>1 DEF ChainOf
      <4>. QED
        BY <4>3, <4>4
    <3>. QED
      BY <3>1 DEF OneChain
  <2>4. StartedFirst'
    BY <1>2, <2>1 DEF Receiving, StartedFirst
  <2>5. AddedOnce'
    BY <1>2, <2>1, <2>2 DEF Receiving, AddedOnce
  <2>6. Fits'
    BY <1>2, <2>1 DEF Receiving, Fits, RecvFits, FreeSize
  <2>. QED
    BY <2>3, <2>4, <2>5, <2>6 DEF Receiving
<1>. QED
  BY <1>3, <1>4

\* Request r is that of session s for event e, and n bytes fit it.
CompletesWith(r, s, e, n) == r[1] = s /\ r[2] = e /\ (e = "RECV" => n <= r[3])

\* A completed request of the chain becomes the packet of the chain.
LEMMA RequestReports ==
  ASSUME Shape, Receiving, NEW s \in Sessions, NEW e \in {"CONNECT", "RECV"}, NEW n \in 0 .. capacity,
         NEW r \in inFlight, CompletesWith(r, s, e, n),
         \A q \in inFlight' : q \in inFlight /\ q # r,
         Arrives(s, e, n),
         UNCHANGED <<isConnected, recvBuffer, sessions, started, pc, self, arg>>
  PROVE  Receiving'
<1>1. e \in EventTypes /\ s \in Sessions
  BY DEF EventTypes
<1>2. PICK last : LastIs(last, s, e, n)
  BY <1>1, PacketLast
<1>5. /\ DOMAIN port' = DOMAIN port \cup {last} /\ last \notin DOMAIN port
      /\ \A i \in DOMAIN port : port'[i] = port[i]
      /\ port'[last].session = s /\ port'[last].event = e /\ port'[last].bytes = n
  BY <1>2 DEF LastIs
<1>6. Asks(r, s)
  BY DEF Asks, CompletesWith
<1>7. OneChain'
  <2>1. ASSUME NEW z \in Sessions PROVE ChainOf(z)'
    <3>1. ChainOf(z)
      BY DEF Receiving, OneChain
    <3>2. \A u \in Threads : Works(u, z)' <=> Works(u, z)
      BY DEF Works
    <3>3. CASE z = s
      <4>1. /\ \A q \in inFlight' : ~Asks(q, z)
            /\ \A i \in DOMAIN port : ~Reports(port[i], z)
            /\ \A u \in Threads : ~Works(u, z)
        BY <1>6, <3>1, <3>3 DEF ChainOf
      <4>. QED
        BY <1>5, <3>2, <4>1 DEF ChainOf
    <3>4. CASE z # s
      <4>1. ~Reports(port'[last], z)
        BY <1>5, <3>4 DEF Reports
      <4>. QED
        BY <1>5, <3>1, <3>2, <4>1 DEF ChainOf
    <3>. QED
      BY <3>3, <3>4
  <2>. QED
    BY <2>1 DEF OneChain
<1>8. StartedFirst'
  BY <1>5 DEF Receiving, StartedFirst, CompletesWith
<1>9. AddedOnce'
  BY <1>5 DEF Receiving, AddedOnce, CompletesWith
<1>10. Fits'
  <2>1. e = "RECV" => n <= FreeSize(recvBuffer[s])
    <3>1. r[3] \in 0 .. capacity /\ recvBuffer[s].wr \in 0 .. capacity
      BY DEF Shape, TypeOK
    <3>2. e = "RECV" => n <= r[3] /\ r[3] <= FreeSize(recvBuffer[s])
      BY DEF Receiving, Fits, CompletesWith
    <3>. QED
      BY <3>1, <3>2, CapacityFacts DEF FreeSize
  <2>2. \A i \in DOMAIN port' :
          port'[i].event = "RECV" => port'[i].bytes <= FreeSize(recvBuffer[port'[i].session])
    BY <1>5, <2>1 DEF Receiving, Fits
  <2>. QED
    BY <2>2 DEF Receiving, Fits, RecvFits, FreeSize
<1>. QED
  BY <1>7, <1>8, <1>9, <1>10 DEF Receiving

LEMMA CompleteConnectReceiving ==
  ASSUME Shape, Receiving, NEW s \in Sessions, CompleteConnect(s)
  PROVE  Receiving'
<1>1. PICK r \in inFlight : r[1] = s /\ r[2] = "CONNECT"
  BY DEF CompleteConnect, Pending
<1>2. /\ \A q \in inFlight' : q \in inFlight /\ q # r
      /\ Arrives(s, "CONNECT", 0) /\ CompletesWith(r, s, "CONNECT", 0)
      /\ UNCHANGED <<isConnected, recvBuffer, sessions, started, pc, self, arg>>
  BY <1>1 DEF CompleteConnect, netVars, svcVars, ctlVars, Arrives, CompletesWith
<1>3. 0 \in 0 .. capacity
  BY CapacityFacts
<1>. QED
  BY <1>1, <1>2, <1>3, RequestReports

LEMMA CompleteRecvReceiving ==
  ASSUME Shape, Receiving, NEW s \in Sessions, CompleteRecv(s)
  PROVE  Receiving'
<1>1. PICK r \in inFlight, n \in 0 .. capacity :
           /\ r[1] = s /\ r[2] = "RECV" /\ n <= r[3]
           /\ inFlight' = inFlight \ {r}
           /\ port' = Append(port, Packet(s, "RECV", n))
  BY CompleteRecvEffect
<1>2. UNCHANGED <<isConnected, recvBuffer, sessions, started, pc, self, arg>>
  BY DEF CompleteRecv, netVars, svcVars, ctlVars
<1>3. /\ Arrives(s, "RECV", n) /\ CompletesWith(r, s, "RECV", n)
      /\ \A q \in inFlight' : q \in inFlight /\ q # r
  BY <1>1 DEF Arrives, CompletesWith
<1>. QED
  BY <1>1, <1>2, <1>3, RequestReports

\* The oldest packet becomes the thread of the chain, or of a disconnect.
LEMMA DispatchReceiving ==
  ASSUME Shape, Receiving, NEW t \in Threads, Dispatch(t)
  PROVE  Receiving'
<1>1. CASE Crash("null ownerSession")
  BY <1>1, StaysQuiet DEF Crash, netVars, svcVars, kernelVars, ctlVars
<1>2. ASSUME NEW l \in {"process_connect", "process_disconnect", "process_recv"},
             NEW s \in Sessions, NEW n \in 0 .. capacity,
             Len(port) > 0,
             port[1].session = s, port[1].bytes = n,
             l = "process_connect" <=> port[1].event = "CONNECT",
             l = "process_recv" <=> port[1].event = "RECV",
             Control(t, l, s, n),
             port' \in Seq([session : Sessions, event : EventTypes, bytes : 0 .. capacity]),
             Len(port') = Len(port) - 1,
             \A i \in 1 .. Len(port') : port'[i] = port[i + 1],
             UNCHANGED <<netVars, svcVars, inFlight, started>>
      PROVE  Receiving'
  <2>1. /\ Lands(t, l, s, n)
        /\ UNCHANGED <<isConnected, recvBuffer, sessions, inFlight, started>>
    BY <1>2, ControlLands DEF netVars, svcVars
  <2>2. /\ pc[t] \notin ChainPCs
        /\ pc[t] \notin {"process_connect", "add_session", "insert_session", "process_recv"}
    BY DEF Dispatch, At, ChainPCs
  <2>3. /\ \A i \in DOMAIN port' : i + 1 \in DOMAIN port /\ port'[i] = port[i + 1] /\ i + 1 # 1
        /\ \A i, j \in DOMAIN port' : i + 1 = j + 1 => i = j
        /\ 1 \in DOMAIN port
    <3>1. /\ Len(port) \in Nat /\ DOMAIN port = 1 .. Len(port)
          /\ Len(port') \in Nat /\ DOMAIN port' = 1 .. Len(port')
      BY <1>2, LenProperties DEF Shape, TypeOK
    <3>. QED
      BY <1>2, <3>1
  <2>4. OneChain'
    <3>1. ASSUME NEW z \in Sessions PROVE ChainOf(z)'
      <4>1. ChainOf(z)
        BY DEF Receiving, OneChain
      <4>2. /\ \A u \in Threads \ {t} : Works(u, z)' <=> Works(u, z)
            /\ Works(t, z)' <=> z = s /\ Reports(port[1], z)
        BY <1>2, <2>1 DEF Works, Lands, Reports, ChainPCs
      <4>3. \A i \in DOMAIN port' : Reports(port'[i], z) <=> Reports(port[i + 1], z)
        BY <2>3
      <4>4. CASE Reports(port[1], z)
        <5>1. /\ \A r \in inFlight : ~Asks(r, z)
              /\ \A i \in DOMAIN port : i # 1 => ~Reports(port[i], z)
              /\ \A u \in Threads : ~Works(u, z)
          BY <2>3, <4>1, <4>4 DEF ChainOf
        <5>2. /\ \A r \in inFlight' : ~Asks(r, z)
              /\ \A i \in DOMAIN port' : ~Reports(port'[i], z)
              /\ \A u \in Threads \ {t} : ~Works(u, z)'
          BY <2>1, <2>3, <4>2, <4>3, <5>1
        <5>. HIDE DEF Works, Reports, Asks
        <5>. QED
          BY <5>2 DEF ChainOf
      <4>5. CASE ~Reports(port[1], z)
        <5>1. \A u \in Threads : Works(u, z)' => Works(u, z)
          BY <4>2, <4>5
        <5>2. \A i, j \in DOMAIN port' : Reports(port'[i], z) /\ Reports(port'[j], z) => i = j
          BY <2>3, <4>1, <4>3 DEF ChainOf
        <5>3. \A i \in DOMAIN port' : Reports(port'[i], z) => \E j \in DOMAIN port : Reports(port[j], z)
          BY <2>3, <4>3
        <5>. QED
          BY <2>1, <4>1, <5>1, <5>2, <5>3 DEF ChainOf
      <4>. QED
        BY <4>4, <4>5
    <3>. QED
      BY <3>1 DEF OneChain
  <2>5. StartedFirst'
    <3>1. StartedFirst
      BY DEF Receiving
    <3>2. \A i \in DOMAIN port' : port'[i].event \in {"CONNECT", "RECV"} => port'[i].session \in started
      BY <2>3, <3>1 DEF StartedFirst
    <3>3. l \in ChainPCs => s \in started
      BY <1>2, <2>3, <3>1 DEF StartedFirst, ChainPCs
    <3>. QED
      BY <2>1, <3>1, <3>2, <3>3 DEF StartedFirst, Lands
  <2>6. AddedOnce'
    <3>1. AddedOnce
      BY DEF Receiving
    <3>2. \A i \in DOMAIN port' : port'[i].event = "CONNECT" => port'[i].session \notin sessions
      BY <2>3, <3>1 DEF AddedOnce
    <3>3. l = "process_connect" => s \notin sessions
      BY <1>2, <2>3, <3>1 DEF AddedOnce
    <3>. QED
      BY <1>2, <2>1, <3>1, <3>2, <3>3 DEF AddedOnce, Lands
  <2>7. Fits'
    <3>1. Fits
      BY DEF Receiving
    <3>2. \A i \in DOMAIN port' :
             port'[i].event = "RECV" => port'[i].bytes <= FreeSize(recvBuffer[port'[i].session])
      BY <2>3, <3>1 DEF Fits
    <3>3. l = "process_recv" => n <= FreeSize(recvBuffer[s])
      BY <1>2, <2>3, <3>1 DEF Fits
    <3>4. RecvFits'
      BY <2>1, <3>1, <3>3 DEF Fits, RecvFits, Lands, FreeSize
    <3>. QED
      BY <2>1, <3>1, <3>2, <3>4 DEF Fits, FreeSize
  <2>. QED
    BY <2>4, <2>5, <2>6, <2>7 DEF Receiving
<1>. QED
  BY <1>1, <1>2, DispatchEffect

\* The chain's own steps: the session's only receiver goes on or leaves.
LEMMA ChainSteps ==
  ASSUME Shape, Receiving, NEW t \in Threads, NEW l, NEW s, NEW x, Lands(t, l, s, x),
         l \in ChainPCs => pc[t] \in ChainPCs /\ s = self[t],
         UNCHANGED <<inFlight, port, started>>, sessions' \subseteq started'
  PROVE  OneChain' /\ StartedFirst'
<1>1. \A u \in Threads : pc'[u] \in ChainPCs => pc[u] \in ChainPCs /\ self'[u] = self[u]
  BY DEF Lands
<1>. QED
  BY <1>1, ChainFrame DEF Receiving

LEMMA ProcessConnectReceiving ==
  ASSUME Shape, Receiving, NEW t \in Threads, ProcessConnect(t)
  PROVE  Receiving'
<1>1. pc[t] = "process_connect" /\ self[t] \in Sessions
  BY DEF ProcessConnect, At, Shape, InHand
<1>2. /\ Lands(t, "add_session", self[t], arg[t])
      /\ UNCHANGED <<recvBuffer, sessions, inFlight, port, started>>
  BY GotoOn DEF ProcessConnect, svcVars, kernelVars
<1>3. OneChain' /\ StartedFirst'
  <2>1. sessions' \subseteq started'
    BY <1>2 DEF Receiving, StartedFirst
  <2>. QED
    BY <1>1, <1>2, <2>1, ChainSteps DEF ChainPCs
<1>4. AddedOnce'
  <2>1. /\ isConnected'[self[t]] = TRUE
        /\ \A z \in Sessions : isConnected[z] => isConnected'[z]
    BY <1>1 DEF ProcessConnect, Shape, TypeOK
  <2>2. AddedOnce /\ sessions \subseteq Sessions /\ \A u \in Threads : pc[u] \in {"add_session", "insert_session"} => self[u] \in Sessions
    BY DEF Receiving, Shape, TypeOK, InHand
  <2>. QED
    BY <1>1, <1>2, <2>1, <2>2 DEF AddedOnce, Lands
<1>5. Fits'
  BY <1>2 DEF Receiving, Fits, RecvFits, Lands, FreeSize
<1>. QED
  BY <1>3, <1>4, <1>5 DEF Receiving

LEMMA AddSessionReceiving ==
  ASSUME Shape, Receiving, NEW t \in Threads, AddSession(t)
  PROVE  Receiving'
<1>1. pc[t] = "add_session" /\ self[t] \in Sessions
  BY DEF AddSession, At, Shape, InHand
<1>2. /\ Lands(t, "insert_session", self[t], arg[t])
      /\ UNCHANGED <<recvBuffer, isConnected, sessions, inFlight, port, started>>
  BY GotoOn DEF AddSession, netVars, kernelVars
<1>3. OneChain' /\ StartedFirst'
  <2>1. sessions' \subseteq started'
    BY <1>2 DEF Receiving, StartedFirst
  <2>. QED
    BY <1>1, <1>2, <2>1, ChainSteps DEF ChainPCs
<1>4. AddedOnce'
  BY <1>1, <1>2 DEF Receiving, AddedOnce, Lands
<1>5. Fits'
  BY <1>2 DEF Receiving, Fits, RecvFits, Lands, FreeSize
<1>. QED
  BY <1>3, <1>4, <1>5 DEF Receiving

LEMMA InsertSessionReceiving ==
  ASSUME Shape, Receiving, NEW t \in Threads, InsertSession(t)
  PROVE  Receiving'
<1>1. pc[t] = "insert_session" /\ self[t] \in Sessions
  BY DEF InsertSession, At, Shape, InHand
<1>2. /\ Lands(t, "register_recv", self[t], arg[t])
      /\ sessions' = sessions \cup {self[t]}
      /\ UNCHANGED <<recvBuffer, isConnected, inFlight, port, started>>
  BY GotoOn DEF InsertSession, netVars, kernelVars
<1>3. OneChain' /\ StartedFirst'
  <2>1. sessions' \subseteq started'
    BY <1>1, <1>2 DEF Receiving, StartedFirst, ChainPCs
  <2>. QED
    BY <1>1, <1>2, <2>1, ChainSteps DEF ChainPCs
<1>4. AddedOnce'
  <2>1. /\ \A r \in inFlight : r[2] = "CONNECT" => r[1] # self[t]
        /\ \A i \in DOMAIN port : port[i].event = "CONNECT" => port[i].session # self[t]
        /\ \A u \in Threads \ {t} : pc[u] \in {"process_connect", "add_session", "insert_session"} => self[u] # self[t]
    <3>1. ChainOf(self[t]) /\ Works(t, self[t])
      BY <1>1 DEF Receiving, OneChain, Works, ChainPCs
    <3>. QED
      BY <3>1 DEF ChainOf, Asks, Reports, Works, ChainPCs
  <2>2. AddedOnce /\ isConnected[self[t]]
    BY <1>1 DEF Receiving, AddedOnce
  <2>. QED
    BY <1>2, <2>1, <2>2 DEF AddedOnce, Lands
<1>5. Fits'
  BY <1>2 DEF Receiving, Fits, RecvFits, Lands, FreeSize
<1>. QED
  BY <1>3, <1>4, <1>5 DEF Receiving

\* While a thread is in the chain of its session, it is all there is of it.
LEMMA Sole ==
  ASSUME Shape, Receiving, NEW t \in Threads, pc[t] \in ChainPCs, self[t] \in Sessions
  PROVE  /\ \A r \in inFlight : ~Asks(r, self[t])
         /\ \A i \in DOMAIN port : ~Reports(port[i], self[t])
         /\ \A u \in Threads \ {t} : ~Works(u, self[t])
         /\ self[t] \in started
<1>1. ChainOf(self[t]) /\ Works(t, self[t])
  BY DEF Receiving, OneChain, Works
<1>. QED
  BY <1>1 DEF ChainOf, Receiving, StartedFirst

\* The buffer is changed by the session's only receiver, which is not at the
\* completion it would have to fit any more.
LEMMA BufferMoves ==
  ASSUME Shape, Receiving, NEW t \in Threads, NEW l, NEW s, NEW x, Lands(t, l, s, x),
         pc[t] \in ChainPCs, self[t] \in Sessions, l \in {"on_recv", "register_recv", "idle"},
         l # "idle" => s = self[t],
         UNCHANGED <<inFlight, port, started, sessions, isConnected>>,
         recvBuffer[self[t]].rd <= recvBuffer[self[t]].wr
           => recvBuffer'[self[t]].rd <= recvBuffer'[self[t]].wr,
         \A z \in Sessions : z # self[t] => recvBuffer'[z] = recvBuffer[z]
  PROVE  Receiving'
<1>1. OneChain' /\ StartedFirst'
  <2>1. sessions' \subseteq started'
    BY DEF Receiving, StartedFirst
  <2>. QED
    BY <2>1, ChainSteps DEF ChainPCs
<1>2. AddedOnce'
  BY DEF Receiving, AddedOnce, Lands
<1>3. Fits'
  <2>1. Fits
    BY DEF Receiving
  <2>2. /\ \A r \in inFlight : r[2] = "RECV" => r[1] \in Sessions /\ r[1] # self[t]
        /\ \A i \in DOMAIN port : port[i].event = "RECV" =>
              port[i].session \in Sessions /\ port[i].session # self[t]
        /\ \A u \in Threads \ {t} : pc[u] = "process_recv" => self[u] \in Sessions /\ self[u] # self[t]
    <3>1. /\ \A r \in inFlight : ~Asks(r, self[t])
          /\ \A i \in DOMAIN port : ~Reports(port[i], self[t])
          /\ \A u \in Threads \ {t} : ~Works(u, self[t])
      BY Sole
    <3>2. /\ \A r \in inFlight : r[1] \in Sessions
          /\ \A u \in Threads : pc[u] = "process_recv" => self[u] \in Sessions
      BY DEF Shape, TypeOK, InHand
    <3>3. \A i \in DOMAIN port : port[i].session \in Sessions
      <4>1. \A i \in DOMAIN port : port[i] \in [session : Sessions, event : EventTypes, bytes : 0 .. capacity]
        <5>1. port \in Seq([session : Sessions, event : EventTypes, bytes : 0 .. capacity])
          BY DEF Shape, TypeOK
        <5>2. DOMAIN port = 1 .. Len(port)
          BY <5>1, LenProperties
        <5>. QED
          BY <5>1, <5>2, ElementOfSeq
      <4>. QED
        BY <4>1
    <3>. QED
      BY <3>1, <3>2, <3>3 DEF Asks, Reports, Works, ChainPCs
  <2>3. \A z \in Sessions : recvBuffer'[z].rd <= recvBuffer'[z].wr
    BY <2>1 DEF Fits
  <2>4. /\ \A r \in inFlight' : r[2] = "RECV" => r[3] <= FreeSize(recvBuffer'[r[1]])
        /\ \A i \in DOMAIN port' :
             port'[i].event = "RECV" => port'[i].bytes <= FreeSize(recvBuffer'[port'[i].session])
    BY <2>1, <2>2 DEF Fits
  <2>5. \A u \in Threads : pc'[u] = "process_recv" => arg'[u] <= FreeSize(recvBuffer'[self'[u]])
    BY <2>1, <2>2 DEF Fits, RecvFits, Lands
  <2>. QED
    BY <2>3, <2>4, <2>5 DEF Fits, RecvFits, FreeSize
<1>. QED
  BY <1>1, <1>2, <1>3 DEF Receiving

LEMMA ProcessRecvReceiving ==
  ASSUME Shape, Receiving, NEW t \in Threads, ProcessRecv(t)
  PROVE  Receiving'
<1>1. /\ pc[t] = "process_recv" /\ pc[t] \in ChainPCs /\ self[t] \in Sessions
      /\ recvBuffer[self[t]].rd <= recvBuffer[self[t]].wr
           => recvBuffer'[self[t]].rd <= recvBuffer'[self[t]].wr
      /\ \A s \in Sessions : s # self[t] => recvBuffer'[s] = recvBuffer[s]
      /\ Goto(t, "on_recv") \/ Goto(t, "idle")
  BY ProcessRecvEffect DEF ChainPCs
<1>2. UNCHANGED <<inFlight, port, started, sessions, isConnected>>
  BY DEF ProcessRecv, svcVars, kernelVars
<1>3. CASE Goto(t, "on_recv")
  <2>1. Lands(t, "on_recv", self[t], arg[t])
    BY <1>3, GotoOn
  <2>. QED
    BY <1>1, <1>2, <2>1, BufferMoves
<1>4. CASE Goto(t, "idle")
  <2>1. Lands(t, "idle", None, 0)
    BY <1>4, GotoIdle
  <2>. QED
    BY <1>1, <1>2, <2>1, BufferMoves
<1>. QED
  BY <1>1, <1>3, <1>4

LEMMA OnRecvReturnsReceiving ==
  ASSUME Shape, Receiving, NEW t \in Threads, OnRecvReturns(t)
  PROVE  Receiving'
<1>1. /\ pc[t] = "on_recv" /\ pc[t] \in ChainPCs /\ self[t] \in Sessions
      /\ recvBuffer[self[t]].rd <= recvBuffer[self[t]].wr
           => recvBuffer'[self[t]].rd <= recvBuffer'[self[t]].wr
      /\ \A s \in Sessions : s # self[t] => recvBuffer'[s] = recvBuffer[s]
      /\ Goto(t, "register_recv") \/ Goto(t, "idle")
  BY OnRecvReturnsEffect DEF ChainPCs
<1>2. UNCHANGED <<inFlight, port, started, sessions, isConnected>>
  BY DEF OnRecvReturns, svcVars, kernelVars
<1>3. CASE Goto(t, "register_recv")
  <2>1. Lands(t, "register_recv", self[t], arg[t])
    BY <1>3, GotoOn
  <2>. QED
    BY <1>1, <1>2, <2>1, BufferMoves
<1>4. CASE Goto(t, "idle")
  <2>1. Lands(t, "idle", None, 0)
    BY <1>4, GotoIdle
  <2>. QED
    BY <1>1, <1>2, <2>1, BufferMoves
<1>. QED
  BY <1>1, <1>3, <1>4

\* WSARecv: the thread of the chain becomes its request or its packet.
LEMMA RegisterRecvReceiving ==
  ASSUME Shape, Receiving, NEW t \in Threads, RegisterRecv(t)
  PROVE  Receiving'
<1>1. /\ pc[t] = "register_recv" /\ pc[t] \in ChainPCs /\ self[t] \in Sessions
      /\ UNCHANGED <<isConnected, recvBuffer, sessions, started>>
  BY RegisterRecvEffect DEF ChainPCs, svcVars
<1>2. /\ \A r \in inFlight : ~Asks(r, self[t])
      /\ \A i \in DOMAIN port : ~Reports(port[i], self[t])
      /\ \A u \in Threads \ {t} : ~Works(u, self[t])
      /\ self[t] \in started
  BY <1>1, Sole
<1>3. RecvWindow(self[t]) \in 0 .. capacity /\ RecvWindow(self[t]) = FreeSize(recvBuffer[self[t]])
  BY <1>1, WindowTyped
<1>4. self[t] \in sessions \/ self[t] \notin sessions
  OBVIOUS
<1>5. CASE Goto(t, "idle") /\ UNCHANGED <<inFlight, port>>
  <2>1. Lands(t, "idle", None, 0)
    BY <1>5, GotoIdle
  <2>. QED
    BY <1>1, <1>5, <2>1, LandsOutside DEF ChainPCs
<1>6. CASE /\ inFlight' = inFlight \cup {<<self[t], "RECV", RecvWindow(self[t])>>}
           /\ Goto(t, "idle") /\ port' = port
  <2>1. Lands(t, "idle", None, 0)
    BY <1>6, GotoIdle
  <2>. DEFINE req == <<self[t], "RECV", RecvWindow(self[t])>>
  <2>2. /\ inFlight' = inFlight \cup {req}
        /\ req[1] = self[t] /\ req[2] = "RECV" /\ req[3] = RecvWindow(self[t])
    BY <1>6
  <2>. HIDE DEF req
  <2>3. \A z \in Sessions, u \in Threads : Works(u, z)' => Works(u, z) /\ z # self[t]
    BY <1>2, <2>1 DEF Works, Lands, ChainPCs
  <2>4. OneChain'
    <3>1. ASSUME NEW z \in Sessions PROVE ChainOf(z)'
      <4>1. ChainOf(z)
        BY DEF Receiving, OneChain
      <4>2. CASE z = self[t]
        BY <1>2, <1>6, <2>2, <2>3, <4>2 DEF ChainOf
      <4>3. CASE z # self[t]
        <5>1. ~Asks(req, z)
          BY <2>2, <4>3 DEF Asks
        <5>. QED
          BY <1>6, <2>2, <2>3, <4>1, <5>1 DEF ChainOf
      <4>. QED
        BY <4>2, <4>3
    <3>. QED
      BY <3>1 DEF OneChain
  <2>5. StartedFirst'
    BY <1>1, <1>2, <1>6, <2>1, <2>2 DEF Receiving, StartedFirst, Lands, ChainPCs
  <2>6. AddedOnce'
    BY <1>1, <1>6, <2>1, <2>2 DEF Receiving, AddedOnce, Lands
  <2>7. Fits'
    <3>1. \A r \in inFlight' : r[2] = "RECV" => r[3] <= FreeSize(recvBuffer[r[1]])
      BY <1>3, <2>2, CapacityFacts DEF Receiving, Fits
    <3>. QED
      BY <1>1, <1>6, <2>1, <3>1 DEF Receiving, Fits, RecvFits, Lands, FreeSize
  <2>. QED
    BY <2>4, <2>5, <2>6, <2>7 DEF Receiving
<1>7. ASSUME NEW n \in 0 .. capacity, n <= RecvWindow(self[t]), Arrives(self[t], "RECV", n),
             Goto(t, "recv_returned"), inFlight' = inFlight
      PROVE  Receiving'
  <2>1. Lands(t, "recv_returned", self[t], arg[t])
    BY <1>7, GotoOn
  <2>2. PICK last :
          /\ DOMAIN port' = DOMAIN port \cup {last} /\ last \notin DOMAIN port
          /\ \A i \in DOMAIN port : port'[i] = port[i]
          /\ port'[last].session = self[t] /\ port'[last].event = "RECV" /\ port'[last].bytes = n
    <3>1. "RECV" \in EventTypes
      BY DEF EventTypes
    <3>2. PICK s \in Sessions : s = self[t]
      BY <1>1
    <3>3. Arrives(s, "RECV", n)
      BY <1>7, <3>2
    <3>4. PICK k : LastIs(k, s, "RECV", n)
      BY <3>1, <3>3, PacketLast
    <3>. QED
      BY <3>2, <3>4 DEF LastIs
  <2>3. \A z \in Sessions, u \in Threads : Works(u, z)' => Works(u, z) /\ z # self[t]
    BY <1>2, <2>1 DEF Works, Lands, ChainPCs
  <2>4. OneChain'
    <3>1. ASSUME NEW z \in Sessions PROVE ChainOf(z)'
      <4>1. ChainOf(z)
        BY DEF Receiving, OneChain
      <4>2. CASE z = self[t]
        <5>1. /\ \A r \in inFlight' : ~Asks(r, z)
              /\ \A i \in DOMAIN port' : i # last => ~Reports(port'[i], z)
          BY <1>2, <1>7, <2>2, <4>2
        <5>. QED
          BY <2>3, <4>2, <5>1 DEF ChainOf
      <4>3. CASE z # self[t]
        <5>1. ~Reports(port'[last], z)
          BY <2>2, <4>3 DEF Reports
        <5>. QED
          BY <1>7, <2>2, <2>3, <4>1, <5>1 DEF ChainOf
      <4>. QED
        BY <4>2, <4>3
    <3>. QED
      BY <3>1 DEF OneChain
  <2>5. StartedFirst'
    BY <1>1, <1>2, <1>7, <2>1, <2>2 DEF Receiving, StartedFirst, Lands, ChainPCs
  <2>6. AddedOnce'
    BY <1>1, <1>7, <2>1, <2>2 DEF Receiving, AddedOnce, Lands
  <2>7. Fits'
    <3>1. \A i \in DOMAIN port' :
            port'[i].event = "RECV" => port'[i].bytes <= FreeSize(recvBuffer[port'[i].session])
      BY <1>3, <1>7, <2>2 DEF Receiving, Fits
    <3>. QED
      BY <1>1, <1>7, <2>1, <3>1 DEF Receiving, Fits, RecvFits, Lands, FreeSize
  <2>. QED
    BY <2>4, <2>5, <2>6, <2>7 DEF Receiving
<1>. QED
  BY <1>5, <1>6, <1>7, RegisterRecvEffect DEF Arrives

\* Every step.
LEMMA ReceivingNext ==
  ASSUME Shape, Receiving, Next
  PROVE  Receiving'
<1>1. \A t \in Threads, s \in Sessions : StartConnect(t, s) => Receiving'
  BY StartConnectReceiving
<1>2. \A s \in Sessions : CompleteConnect(s) \/ CompleteRecv(s) => Receiving'
  BY CompleteConnectReceiving, CompleteRecvReceiving
<1>3. \A t \in Threads : Dispatch(t) => Receiving'
  BY DispatchReceiving
<1>4. \A t \in Threads : ProcessConnect(t) \/ AddSession(t) \/ InsertSession(t) => Receiving'
  BY ProcessConnectReceiving, AddSessionReceiving, InsertSessionReceiving
<1>5. \A t \in Threads : RegisterRecv(t) \/ ProcessRecv(t) \/ OnRecvReturns(t) => Receiving'
  BY RegisterRecvReceiving, ProcessRecvReceiving, OnRecvReturnsReceiving
<1>6. \A t \in Threads :
        \/ EnterScope(t) \/ RecvReturned(t) \/ ProcessDisconnect(t)
        \/ ReleaseSession(t) \/ UncountSession(t) \/ Send(t) \/ RegisterSend(t)
        \/ BroadCastCall(t) \/ BroadCast(t) \/ BroadCastReturns(t)
        \/ \E s \in Sessions : RegisterDisconnect(t, s) \/ SendCall(t, s)
        => Receiving'
  BY QuietNext
<1>7. \A s \in Sessions : CompleteDisconnect(s) \/ PeerCloses(s) => Receiving'
  BY QuietNext
<1>. QED
  BY <1>1, <1>2, <1>3, <1>4, <1>5, <1>6, <1>7 DEF Next, Call, Run, Kernel

-----------------------------------------------------------------------------
(* The sends.                                                               *)

\* A step that moves no sender, gives no buffer and adds no session.
LEMMA SendingFrame ==
  ASSUME Sending,
         UNCHANGED <<sendQueue, isSendRegistered, sendBuffers, sends, given, cast>>,
         sessions' \subseteq sessions,
         \A u \in Threads : pc[u] \in SendPCs \/ pc'[u] \in SendPCs
             => pc'[u] = pc[u] /\ self'[u] = self[u] /\ arg'[u] = arg[u],
         \A u \in Threads : cast[u] # None => pc[u] \in SendPCs
  PROVE  Sending'
<1>1. \A s : Kept(s)' = Kept(s)
  BY DEF Kept
<1>2. OwnBuffer' /\ Registered'
  BY DEF Sending, OwnBuffer, Registered, SendPCs
<1>3. Stored'
  <2>. HIDE DEF Kept
  <2>1. \A t \in Threads : pc'[t] = "send" => arg'[t] \in given'[self'[t]]
    BY DEF Sending, Stored, SendPCs
  <2>2. \A s, n : (\A t \in Threads : ~(pc'[t] = "send" /\ self'[t] = s /\ arg'[t] = n))
                    <=> \A t \in Threads : ~(pc[t] = "send" /\ self[t] = s /\ arg[t] = n)
    BY DEF SendPCs
  <2>. QED
    BY <1>1, <2>1, <2>2 DEF Sending, Stored
<1>4. Visited'
  BY DEF Sending, Visited, SendPCs
<1>. QED
  BY <1>2, <1>3, <1>4 DEF Sending

\* ... when t moves from outside Send to outside Send.
LEMMA NoSender ==
  ASSUME Shape, Sending, NEW t \in Threads, NEW l, NEW s, NEW x, Lands(t, l, s, x),
         l \notin SendPCs, pc[t] \notin SendPCs, UNCHANGED <<sendVars, cast>>,
         sessions' \subseteq sessions
  PROVE  Sending'
<1>1. UNCHANGED <<sendQueue, isSendRegistered, sendBuffers, sends, given, cast>>
  BY DEF sendVars
<1>2. \A u \in Threads : pc[u] \in SendPCs \/ pc'[u] \in SendPCs
             => pc'[u] = pc[u] /\ self'[u] = self[u] /\ arg'[u] = arg[u]
  BY DEF Lands
<1>3. \A u \in Threads : cast[u] # None => pc[u] \in SendPCs
  BY DEF Shape, InHand
<1>. QED
  BY <1>1, <1>2, <1>3, SendingFrame

LEMMA SendersStay ==
  ASSUME Shape, Sending, UNCHANGED <<sendVars, cast, pc, self, arg>>, sessions' \subseteq sessions
  PROVE  Sending'
<1>1. UNCHANGED <<sendQueue, isSendRegistered, sendBuffers, sends, given, cast>>
  BY DEF sendVars
<1>2. \A u \in Threads : cast[u] # None => pc[u] \in SendPCs
  BY DEF Shape, InHand
<1>. QED
  BY <1>1, <1>2, SendingFrame

\* The steps of the kernel, of Start, of the receive chain and of disconnects.
LEMMA NetworkSending ==
  ASSUME Shape, Sending,
         \/ \E t \in Threads : \/ Dispatch(t) \/ ProcessConnect(t) \/ RegisterRecv(t)
                               \/ RecvReturned(t) \/ ProcessRecv(t) \/ OnRecvReturns(t)
                               \/ AddSession(t) \/ ProcessDisconnect(t) \/ ReleaseSession(t)
                               \/ UncountSession(t)
                               \/ \E s \in Sessions : StartConnect(t, s) \/ RegisterDisconnect(t, s)
         \/ \E s \in Sessions : \/ CompleteConnect(s) \/ CompleteDisconnect(s) \/ CompleteRecv(s)
                                \/ PeerCloses(s)
  PROVE  Sending'
<1>1. ASSUME NEW t \in Threads, Dispatch(t) PROVE Sending'
  <2>1. CASE Crash("null ownerSession")
    BY <2>1, SendersStay DEF Crash, svcVars, ctlVars
  <2>2. ASSUME NEW l \in {"process_connect", "process_disconnect", "process_recv"}, NEW s, NEW n,
               Control(t, l, s, n), cast' = cast, UNCHANGED <<sendVars, svcVars>>
        PROVE  Sending'
    <3>1. Lands(t, l, s, n)
      BY <2>2, ControlLands
    <3>2. pc[t] \notin SendPCs /\ l \notin SendPCs /\ sessions' = sessions
      BY <1>1, <2>2 DEF Dispatch, At, SendPCs, svcVars
    <3>. QED
      BY <2>2, <3>1, <3>2, NoSender
  <2>. QED
    BY <1>1, <2>1, <2>2, DispatchEffect
<1>2. ASSUME NEW t \in Threads,
             \/ ProcessConnect(t) \/ RegisterRecv(t) \/ RecvReturned(t) \/ ProcessRecv(t)
             \/ OnRecvReturns(t) \/ ProcessDisconnect(t) \/ AddSession(t) \/ UncountSession(t)
      PROVE  Sending'
  <2>1. pc[t] \notin SendPCs
    BY <1>2 DEF ProcessConnect, RegisterRecv, RecvReturned, ProcessRecv, OnRecvReturns,
                ProcessDisconnect, AddSession, UncountSession, At, SendPCs
  <2>2. \E l \in {"idle", "add_session", "insert_session", "recv_returned", "on_recv",
                  "register_recv", "release_session"} : Goto(t, l)
    BY <1>2, RegisterRecvEffect, ProcessRecvEffect, OnRecvReturnsEffect
    DEF ProcessConnect, RecvReturned, ProcessDisconnect, AddSession, UncountSession
  <2>3. /\ cast' = cast
        /\ \E l \in {"idle", "add_session", "insert_session", "recv_returned", "on_recv",
                     "register_recv", "release_session"} : \E s, x : Lands(t, l, s, x)
    BY <2>2, GotoOn, GotoIdle
  <2>4. UNCHANGED sendVars /\ sessions' = sessions
    BY <1>2 DEF ProcessConnect, RegisterRecv, RecvReturned, ProcessRecv, OnRecvReturns,
                ProcessDisconnect, AddSession, UncountSession, svcVars
  <2>. QED
    BY <2>1, <2>3, <2>4, NoSender, SMTT(30) DEF SendPCs
<1>3. ASSUME NEW t \in Threads, ReleaseSession(t) PROVE Sending'
  <2>1. CASE Crash("_session is not exist in the sessions.")
    BY <2>1, SendersStay DEF Crash, svcVars, ctlVars
  <2>2. CASE /\ sessions' = IF debug THEN sessions \ {self[t]} ELSE sessions
             /\ Goto(t, "uncount_session") /\ UNCHANGED sendVars
    <3>1. Lands(t, "uncount_session", self[t], arg[t]) /\ cast' = cast
      BY <2>2, GotoOn
    <3>2. sessions' \subseteq sessions /\ pc[t] \notin SendPCs
      BY <1>3, <2>2 DEF ReleaseSession, At, SendPCs
    <3>. QED
      BY <2>2, <3>1, <3>2, NoSender DEF SendPCs
  <2>. QED
    BY <1>3, <2>1, <2>2 DEF ReleaseSession
<1>4. ASSUME NEW t \in Threads, NEW s \in Sessions, StartConnect(t, s) \/ RegisterDisconnect(t, s)
      PROVE  Sending'
  BY <1>4, SendersStay DEF StartConnect, RegisterDisconnect, svcVars, ctlVars
<1>5. ASSUME NEW s \in Sessions,
             CompleteConnect(s) \/ CompleteDisconnect(s) \/ CompleteRecv(s) \/ PeerCloses(s)
      PROVE  Sending'
  BY <1>5, SendersStay
  DEF CompleteConnect, CompleteDisconnect, CompleteRecv, PeerCloses, svcVars, ctlVars
<1>. QED
  BY <1>1, <1>2, <1>3, <1>4, <1>5

\* InsertSession: nobody is in BroadCast, which would have to reach the session too.
LEMMA InsertSessionSending ==
  ASSUME Shape, Alone, Sending, ~raced, NEW t \in Threads, InsertSession(t)
  PROVE  Sending'
<1>1. /\ pc[t] = "insert_session" /\ inScope[t] # None
      /\ Lands(t, "register_recv", self[t], arg[t]) /\ cast' = cast
      /\ UNCHANGED <<sendQueue, isSendRegistered, sendBuffers, sends, given>>
  BY GotoOn DEF InsertSession, LeaveScope, At, sendVars
<1>2. cast[t] = None
  BY <1>1 DEF Shape, InHand, SendPCs
<1>3. \A u \in Threads : cast[u] = None
  BY <1>1, <1>2 DEF Alone, InService
<1>4. \A s : Kept(s)' = Kept(s)
  BY <1>1 DEF Kept
<1>5. \A u \in Threads : pc[u] \in SendPCs \/ pc'[u] \in SendPCs
             => pc'[u] = pc[u] /\ self'[u] = self[u] /\ arg'[u] = arg[u]
  BY <1>1 DEF Lands, SendPCs
<1>6. OwnBuffer' /\ Registered'
  BY <1>1, <1>5 DEF Sending, OwnBuffer, Registered, SendPCs
<1>7. Stored'
  <2>. HIDE DEF Kept
  <2>1. \A u \in Threads : pc'[u] = "send" => arg'[u] \in given'[self'[u]]
    BY <1>1, <1>5 DEF Sending, Stored, SendPCs
  <2>2. \A s, n : (\A u \in Threads : ~(pc'[u] = "send" /\ self'[u] = s /\ arg'[u] = n))
                    <=> \A u \in Threads : ~(pc[u] = "send" /\ self[u] = s /\ arg[u] = n)
    BY <1>5 DEF SendPCs
  <2>. QED
    BY <1>1, <1>4, <2>1, <2>2 DEF Sending, Stored
<1>8. Visited'
  BY <1>1, <1>3, <1>5 DEF Sending, Visited, SendPCs
<1>. QED
  BY <1>6, <1>7, <1>8 DEF Sending

\* BroadCast takes the lock and the sessions of now, to none of which it has given
\* its buffer.
LEMMA EnterScopeSending ==
  ASSUME Shape, Sending, NEW t \in Threads, EnterScope(t)
  PROVE  Sending'
<1>1. /\ UNCHANGED <<sendQueue, isSendRegistered, sendBuffers, sends, given, sessions, pc, self, arg>>
      /\ cast' = cast \/ (pc[t] = "broadcast" /\ cast[t] = None
                          /\ cast' = [cast EXCEPT ![t] = sessions])
  BY DEF EnterScope, Scoped, sendVars, svcVars
<1>2. OwnBuffer' /\ Registered' /\ Stored'
  <2>1. OwnBuffer' /\ Registered'
    BY <1>1 DEF Sending, OwnBuffer, Registered
  <2>2. \A s : Kept(s)' = Kept(s)
    BY <1>1 DEF Kept
  <2>. HIDE DEF Kept
  <2>3. Stored'
    BY <1>1, <2>2 DEF Sending, Stored
  <2>. QED
    BY <2>1, <2>3
<1>3. Visited'
  <2>1. CASE cast' = cast
    BY <1>1, <2>1 DEF Sending, Visited
  <2>2. CASE pc[t] = "broadcast" /\ cast[t] = None /\ cast' = [cast EXCEPT ![t] = sessions]
    <3>1. cast'[t] = sessions /\ \A u \in Threads : u # t => cast'[u] = cast[u]
      BY <2>2 DEF Shape, TypeOK
    <3>2. sessions \in SUBSET Sessions
      BY DEF Shape, TypeOK
    <3>3. sessions # None
      BY <3>2, NoneFacts
    <3>. QED
      BY <1>1, <2>2, <3>1, <3>2, <3>3 DEF Sending, Visited
  <2>. QED
    BY <1>1, <2>1, <2>2
<1>. QED
  BY <1>2, <1>3 DEF Sending

\* A call of Send begins with a buffer that nobody else sends and the session
\* was not given yet.
LEMMA BeginsSending ==
  ASSUME Shape, Sending, NEW t \in Threads, NEW s \in Sessions, NEW n \in 1 .. MaxSends,
         Lands(t, "send", s, n),
         given'[s] = given[s] \cup {n}, \A z \in Sessions : z # s => given'[z] = given[z],
         UNCHANGED <<sendQueue, isSendRegistered, sendBuffers>>,
         sends' \in Nat, sends <= sends', n <= sends', n \notin given[s],
         pc[t] \in {"idle", "broadcast"},
         \A u \in Threads \ {t} : pc[u] \in SendPCs => arg[u] # n
  PROVE  OwnBuffer' /\ Stored' /\ Registered'
<1>0. sends \in Nat
  BY DEF Shape, TypeOK
<1>1. OwnBuffer'
  <2>1. OwnBuffer
    BY DEF Sending
  <2>2. \A u \in Threads : pc'[u] \in SendPCs => arg'[u] \in 1 .. sends'
    BY <1>0, <2>1 DEF OwnBuffer, Lands
  <2>3. \A u, v \in Threads :
          pc'[u] \in SendPCs /\ pc'[v] \in SendPCs /\ arg'[u] = arg'[v] => u = v
    BY <2>1 DEF OwnBuffer, Lands
  <2>4. \A z \in Sessions : given'[z] \subseteq 1 .. sends'
    BY <1>0, <2>1 DEF OwnBuffer
  <2>. QED
    BY <2>2, <2>3, <2>4 DEF OwnBuffer
<1>2. Stored'
  <2>1. Stored /\ \A z \in Sessions : Kept(z)' = Kept(z)
    BY DEF Sending, Kept
  <2>. HIDE DEF Kept
  <2>2. \A u \in Threads : pc'[u] = "send" => arg'[u] \in given'[self'[u]]
    BY <2>1 DEF Stored, Lands, Shape, InHand
  <2>3. \A z \in Sessions : \A m \in 1 .. MaxSends : m # n \/ z # s =>
          ((\A u \in Threads : ~(pc'[u] = "send" /\ self'[u] = z /\ arg'[u] = m))
             <=> \A u \in Threads : ~(pc[u] = "send" /\ self[u] = z /\ arg[u] = m))
    BY DEF Lands
  <2>4. \A z \in Sessions : \A m \in 1 .. MaxSends :
         (\E i \in DOMAIN Kept(z) : Kept(z)[i] = m)
           <=> m \in given'[z] /\ \A u \in Threads :
                                   ~(pc'[u] = "send" /\ self'[u] = z /\ arg'[u] = m)
    <3>. TAKE z \in Sessions
    <3>. TAKE m \in 1 .. MaxSends
    <3>1. CASE m = n /\ z = s
      <4>1. ~\E i \in DOMAIN Kept(z) : Kept(z)[i] = m
        BY <2>1, <3>1 DEF Stored
      <4>2. pc'[t] = "send" /\ self'[t] = z /\ arg'[t] = m
        BY <3>1 DEF Lands
      <4>. QED
        BY <4>1, <4>2
    <3>2. CASE m # n \/ z # s
      <4>1. m \in given'[z] <=> m \in given[z]
        BY <3>2
      <4>. QED
        BY <2>1, <2>3, <3>2, <4>1 DEF Stored
    <3>. QED
      BY <3>1, <3>2
  <2>. QED
    BY <2>1, <2>2, <2>4 DEF Stored
<1>3. Registered'
  BY DEF Sending, Registered, Lands
<1>. QED
  BY <1>1, <1>2, <1>3

LEMMA SendCallSending ==
  ASSUME Shape, Sending, NEW t \in Threads, NEW s \in Sessions, SendCall(t, s)
  PROVE  Sending'
<1>1. /\ pc[t] = "idle" /\ sends < MaxSends /\ sends' = sends + 1 /\ cast' = cast
      /\ Lands(t, "send", s, sends + 1)
      /\ given' = [given EXCEPT ![s] = @ \cup {sends + 1}]
      /\ UNCHANGED <<sendQueue, isSendRegistered, sendBuffers, sessions>>
  BY ControlLands DEF SendCall, SendBegins, At, svcVars
<1>2. sends \in Nat /\ MaxSends \in Nat /\ sends + 1 \in 1 .. MaxSends
  BY <1>1, SessionConstants DEF Shape, TypeOK
<1>3. given'[s] = given[s] \cup {sends + 1} /\ \A z \in Sessions : z # s => given'[z] = given[z]
  BY <1>1 DEF Shape, TypeOK
<1>4. /\ sends + 1 \notin given[s]
      /\ \A u \in Threads \ {t} : pc[u] \in SendPCs => arg[u] # sends + 1
  BY <1>2 DEF Sending, OwnBuffer
<1>5. OwnBuffer' /\ Stored' /\ Registered'
  <2>1. sends' \in Nat /\ sends <= sends' /\ sends + 1 <= sends' /\ pc[t] \in {"idle", "broadcast"}
    BY <1>1, <1>2
  <2>. QED
    BY <1>1, <1>2, <1>3, <1>4, <2>1, BeginsSending
<1>6. Visited'
  <2>1. cast[t] = None
    BY <1>1 DEF Shape, InHand, SendPCs
  <2>2. \A u \in Threads \ {t} : pc[u] \in SendPCs =>
           \A z \in Sessions : arg[u] \in given'[z] <=> arg[u] \in given[z]
    BY <1>3, <1>4
  <2>3. \A u \in Threads : cast[u] # None => pc[u] \in SendPCs /\ cast[u] \subseteq Sessions
    BY DEF Shape, TypeOK, InHand
  <2>4. sessions \subseteq Sessions
    BY DEF Shape, TypeOK
  <2>5. Visited
    BY DEF Sending
  <2>6. ASSUME NEW u \in Threads \ {t}
        PROVE  /\ pc'[u] = "broadcast" /\ cast'[u] = None => \A z \in Sessions : arg'[u] \notin given'[z]
               /\ cast'[u] # None => /\ \A z \in cast'[u] : arg'[u] \notin given'[z]
                                     /\ \A z \in sessions' : z \in cast'[u] \/ arg'[u] \in given'[z]
    <3>1. pc'[u] = pc[u] /\ arg'[u] = arg[u] /\ cast'[u] = cast[u] /\ sessions' = sessions
      BY <1>1 DEF Lands
    <3>. QED
      BY <2>2, <2>3, <2>4, <2>5, <3>1 DEF Visited, SendPCs
  <2>7. pc'[t] = "send" /\ cast'[t] = None
    BY <1>1, <2>1 DEF Lands
  <2>. QED
    BY <2>6, <2>7 DEF Visited
<1>. QED
  BY <1>5, <1>6 DEF Sending

LEMMA BroadCastCallSending ==
  ASSUME Shape, Sending, NEW t \in Threads, BroadCastCall(t)
  PROVE  Sending'
<1>1. /\ pc[t] = "idle" /\ sends' = sends + 1 /\ cast' = cast
      /\ Lands(t, "broadcast", None, sends + 1)
      /\ UNCHANGED <<sendQueue, isSendRegistered, sendBuffers, given, sessions>>
  BY BroadCastCallShape DEF BroadCastCall, Begin, At, svcVars
<1>2. sends \in Nat /\ sends + 1 \in Nat
  BY DEF Shape, TypeOK
<1>3. OwnBuffer'
  <2>1. \A u \in Threads : pc'[u] \in SendPCs => arg'[u] \in 1 .. sends'
    BY <1>1, <1>2 DEF Sending, OwnBuffer, Lands
  <2>2. \A u, v \in Threads :
          pc'[u] \in SendPCs /\ pc'[v] \in SendPCs /\ arg'[u] = arg'[v] => u = v
    BY <1>1, <1>2 DEF Sending, OwnBuffer, Lands
  <2>3. \A z \in Sessions : given'[z] \subseteq 1 .. sends'
    BY <1>1, <1>2 DEF Sending, OwnBuffer
  <2>. QED
    BY <2>1, <2>2, <2>3 DEF OwnBuffer
<1>4. Stored'
  <2>1. Stored /\ \A z : Kept(z)' = Kept(z)
    BY <1>1 DEF Sending, Kept
  <2>. HIDE DEF Kept
  <2>2. \A u \in Threads : pc'[u] = "send" => pc[u] = "send" /\ self'[u] = self[u] /\ arg'[u] = arg[u]
    BY <1>1 DEF Lands
  <2>3. \A u \in Threads : pc[u] = "send" => pc'[u] = "send" /\ self'[u] = self[u] /\ arg'[u] = arg[u]
    BY <1>1 DEF Lands
  <2>4. \A u \in Threads : pc'[u] = "send" => arg'[u] \in given'[self'[u]]
    BY <1>1, <2>1, <2>2 DEF Stored
  <2>5. \A s, n : (\A u \in Threads : ~(pc'[u] = "send" /\ self'[u] = s /\ arg'[u] = n))
                    <=> \A u \in Threads : ~(pc[u] = "send" /\ self[u] = s /\ arg[u] = n)
    BY <2>2, <2>3
  <2>. QED
    BY <1>1, <2>1, <2>4, <2>5 DEF Stored
<1>5. Visited'
  <2>1. cast[t] = None /\ \A z \in Sessions : sends + 1 \notin given[z]
    BY <1>1, <1>2 DEF Shape, InHand, SendPCs, Sending, OwnBuffer
  <2>. QED
    BY <1>1, <2>1 DEF Sending, Visited, Lands
<1>6. Registered'
  BY <1>1 DEF Sending, Registered, Lands
<1>. QED
  BY <1>3, <1>4, <1>5, <1>6 DEF Sending

\* One iteration of BroadCast: the session is given the buffer, or was never
\* connected and is none of the service's.
LEMMA BroadCastSending ==
  ASSUME Shape, Receiving, Sending, NEW t \in Threads, BroadCast(t)
  PROVE  Sending'
<1>1. PICK s \in cast[t] : /\ cast' = [cast EXCEPT ![t] = @ \ {s}]
                           /\ IF isConnected[s] THEN SendBegins(t, s, arg[t])
                              ELSE UNCHANGED <<pc, self, arg, given>>
  BY DEF BroadCast
<1>2. /\ pc[t] = "broadcast" /\ cast[t] # None /\ cast[t] \subseteq Sessions /\ s \in Sessions
      /\ UNCHANGED <<sendQueue, isSendRegistered, sendBuffers, sends, sessions>>
  BY DEF BroadCast, At, svcVars, Shape, TypeOK
<1>3. /\ cast'[t] = cast[t] \ {s} /\ cast'[t] # None
      /\ \A u \in Threads \ {t} : cast'[u] = cast[u]
  <2>1. cast[t] \ {s} \in SUBSET Sessions
    BY <1>2
  <2>2. cast[t] \ {s} # None
    BY <2>1, NoneFacts
  <2>. QED
    BY <1>1, <2>2 DEF Shape, TypeOK
<1>4. \A u \in Threads : cast[u] # None => pc[u] \in SendPCs /\ cast[u] \subseteq Sessions
  BY DEF Shape, TypeOK, InHand
<1>5. sessions \subseteq Sessions /\ Visited /\ arg[t] \notin given[s]
  BY <1>1, <1>2 DEF Shape, TypeOK, Sending, Visited
<1>6. CASE isConnected[s]
  <2>1. /\ Lands(t, "send", s, arg[t])
        /\ given'[s] = given[s] \cup {arg[t]} /\ \A z \in Sessions : z # s => given'[z] = given[z]
    BY <1>1, <1>2, <1>6, ControlLands DEF SendBegins, Shape, TypeOK
  <2>2. /\ sends \in Nat /\ MaxSends \in Nat /\ arg[t] \in 1 .. MaxSends /\ arg[t] <= sends
        /\ \A u \in Threads \ {t} : pc[u] \in SendPCs => arg[u] # arg[t]
    <3>1. arg[t] \in 1 .. sends /\ \A u \in Threads \ {t} : pc[u] \in SendPCs => arg[u] # arg[t]
      BY <1>2 DEF Sending, OwnBuffer, SendPCs
    <3>2. sends \in 0 .. MaxSends /\ MaxSends \in Nat
      BY SessionConstants DEF Shape, TypeOK
    <3>. QED
      BY <3>1, <3>2
  <2>3. OwnBuffer' /\ Stored' /\ Registered'
    <3>1. PICK n \in 1 .. MaxSends : n = arg[t]
      BY <2>2
    <3>2. /\ sends' \in Nat /\ sends <= sends' /\ n <= sends' /\ n \notin given[s]
          /\ pc[t] \in {"idle", "broadcast"}
      BY <1>2, <1>5, <2>2, <3>1
    <3>3. Lands(t, "send", s, n) /\ given'[s] = given[s] \cup {n}
      BY <2>1, <3>1
    <3>. QED
      BY <1>2, <2>1, <2>2, <3>1, <3>2, <3>3, BeginsSending
  <2>4. Visited'
    <3>1. ASSUME NEW u \in Threads \ {t}
          PROVE  /\ pc'[u] = "broadcast" /\ cast'[u] = None => \A z \in Sessions : arg'[u] \notin given'[z]
                 /\ cast'[u] # None => /\ \A z \in cast'[u] : arg'[u] \notin given'[z]
                                       /\ \A z \in sessions' : z \in cast'[u] \/ arg'[u] \in given'[z]
      <4>1. pc'[u] = pc[u] /\ arg'[u] = arg[u] /\ cast'[u] = cast[u] /\ sessions' = sessions
        BY <1>2, <1>3, <2>1 DEF Lands
      <4>2. pc[u] \in SendPCs => \A z \in Sessions : arg[u] \in given'[z] <=> arg[u] \in given[z]
        BY <2>1, <2>2
      <4>. QED
        BY <1>4, <1>5, <4>1, <4>2 DEF Visited, SendPCs
    <3>2. /\ pc'[t] = "send" /\ arg'[t] = arg[t]
          /\ \A z \in cast'[t] : arg[t] \notin given'[z]
          /\ \A z \in sessions' : z \in cast'[t] \/ arg[t] \in given'[z]
      BY <1>2, <1>3, <1>5, <2>1 DEF Lands, Visited
    <3>. QED
      BY <3>1, <3>2 DEF Visited
  <2>. QED
    BY <2>3, <2>4 DEF Sending
<1>7. CASE ~isConnected[s]
  <2>1. UNCHANGED <<pc, self, arg, given>>
    BY <1>1, <1>7
  <2>2. s \notin sessions
    BY <1>7 DEF Receiving, AddedOnce
  <2>3. OwnBuffer' /\ Registered'
    BY <1>2, <2>1 DEF Sending, OwnBuffer, Registered
  <2>4. Stored'
    <3>1. \A z : Kept(z)' = Kept(z)
      BY <1>2 DEF Kept
    <3>. HIDE DEF Kept
    <3>. QED
      BY <2>1, <3>1 DEF Sending, Stored
  <2>5. Visited'
    BY <1>2, <1>3, <1>5, <2>1, <2>2 DEF Visited
  <2>. QED
    BY <2>3, <2>4, <2>5 DEF Sending
<1>. QED
  BY <1>6, <1>7

\* Senders that go on keep their buffers.
LEMMA KeepOwn ==
  ASSUME OwnBuffer, UNCHANGED <<sends, given>>,
         \A u \in Threads : pc'[u] \in SendPCs => pc[u] \in SendPCs /\ arg'[u] = arg[u]
  PROVE  OwnBuffer'
  BY DEF OwnBuffer

\* Who has its buffer stored, or is through, goes back to BroadCast with it or out.
LEMMA KeepVisited ==
  ASSUME Shape, Visited, UNCHANGED <<given, sessions>>, NEW t \in Threads, NEW l, NEW s, NEW x,
         Lands(t, l, s, x), \A u \in Threads \ {t} : cast'[u] = cast[u],
         l = "broadcast" => cast'[t] # None,
         cast'[t] # None => cast'[t] = cast[t] /\ x = arg[t]
  PROVE  Visited'
<1>1. ASSUME NEW u \in Threads
      PROVE  /\ pc'[u] = "broadcast" /\ cast'[u] = None => pc[u] = "broadcast" /\ cast[u] = None
                                                           /\ arg'[u] = arg[u]
             /\ cast'[u] # None => cast'[u] = cast[u] /\ arg'[u] = arg[u]
  BY DEF Lands
<1>. QED
  BY <1>1 DEF Visited

\* What Send does: back to the caller, or the first on to RegisterSend.
LEMMA SendEffect ==
  ASSUME Shape, NEW t \in Threads, Send(t)
  PROVE  /\ pc[t] = "send" /\ self[t] \in Sessions
         /\ \E l \in {"idle", "broadcast", "register_send"} : \E s, x :
              /\ Lands(t, l, s, x) /\ cast' = cast
              /\ l = "broadcast" => cast[t] # None
              /\ l = "idle" => cast[t] = None
              /\ l # "idle" => x = arg[t]
              /\ l = "register_send" => s = self[t] /\ ~isSendRegistered[self[t]]
<1>1. pc[t] = "send" /\ self[t] \in Sessions
  BY DEF Send, At, Shape, InHand
<1>2. CASE isSendRegistered[self[t]]
  <2>1. SendReturns(t)
    BY <1>2 DEF Send
  <2>2. PICK l \in {"idle", "broadcast"}, x \in Nat :
           /\ l = "idle" <=> cast[t] = None
           /\ l = "broadcast" => x = arg[t]
           /\ Lands(t, l, None, x) /\ cast' = cast
    BY <2>1, SendReturnsLands
  <2>. QED
    BY <1>1, <2>2
<1>3. CASE ~isSendRegistered[self[t]]
  <2>1. Lands(t, "register_send", self[t], arg[t]) /\ cast' = cast
    BY <1>3, GotoOn DEF Send
  <2>. QED
    BY <1>1, <1>3, <2>1
<1>. QED
  BY <1>2, <1>3

\* The sequences of a session, and what Send and RegisterSend make of them.
LEMMA KeptTyped ==
  ASSUME Shape, NEW s \in Sessions
  PROVE  /\ sendBuffers[s] \in Seq(1 .. MaxSends) /\ sendQueue[s] \in Seq(1 .. MaxSends)
         /\ Kept(s) \in Seq(1 .. MaxSends)
<1>1. sendBuffers[s] \in Seq(1 .. MaxSends) /\ sendQueue[s] \in Seq(1 .. MaxSends)
  BY DEF Shape, TypeOK
<1>. QED
  BY <1>1, ConcatProperties DEF Kept

LEMMA AppendAfter ==
  ASSUME NEW S, NEW b \in Seq(S), NEW q \in Seq(S), NEW n \in S
  PROVE  b \o Append(q, n) = Append(b \o q, n)
<1>1. <<n>> \in Seq(S)
  OBVIOUS
<1>2. Append(q, n) = q \o <<n>>
  BY AppendIsConcat
<1>3. b \o q \in Seq(S)
  BY ConcatProperties
<1>4. Append(b \o q, n) = (b \o q) \o <<n>>
  BY <1>3, AppendIsConcat
<1>5. (b \o q) \o <<n>> = b \o (q \o <<n>>)
  BY <1>1, ConcatAssociative
<1>. QED
  BY <1>2, <1>4, <1>5

LEMMA SendKeeps ==
  ASSUME Shape, NEW t \in Threads, Send(t), arg[t] \in 1 .. MaxSends, self[t] \in Sessions
  PROVE  \A s \in Sessions : Kept(s)' = IF s = self[t] THEN Append(Kept(s), arg[t]) ELSE Kept(s)
<1>1. sendQueue' = [sendQueue EXCEPT ![self[t]] = Append(@, arg[t])] /\ sendBuffers' = sendBuffers
  BY DEF Send
<1>2. /\ sendQueue'[self[t]] = Append(sendQueue[self[t]], arg[t])
      /\ \A s \in Sessions : s # self[t] => sendQueue'[s] = sendQueue[s]
  BY <1>1 DEF Shape, TypeOK
<1>3. \A s \in Sessions : s # self[t] => Kept(s)' = Kept(s)
  BY <1>1, <1>2 DEF Kept
<1>4. ASSUME NEW s \in Sessions, s = self[t] PROVE Kept(s)' = Append(Kept(s), arg[t])
  <2>1. PICK S : S = 1 .. MaxSends
    OBVIOUS
  <2>2. sendBuffers[s] \in Seq(S) /\ sendQueue[s] \in Seq(S) /\ arg[t] \in S
    BY <2>1, KeptTyped
  <2>3. sendBuffers[s] \o Append(sendQueue[s], arg[t]) = Append(sendBuffers[s] \o sendQueue[s], arg[t])
    <3>1. PICK b \in Seq(S), q \in Seq(S), n \in S :
             b = sendBuffers[s] /\ q = sendQueue[s] /\ n = arg[t]
      BY <2>2
    <3>2. b \o Append(q, n) = Append(b \o q, n)
      BY AppendAfter
    <3>. QED
      BY <3>1, <3>2
  <2>4. sendBuffers'[s] = sendBuffers[s] /\ sendQueue'[s] = Append(sendQueue[s], arg[t])
    BY <1>1, <1>2, <1>4
  <2>. QED
    BY <2>3, <2>4 DEF Kept
<1>. QED
  BY <1>3, <1>4

LEMMA RegisterSendKeeps ==
  ASSUME Shape, NEW t \in Threads, RegisterSend(t), self[t] \in Sessions
  PROVE  \A s \in Sessions : Kept(s)' = Kept(s)
<1>1. /\ sendBuffers' = [sendBuffers EXCEPT ![self[t]] = @ \o sendQueue[self[t]]]
      /\ sendQueue' = [sendQueue EXCEPT ![self[t]] = << >>]
  BY DEF RegisterSend
<1>2. /\ sendBuffers'[self[t]] = Kept(self[t]) /\ sendQueue'[self[t]] = << >>
      /\ \A s \in Sessions : s # self[t] => sendQueue'[s] = sendQueue[s] /\ sendBuffers'[s] = sendBuffers[s]
  BY <1>1 DEF Shape, TypeOK, Kept
<1>3. Kept(self[t]) \o << >> = Kept(self[t])
  BY KeptTyped, ConcatEmptySeq
<1>4. sendBuffers'[self[t]] \o sendQueue'[self[t]] = Kept(self[t])
  BY <1>2, <1>3
<1>5. ASSUME NEW s \in Sessions PROVE sendBuffers'[s] \o sendQueue'[s] = Kept(s)
  <2>1. CASE s = self[t]
    BY <1>4, <2>1
  <2>2. CASE s # self[t]
    BY <1>2, <2>2 DEF Kept
  <2>. QED
    BY <2>1, <2>2
<1>. QED
  BY <1>5 DEF Kept

\* A sequence one longer, by a member it did not have.
LEMMA OneMoreKept ==
  ASSUME NEW S, NEW k \in Seq(S), NEW n \in S, \A i \in DOMAIN k : k[i] # n,
         \A i, j \in DOMAIN k : k[i] = k[j] => i = j
  PROVE  LET m == Append(k, n)
         IN  /\ \A i, j \in DOMAIN m : m[i] = m[j] => i = j
             /\ \A x : (\E i \in DOMAIN m : m[i] = x) <=> x = n \/ \E i \in DOMAIN k : k[i] = x
<1>. DEFINE m == Append(k, n)
<1>1. /\ m \in Seq(S) /\ Len(m) = Len(k) + 1
      /\ \A i \in 1 .. Len(k) : m[i] = k[i]
      /\ m[Len(k) + 1] = n
  BY AppendProperties
<1>2. Len(k) \in Nat /\ DOMAIN k = 1 .. Len(k) /\ DOMAIN m = 1 .. Len(m)
  BY <1>1, LenProperties
<1>. HIDE DEF m
<1>3. PICK last : last = Len(k) + 1
  OBVIOUS
<1>4. /\ DOMAIN m = DOMAIN k \cup {last} /\ last \notin DOMAIN k
      /\ m[last] = n /\ \A i \in DOMAIN k : m[i] = k[i]
  BY <1>1, <1>2, <1>3
<1>5. \A i, j \in DOMAIN m : m[i] = m[j] => i = j
  BY <1>4
<1>6. \A x : (\E i \in DOMAIN m : m[i] = x) <=> x = n \/ \E i \in DOMAIN k : k[i] = x
  BY <1>4
<1>. QED
  BY <1>5, <1>6 DEF m

\* The buffer of a Send that has the lock is stored after those that were.
LEMMA SendSending ==
  ASSUME Shape, Sending, NEW t \in Threads, Send(t)
  PROVE  Sending'
<1>1. /\ pc[t] = "send" /\ self[t] \in Sessions
      /\ UNCHANGED <<sendBuffers, sends, given, sessions>>
      /\ isSendRegistered' = [isSendRegistered EXCEPT ![self[t]] = TRUE]
  BY SendEffect DEF Send, svcVars
<1>2. PICK l, s, x :
              /\ l \in {"idle", "broadcast", "register_send"}
              /\ Lands(t, l, s, x) /\ cast' = cast
              /\ l = "broadcast" => cast[t] # None
              /\ l = "idle" => cast[t] = None
              /\ l # "idle" => x = arg[t]
              /\ l = "register_send" => s = self[t] /\ ~isSendRegistered[self[t]]
  BY SendEffect
<1>3. arg[t] \in 1 .. MaxSends /\ arg[t] \in given[self[t]]
  <2>1. arg[t] \in 1 .. sends /\ arg[t] \in given[self[t]]
    BY <1>1 DEF Sending, OwnBuffer, Stored, SendPCs
  <2>2. sends \in 0 .. MaxSends /\ MaxSends \in Nat
    BY SessionConstants DEF Shape, TypeOK
  <2>. QED
    BY <2>1, <2>2
<1>4. OwnBuffer'
  <2>1. \A u \in Threads : pc'[u] \in SendPCs => pc[u] \in SendPCs /\ arg'[u] = arg[u]
    BY <1>1, <1>2 DEF Lands, SendPCs
  <2>. QED
    BY <1>1, <2>1, KeepOwn DEF Sending
<1>5. Visited'
  BY <1>1, <1>2, KeepVisited DEF Sending
<1>6. Registered'
  <2>1. /\ isSendRegistered'[self[t]]
        /\ \A z \in Sessions : isSendRegistered[z] => isSendRegistered'[z]
    BY <1>1 DEF Shape, TypeOK
  <2>2. \A u \in Threads : pc[u] = "register_send" => self[u] \in Sessions
    BY DEF Shape, InHand
  <2>. QED
    BY <1>1, <1>2, <2>1, <2>2 DEF Sending, Registered, Lands
<1>7. Stored'
  <2>1. \A z \in Sessions : Kept(z)' = IF z = self[t] THEN Append(Kept(z), arg[t]) ELSE Kept(z)
    BY <1>1, <1>3, SendKeeps
  <2>2. \A z \in Sessions : Kept(z) \in Seq(1 .. MaxSends)
    BY KeptTyped
  <2>. HIDE DEF Kept
  <2>3. Stored
    BY DEF Sending
  <2>4. \A u \in Threads \ {t} : pc[u] = "send" => arg[u] # arg[t]
    BY <1>1 DEF Sending, OwnBuffer, SendPCs
  <2>5. \A u \in Threads : pc'[u] = "send" => u # t /\ pc[u] = "send" /\ self'[u] = self[u] /\ arg'[u] = arg[u]
    BY <1>2 DEF Lands
  <2>6. \A u \in Threads \ {t} : pc[u] = "send" => pc'[u] = "send" /\ self'[u] = self[u] /\ arg'[u] = arg[u]
    BY <1>2 DEF Lands
  <2>7. \A u \in Threads : pc'[u] = "send" => arg'[u] \in given'[self'[u]]
    BY <1>1, <2>3, <2>5 DEF Stored
  <2>8. ASSUME NEW z \in Sessions
        PROVE  /\ \A i, j \in DOMAIN Kept(z)' : Kept(z)'[i] = Kept(z)'[j] => i = j
               /\ \A n \in 1 .. MaxSends :
                    (\E i \in DOMAIN Kept(z)' : Kept(z)'[i] = n)
                      <=> n \in given[z] /\ \A u \in Threads :
                                   ~(pc'[u] = "send" /\ self'[u] = z /\ arg'[u] = n)
    <3>1. CASE z = self[t]
      <4>1. PICK k : k = Kept(z)
        OBVIOUS
      <4>2. /\ k \in Seq(1 .. MaxSends)
            /\ \A i, j \in DOMAIN k : k[i] = k[j] => i = j
            /\ \A i \in DOMAIN k : k[i] # arg[t]
        BY <1>1, <1>3, <2>2, <2>3, <3>1, <4>1 DEF Stored
      <4>3. PICK m : m = Append(k, arg[t])
        OBVIOUS
      <4>4. /\ \A i, j \in DOMAIN m : m[i] = m[j] => i = j
            /\ \A n : (\E i \in DOMAIN m : m[i] = n) <=> n = arg[t] \/ \E i \in DOMAIN k : k[i] = n
        BY <1>3, <4>2, <4>3, OneMoreKept
      <4>5. Kept(z)' = m
        BY <2>1, <3>1, <4>1, <4>3
      <4>6. ASSUME NEW n \in 1 .. MaxSends
            PROVE  (\E i \in DOMAIN m : m[i] = n)
                      <=> n \in given[z] /\ \A u \in Threads :
                                   ~(pc'[u] = "send" /\ self'[u] = z /\ arg'[u] = n)
        <5>1. CASE n = arg[t]
          <6>1. \A u \in Threads : ~(pc'[u] = "send" /\ self'[u] = z /\ arg'[u] = n)
            BY <2>4, <2>5, <5>1
          <6>. QED
            BY <1>3, <3>1, <4>4, <5>1, <6>1
        <5>2. CASE n # arg[t]
          <6>1. (\A u \in Threads : ~(pc'[u] = "send" /\ self'[u] = z /\ arg'[u] = n))
                  <=> \A u \in Threads : ~(pc[u] = "send" /\ self[u] = z /\ arg[u] = n)
            BY <2>5, <2>6, <5>2
          <6>2. (\E i \in DOMAIN k : k[i] = n)
                  <=> n \in given[z] /\ \A u \in Threads : ~(pc[u] = "send" /\ self[u] = z /\ arg[u] = n)
            BY <2>3, <4>1 DEF Stored
          <6>. QED
            BY <4>4, <5>2, <6>1, <6>2
        <5>. QED
          BY <5>1, <5>2
      <4>. QED
        BY <4>4, <4>5, <4>6
    <3>2. CASE z # self[t]
      <4>1. Kept(z)' = Kept(z)
        BY <2>1, <3>2
      <4>2. \A n : (\A u \in Threads : ~(pc'[u] = "send" /\ self'[u] = z /\ arg'[u] = n))
                  <=> \A u \in Threads : ~(pc[u] = "send" /\ self[u] = z /\ arg[u] = n)
        BY <2>5, <2>6, <3>2
      <4>. QED
        BY <2>3, <4>1, <4>2 DEF Stored
    <3>. QED
      BY <3>1, <3>2
  <2>. QED
    BY <1>1, <2>7, <2>8 DEF Stored
<1>. QED
  BY <1>4, <1>5, <1>6, <1>7 DEF Sending

LEMMA RegisterSendSending ==
  ASSUME Shape, Sending, NEW t \in Threads, RegisterSend(t)
  PROVE  Sending'
<1>1. /\ pc[t] = "register_send" /\ self[t] \in Sessions /\ SendReturns(t)
      /\ UNCHANGED <<isSendRegistered, sends, given, sessions>>
  BY DEF RegisterSend, At, svcVars, Shape, InHand
<1>2. PICK l \in {"idle", "broadcast"}, x \in Nat :
           /\ l = "idle" <=> cast[t] = None
           /\ l = "broadcast" => x = arg[t]
           /\ Lands(t, l, None, x) /\ cast' = cast
  BY <1>1, SendReturnsLands
<1>3. OwnBuffer'
  <2>1. \A u \in Threads : pc'[u] \in SendPCs => pc[u] \in SendPCs /\ arg'[u] = arg[u]
    BY <1>1, <1>2 DEF Lands, SendPCs
  <2>. QED
    BY <1>1, <2>1, KeepOwn DEF Sending
<1>4. Visited'
  BY <1>1, <1>2, KeepVisited DEF Sending
<1>5. Registered'
  BY <1>1, <1>2 DEF Sending, Registered, Lands
<1>6. Stored'
  <2>1. \A z \in Sessions : Kept(z)' = Kept(z)
    BY <1>1, RegisterSendKeeps
  <2>. HIDE DEF Kept
  <2>2. \A u \in Threads : pc'[u] = "send" => pc[u] = "send" /\ self'[u] = self[u] /\ arg'[u] = arg[u]
    BY <1>2 DEF Lands
  <2>3. \A u \in Threads : pc[u] = "send" => pc'[u] = "send" /\ self'[u] = self[u] /\ arg'[u] = arg[u]
    BY <1>1, <1>2 DEF Lands
  <2>4. \A u \in Threads : pc'[u] = "send" => arg'[u] \in given'[self'[u]]
    BY <1>1, <2>2 DEF Sending, Stored
  <2>5. \A s, n : (\A u \in Threads : ~(pc'[u] = "send" /\ self'[u] = s /\ arg'[u] = n))
                    <=> \A u \in Threads : ~(pc[u] = "send" /\ self[u] = s /\ arg[u] = n)
    BY <2>2, <2>3
  <2>. QED
    BY <1>1, <2>1, <2>4, <2>5 DEF Sending, Stored
<1>. QED
  BY <1>3, <1>4, <1>5, <1>6 DEF Sending

LEMMA BroadCastReturnsSending ==
  ASSUME Shape, Sending, NEW t \in Threads, BroadCastReturns(t)
  PROVE  Sending'
<1>1. /\ pc[t] = "broadcast" /\ Lands(t, "idle", None, 0)
      /\ cast' = [cast EXCEPT ![t] = None]
      /\ UNCHANGED <<sendQueue, isSendRegistered, sendBuffers, sends, given, sessions>>
  BY BroadCastReturnsShape DEF BroadCastReturns, At, sendVars, svcVars
<1>2. cast'[t] = None /\ \A u \in Threads \ {t} : cast'[u] = cast[u]
  BY <1>1 DEF Shape, TypeOK
<1>3. OwnBuffer'
  <2>1. \A u \in Threads : pc'[u] \in SendPCs => pc[u] \in SendPCs /\ arg'[u] = arg[u]
    BY <1>1 DEF Lands, SendPCs
  <2>. QED
    BY <1>1, <2>1, KeepOwn DEF Sending
<1>4. Visited'
  BY <1>1, <1>2, KeepVisited DEF Sending
<1>5. Registered'
  BY <1>1 DEF Sending, Registered, Lands
<1>6. Stored'
  <2>1. \A z \in Sessions : Kept(z)' = Kept(z)
    BY <1>1 DEF Kept
  <2>. HIDE DEF Kept
  <2>2. \A u \in Threads : pc'[u] = "send" => pc[u] = "send" /\ self'[u] = self[u] /\ arg'[u] = arg[u]
    BY <1>1 DEF Lands
  <2>3. \A u \in Threads : pc[u] = "send" => pc'[u] = "send" /\ self'[u] = self[u] /\ arg'[u] = arg[u]
    BY <1>1 DEF Lands
  <2>4. \A u \in Threads : pc'[u] = "send" => arg'[u] \in given'[self'[u]]
    BY <1>1, <2>2 DEF Sending, Stored
  <2>5. \A s, n : (\A u \in Threads : ~(pc'[u] = "send" /\ self'[u] = s /\ arg'[u] = n))
                    <=> \A u \in Threads : ~(pc[u] = "send" /\ self[u] = s /\ arg[u] = n)
    BY <2>2, <2>3
  <2>. QED
    BY <1>1, <2>1, <2>4, <2>5 DEF Sending, Stored
<1>. QED
  BY <1>3, <1>4, <1>5, <1>6 DEF Sending

\* Every step.
LEMMA SendingNext ==
  ASSUME Shape, Alone, Receiving, Sending, Next
  PROVE  Sending'
<1>1. \A t \in Threads, s \in Sessions : SendCall(t, s) => Sending'
  BY SendCallSending
<1>2. \A t \in Threads : BroadCastCall(t) \/ BroadCast(t) \/ BroadCastReturns(t) => Sending'
  BY BroadCastCallSending, BroadCastSending, BroadCastReturnsSending
<1>3. \A t \in Threads : EnterScope(t) \/ Send(t) \/ RegisterSend(t) => Sending'
  BY EnterScopeSending, SendSending, RegisterSendSending
<1>4. \A t \in Threads : InsertSession(t) => Sending'
  BY InsertSessionSending DEF Next
<1>5. \A t \in Threads :
        \/ Dispatch(t) \/ ProcessConnect(t) \/ RegisterRecv(t)
        \/ RecvReturned(t) \/ ProcessRecv(t) \/ OnRecvReturns(t)
        \/ AddSession(t) \/ ProcessDisconnect(t) \/ ReleaseSession(t) \/ UncountSession(t)
        \/ \E s \in Sessions : StartConnect(t, s) \/ RegisterDisconnect(t, s)
        => Sending'
  BY NetworkSending
<1>6. \A s \in Sessions :
        \/ CompleteConnect(s) \/ CompleteDisconnect(s) \/ CompleteRecv(s) \/ PeerCloses(s)
        => Sending'
  BY NetworkSending
<1>. QED
  BY <1>1, <1>2, <1>3, <1>4, <1>5, <1>6 DEF Next, Call, Run, Kernel

-----------------------------------------------------------------------------
(* The count.                                                               *)

\* Who is in the service's scope is the only one between two of its steps.
LEMMA OnlyOneHolds ==
  ASSUME Alone, ~raced, NEW t \in Threads, InService(t)
  PROVE  \A u \in Threads \ {t} : pc[u] \notin HeldPCs
<1>1. \A u \in Threads : pc[u] \in HeldPCs => InService(u)
  BY DEF Alone, HeldPCs, InService
<1>. HIDE DEF InService
<1>. QED
  BY <1>1 DEF Alone

\* With one thread in the scope at most, what is counted is the set and the
\* session that thread has in hand.
LEMMA CountedOne ==
  ASSUME NEW t \in Threads, \A u \in Threads \ {t} : pc[u] \notin HeldPCs
  PROVE  Counted = IF Between(t) THEN sessions \cup {self[t]} ELSE sessions
<1>1. \A u \in Threads : Between(u) => u = t
  BY DEF Between, HeldPCs
<1>2. Counted = sessions \cup {self[u] : u \in {v \in Threads : Between(v)}}
  BY DEF Counted, Between
<1>. HIDE DEF Between
<1>. QED
  BY <1>1, <1>2

LEMMA CountedOneNext ==
  ASSUME NEW t \in Threads, \A u \in Threads \ {t} : pc'[u] \notin HeldPCs
  PROVE  Counted' = IF Between(t)' THEN sessions' \cup {self'[t]} ELSE sessions'
<1>1. \A u \in Threads : Between(u)' => u = t
  BY DEF Between, HeldPCs
<1>2. Counted' = sessions' \cup {self'[u] : u \in {v \in Threads : Between(v)'}}
  BY DEF Counted, Between
<1>. HIDE DEF Between
<1>. QED
  BY <1>1, <1>2

\* A set of sessions is finite.
LEMMA SomeSessions ==
  ASSUME NEW S \in SUBSET Sessions
  PROVE  IsFiniteSet(S) /\ Cardinality(S) \in Nat
  BY SessionConstants, FS_Subset, FS_CardinalityType

\* A step of t, or of nobody, outside AddSession and ReleaseSession.
LEMMA CountStays ==
  ASSUME CountRight, debug' = debug, UNCHANGED svcVars,
         \A u \in Threads : pc[u] \in HeldPCs \/ pc'[u] \in HeldPCs
                            => pc'[u] = pc[u] /\ self'[u] = self[u]
  PROVE  CountRight'
<1>1. \A u \in Threads : Between(u)' <=> Between(u)
  BY DEF Between, HeldPCs
<1>2. \A u \in Threads : Between(u) => self'[u] = self[u]
  BY DEF Between, HeldPCs
<1>3. Counted = sessions \cup {self[u] : u \in {v \in Threads : Between(v)}}
  BY DEF Counted, Between
<1>4. Counted' = sessions' \cup {self'[u] : u \in {v \in Threads : Between(v)'}}
  BY DEF Counted, Between
<1>5. Counted' = Counted
  <2>. HIDE DEF Between
  <2>1. sessions' = sessions
    BY DEF svcVars
  <2>. QED
    BY <1>1, <1>2, <1>3, <1>4, <2>1
<1>6. CountMatchesSessions'
  BY <1>5 DEF CountRight, CountMatchesSessions, svcVars
<1>7. \A u \in Threads : debug' /\ pc'[u] = "uncount_session" => self'[u] \notin sessions'
  BY DEF CountRight, svcVars, HeldPCs
<1>. QED
  BY <1>6, <1>7 DEF CountRight

LEMMA ControlCount ==
  ASSUME CountRight, debug' = debug, UNCHANGED svcVars, NEW t \in Threads,
         pc[t] \notin HeldPCs, pc'[t] \notin HeldPCs,
         \A u \in Threads \ {t} : pc'[u] = pc[u] /\ self'[u] = self[u]
  PROVE  CountRight'
  BY CountStays

\* Service::AddSession counts a session that is not in the set and that nobody
\* has in hand.
LEMMA AddSessionCount ==
  ASSUME Shape, Alone, Receiving, CountRight, ~raced, debug' = debug,
         NEW t \in Threads, AddSession(t)
  PROVE  CountRight'
<1>1. /\ pc[t] = "add_session" /\ InService(t) /\ self[t] \in Sessions
      /\ self[t] \notin sessions /\ sessions \subseteq Sessions
  BY DEF AddSession, At, InService, Receiving, AddedOnce, Shape, TypeOK, InHand
<1>2. Lands(t, "insert_session", self[t], arg[t])
  BY GotoOn DEF AddSession
<1>3. \A u \in Threads \ {t} : pc[u] \notin HeldPCs /\ pc'[u] \notin HeldPCs
  BY <1>1, <1>2, OnlyOneHolds DEF Lands
<1>4. Counted = sessions
  BY <1>1, <1>3, CountedOne DEF Between
<1>5. sessions' = sessions /\ sessionCount' = sessionCount + 1 /\ releases' = releases
  BY DEF AddSession
<1>6. Counted' = sessions \cup {self[t]}
  BY <1>2, <1>3, <1>5, CountedOneNext DEF Between, Lands
<1>7. Cardinality(sessions \cup {self[t]}) = Cardinality(sessions) + 1
  BY <1>1, SomeSessions, FS_AddElement
<1>8. CountMatchesSessions'
  <2>1. Cardinality(sessions) \in Nat /\ sessionCount \in Int /\ releases \in Nat
    BY <1>1, SomeSessions DEF Shape, TypeOK
  <2>. QED
    BY <1>4, <1>5, <1>6, <1>7, <2>1 DEF CountRight, CountMatchesSessions
<1>9. \A u \in Threads : pc'[u] # "uncount_session"
  BY <1>2, <1>3 DEF Lands, HeldPCs
<1>. QED
  BY <1>8, <1>9 DEF CountRight

\* ... and stores it: it was counted already.
LEMMA InsertSessionCount ==
  ASSUME Shape, Alone, CountRight, ~raced, debug' = debug,
         NEW t \in Threads, InsertSession(t)
  PROVE  CountRight'
<1>1. pc[t] = "insert_session" /\ InService(t)
  BY DEF InsertSession, LeaveScope, At, InService
<1>2. Lands(t, "register_recv", self[t], arg[t])
  BY GotoOn DEF InsertSession
<1>3. \A u \in Threads \ {t} : pc[u] \notin HeldPCs /\ pc'[u] \notin HeldPCs
  BY <1>1, <1>2, OnlyOneHolds DEF Lands
<1>4. Counted = sessions \cup {self[t]}
  BY <1>1, <1>3, CountedOne DEF Between
<1>5. sessions' = sessions \cup {self[t]} /\ sessionCount' = sessionCount /\ releases' = releases
  BY DEF InsertSession
<1>6. Counted' = Counted
  BY <1>2, <1>3, <1>4, <1>5, CountedOneNext DEF Between, Lands
<1>7. CountMatchesSessions'
  BY <1>5, <1>6 DEF CountRight, CountMatchesSessions
<1>8. \A u \in Threads : pc'[u] # "uncount_session"
  BY <1>2, <1>3 DEF Lands, HeldPCs
<1>. QED
  BY <1>7, <1>8 DEF CountRight

\* Service::ReleaseSession erases a session that was there, or nothing.
LEMMA ReleaseSessionCount ==
  ASSUME Shape, Alone, CountRight, ~raced, debug' = debug,
         NEW t \in Threads, ReleaseSession(t)
  PROVE  CountRight'
<1>1. pc[t] = "release_session" /\ InService(t)
  BY DEF ReleaseSession, At, InService
<1>2. CASE UNCHANGED <<svcVars, ctlVars>>
  BY <1>2, CountStays DEF ctlVars
<1>3. CASE /\ debug => self[t] \in sessions
           /\ sessions' = IF debug THEN sessions \ {self[t]} ELSE sessions
           /\ Goto(t, "uncount_session") /\ UNCHANGED <<sessionCount, releases>>
  <2>1. Lands(t, "uncount_session", self[t], arg[t])
    BY <1>3, GotoOn
  <2>2. \A u \in Threads \ {t} : pc[u] \notin HeldPCs /\ pc'[u] \notin HeldPCs
    BY <1>1, <2>1, OnlyOneHolds DEF Lands
  <2>3. Counted = sessions
    BY <1>1, <2>2, CountedOne DEF Between
  <2>4. Counted' = IF debug THEN sessions' \cup {self[t]} ELSE sessions'
    BY <2>1, <2>2, CountedOneNext DEF Between, Lands
  <2>5. Counted' = Counted
    BY <1>3, <2>3, <2>4
  <2>6. CountMatchesSessions'
    BY <1>3, <2>5 DEF CountRight, CountMatchesSessions
  <2>7. ASSUME NEW u \in Threads, debug', pc'[u] = "uncount_session" PROVE self'[u] \notin sessions'
    <3>1. u = t
      BY <2>2, <2>7 DEF HeldPCs
    <3>. QED
      BY <1>3, <2>1, <2>7, <3>1 DEF Lands
  <2>. QED
    BY <2>6, <2>7 DEF CountRight
<1>4. \/ UNCHANGED <<svcVars, ctlVars>>
      \/ /\ debug => self[t] \in sessions
         /\ sessions' = IF debug THEN sessions \ {self[t]} ELSE sessions
         /\ Goto(t, "uncount_session") /\ UNCHANGED <<sessionCount, releases>>
  BY DEF ReleaseSession, Crash
<1>. QED
  BY <1>2, <1>3, <1>4

\* ... and takes one off the count.
LEMMA UncountSessionCount ==
  ASSUME Shape, Alone, CountRight, ~raced, debug' = debug,
         NEW t \in Threads, UncountSession(t)
  PROVE  CountRight'
<1>1. /\ pc[t] = "uncount_session" /\ InService(t) /\ self[t] \in Sessions
      /\ sessions \subseteq Sessions
  BY DEF UncountSession, LeaveScope, At, InService, Shape, TypeOK, InHand
<1>2. Lands(t, "idle", None, 0)
  BY GotoIdle DEF UncountSession
<1>3. \A u \in Threads \ {t} : pc[u] \notin HeldPCs /\ pc'[u] \notin HeldPCs
  BY <1>1, <1>2, OnlyOneHolds DEF Lands
<1>4. Counted = IF debug THEN sessions \cup {self[t]} ELSE sessions
  BY <1>1, <1>3, CountedOne DEF Between
<1>5. sessions' = sessions /\ sessionCount' = sessionCount - 1 /\ releases' = releases + 1
  BY DEF UncountSession
<1>6. Counted' = sessions
  BY <1>2, <1>3, <1>5, CountedOneNext DEF Between, Lands
<1>7. Cardinality(sessions) \in Nat /\ sessionCount \in Int /\ releases \in Nat
  BY <1>1, SomeSessions DEF Shape, TypeOK
<1>8. CountMatchesSessions'
  <2>1. CASE debug
    <3>1. self[t] \notin sessions
      BY <1>1, <2>1 DEF CountRight
    <3>2. Cardinality(sessions \cup {self[t]}) = Cardinality(sessions) + 1
      BY <1>1, <3>1, SomeSessions, FS_AddElement
    <3>3. sessionCount = Cardinality(sessions) + 1
      BY <1>4, <1>7, <2>1, <3>2 DEF CountRight, CountMatchesSessions
    <3>4. sessionCount' = Cardinality(Counted') - 0
      BY <1>5, <1>6, <1>7, <3>3
    <3>5. debug'
      BY <2>1, Zenon
    <3>. QED
      BY <3>4, <3>5, Zenon DEF CountMatchesSessions
  <2>2. CASE ~debug
    BY <1>4, <1>5, <1>6, <1>7, <2>2 DEF CountRight, CountMatchesSessions
  <2>. QED
    BY <2>1, <2>2
<1>9. \A u \in Threads : pc'[u] # "uncount_session"
  BY <1>2, <1>3 DEF Lands, HeldPCs
<1>. QED
  BY <1>8, <1>9 DEF CountRight

\* Every step.
LEMMA CountNext ==
  ASSUME Shape, Alone, Receiving, CountRight, Next
  PROVE  CountRight'
<1>. debug' = debug /\ ~raced
  BY DEF Next
<1>1. ASSUME NEW t \in Threads,
             \/ AddSession(t) \/ InsertSession(t) \/ ReleaseSession(t) \/ UncountSession(t)
      PROVE  CountRight'
  BY <1>1, AddSessionCount, InsertSessionCount, ReleaseSessionCount, UncountSessionCount
<1>2. ASSUME NEW s \in Sessions,
             CompleteConnect(s) \/ CompleteDisconnect(s) \/ CompleteRecv(s) \/ PeerCloses(s)
      PROVE  CountRight'
  BY <1>2, CountStays
  DEF CompleteConnect, CompleteDisconnect, CompleteRecv, PeerCloses, ctlVars
<1>3. ASSUME NEW t \in Threads, NEW s \in Sessions, RegisterDisconnect(t, s) \/ StartConnect(t, s)
      PROVE  CountRight'
  BY <1>3, CountStays DEF RegisterDisconnect, StartConnect, ctlVars
<1>4. ASSUME NEW t \in Threads, EnterScope(t) PROVE CountRight'
  BY <1>4, CountStays DEF EnterScope
<1>5. ASSUME NEW t \in Threads, NEW s \in Sessions, SendCall(t, s) PROVE CountRight'
  <2>1. Control(t, "send", s, sends + 1) /\ UNCHANGED svcVars /\ pc[t] = "idle"
    BY <1>5 DEF SendCall, SendBegins, At
  <2>. QED
    BY <2>1, ControlLands, ControlCount DEF Lands, HeldPCs
<1>6. ASSUME NEW t \in Threads, BroadCastCall(t) PROVE CountRight'
  <2>1. Lands(t, "broadcast", None, sends + 1) /\ UNCHANGED svcVars /\ pc[t] = "idle"
    BY <1>6, BroadCastCallShape DEF BroadCastCall, At
  <2>. QED
    BY <2>1, ControlCount DEF Lands, HeldPCs
<1>7. ASSUME NEW t \in Threads,
             \/ ProcessConnect(t) \/ RegisterRecv(t) \/ RecvReturned(t) \/ ProcessRecv(t)
             \/ OnRecvReturns(t) \/ ProcessDisconnect(t)
      PROVE  CountRight'
  <2>1. UNCHANGED svcVars /\ pc[t] \notin HeldPCs
    BY <1>7 DEF ProcessConnect, RegisterRecv, RecvReturned, ProcessRecv, OnRecvReturns,
                ProcessDisconnect, At, HeldPCs
  <2>2. \E l \in {"idle", "add_session", "recv_returned", "on_recv", "register_recv",
                  "release_session"} : Goto(t, l)
    BY <1>7, RegisterRecvEffect, ProcessRecvEffect, OnRecvReturnsEffect
    DEF ProcessConnect, RecvReturned, ProcessDisconnect
  <2>3. pc'[t] \notin HeldPCs /\ \A u \in Threads \ {t} : pc'[u] = pc[u] /\ self'[u] = self[u]
    BY <2>2, GotoOn, GotoIdle DEF Lands, HeldPCs
  <2>. QED
    BY <2>1, <2>3, ControlCount
<1>8. ASSUME NEW t \in Threads, Send(t) \/ RegisterSend(t) PROVE CountRight'
  <2>1. /\ UNCHANGED svcVars /\ pc[t] \notin HeldPCs
        /\ SendReturns(t) \/ Goto(t, "register_send")
    BY <1>8 DEF Send, RegisterSend, At, HeldPCs
  <2>2. pc'[t] \notin HeldPCs /\ \A u \in Threads \ {t} : pc'[u] = pc[u] /\ self'[u] = self[u]
    BY <2>1, GotoOn, SendReturnsLands DEF Lands, HeldPCs
  <2>. QED
    BY <2>1, <2>2, ControlCount
<1>9. ASSUME NEW t \in Threads, BroadCast(t) PROVE CountRight'
  <2>1. UNCHANGED svcVars /\ pc[t] = "broadcast" /\ pc'[t] \notin HeldPCs
    BY <1>9 DEF BroadCast, At, SendBegins, Control, Shape, TypeOK, HeldPCs
  <2>2. \A u \in Threads \ {t} : pc'[u] = pc[u] /\ self'[u] = self[u]
    BY <1>9 DEF BroadCast, SendBegins, Control, Shape, TypeOK
  <2>. QED
    BY <2>1, <2>2, ControlCount DEF HeldPCs
<1>10. ASSUME NEW t \in Threads, BroadCastReturns(t) PROVE CountRight'
  <2>1. Lands(t, "idle", None, 0) /\ UNCHANGED svcVars /\ pc[t] = "broadcast"
    BY <1>10, BroadCastReturnsShape DEF BroadCastReturns, At
  <2>. QED
    BY <2>1, ControlCount DEF Lands, HeldPCs
<1>11. ASSUME NEW t \in Threads, Dispatch(t) PROVE CountRight'
  <2>1. CASE Crash("null ownerSession")
    BY <2>1, CountStays DEF Crash, ctlVars
  <2>2. ASSUME NEW l \in {"process_connect", "process_disconnect", "process_recv"}, NEW s, NEW n,
               Control(t, l, s, n), UNCHANGED svcVars
        PROVE  CountRight'
    <3>1. Lands(t, l, s, n)
      BY <2>2, ControlLands
    <3>2. pc[t] = "idle"
      BY <1>11 DEF Dispatch, At
    <3>. QED
      BY <2>2, <3>1, <3>2, ControlCount DEF Lands, HeldPCs
  <2>. QED
    BY <1>11, <2>1, <2>2, DispatchEffect
<1>. QED
  BY <1>1, <1>2, <1>3, <1>4, <1>5, <1>6, <1>7, <1>8, <1>9, <1>10, <1>11 DEF Next, Call, Run, Kernel

-----------------------------------------------------------------------------
(* The invariant holds.                                                     *)

LEMMA InitShape == Init => Shape
<1>. SUFFICES ASSUME Init PROVE Shape
  OBVIOUS
<1>1. EmptyBuffer \in [rd : 0 .. capacity, wr : 0 .. capacity]
  BY CapacityFacts DEF EmptyBuffer
<1>2. << >> \in Seq(1 .. MaxSends)
      /\ << >> \in Seq([session : Sessions, event : EventTypes, bytes : 0 .. capacity])
  OBVIOUS
<1>3. MaxSends \in Nat
  BY SessionConstants
<1>4. recvBuffer \in [Sessions -> [rd : 0 .. capacity, wr : 0 .. capacity]]
  BY <1>1 DEF Init
<1>5. sendQueue \in [Sessions -> Seq(1 .. MaxSends)]
      /\ sendBuffers \in [Sessions -> Seq(1 .. MaxSends)]
      /\ port \in Seq([session : Sessions, event : EventTypes, bytes : 0 .. capacity])
  BY <1>2 DEF Init
<1>6. TypeOK
  <2>1. /\ isConnected \in [Sessions -> BOOLEAN]
        /\ owner \in [Sessions -> [EventTypes -> BOOLEAN]]
        /\ isSendRegistered \in [Sessions -> BOOLEAN]
        /\ link \in [Sessions -> {"none", "up", "closed"}]
        /\ given \in [Sessions -> SUBSET (1 .. MaxSends)]
    BY DEF Init
  <2>2. /\ pc \in [Threads -> PCs]
        /\ self \in [Threads -> Sessions \cup {None}]
        /\ cast \in [Threads -> (SUBSET Sessions) \cup {None}]
    BY DEF Init, PCs
  <2>3. /\ sessions \subseteq Sessions /\ started \subseteq Sessions /\ raced \in BOOLEAN
        /\ inFlight \subseteq Sessions \X EventTypes \X (0 .. capacity)
    BY DEF Init
  <2>4. sessionCount \in Int /\ releases \in Nat /\ sends \in 0 .. MaxSends
    BY <1>3 DEF Init
  <2>. QED
    BY <1>4, <1>5, <2>1, <2>2, <2>3, <2>4 DEF TypeOK
<1>7. InHand
  BY DEF Init, InHand
<1>. QED
  BY <1>6, <1>7 DEF Shape

LEMMA InitIInv == Init => IInv
<1>. SUFFICES ASSUME Init PROVE IInv
  OBVIOUS
<1>1. Alone
  BY DEF Init, Alone, InService, HeldPCs
<1>2. OneChain
  BY DEF Init, OneChain, ChainOf, Asks, Reports, Works, ChainPCs
<1>3. StartedFirst /\ AddedOnce
  BY DEF Init, StartedFirst, AddedOnce, ChainPCs
<1>4. Fits
  BY DEF Init, Fits, RecvFits, EmptyBuffer
<1>5. OwnBuffer /\ Visited /\ Registered
  BY DEF Init, OwnBuffer, Visited, Registered, SendPCs
<1>6. \A s \in Sessions : Kept(s) = << >> /\ DOMAIN Kept(s) = {}
  BY DEF Init, Kept
<1>7. Stored
  <2>1. \A t \in Threads : pc[t] # "send"
    BY DEF Init
  <2>2. \A s \in Sessions : given[s] = {}
    BY DEF Init
  <2>. QED
    BY <1>6, <2>1, <2>2 DEF Stored
<1>8. CountRight
  <2>1. Counted = {}
    BY DEF Init, Counted
  <2>. QED
    BY <2>1, FS_EmptySet DEF Init, CountRight, CountMatchesSessions
<1>. QED
  BY InitShape, <1>1, <1>2, <1>3, <1>4, <1>5, <1>7, <1>8 DEF IInv, Receiving, Sending

LEMMA NextIInv == IInv /\ [Next]_vars => IInv'
<1>. SUFFICES ASSUME IInv, [Next]_vars PROVE IInv'
  OBVIOUS
<1>1. CASE Next
  BY <1>1, ShapeNext, AloneNext, ReceivingNext, SendingNext, CountNext
     DEF IInv, Sending
<1>2. CASE UNCHANGED vars
  <2>. USE <1>2 DEF vars, netVars, sendVars, svcVars, kernelVars, ctlVars
  <2>1. Shape'
    BY DEF IInv, Shape, TypeOK, InHand, ScopeOf
  <2>2. Alone'
    BY DEF IInv, Alone, InService
  <2>3. OneChain'
    BY DEF IInv, Receiving, OneChain, ChainOf, Asks, Reports, Works
  <2>4. StartedFirst' /\ AddedOnce'
    BY DEF IInv, Receiving, StartedFirst, AddedOnce
  <2>5. Fits'
    BY DEF IInv, Receiving, Fits, RecvFits
  <2>6. OwnBuffer' /\ Visited' /\ Registered'
    BY DEF IInv, Sending, OwnBuffer, Visited, Registered
  <2>7. Stored'
    <3>1. \A s : Kept(s)' = Kept(s)
      BY DEF Kept
    <3>. QED
      BY <3>1 DEF IInv, Sending, Stored
  <2>8. CountRight'
    BY CountStays DEF IInv
  <2>. QED
    BY <2>1, <2>2, <2>3, <2>4, <2>5, <2>6, <2>7, <2>8 DEF IInv, Receiving, Sending
<1>. QED
  BY <1>1, <1>2

\* The inductive invariant holds in every reachable state.
THEOREM InvariantHolds == Spec => []IInv
<1>. QED
  BY InitIInv, NextIInv, PTL DEF Spec

-----------------------------------------------------------------------------
(* What it gives.                                                           *)

\* The state of the network layer has its type in every reachable state.
THEOREM TypeCorrect == Spec => []TypeOK
<1>1. IInv => TypeOK
  BY DEF IInv, Shape
<1>. QED
  BY <1>1, InvariantHolds, PTL

\* A set of which any two members are equal has one member at most.
LEMMA AtMostOne ==
  ASSUME NEW S, \A x, y \in S : x = y
  PROVE  Cardinality(S) <= 1
<1>1. CASE S = {}
  BY <1>1, FS_EmptySet
<1>2. CASE S # {}
  <2>1. PICK x \in S : TRUE
    BY <1>2
  <2>2. S = {x}
    BY <2>1
  <2>. QED
    BY <2>2, FS_Singleton
<1>. QED
  BY <1>1, <1>2

\* However requests complete and whatever the workers do, the receive chain of a
\* session, and with it the right to move recvBuffer and to call WSARecv, is in
\* one place: with the kernel, in a packet of the port or with the worker that
\* runs ProcessConnect, ProcessRecv or RegisterRecv up to WSARecv.
THEOREM OneReceiverTheorem == Spec => []OneReceiver
<1>1. ASSUME IInv, NEW s \in Sessions PROVE Cardinality(Receivers(s)) <= 1
  <2>. DEFINE K == {<<"kernel", r>> :
                      r \in {x \in inFlight : x[1] = s /\ x[2] \in {"CONNECT", "RECV"}}}
              P == {<<"port", i>> : i \in {k \in DOMAIN port :
                      port[k].session = s /\ port[k].event \in {"CONNECT", "RECV"}}}
              W == {<<"thread", t>> : t \in {u \in Threads :
                      self[u] = s /\ pc[u] \in {"process_connect", "add_session",
                                      "insert_session", "register_recv", "process_recv",
                                      "on_recv"}}}
  <2>1. Receivers(s) = K \cup P \cup W
    BY DEF Receivers
  <2>2. ChainOf(s)
    BY <1>1 DEF IInv, Receiving, OneChain
  <2>3. \A x \in K : \E r \in inFlight : Asks(r, s) /\ x = <<"kernel", r>>
    BY DEF Asks
  <2>4. \A x \in P : \E i \in DOMAIN port : Reports(port[i], s) /\ x = <<"port", i>>
    BY DEF Reports
  <2>5. \A x \in W : \E t \in Threads : Works(t, s) /\ x = <<"thread", t>>
    BY DEF Works, ChainPCs
  <2>. HIDE DEF K, P, W
  <2>6. \A x, y \in K \cup P \cup W : x = y
    BY <2>2, <2>3, <2>4, <2>5, Zenon DEF ChainOf
  <2>. QED
    BY <2>1, <2>6, AtMostOne
<1>2. IInv => OneReceiver
  BY <1>1 DEF OneReceiver
<1>. QED
  BY <1>2, InvariantHolds, PTL

\* A completed receive fits the buffer when OnWrite takes it, for any buffer
\* size and whatever OnRecv left unread: RegisterRecv offers the free space of
\* then, and nobody moves the cursors before ProcessRecv.
THEOREM RecvFitsTheorem == Spec => []RecvFits
<1>1. IInv => RecvFits
  BY DEF IInv, Receiving, Fits
<1>. QED
  BY <1>1, InvariantHolds, PTL

\* With either guard one thread at most is in RegisterSend of a session: the
\* one that found isSendRegistered false.
THEOREM OneSenderTheorem == Spec => []OneSender
<1>1. ASSUME IInv, NEW s \in Sessions
      PROVE  Cardinality({t \in Threads : pc[t] = "register_send" /\ self[t] = s}) <= 1
  <2>. DEFINE S == {t \in Threads : pc[t] = "register_send" /\ self[t] = s}
  <2>1. \A x, y \in S : x = y
    BY <1>1 DEF IInv, Sending, Registered
  <2>. HIDE DEF S
  <2>2. Cardinality(S) <= 1
    BY <2>1, AtMostOne
  <2>. QED
    BY <2>2 DEF S
<1>2. IInv => OneSender
  BY <1>1 DEF OneSender
<1>. QED
  BY <1>2, InvariantHolds, PTL

\* Every buffer Send was given and has stored is kept once, in the queue or in
\* sendEvent, and a BroadCast that is through has served every session.
THEOREM NoSendLostTheorem == Spec => []NoSendLost
<1>1. ASSUME IInv, NEW s \in Sessions
      PROVE  LET all == sendBuffers[s] \o sendQueue[s]
                 entering == {arg[t] : t \in {u \in Threads : pc[u] = "send" /\ self[u] = s}}
             IN  /\ \A i, j \in DOMAIN all : all[i] = all[j] => i = j
                 /\ given[s] \ entering = {all[i] : i \in DOMAIN all}
  <2>. DEFINE all == Kept(s)
              entering == {arg[t] : t \in {u \in Threads : pc[u] = "send" /\ self[u] = s}}
  <2>1. Stored /\ given[s] \subseteq 1 .. MaxSends
    BY <1>1 DEF IInv, Sending, Shape, TypeOK
  <2>2. \A n : n \in entering <=> \E t \in Threads : pc[t] = "send" /\ self[t] = s /\ arg[t] = n
    OBVIOUS
  <2>3. \A i \in DOMAIN all : all[i] \in 1 .. MaxSends
    <3>1. all \in Seq(1 .. MaxSends)
      BY <1>1, KeptTyped DEF IInv
    <3>2. PICK q : q = Kept(s)
      OBVIOUS
    <3>3. q \in Seq(1 .. MaxSends)
      BY <3>1, <3>2
    <3>4. \A i \in 1 .. Len(q) : q[i] \in 1 .. MaxSends
      BY <3>3, ElementOfSeq
    <3>5. DOMAIN q = 1 .. Len(q)
      BY <3>3, LenProperties
    <3>. QED
      BY <3>2, <3>4, <3>5
  <2>4. \A i, j \in DOMAIN all : all[i] = all[j] => i = j
    BY <2>1 DEF Stored
  <2>5. \A n \in 1 .. MaxSends :
          (\E i \in DOMAIN all : all[i] = n)
            <=> n \in given[s] /\ \A t \in Threads :
                                    ~(pc[t] = "send" /\ self[t] = s /\ arg[t] = n)
    BY <2>1 DEF Stored
  <2>. HIDE DEF all, entering
  <2>6. given[s] \ entering = {all[i] : i \in DOMAIN all}
    <3>1. ASSUME NEW n PROVE n \in given[s] \ entering <=> \E i \in DOMAIN all : all[i] = n
      <4>1. CASE n \in 1 .. MaxSends
        BY <2>2, <2>5, <4>1
      <4>2. CASE n \notin 1 .. MaxSends
        BY <2>1, <2>3, <4>2
      <4>. QED
        BY <4>1, <4>2
    <3>. QED
      BY <3>1
  <2>. QED
    BY <2>4, <2>6 DEF all, entering, Kept
<1>2. IInv => \A t \in Threads : pc[t] = "broadcast" /\ cast[t] = {} =>
                \A s \in sessions : arg[t] \in given[s]
  <2>1. None # {}
    BY NoneFacts
  <2>. QED
    BY <2>1 DEF IInv, Sending, Visited
<1>3. IInv => NoSendLost
  BY <1>1, <1>2 DEF NoSendLost
<1>. QED
  BY <1>3, InvariantHolds, PTL

\* GetCurrentSessionCount, which takes no lock, is the number of sessions of the
\* service and of the one that is being added or released, for any number of
\* sessions, any order of adds and releases and either guard; in a Release build,
\* where the erase in the argument of ASSERT_CRASH is not there, it is too low by
\* the number of releases.
THEOREM CountTheorem == Spec => []CountMatchesSessions
<1>1. IInv => CountMatchesSessions
  BY DEF IInv, CountRight
<1>. QED
  BY <1>1, InvariantHolds, PTL

=============================================================================
