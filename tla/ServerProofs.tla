----------------------------- MODULE ServerProofs -----------------------------
(***************************************************************************)
(* Proofs about Server, and through it about ThreadManager and Listener:   *)
(* for any number of threads, accept slots and failed accepts.             *)
(***************************************************************************)
EXTENDS Server, FiniteSetTheorems, SequenceTheorems, TLAPS

-----------------------------------------------------------------------------
(* The inductive invariant of ThreadManager.                                *)

\* InitTLS gives out each number once, from 1; a thread that has not run it yet
\* has no id.
IdsDistinct ==
    /\ s_ThreadId >= 2
    /\ \A t \in Threads : at[t] \notin {"none", "starting"} =>
          tls_ThreadId[t] \in 1 .. s_ThreadId - 1
    /\ \A t, u \in Threads :
          /\ at[t] \notin {"none", "starting"}
          /\ at[u] \notin {"none", "starting"}
          /\ tls_ThreadId[t] = tls_ThreadId[u]
          => t = u

\* Join walks threads alone: who else is in Join, or in Launch's scope, is in a
\* race with it.
JoinsAlone ==
    raced \/ \A t, u \in Threads : at[t] = "join" /\ at[u] \in {"join", "launch"} => t = u

\* The threads Join has passed have ended.
PassedEnded ==
    \A t \in Threads : at[t] = "join" =>
        \A i \in 1 .. Len(threads) : i < next[t] => at[threads[i]] = "ended"

ThreadInv == TypeOK /\ IdsDistinct /\ JoinsAlone /\ PassedEnded /\ NoThreadForgotten

\* The constructor leaves one thread, with id 1.
LEMMA InitThreadInv == Init => ThreadInv
<1>. SUFFICES ASSUME Init PROVE ThreadInv
  OBVIOUS
<1>. USE ThreadConstants DEF Init, Threads
<1>1. TypeOK
  <2>1. threads \in Seq(Workers) /\ s_ThreadId \in Nat
    OBVIOUS
  <2>2. tls_ThreadId \in [Threads -> Nat] /\ next \in [Threads -> Nat]
    OBVIOUS
  <2>3. at \in [Threads -> Places]
    BY DEF Places
  <2>. QED
    BY <2>1, <2>2, <2>3 DEF TypeOK
<1>2. IdsDistinct
  BY DEF IdsDistinct
<1>3. JoinsAlone /\ PassedEnded
  BY DEF JoinsAlone, PassedEnded
<1>4. NoThreadForgotten
  BY DEF NoThreadForgotten
<1>. QED
  BY <1>1, <1>2, <1>3, <1>4 DEF ThreadInv

\* A thread that moves on inside its code, with ids and handles untouched.
LEMMA MovePreserves ==
  ASSUME ThreadInv, NEW t \in Threads, NEW l \in {"idle", "lock"},
         at[t] \in {"idle", "lock"}, Goto(t, l),
         UNCHANGED <<s_ThreadId, tls_ThreadId, mtxLock, threads, next, raced, terminated>>
  PROVE  ThreadInv'
<1>1. TypeOK'
  BY DEF Goto, ThreadInv, TypeOK, Places
<1>2. IdsDistinct'
  BY DEF Goto, ThreadInv, TypeOK, IdsDistinct
<1>3. JoinsAlone' /\ PassedEnded' /\ NoThreadForgotten'
  BY DEF Goto, ThreadInv, TypeOK, JoinsAlone, PassedEnded, NoThreadForgotten
<1>. QED
  BY <1>1, <1>2, <1>3 DEF ThreadInv

LEMMA LaunchCallPreserves ==
  ASSUME ThreadInv, NEW t \in Threads, LaunchCall(t) PROVE ThreadInv'
BY MovePreserves DEF LaunchCall

\* The mutex is taken; if somebody is in Join the race has happened.
LEMMA LaunchLockPreserves ==
  ASSUME ThreadInv, ~raced, NEW t \in Threads, LaunchLock(t) PROVE ThreadInv'
<1>. USE DEF LaunchLock, Goto, ThreadInv, TypeOK
<1>1. TypeOK'
  BY DEF Places
<1>2. IdsDistinct'
  BY DEF IdsDistinct
<1>3. JoinsAlone'
  BY DEF JoinsAlone, In
<1>4. PassedEnded' /\ NoThreadForgotten'
  BY DEF PassedEnded, NoThreadForgotten
<1>. QED
  BY <1>1, <1>2, <1>3, <1>4

\* A new thread, whose handle is appended to threads while nobody walks it.
LEMMA LaunchPreserves ==
  ASSUME ThreadInv, ~raced, NEW t \in Threads, NEW u \in Workers, Launch(t, u)
  PROVE  ThreadInv'
<1>. USE DEF Launch, ThreadInv, TypeOK
<1>1. u \in Threads /\ t # u
  BY DEF Threads
<1>2. TypeOK'
  <2>1. threads' \in Seq(Workers)
    OBVIOUS
  <2>2. at' \in [Threads -> Places]
    BY <1>1 DEF Places
  <2>. QED
    BY <2>1, <2>2
<1>3. IdsDistinct'
  BY <1>1 DEF IdsDistinct
<1>4. \A v \in Threads : at[v] # "join" /\ at'[v] # "join"
  BY <1>1 DEF JoinsAlone
<1>5. JoinsAlone' /\ PassedEnded'
  BY <1>4 DEF JoinsAlone, PassedEnded
<1>6. NoThreadForgotten'
  <2>1. Len(threads') = Len(threads) + 1 /\ threads'[Len(threads) + 1] = u
        /\ \A i \in 1 .. Len(threads) : threads'[i] = threads[i]
    OBVIOUS
  <2>2. DOMAIN threads = 1 .. Len(threads) /\ DOMAIN threads' = 1 .. Len(threads')
    BY <1>2
  <2>3. ASSUME NEW v \in Workers, at'[v] \notin {"none", "ended"}
        PROVE  \E i \in DOMAIN threads' : threads'[i] = v
    <3>1. CASE v = u
      <4>1. Len(threads) + 1 \in DOMAIN threads'
        BY <2>1, <2>2
      <4>. QED
        BY <2>1, <3>1, <4>1
    <3>2. CASE v # u
      <4>1. v \in Threads /\ at[v] \notin {"none", "ended"}
        BY <2>3, <3>2 DEF Threads
      <4>2. PICK i \in DOMAIN threads : threads[i] = v
        BY <4>1 DEF NoThreadForgotten
      <4>. QED
        BY <2>1, <2>2, <4>2
    <3>. QED
      BY <3>1, <3>2
  <2>. QED
    BY <2>3 DEF NoThreadForgotten
<1>. QED
  BY <1>2, <1>3, <1>5, <1>6

\* The next number is one no thread has.
LEMMA InitTLSPreserves ==
  ASSUME ThreadInv, NEW t \in Threads, InitTLS(t) PROVE ThreadInv'
<1>. USE DEF InitTLS, Goto, ThreadInv, TypeOK
<1>1. TypeOK'
  BY DEF Places
<1>2. IdsDistinct'
  <2>1. s_ThreadId' = s_ThreadId + 1 /\ tls_ThreadId'[t] = s_ThreadId
    OBVIOUS
  <2>2. \A u \in Threads : u # t => at'[u] = at[u] /\ tls_ThreadId'[u] = tls_ThreadId[u]
    OBVIOUS
  <2>3. \A u \in Threads : u # t /\ at[u] \notin {"none", "starting"} =>
           tls_ThreadId'[u] \in 1 .. s_ThreadId - 1 /\ tls_ThreadId'[u] # tls_ThreadId'[t]
    BY <2>1, <2>2 DEF IdsDistinct
  <2>. QED
    BY <2>1, <2>2, <2>3 DEF IdsDistinct
<1>3. JoinsAlone'
  BY DEF JoinsAlone
<1>4. PassedEnded'
  BY DEF PassedEnded
<1>5. NoThreadForgotten'
  BY DEF NoThreadForgotten
<1>. QED
  BY <1>1, <1>2, <1>3, <1>4, <1>5

LEMMA CallbackReturnsPreserves ==
  ASSUME ThreadInv, NEW t \in Threads, CallbackReturns(t) PROVE ThreadInv'
<1>. USE DEF CallbackReturns, Goto, ThreadInv, TypeOK
<1>1. TypeOK'
  BY DEF Places
<1>2. IdsDistinct'
  BY DEF IdsDistinct
<1>3. JoinsAlone' /\ PassedEnded' /\ NoThreadForgotten'
  BY DEF JoinsAlone, PassedEnded, NoThreadForgotten
<1>. QED
  BY <1>1, <1>2, <1>3

LEMMA JoinCallPreserves ==
  ASSUME ThreadInv, NEW t \in Threads, JoinCall(t) PROVE ThreadInv'
<1>. USE DEF JoinCall, Goto, ThreadInv, TypeOK
<1>1. TypeOK'
  BY DEF Places
<1>2. IdsDistinct'
  BY DEF IdsDistinct
<1>3. JoinsAlone'
  BY DEF JoinsAlone, In
<1>4. PassedEnded'
  <2>1. next'[t] = 1 /\ \A u \in Threads : u # t => next'[u] = next[u] /\ at'[u] = at[u]
    OBVIOUS
  <2>2. \A i \in 1 .. Len(threads) : threads[i] \in Threads /\ ~(i < 1)
    BY DEF Threads
  <2>. QED
    BY <2>1, <2>2 DEF PassedEnded
<1>5. NoThreadForgotten'
  BY DEF NoThreadForgotten
<1>. QED
  BY <1>1, <1>2, <1>3, <1>4, <1>5

\* Join goes on to the next handle only when the thread has ended.
LEMMA JoinThreadPreserves ==
  ASSUME ThreadInv, NEW t \in Threads, JoinThread(t) PROVE ThreadInv'
<1>. USE DEF ThreadInv
<1>1. UNCHANGED <<s_ThreadId, tls_ThreadId, mtxLock, threads, at, raced>>
  BY DEF JoinThread
<1>2. \/ /\ at[threads[next[t]]] = "ended"
         /\ next' = [next EXCEPT ![t] = @ + 1]
         /\ terminated' = terminated
      \/ next' = next /\ terminated' = TRUE
  BY DEF JoinThread
<1>3. TypeOK'
  <2>1. next \in [Threads -> Nat] /\ next[t] + 1 \in Nat
    BY DEF TypeOK
  <2>2. next' \in [Threads -> Nat]
    <3>1. CASE next' = [next EXCEPT ![t] = @ + 1]
      BY <2>1, <3>1
    <3>2. CASE next' = next
      BY <2>1, <3>2
    <3>. QED
      BY <1>2, <3>1, <3>2
  <2>3. terminated' \in BOOLEAN
    <3>1. terminated \in BOOLEAN
      BY DEF TypeOK
    <3>2. terminated' = terminated \/ terminated' = TRUE
      BY <1>2
    <3>. QED
      BY <3>1, <3>2, Zenon
  <2>. QED
    BY <1>1, <2>2, <2>3 DEF TypeOK
<1>4. IdsDistinct' /\ JoinsAlone' /\ NoThreadForgotten'
  BY <1>1 DEF IdsDistinct, JoinsAlone, NoThreadForgotten
<1>5. PassedEnded'
  <2>1. \A u \in Threads : u # t => next'[u] = next[u]
    BY <1>2 DEF TypeOK
  <2>2. \A i \in 1 .. Len(threads) :
           at[t] = "join" /\ i < next'[t] => at[threads[i]] = "ended"
    BY <1>2 DEF TypeOK, PassedEnded
  <2>. QED
    BY <1>1, <2>1, <2>2 DEF PassedEnded
<1>. QED
  BY <1>3, <1>4, <1>5

\* Join forgets the handles after all their threads have ended.
LEMMA JoinClearPreserves ==
  ASSUME ThreadInv, ~raced, NEW t \in Threads, JoinClear(t) PROVE ThreadInv'
<1>. USE DEF JoinClear, Goto, ThreadInv, TypeOK
<1>1. TypeOK'
  BY DEF Places
<1>2. IdsDistinct'
  BY DEF IdsDistinct
<1>3. JoinsAlone' /\ PassedEnded'
  BY DEF JoinsAlone, PassedEnded
<1>4. \A v \in Workers : at[v] \in {"none", "ended"}
  <2>1. \A i \in 1 .. Len(threads) : at[threads[i]] = "ended"
    BY DEF PassedEnded
  <2>2. DOMAIN threads = 1 .. Len(threads)
    OBVIOUS
  <2>. QED
    BY <2>1, <2>2 DEF NoThreadForgotten
<1>5. NoThreadForgotten'
  BY <1>4 DEF NoThreadForgotten, Threads
<1>. QED
  BY <1>1, <1>2, <1>3, <1>4, <1>5

\* Every step of a thread inside ThreadManager.
LEMMA StepPreserves ==
  ASSUME ThreadInv, NEW t \in Threads, Step(t) PROVE ThreadInv'
BY LaunchCallPreserves, LaunchLockPreserves, LaunchPreserves, InitTLSPreserves,
   CallbackReturnsPreserves, JoinCallPreserves, JoinThreadPreserves, JoinClearPreserves
DEF Step, Run

LEMMA ThreadStutter == ThreadInv /\ UNCHANGED threadVars => ThreadInv'
BY DEF threadVars, ThreadInv, TypeOK, IdsDistinct, JoinsAlone, PassedEnded, NoThreadForgotten

-----------------------------------------------------------------------------
(* The inductive invariant of Listener.                                     *)

Busy == {"register", "accept"}

ListenerTypeOK ==
    /\ stage \in {"none", "failed", "loop", "started"} \cup Busy
    /\ acceptEvents \in 0 .. maxSessionCount
    /\ ownerSession \in [L!Slots -> Nat \cup {"listener", None}]
    /\ created \in Nat
    /\ requests \subseteq L!Slots \X Nat
    /\ acceptPort \in Seq(L!Slots \X Nat)

\* RegisterAccept works on the event made last, and AcceptEx on the session
\* RegisterAccept has just stored in it.
EventInHand ==
    /\ stage \in Busy => acceptEvents >= 1
    /\ stage = "accept" => ownerSession[acceptEvents] = created

\* Every accept under way, pending or completed, is of the session its event
\* names, and of an event that is made and not in StartAccept's hand.
AcceptsMatchOwner ==
    \A r \in requests \cup {acceptPort[i] : i \in DOMAIN acceptPort} :
        /\ ownerSession[r[1]] = r[2]
        /\ r[1] <= acceptEvents
        /\ stage \in Busy => r[1] # acceptEvents

ListenerInv == ListenerTypeOK /\ EventInHand /\ AcceptsMatchOwner

\* The invariant gives the property: what is under way for event e is nothing, or
\* the one pair of e and its owner.
LEMMA AcceptsOfOneEvent ==
  ASSUME ListenerInv, NEW e \in L!Slots
  PROVE  /\ Cardinality(L!AcceptsOf(e)) <= 1
         /\ \A r \in L!AcceptsOf(e) : ownerSession[e] = r[2]
         /\ stage \in {"register", "accept"} /\ e = acceptEvents => L!AcceptsOf(e) = {}
<1>1. \A r \in L!AcceptsOf(e) :
         /\ r[1] = e /\ r \in L!Slots \X Nat
         /\ r \in requests \cup {acceptPort[i] : i \in DOMAIN acceptPort}
  BY DEF L!AcceptsOf, ListenerInv, ListenerTypeOK
<1>2. \A r \in L!AcceptsOf(e) : ownerSession[e] = r[2] /\ (stage \in Busy => e # acceptEvents)
  BY <1>1 DEF ListenerInv, AcceptsMatchOwner
<1>3. \A r \in L!AcceptsOf(e) : r = <<e, ownerSession[e]>>
  BY <1>1, <1>2
<1>4. Cardinality(L!AcceptsOf(e)) <= 1
  <2>1. L!AcceptsOf(e) \subseteq {<<e, ownerSession[e]>>}
    BY <1>3
  <2>2. IsFiniteSet({<<e, ownerSession[e]>>}) /\ Cardinality({<<e, ownerSession[e]>>}) = 1
    BY FS_Singleton
  <2>3. Cardinality(L!AcceptsOf(e)) <= Cardinality({<<e, ownerSession[e]>>})
    BY <2>1, <2>2, FS_Subset
  <2>. QED
    BY <2>2, <2>3
<1>. QED
  BY <1>2, <1>4 DEF Busy

LEMMA ListenerInvImplies == ListenerInv => OneAcceptPerEvent
<1>1. \A S : L!Cardinality(S) = Cardinality(S)
  BY DEF L!Cardinality, Cardinality
<1>. QED
  BY <1>1, AcceptsOfOneEvent, Zenon DEF OneAcceptPerEvent, L!OneAcceptPerEvent

\* No event is made before Start.
LEMMA InitListenerInv == L!Init => ListenerInv
<1>. SUFFICES ASSUME L!Init PROVE ListenerInv
  OBVIOUS
<1>1. ListenerTypeOK
  <2>1. maxSessionCount \in Nat
    BY ServerConstants
  <2>2. acceptPort \in Seq(L!Slots \X Nat)
    BY DEF L!Init
  <2>3. requests \subseteq L!Slots \X Nat /\ created \in Nat
    BY DEF L!Init
  <2>. QED
    BY <2>1, <2>2, <2>3 DEF L!Init, ListenerTypeOK
<1>2. EventInHand
  BY DEF L!Init, EventInHand, Busy
<1>3. AcceptsMatchOwner
  BY DEF L!Init, AcceptsMatchOwner
<1>. QED
  BY <1>1, <1>2, <1>3 DEF ListenerInv

LEMMA StartAcceptPreserves ==
  ASSUME ListenerInv, NEW t, L!StartAccept(t) PROVE ListenerInv'
BY DEF L!StartAccept, ListenerInv, ListenerTypeOK, EventInHand, AcceptsMatchOwner, Busy

\* The new event is beyond all that were made.
LEMMA NextSlotPreserves ==
  ASSUME ListenerInv, NEW t, L!NextSlot(t) PROVE ListenerInv'
<1>. USE DEF ListenerInv
<1>1. acceptEvents \in Nat /\ acceptEvents' = acceptEvents + 1 /\ stage' = "register"
      /\ acceptEvents + 1 \in L!Slots
  BY ServerConstants DEF L!NextSlot, L!Slots, ListenerTypeOK
<1>2. ListenerTypeOK'
  <2>1. ownerSession' \in [L!Slots -> Nat \cup {"listener", None}]
    BY DEF L!NextSlot, ListenerTypeOK
  <2>. QED
    BY <1>1, <2>1 DEF L!NextSlot, ListenerTypeOK, L!Slots, Busy
<1>3. EventInHand'
  BY <1>1 DEF EventInHand
<1>4. AcceptsMatchOwner'
  <2>. SUFFICES ASSUME NEW r \in requests \cup {acceptPort[i] : i \in DOMAIN acceptPort}
       PROVE  /\ ownerSession'[r[1]] = r[2]
              /\ r[1] <= acceptEvents + 1
              /\ r[1] # acceptEvents + 1
    BY <1>1 DEF AcceptsMatchOwner, L!NextSlot
  <2>1. r[1] \in L!Slots /\ r[1] <= acceptEvents /\ ownerSession[r[1]] = r[2]
    BY DEF AcceptsMatchOwner, ListenerTypeOK
  <2>2. r[1] \in Nat
    BY <2>1, ServerConstants DEF L!Slots
  <2>3. r[1] # acceptEvents + 1
    BY <1>1, <2>1, <2>2
  <2>4. ownerSession'[r[1]] = ownerSession[r[1]]
    BY <2>1, <2>3 DEF L!NextSlot, ListenerTypeOK
  <2>. QED
    BY <1>1, <2>1, <2>2, <2>3, <2>4
<1>. QED
  BY <1>2, <1>3, <1>4

LEMMA StartReturnsPreserves ==
  ASSUME ListenerInv, NEW t, L!StartReturns(t) PROVE ListenerInv'
BY DEF L!StartReturns, ListenerInv, ListenerTypeOK, EventInHand, AcceptsMatchOwner, Busy

\* A new session, or null, is stored in the event in hand, for which no accept is
\* under way.
LEMMA RegisterAcceptPreserves ==
  ASSUME ListenerInv, NEW t, L!RegisterAccept(t) PROVE ListenerInv'
<1>. USE DEF ListenerInv
<1>1. /\ stage = "register"
      /\ UNCHANGED <<starter, acceptEvents, requests, acceptPort>>
      /\ \/ /\ created' = created + 1 /\ stage' = "accept"
            /\ ownerSession' = [ownerSession EXCEPT ![acceptEvents] = created + 1]
         \/ /\ created' = created /\ stage' = "register"
            /\ ownerSession' = [ownerSession EXCEPT ![acceptEvents] = None]
  BY DEF L!RegisterAccept, L!In
<1>2. acceptEvents \in L!Slots
  BY <1>1, ServerConstants DEF EventInHand, ListenerTypeOK, L!Slots, Busy
<1>3. ListenerTypeOK'
  <2>1. ownerSession' \in [L!Slots -> Nat \cup {"listener", None}] /\ created' \in Nat
    BY <1>1 DEF ListenerTypeOK
  <2>. QED
    BY <1>1, <2>1 DEF ListenerTypeOK, Busy
<1>4. EventInHand'
  <2>1. acceptEvents' >= 1
    BY <1>1 DEF EventInHand, Busy
  <2>2. stage' = "accept" => ownerSession'[acceptEvents] = created'
    BY <1>1, <1>2 DEF ListenerTypeOK
  <2>. QED
    BY <1>1, <2>1, <2>2 DEF EventInHand
<1>5. AcceptsMatchOwner'
  <2>1. ASSUME NEW r \in requests \cup {acceptPort[i] : i \in DOMAIN acceptPort}
        PROVE  ownerSession'[r[1]] = r[2] /\ r[1] <= acceptEvents /\ r[1] # acceptEvents
    <3>1. /\ ownerSession[r[1]] = r[2] /\ r[1] <= acceptEvents /\ r[1] # acceptEvents
          /\ r[1] \in L!Slots
      BY <1>1 DEF AcceptsMatchOwner, Busy, ListenerTypeOK
    <3>. QED
      BY <1>1, <3>1 DEF ListenerTypeOK
  <2>. QED
    BY <1>1, <2>1 DEF AcceptsMatchOwner
<1>. QED
  BY <1>3, <1>4, <1>5

\* The kernel takes the accept of the session in the event, or nothing happens.
LEMMA AcceptExPreserves ==
  ASSUME ListenerInv, NEW t, L!AcceptEx(t) PROVE ListenerInv'
<1>. USE DEF ListenerInv
<1>. DEFINE new == <<acceptEvents, created>>
<1>1. /\ stage = "accept"
      /\ UNCHANGED <<starter, acceptEvents, ownerSession, created>>
      /\ \/ acceptPort' = Append(acceptPort, new) /\ stage' = "loop" /\ requests' = requests
         \/ requests' = requests \cup {new} /\ stage' = "loop" /\ acceptPort' = acceptPort
         \/ requests' = requests /\ stage' = "register" /\ acceptPort' = acceptPort
  BY DEF L!AcceptEx, L!In
<1>2. acceptEvents \in L!Slots /\ created \in Nat /\ ownerSession[acceptEvents] = created
  BY <1>1, ServerConstants DEF EventInHand, ListenerTypeOK, L!Slots, Busy
<1>3. new \in L!Slots \X Nat /\ new[1] = acceptEvents /\ new[2] = created
  BY <1>2
<1>. HIDE DEF new
<1>4. ListenerTypeOK'
  <2>1. acceptPort \in Seq(L!Slots \X Nat) /\ requests \subseteq L!Slots \X Nat
    BY DEF ListenerTypeOK
  <2>2. Append(acceptPort, new) \in Seq(L!Slots \X Nat)
        /\ requests \cup {new} \subseteq L!Slots \X Nat
    BY <1>3, <2>1
  <2>3. acceptPort' \in Seq(L!Slots \X Nat) /\ requests' \subseteq L!Slots \X Nat
    BY <1>1, <2>1, <2>2, Zenon
  <2>. QED
    BY <1>1, <2>3 DEF ListenerTypeOK, Busy
<1>5. EventInHand'
  BY <1>1 DEF EventInHand, Busy
<1>6. \A r \in requests' \cup {acceptPort'[i] : i \in DOMAIN acceptPort'} :
         \/ r \in requests \cup {acceptPort[i] : i \in DOMAIN acceptPort}
         \/ r = new /\ stage' = "loop"
  <2>1. CASE acceptPort' = Append(acceptPort, new) /\ stage' = "loop" /\ requests' = requests
    <3>1. /\ DOMAIN acceptPort = 1 .. Len(acceptPort)
          /\ DOMAIN acceptPort' = 1 .. Len(acceptPort) + 1
          /\ Len(acceptPort) \in Nat
          /\ acceptPort'[Len(acceptPort) + 1] = new
          /\ \A i \in 1 .. Len(acceptPort) : acceptPort'[i] = acceptPort[i]
      BY <1>3, <2>1 DEF ListenerTypeOK
    <3>. QED
      BY <2>1, <3>1
  <2>2. CASE acceptPort' = acceptPort
    BY <1>1, <2>2
  <2>. QED
    BY <1>1, <2>1, <2>2
<1>7. AcceptsMatchOwner'
  <2>1. ASSUME NEW r \in requests' \cup {acceptPort'[i] : i \in DOMAIN acceptPort'}
        PROVE  /\ ownerSession'[r[1]] = r[2]
               /\ r[1] <= acceptEvents'
               /\ stage' \in Busy => r[1] # acceptEvents'
    <3>1. CASE r \in requests \cup {acceptPort[i] : i \in DOMAIN acceptPort}
      BY <1>1, <3>1 DEF AcceptsMatchOwner, Busy
    <3>2. CASE r = new /\ stage' = "loop"
      <4>1. acceptEvents <= acceptEvents
        BY <1>2, ServerConstants DEF L!Slots
      <4>. QED
        BY <1>1, <1>2, <1>3, <3>2, <4>1 DEF Busy
    <3>. QED
      BY <1>6, <3>1, <3>2
  <2>. QED
    BY <2>1 DEF AcceptsMatchOwner
<1>. QED
  BY <1>4, <1>5, <1>7

\* A pending accept becomes a completed one.
LEMMA CompleteAcceptPreserves ==
  ASSUME ListenerInv, NEW r \in requests, L!CompleteAccept(r) PROVE ListenerInv'
<1>. USE DEF ListenerInv
<1>1. /\ requests' = requests \ {r} /\ acceptPort' = Append(acceptPort, r)
      /\ UNCHANGED <<starter, stage, acceptEvents, ownerSession, created, fault>>
      /\ r \in L!Slots \X Nat
  BY DEF L!CompleteAccept, ListenerTypeOK
<1>2. acceptPort' \in Seq(L!Slots \X Nat) /\ requests' \subseteq L!Slots \X Nat
  BY <1>1 DEF ListenerTypeOK
<1>3. requests' \cup {acceptPort'[i] : i \in DOMAIN acceptPort'}
         \subseteq requests \cup {acceptPort[i] : i \in DOMAIN acceptPort}
  <2>1. /\ DOMAIN acceptPort = 1 .. Len(acceptPort)
        /\ DOMAIN acceptPort' = 1 .. Len(acceptPort) + 1
        /\ Len(acceptPort) \in Nat
        /\ acceptPort'[Len(acceptPort) + 1] = r
        /\ \A i \in 1 .. Len(acceptPort) : acceptPort'[i] = acceptPort[i]
    BY <1>1 DEF ListenerTypeOK
  <2>. QED
    BY <1>1, <2>1
<1>. QED
  BY <1>1, <1>2, <1>3 DEF ListenerTypeOK, EventInHand, AcceptsMatchOwner

\* A packet leaves the port.
LEMMA DispatchAcceptPreserves ==
  ASSUME ListenerInv, NEW t, L!DispatchAccept(t) PROVE ListenerInv'
<1>. USE DEF ListenerInv
<1>1. /\ acceptPort # << >> /\ acceptPort' = Tail(acceptPort)
      /\ UNCHANGED <<starter, stage, acceptEvents, ownerSession, created, requests>>
  BY DEF L!DispatchAccept
<1>2. /\ acceptPort' \in Seq(L!Slots \X Nat) /\ Len(acceptPort') = Len(acceptPort) - 1
      /\ \A i \in 1 .. Len(acceptPort') : acceptPort'[i] = acceptPort[i + 1]
  BY <1>1, HeadTailProperties DEF ListenerTypeOK
<1>3. requests' \cup {acceptPort'[i] : i \in DOMAIN acceptPort'}
         \subseteq requests \cup {acceptPort[i] : i \in DOMAIN acceptPort}
  <2>1. DOMAIN acceptPort = 1 .. Len(acceptPort) /\ DOMAIN acceptPort' = 1 .. Len(acceptPort')
        /\ Len(acceptPort) \in Nat
    BY <1>2 DEF ListenerTypeOK
  <2>. QED
    BY <1>1, <1>2, <2>1
<1>. QED
  BY <1>1, <1>2, <1>3 DEF ListenerTypeOK, EventInHand, AcceptsMatchOwner

LEMMA ListenerStutter == ListenerInv /\ UNCHANGED listenerVars => ListenerInv'
BY DEF listenerVars, ListenerInv, ListenerTypeOK, EventInHand, AcceptsMatchOwner

-----------------------------------------------------------------------------
(* The server.                                                              *)

IInv == ThreadInv /\ ListenerInv

\* Each step of the server is a step of one part and leaves the other alone.
LEMMA NextPreserves == IInv /\ [ServerNext]_vars => IInv'
<1>. SUFFICES ASSUME IInv, [ServerNext]_vars PROVE IInv'
  OBVIOUS
<1>. USE DEF IInv
<1>1. CASE UNCHANGED vars
  BY <1>1, ThreadStutter, ListenerStutter DEF vars
<1>2. ASSUME NEW t \in Threads, ThreadStep(t) PROVE IInv'
  BY <1>2, StepPreserves, ListenerStutter DEF ThreadStep
<1>3. ASSUME NEW t \in Threads, StartStep(t) PROVE IInv'
  BY <1>3, ThreadStutter, StartAcceptPreserves DEF StartStep
<1>4. ASSUME NEW t \in Threads, ServiceStep(t) PROVE IInv'
  BY <1>4, ThreadStutter, NextSlotPreserves, StartReturnsPreserves,
     RegisterAcceptPreserves, AcceptExPreserves
  DEF ServiceStep, L!ServiceStep
<1>5. ASSUME NEW t \in Threads, DispatchStep(t) PROVE IInv'
  BY <1>5, ThreadStutter, DispatchAcceptPreserves DEF DispatchStep
<1>6. CASE KernelStep
  BY <1>6, ThreadStutter, CompleteAcceptPreserves DEF KernelStep
<1>. QED
  BY <1>1, <1>2, <1>3, <1>4, <1>5, <1>6 DEF ServerNext

LEMMA InvariantHolds == ServerSpec => []IInv
<1>1. ServerInit => IInv
  BY InitThreadInv, InitListenerInv DEF ServerInit, IInv
<1>. QED
  BY <1>1, NextPreserves, PTL DEF ServerSpec

\* What Lock needs of InitTLS: while fewer than 2^16 threads were ever launched,
\* the threads that run have owner fields that are not 0 and differ.
THEOREM LockOwnersTheorem == ServerSpec => []LockOwnersDistinct
<1>1. IInv => LockOwnersDistinct
  <2>. SUFFICES ASSUME IInv, s_ThreadId <= Mod16, NEW t \in Live, NEW u \in Live
       PROVE  OwnerField(t) # 0 /\ (OwnerField(t) = OwnerField(u) => t = u)
    BY DEF LockOwnersDistinct
  <2>1. s_ThreadId \in Nat /\ Mod16 \in Nat /\ Mod16 > 0 /\ t \in Threads /\ u \in Threads
    BY ThreadConstants DEF IInv, ThreadInv, TypeOK, Live
  <2>2. tls_ThreadId[t] \in 1 .. s_ThreadId - 1 /\ tls_ThreadId[u] \in 1 .. s_ThreadId - 1
    BY DEF Live, IInv, ThreadInv, IdsDistinct
  <2>3. \A n \in 1 .. s_ThreadId - 1 : n % Mod16 = n
    BY <2>1
  <2>4. OwnerField(t) = tls_ThreadId[t] /\ OwnerField(u) = tls_ThreadId[u]
    BY <2>2, <2>3 DEF OwnerField
  <2>5. tls_ThreadId[t] = tls_ThreadId[u] => t = u
    BY DEF Live, IInv, ThreadInv, IdsDistinct
  <2>. QED
    BY <2>1, <2>2, <2>4, <2>5
<1>. QED
  BY <1>1, InvariantHolds, PTL

\* A handle stays in threads until its thread has ended, so Join waits for every
\* thread launched before it and none is destroyed while it runs.
THEOREM NoThreadForgottenTheorem == ServerSpec => []NoThreadForgotten
<1>1. IInv => NoThreadForgotten
  BY DEF IInv, ThreadInv
<1>. QED
  BY <1>1, InvariantHolds, PTL

\* An AcceptEvent carries one accept at most, of the session its packet will be
\* dispatched to, however often AcceptEx fails and RegisterAccept repeats.
THEOREM OneAcceptTheorem == ServerSpec => []OneAcceptPerEvent
<1>1. IInv => OneAcceptPerEvent
  BY ListenerInvImplies DEF IInv
<1>. QED
  BY <1>1, InvariantHolds, PTL

=============================================================================
