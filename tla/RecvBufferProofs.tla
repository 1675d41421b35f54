-------------------------- MODULE RecvBufferProofs --------------------------
(***************************************************************************)
(* Proofs about RecvBuffer, for every bufferSize, BUFFER_COUNT and length  *)
(* of the stream.                                                          *)
(***************************************************************************)
EXTENDS RecvBuffer, TLAPS

-----------------------------------------------------------------------------
(* Arithmetic.                                                             *)

\* The buffer has room for at least one receive of bufferSize bytes.
LEMMA CapacityFacts == capacity \in Nat /\ capacity >= BufferSize
<1>1. BufferSize \in Nat /\ BufferCount \in Nat /\ BufferCount >= 1
  BY BufferAssumption
<1>. QED
  BY <1>1 DEF capacity

\* The largest multiple of s up to x is not beyond x.
LEMMA DivFacts ==
  ASSUME NEW x \in Nat, NEW s \in Nat, s > 0
  PROVE  s * (x \div s) \in Nat /\ s * (x \div s) <= x
<1>1. x \div s \in Nat
  OBVIOUS
<1>2. s * (x \div s) \in Nat
  BY <1>1
<1>3. x = s * (x \div s) + (x % s) /\ x % s \in Nat
  OBVIOUS
<1>. QED
  BY <1>1, <1>2, <1>3

-----------------------------------------------------------------------------
(* The inductive invariant.                                                 *)

\* Between RegisterRecv and the completion the window is what is free.
WindowIsFree == phase = "receive" => window = FreeSize(b)

\* Clean leaves room for bufferSize bytes, or unread data at the front.
CleanLeavesRoom ==
    phase \in {"register", "receive"} => b.rd = 0 \/ FreeSize(b) >= BufferSize

\* Typing, the stream, and what the phases know of each other: ProcessRecv's
\* OnWrite succeeds because the window is still what FreeSize was.
IInv == TypeOK /\ StreamIntact /\ NoWriteOverflow /\ WindowIsFree /\ CleanLeavesRoom

\* A new RecvBuffer satisfies the invariant.
LEMMA InitIInv == Init => IInv
<1>. SUFFICES ASSUME Init PROVE IInv
  OBVIOUS
<1>1. b = [rd |-> 0, wr |-> 0] /\ b.rd = 0 /\ b.wr = 0
  BY DEF Init, EmptyBuffer
<1>2. overlapped \in BOOLEAN
  BY DEF Init
<1>3. TypeOK
  BY <1>1, <1>2, CapacityFacts DEF Init, TypeOK
<1>4. StreamIntact
  <2>1. \A i \in b.rd .. (b.wr - 1) : FALSE
    BY <1>1
  <2>. QED
    BY <1>1, <2>1 DEF Init, StreamIntact, DataSize
<1>. QED
  BY <1>1, <1>3, <1>4 DEF Init, IInv, NoWriteOverflow, WindowIsFree, CleanLeavesRoom

\* Session::RegisterRecv preserves it: the window it offers is what is free.
LEMMA RegisterRecvIInv == IInv /\ RegisterRecv => IInv'
  BY CapacityFacts, SMTT(30)
  DEF RegisterRecv, IInv, TypeOK, StreamIntact, NoWriteOverflow, WindowIsFree,
      CleanLeavesRoom, DataSize, FreeSize

\* A completed receive and OnWrite preserve it: the new bytes continue the stream.
LEMMA ReceiveIInv == ASSUME IInv, NEW n \in 0 .. capacity, Receive(n) PROVE IInv'
<1>. USE CapacityFacts
<1>1. b.rd \in Nat /\ b.wr \in Nat /\ b.rd <= b.wr /\ b.wr + n <= capacity
  BY DEF Receive, IInv, TypeOK, WindowIsFree, FreeSize
<1>2. /\ b' = [b EXCEPT !.wr = @ + n]
      /\ phase' \in {"read", "Recv_0"}
  BY <1>1 DEF Receive, OnWrite, FreeSize, IInv, TypeOK
<1>3. /\ b' \in [rd : 0 .. capacity, wr : 0 .. capacity]
      /\ b'.rd = b.rd /\ b'.wr = b.wr + n
  BY <1>1, <1>2 DEF IInv, TypeOK
<1>4. buffer' \in [0 .. (capacity - 1) -> Nat]
  BY <1>1, SMTT(30) DEF Receive, IInv, TypeOK
<1>5. TypeOK'
  BY <1>1, <1>2, <1>3, <1>4, SMTT(30) DEF Receive, IInv, TypeOK
<1>6. StreamIntact'
  <2>1. received' = consumed' + DataSize(b)'
    BY <1>1, <1>3, SMTT(30) DEF Receive, IInv, TypeOK, StreamIntact, DataSize
  <2>2. ASSUME ~overlapped', NEW i \in b'.rd .. (b'.wr - 1)
        PROVE  buffer'[i] = consumed' + (i - b'.rd)
    <3>1. i \in DOMAIN buffer /\ i \in Int /\ consumed' = consumed
      BY <1>1, <1>3, SMTT(30) DEF Receive, IInv, TypeOK
    <3>2. CASE i < b.wr
      <4>1. \A j \in b.rd .. (b.wr - 1) : buffer[j] = consumed + (j - b.rd)
        BY <2>2 DEF Receive, IInv, StreamIntact
      <4>2. buffer'[i] = buffer[i]
        BY <1>1, <3>1, <3>2 DEF Receive
      <4>. QED
        BY <1>1, <1>3, <3>1, <3>2, <4>1, <4>2
    <3>3. CASE i >= b.wr
      <4>1. buffer'[i] = received + (i - b.wr)
        BY <1>1, <1>3, <3>1, <3>3 DEF Receive
      <4>2. received = consumed + (b.wr - b.rd)
        BY DEF IInv, StreamIntact, DataSize
      <4>3. consumed \in Nat
        BY DEF IInv, TypeOK
      <4>. QED
        BY <1>1, <1>3, <3>1, <4>1, <4>2, <4>3
    <3>. QED
      BY <1>1, <1>3, <3>2, <3>3
  <2>. QED
    BY <2>1, <2>2 DEF StreamIntact
<1>. QED
  BY <1>2, <1>5, <1>6 DEF IInv, NoWriteOverflow, WindowIsFree, CleanLeavesRoom

\* OnRecv and OnRead preserve it: the unread rest starts where OnRecv stopped.
LEMMA ReadIInv == ASSUME IInv, NEW k \in Int, Read(k) PROVE IInv'
<1>. USE CapacityFacts
<1>1. CASE k >= 0 /\ k <= DataSize(b)
  <2>1. /\ b' = [b EXCEPT !.rd = @ + k]
        /\ consumed' = consumed + k
        /\ phase' = "clean"
    BY <1>1 DEF Read, OnRead, IInv, TypeOK, DataSize
  <2>2. /\ b' \in [rd : 0 .. capacity, wr : 0 .. capacity]
        /\ b'.rd = b.rd + k /\ b'.wr = b.wr /\ b'.rd <= b'.wr
    BY <1>1, <2>1, SMTT(30) DEF IInv, TypeOK, DataSize
  <2>3. TypeOK'
    BY <1>1, <2>1, <2>2 DEF Read, IInv, TypeOK
  <2>4. StreamIntact'
    <3>1. received' = consumed' + DataSize(b)'
      BY <1>1, <2>1, <2>2, SMTT(30) DEF Read, IInv, TypeOK, StreamIntact, DataSize
    <3>2. ASSUME ~overlapped', NEW i \in b'.rd .. (b'.wr - 1)
          PROVE  buffer'[i] = consumed' + (i - b'.rd)
      <4>1. \A j \in b.rd .. (b.wr - 1) : buffer[j] = consumed + (j - b.rd)
        BY <3>2 DEF Read, IInv, StreamIntact
      <4>2. buffer' = buffer
        BY DEF Read
      <4>3. consumed \in Nat /\ b.rd \in Nat /\ b.wr \in Nat
        BY DEF IInv, TypeOK
      <4>4. i \in Int /\ i \in b.rd .. (b.wr - 1)
        BY <1>1, <2>2, <3>2, <4>3
      <4>5. buffer'[i] = consumed + (i - b.rd)
        BY <4>1, <4>2, <4>4
      <4>. QED
        BY <2>1, <2>2, <4>3, <4>4, <4>5
    <3>. QED
      BY <3>1, <3>2 DEF StreamIntact
  <2>. QED
    BY <2>1, <2>3, <2>4 DEF IInv, NoWriteOverflow, WindowIsFree, CleanLeavesRoom
<1>2. CASE ~(k >= 0 /\ k <= DataSize(b))
  <2>1. b' = b /\ consumed' = consumed /\ phase' = "OnRead_overflow"
    BY <1>2 DEF Read
  <2>. QED
    BY <2>1 DEF Read, IInv, TypeOK, StreamIntact, NoWriteOverflow, WindowIsFree,
                CleanLeavesRoom, DataSize
<1>. QED
  BY <1>1, <1>2

\* RecvBuffer::Clean preserves it: the copy moves the unread bytes, and no others.
LEMMA CleanUpIInv == IInv /\ CleanUp => IInv'
<1>. SUFFICES ASSUME IInv, CleanUp PROVE IInv'
  OBVIOUS
<1>. USE CapacityFacts
<1>1. /\ b.rd \in Nat /\ b.wr \in Nat /\ b.rd <= b.wr /\ b.wr <= capacity
      /\ BufferSize \in Nat
  BY BufferAssumption DEF IInv, TypeOK
<1>2. b' = Clean(b) /\ phase' = "register"
  BY DEF CleanUp
<1>3. /\ b' \in [rd : 0 .. capacity, wr : 0 .. capacity]
      /\ DataSize(b)' = DataSize(b)
      /\ b'.rd = 0 \/ FreeSize(b)' >= BufferSize
      /\ b'.rd <= b'.wr
  BY <1>1, <1>2 DEF Clean, Compacts, EmptyBuffer, DataSize, FreeSize, IInv, TypeOK
<1>4. buffer' \in [0 .. (capacity - 1) -> Nat]
  <2>1. CASE buffer' = IF Compacts(b) THEN CopyForward(b.rd, DataSize(b)) ELSE buffer
    BY <1>1, <2>1 DEF CopyForward, DataSize, IInv, TypeOK
  <2>2. CASE b.rd > 0 /\ buffer' = CopyBackward(b.rd, DataSize(b))
    <3>1. ASSUME NEW i \in 0 .. (capacity - 1), i < DataSize(b)
          PROVE  b.rd + i + b.rd * ((DataSize(b) - 1 - i) \div b.rd) \in 0 .. (capacity - 1)
      <4>1. DataSize(b) - 1 - i \in Nat
        BY <1>1, <3>1 DEF DataSize
      <4>2. /\ b.rd * ((DataSize(b) - 1 - i) \div b.rd) \in Nat
            /\ b.rd * ((DataSize(b) - 1 - i) \div b.rd) <= DataSize(b) - 1 - i
        BY <1>1, <2>2, <4>1, DivFacts
      <4>. QED
        BY <1>1, <3>1, <4>2 DEF DataSize
    <3>. QED
      BY <1>1, <2>2, <3>1 DEF CopyBackward, IInv, TypeOK
  <2>. QED
    BY <2>1, <2>2 DEF CleanUp
<1>5. TypeOK'
  BY <1>2, <1>3, <1>4 DEF CleanUp, IInv, TypeOK
<1>6. StreamIntact'
  <2>1. received' = consumed' + DataSize(b)'
    BY <1>3 DEF CleanUp, IInv, StreamIntact
  <2>2. ASSUME ~overlapped', NEW i \in b'.rd .. (b'.wr - 1)
        PROVE  buffer'[i] = consumed' + (i - b'.rd)
    <3>1. /\ ~overlapped /\ consumed' = consumed
          /\ buffer' = IF Compacts(b) THEN CopyForward(b.rd, DataSize(b)) ELSE buffer
      BY <2>2 DEF CleanUp
    <3>2. CASE DataSize(b) = 0
      BY <1>1, <1>2, <2>2, <3>2 DEF Clean, EmptyBuffer
    <3>3. CASE DataSize(b) # 0 /\ Compacts(b)
      <4>1. b' = [rd |-> 0, wr |-> DataSize(b)]
        BY <1>2, <3>3 DEF Clean
      <4>2. i \in 0 .. (DataSize(b) - 1) /\ i \in DOMAIN buffer
        BY <1>1, <2>2, <4>1 DEF DataSize, IInv, TypeOK
      <4>3. buffer'[i] = buffer[b.rd + i]
        BY <1>1, <3>1, <3>3, <4>2 DEF CopyForward, DataSize
      <4>4. \A j \in b.rd .. (b.wr - 1) : buffer[j] = consumed + (j - b.rd)
        BY <3>1 DEF IInv, StreamIntact
      <4>5. buffer[b.rd + i] = consumed + i
        <5>1. b.rd + i \in b.rd .. (b.wr - 1) /\ i = (b.rd + i) - b.rd
          BY <1>1, <4>2 DEF DataSize
        <5>. QED
          BY <4>4, <5>1
      <4>. QED
        BY <3>1, <4>1, <4>2, <4>3, <4>5
    <3>4. CASE DataSize(b) # 0 /\ ~Compacts(b)
      BY <1>2, <2>2, <3>1, <3>4 DEF Clean, IInv, StreamIntact
    <3>. QED
      BY <3>2, <3>3, <3>4
  <2>. QED
    BY <2>1, <2>2 DEF StreamIntact
<1>. QED
  BY <1>2, <1>3, <1>5, <1>6 DEF IInv, NoWriteOverflow, WindowIsFree, CleanLeavesRoom

\* Every step of the receive chain preserves the invariant.
LEMMA NextIInv == IInv /\ [Next]_vars => IInv'
<1>. SUFFICES ASSUME IInv, [Next]_vars PROVE IInv'
  OBVIOUS
<1>1. CASE RegisterRecv
  BY <1>1, RegisterRecvIInv
<1>2. CASE \E n \in 0 .. capacity : Receive(n)
  BY <1>2, ReceiveIInv
<1>3. CASE \E k \in -1 .. (capacity + 1) : Read(k)
  BY <1>3, ReadIInv, CapacityFacts
<1>4. CASE CleanUp
  BY <1>4, CleanUpIInv
<1>5. CASE UNCHANGED vars
  BY <1>5 DEF vars, IInv, TypeOK, StreamIntact, NoWriteOverflow, WindowIsFree,
              CleanLeavesRoom, DataSize, FreeSize
<1>. QED
  BY <1>1, <1>2, <1>3, <1>4, <1>5 DEF Next

-----------------------------------------------------------------------------
(* The theorems.                                                            *)

\* The inductive invariant holds in every reachable state of the chain.
THEOREM InvariantHolds == Spec => []IInv
  BY InitIInv, NextIInv, PTL DEF Spec

\* RecvBuffer::OnRead, OnWrite and Clean keep the cursors in the buffer and in
\* order, whatever the kernel delivers and OnRecv returns.
THEOREM TypeCorrect == Spec => []TypeOK
<1>1. IInv => TypeOK
  BY DEF IInv
<1>. QED
  BY <1>1, InvariantHolds, PTL

\* OnRecv sees the peer's stream unbroken across any number of compactions, as
\* long as no memcpy of RecvBuffer::Clean had overlapping ranges.
THEOREM StreamTheorem == Spec => []StreamIntact
<1>1. IInv => StreamIntact
  BY DEF IInv
<1>. QED
  BY <1>1, InvariantHolds, PTL

\* Session::ProcessRecv never takes its "OnWrite overflow" exit.
THEOREM NoOverflowTheorem == Spec => []NoWriteOverflow
<1>1. IInv => NoWriteOverflow
  BY DEF IInv
<1>. QED
  BY <1>1, InvariantHolds, PTL

\* RecvBuffer::Clean reclaims space early enough: RegisterRecv always offers
\* bufferSize bytes unless unread data starts at the front of the buffer.
THEOREM WindowTheorem == Spec => []WindowNotStarved
<1>1. IInv => WindowNotStarved
  BY DEF IInv, WindowNotStarved, WindowIsFree, CleanLeavesRoom
<1>. QED
  BY <1>1, InvariantHolds, PTL

\* The memcpy of RecvBuffer::Clean overlaps only under a backlog of more than
\* half of what the buffer holds less one bufferSize.
THEOREM OverlapTheorem == Spec => OverlapNeedsBacklog
<1>1. IInv /\ [Next]_vars =>
        [overlapped' # overlapped => 2 * DataSize(b) > capacity - BufferSize]_vars
  <2>. SUFFICES ASSUME IInv, Next, overlapped' # overlapped
                PROVE  2 * DataSize(b) > capacity - BufferSize
    BY DEF vars
  <2>1. CleanUp
    BY DEF Next, RegisterRecv, Receive, Read
  <2>2. overlapped' = (overlapped \/ (Overlaps /\ b.rd > 0))
    BY <2>1 DEF CleanUp
  <2>3. Overlaps
    <3>1. overlapped \in BOOLEAN
      BY DEF IInv, TypeOK
    <3>2. CASE overlapped
      BY <2>2, <3>1, <3>2
    <3>3. CASE ~overlapped /\ ~Overlaps
      BY <2>2, <3>1, <3>3
    <3>. QED
      BY <3>1, <3>2, <3>3
  <2>. QED
    BY <2>3, CapacityFacts, BufferAssumption DEF Overlaps, Compacts, DataSize, FreeSize, IInv, TypeOK
<1>. QED
  BY <1>1, InvariantHolds, PTL DEF Spec, OverlapNeedsBacklog

=============================================================================
