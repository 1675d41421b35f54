----------------------------- MODULE RecvBuffer -----------------------------
(***************************************************************************)
(* class RecvBuffer with its bytes, as the receive chain of a Session      *)
(* drives it (Session.cpp RegisterRecv, ProcessRecv): the kernel fills the *)
(* window it was given, OnWrite, OnRecv of the application, OnRead, Clean, *)
(* and the next window.                                                    *)
(*                                                                         *)
(* A byte is its position in the stream the peer sent.  Clean copies with  *)
(* memcpy; when source and destination overlap the outcome is undefined,   *)
(* and the copy may run from either end.                                   *)
(***************************************************************************)
EXTENDS RecvCursors

CONSTANT MaxBytes   \* bound on the length of the stream

VARIABLES
    b,           \* the cursors
    buffer,      \* the bytes
    window,      \* the length RegisterRecv gave to WSARecv
    received,    \* bytes of the stream received so far
    consumed,    \* bytes of the stream OnRecv has consumed so far
    phase,       \* the step of the chain that comes next
    overlapped   \* a memcpy had overlapping ranges

vars == <<b, buffer, window, received, consumed, phase, overlapped>>

Init ==
    /\ b = EmptyBuffer
    /\ buffer = [i \in 0 .. (capacity - 1) |-> 0]
    /\ window = 0
    /\ received = 0
    /\ consumed = 0
    /\ phase = "register"
    /\ overlapped = FALSE

\* Mutant: the whole buffer is offered, not what is free.
RegisterRecvWhole ==
    /\ phase = "register"
    /\ window' = capacity
    /\ phase' = "receive"
    /\ UNCHANGED <<b, buffer, received, consumed, overlapped>>

\* RegisterRecv: WSABUF is WriteCursor() and FreeSize().
RegisterRecv ==
    /\ phase = "register"
    /\ window' = FreeSize(b)
    /\ phase' = "receive"
    /\ UNCHANGED <<b, buffer, received, consumed, overlapped>>

\* The kernel writes n bytes into the window and completes; ProcessRecv
\* disconnects on 0, else calls OnWrite.
Receive(n) ==
    /\ phase = "receive" /\ n <= window /\ received + n <= MaxBytes
    /\ buffer' = [i \in DOMAIN buffer |->
                     IF i \in b.wr .. (b.wr + n - 1) THEN received + (i - b.wr)
                     ELSE buffer[i]]
    /\ received' = received + n
    /\ LET w == OnWrite(b, n)
       IN  /\ b' = IF n = 0 THEN b ELSE w.b
           /\ phase' = IF n = 0 THEN "Recv_0"
                       ELSE IF w.ok THEN "read" ELSE "OnWrite_overflow"
    /\ UNCHANGED <<window, consumed, overlapped>>

\* OnRecv of the application returns processLen, any integer.
Read(processLen) ==
    /\ phase = "read"
    /\ LET ok == /\ processLen >= 0
                 /\ processLen <= DataSize(b)
                 /\ OnRead(b, processLen).ok
       IN  /\ phase' = IF ok THEN "clean" ELSE "OnRead_overflow"
           /\ b' = IF ok THEN OnRead(b, processLen).b ELSE b
           /\ consumed' = IF ok THEN consumed + processLen ELSE consumed
    /\ UNCHANGED <<buffer, window, received, overlapped>>

\* memcpy(&buffer[0], &buffer[src], n) from the first byte to the last ...
CopyForward(src, n) ==
    [i \in DOMAIN buffer |-> IF i < n THEN buffer[src + i] ELSE buffer[i]]

\* ... and from the last to the first: a byte that was overwritten before it
\* was read is the one that was copied over it.
CopyBackward(src, n) ==
    [i \in DOMAIN buffer |->
        IF i < n THEN buffer[src + i + src * ((n - 1 - i) \div src)] ELSE buffer[i]]

Overlaps == Compacts(b) /\ b.rd < DataSize(b)

CleanUp ==
    /\ phase = "clean"
    /\ \/ buffer' = IF Compacts(b) THEN CopyForward(b.rd, DataSize(b)) ELSE buffer
       \/ Overlaps /\ b.rd > 0 /\ buffer' = CopyBackward(b.rd, DataSize(b))
    /\ overlapped' = (overlapped \/ (Overlaps /\ b.rd > 0))
    /\ b' = Clean(b)
    /\ phase' = "register"
    /\ UNCHANGED <<window, received, consumed>>

Next ==
    \/ RegisterRecv
    \/ \E n \in 0 .. capacity : Receive(n)
    \/ \E k \in -1 .. (capacity + 1) : Read(k)
    \/ CleanUp

Spec == Init /\ [][Next]_vars

-----------------------------------------------------------------------------
(* Properties.                                                              *)

\* The cursors stay inside the buffer and in order, the rest has its type.
TypeOK ==
    /\ b \in [rd : 0 .. capacity, wr : 0 .. capacity] /\ b.rd <= b.wr
    /\ buffer \in [0 .. (capacity - 1) -> Nat]
    /\ window \in 0 .. capacity
    /\ received \in Nat /\ consumed \in Nat
    /\ phase \in {"register", "receive", "read", "clean",
                  "Recv_0", "OnWrite_overflow", "OnRead_overflow"}
    /\ overlapped \in BOOLEAN

\* What OnRecv is given is the peer's stream from where it stopped, no byte
\* missing, repeated or moved by Clean, as long as no memcpy overlapped.
StreamIntact ==
    /\ received = consumed + DataSize(b)
    /\ ~overlapped => \A i \in b.rd .. (b.wr - 1) : buffer[i] = consumed + (i - b.rd)

\* RecvBuffer.cpp:43 "the length is given in WSABUF, so getting here means
\* something is wrong": the chain never reports an overflow on write.
NoWriteOverflow == phase # "OnWrite_overflow"

\* Consumed space never starves the receiver: whenever a window is offered it
\* has bufferSize bytes unless the unread data itself fills the buffer.
WindowNotStarved ==
    phase = "receive" => window >= BufferSize \/ b.rd = 0

\* A memcpy overlaps only when the application left more than half of what
\* the buffer can hold (less one bufferSize) unread.
OverlapNeedsBacklog ==
    [][overlapped' # overlapped => 2 * DataSize(b) > capacity - BufferSize]_vars

=============================================================================
