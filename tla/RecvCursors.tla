---------------------------- MODULE RecvCursors -----------------------------
(***************************************************************************)
(* The cursors of class RecvBuffer (RecvBuffer.h/.cpp) as pure operators   *)
(* on records [rd |-> readCursor, wr |-> writeCursor].  OnRead and OnWrite *)
(* return [ok, b]: the bool the code returns and the cursors afterwards.   *)
(***************************************************************************)
EXTENDS Integers

CONSTANTS
    BufferSize,   \* bufferSize
    BufferCount   \* BUFFER_COUNT

ASSUME BufferAssumption == BufferSize \in Nat \ {0} /\ BufferCount \in Nat \ {0}

capacity == BufferSize * BufferCount

EmptyBuffer == [rd |-> 0, wr |-> 0]

DataSize(b) == b.wr - b.rd

\* Mutant: off by one at the end of the buffer.
FreeSizeOneMore(b) == capacity - b.wr + 1

FreeSize(b) == capacity - b.wr

OnWrite(b, n) ==
    IF n > FreeSize(b) THEN [ok |-> FALSE, b |-> b]
    ELSE [ok |-> TRUE, b |-> [b EXCEPT !.wr = @ + n]]

OnRead(b, n) ==
    IF n > DataSize(b) THEN [ok |-> FALSE, b |-> b]
    ELSE [ok |-> TRUE, b |-> [b EXCEPT !.rd = @ + n]]

\* Mutant: compaction only when the buffer is completely full.
CompactsWhenFull(b) == DataSize(b) # 0 /\ FreeSize(b) = 0

\* Mutant: compaction after every read.
CompactsAlways(b) == DataSize(b) # 0

\* Clean compacts: the unread data is copied to the front of the buffer.
Compacts(b) == DataSize(b) # 0 /\ FreeSize(b) < BufferSize

\* Mutant: the write cursor stays where it was when the data moves.
CleanKeepsWrite(b) ==
    IF DataSize(b) = 0 THEN EmptyBuffer
    ELSE IF Compacts(b) THEN [rd |-> 0, wr |-> b.wr]
    ELSE b

\* The cursors after Clean.
Clean(b) ==
    IF DataSize(b) = 0 THEN EmptyBuffer
    ELSE IF Compacts(b) THEN [rd |-> 0, wr |-> DataSize(b)]
    ELSE b

=============================================================================
