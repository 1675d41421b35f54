----------------------------- MODULE SendBuffer -----------------------------
(***************************************************************************)
(* Send buffers (SendBuffer.h/.cpp): SendBufferManager::Open cuts a        *)
(* SendBuffer from the chunk of the calling thread, SendBuffer::Close      *)
(* fixes how much of it was written, and a chunk goes back to the pool     *)
(* when the last shared_ptr to it, held by a thread's tls_SendBufferChunk  *)
(* or by a SendBuffer, is gone.                                            *)
(*                                                                         *)
(* A reference count that drops to 0 is seen by exactly one thread, which  *)
(* runs the deleter PushGlobal.  WRITE_LOCK scopes are as in JobQueue.     *)
(* The application is external: it opens, writes and closes a buffer in    *)
(* one thread and drops it, when it has been sent, in any.                 *)
(***************************************************************************)
EXTENDS Integers, Sequences, FiniteSets

CONSTANTS
    Threads,     \* the threads of the process
    Chunks,      \* the chunks XNew may create, a bound on their number
    ChunkSize,   \* SEND_BUFFER_CHUNK_SIZE
    Sizes,       \* the sizes the application asks for
    WriteGuard,  \* "R" or "W", what WriteLockGuard acquires
    Debug,       \* _DEBUG is defined: ASSERT_CRASH is checked
    MaxOpens,    \* bound on the calls of Open
    None

ASSUME SendBufferConstants ==
    /\ {ChunkSize, MaxOpens} \subseteq Nat
    /\ Sizes \subseteq Nat
    /\ WriteGuard \in {"R", "W"} /\ Debug \in BOOLEAN
    /\ None \notin Chunks

VARIABLES
    pool,        \* sendBufferChunkPool
    made,        \* the chunks created so far
    isOpened,    \* SendBufferChunk::isOpened
    usedSize,    \* SendBufferChunk::usedSize
    tls,         \* tls_SendBufferChunk
    live,        \* the SendBuffers somebody holds
    pc,          \* where each thread is
    size,        \* Open: _size
    dying,       \* PushGlobal: the chunk whose last reference is gone
    inScope,     \* the thread is in a WRITE_LOCK scope of the manager
    opens,       \* calls of Open so far
    raced,       \* a data race has happened
    crashed      \* the ASSERT_CRASH that ended the process, or "none"

chunkVars == <<isOpened, usedSize, live>>
vars == <<pool, made, chunkVars, tls, pc, size, dying, inScope, opens, raced, crashed>>

Init ==
    /\ pool = << >>
    /\ made = {}
    /\ isOpened = [c \in Chunks |-> FALSE]
    /\ usedSize = [c \in Chunks |-> 0]
    /\ tls = [t \in Threads |-> None]
    /\ live = {}
    /\ pc = [t \in Threads |-> "idle"]
    /\ size = [t \in Threads |-> 0]
    /\ dying = [t \in Threads |-> None]
    /\ inScope = [t \in Threads |-> FALSE]
    /\ opens = 0
    /\ raced = FALSE
    /\ crashed = "none"

Goto(t, l) == pc' = [pc EXCEPT ![t] = l]

FreeSize(c) == ChunkSize - usedSize[c]

Crash(why) ==
    /\ crashed' = why
    /\ UNCHANGED <<pool, made, chunkVars, tls, pc, size, dying, inScope, opens, raced>>

EnterScope(t) ==
    /\ pc[t] \in {"pop", "pop_more", "recycle", "drop_recycle"} /\ ~inScope[t]
    /\ LET others == {u \in Threads \ {t} : inScope[u]}
       IN  /\ WriteGuard = "W" => others = {}
           /\ raced' = (others # {})
    /\ inScope' = [inScope EXCEPT ![t] = TRUE]
    /\ UNCHANGED <<pool, made, chunkVars, tls, pc, size, dying, opens, crashed>>

LeaveScope(t) == inScope[t] /\ inScope' = [inScope EXCEPT ![t] = FALSE]

\* The references to chunk c, those of the buffers in bs and the tls variables.
Unreferenced(c, bs, held) ==
    /\ \A x \in bs : x.chunk # c
    /\ \A t \in Threads : held[t] # c

-----------------------------------------------------------------------------
\* SendBufferManager::Open

OpenCall(t, n) ==
    /\ pc[t] = "idle" /\ opens < MaxOpens
    /\ opens' = opens + 1
    /\ size' = [size EXCEPT ![t] = n]
    /\ Goto(t, IF tls[t] = None THEN "pop" ELSE "check")
    /\ UNCHANGED <<pool, made, chunkVars, tls, dying, inScope, raced, crashed>>

\* Pop and ResetBuffer: a chunk of the pool, else a new one.  The chunk the
\* thread had before loses a reference, perhaps its last.
Pop(t) ==
    /\ pc[t] \in {"pop", "pop_more"} /\ LeaveScope(t)
    /\ \E c \in Chunks :
         /\ IF pool # << >>
            THEN c = pool[Len(pool)] /\ pool' = SubSeq(pool, 1, Len(pool) - 1) /\ made' = made
            ELSE c \notin made /\ made' = made \cup {c} /\ pool' = pool
         /\ tls' = [tls EXCEPT ![t] = c]
         /\ isOpened' = [isOpened EXCEPT ![c] = FALSE]
         /\ usedSize' = [usedSize EXCEPT ![c] = 0]
    /\ IF tls[t] # None /\ Unreferenced(tls[t], live, tls')
       THEN dying' = [dying EXCEPT ![t] = tls[t]] /\ Goto(t, "recycle")
       ELSE dying' = dying /\ Goto(t, IF pc[t] = "pop" THEN "check" ELSE "open")
    /\ UNCHANGED <<live, size, opens, raced, crashed>>

\* The second and third checks of Open.
Check(t) ==
    /\ pc[t] = "check"
    /\ IF Debug /\ isOpened[tls[t]]
       THEN Crash("SendBufferChunk should be close before using")
       ELSE /\ Goto(t, IF FreeSize(tls[t]) < size[t] THEN "pop_more" ELSE "open")
            /\ UNCHANGED <<pool, made, chunkVars, tls, size, dying, inScope, opens, raced,
                           crashed>>

\* Mutant: the buffer is handed out although it does not fit the chunk.
ChunkOpenUnchecked(t) ==
    /\ pc[t] = "open"
    /\ isOpened' = [isOpened EXCEPT ![tls[t]] = TRUE]
    /\ live' = live \cup {[id |-> opens, chunk |-> tls[t], off |-> usedSize[tls[t]],
                           len |-> size[t], open |-> TRUE, by |-> t]}
    /\ Goto(t, "idle")
    /\ UNCHANGED <<pool, made, usedSize, tls, size, dying, inScope, opens, raced, crashed>>

\* SendBufferChunk::Open; nullptr when the request does not fit.
ChunkOpen(t) ==
    /\ pc[t] = "open"
    /\ LET c == tls[t]
       IN  IF Debug /\ size[t] > ChunkSize
           THEN Crash("_allocSize is larger than SEND_BUFFER_CHUNK_SIZE")
           ELSE IF Debug /\ isOpened[c]
           THEN Crash("SendBufferChunk is already opened")
           ELSE /\ IF size[t] > FreeSize(c)
                   THEN UNCHANGED <<isOpened, live>>
                   ELSE /\ isOpened' = [isOpened EXCEPT ![c] = TRUE]
                        /\ live' = live \cup {[id |-> opens, chunk |-> c,
                              off |-> usedSize[c], len |-> size[t], open |-> TRUE, by |-> t]}
                /\ Goto(t, "idle")
                /\ UNCHANGED <<pool, made, usedSize, tls, size, dying, inScope, opens, raced,
                               crashed>>

-----------------------------------------------------------------------------
\* SendBuffer::Close and SendBufferChunk::Close

\* Mutant: the space of the buffer is not marked as used.
CloseForgetsSize(t, x, w) ==
    /\ pc[t] = "idle" /\ x.open /\ x.by = t
    /\ live' = (live \ {x}) \cup {[x EXCEPT !.len = w, !.open = FALSE]}
    /\ isOpened' = [isOpened EXCEPT ![x.chunk] = FALSE]
    /\ UNCHANGED <<pool, made, usedSize, tls, pc, size, dying, inScope, opens, raced, crashed>>

\* Mutant: more than was asked for may have been written.
CloseUnchecked(t, x, w) ==
    /\ pc[t] = "idle" /\ x.open /\ x.by = t
    /\ live' = (live \ {x}) \cup {[x EXCEPT !.len = w, !.open = FALSE]}
    /\ isOpened' = [isOpened EXCEPT ![x.chunk] = FALSE]
    /\ usedSize' = [usedSize EXCEPT ![x.chunk] = @ + w]
    /\ UNCHANGED <<pool, made, tls, pc, size, dying, inScope, opens, raced, crashed>>

Close(t, x, w) ==
    /\ pc[t] = "idle" /\ x.open /\ x.by = t
    /\ IF Debug /\ w > x.len
       THEN Crash("_writeSize is larger than allocSize")
       ELSE IF Debug /\ ~isOpened[x.chunk]
       THEN Crash("isOpened should be true before calling Close()")
       ELSE /\ live' = (live \ {x}) \cup {[x EXCEPT !.len = w, !.open = FALSE]}
            /\ isOpened' = [isOpened EXCEPT ![x.chunk] = FALSE]
            /\ usedSize' = [usedSize EXCEPT ![x.chunk] = @ + w]
            /\ UNCHANGED <<pool, made, tls, pc, size, dying, inScope, opens, raced, crashed>>

-----------------------------------------------------------------------------
\* A buffer that was closed is dropped.

\* Mutant: the chunk is recycled with the first buffer dropped.
DropRecyclesEarly(t, x) ==
    /\ pc[t] = "idle" /\ ~x.open
    /\ live' = live \ {x}
    /\ IF \A u \in Threads : tls[u] # x.chunk
       THEN dying' = [dying EXCEPT ![t] = x.chunk] /\ Goto(t, "drop_recycle")
       ELSE UNCHANGED <<dying, pc>>
    /\ UNCHANGED <<pool, made, isOpened, usedSize, tls, size, inScope, opens, raced, crashed>>

Drop(t, x) ==
    /\ pc[t] = "idle" /\ ~x.open
    /\ live' = live \ {x}
    /\ IF Unreferenced(x.chunk, live', tls)
       THEN dying' = [dying EXCEPT ![t] = x.chunk] /\ Goto(t, "drop_recycle")
       ELSE UNCHANGED <<dying, pc>>
    /\ UNCHANGED <<pool, made, isOpened, usedSize, tls, size, inScope, opens, raced, crashed>>

\* PushGlobal and Push.  Inside Open this happens in the assignment to
\* tls_SendBufferChunk, so Open goes on afterwards.
PushGlobal(t) ==
    /\ pc[t] \in {"recycle", "drop_recycle"} /\ LeaveScope(t)
    /\ pool' = Append(pool, dying[t])
    /\ dying' = [dying EXCEPT ![t] = None]
    /\ Goto(t, IF pc[t] = "recycle" THEN "open" ELSE "idle")
    /\ UNCHANGED <<made, chunkVars, tls, size, opens, raced, crashed>>

-----------------------------------------------------------------------------

Next ==
    /\ crashed = "none" /\ ~raced
    /\ \E t \in Threads :
         \/ EnterScope(t) \/ Pop(t) \/ Check(t) \/ ChunkOpen(t) \/ PushGlobal(t)
         \/ \E n \in Sizes : OpenCall(t, n)
         \/ \E x \in live : Drop(t, x) \/ \E w \in Sizes \cup {0} : Close(t, x, w)

Spec == Init /\ [][Next]_vars

-----------------------------------------------------------------------------
(* Properties.                                                              *)

\* The state of the send buffers has its type, and no chunk is overfilled.
TypeOK ==
    /\ pool \in Seq(Chunks) /\ made \subseteq Chunks
    /\ isOpened \in [Chunks -> BOOLEAN]
    /\ usedSize \in [Chunks -> 0 .. ChunkSize]
    /\ tls \in [Threads -> Chunks \cup {None}]
    /\ \A x \in live : x.chunk \in Chunks /\ x.off \in Nat /\ x.len \in Nat
    /\ pc \in [Threads -> {"idle", "pop", "pop_more", "check", "open", "recycle",
                           "drop_recycle"}]
    /\ dying \in [Threads -> Chunks \cup {None}]
    /\ inScope \in [Threads -> BOOLEAN]

\* Two buffers the application holds never share a byte, and none reaches
\* beyond its chunk: a thread never writes into what another is sending.
DisjointRegions ==
    /\ \A x \in live : x.off + x.len <= ChunkSize
    /\ \A x, y \in live :
         x # y /\ x.chunk = y.chunk => x.off + x.len <= y.off \/ y.off + y.len <= x.off

\* Where chunk c is kept: a place of the pool, a thread's tls variable, a
\* deleter on its way to the pool, or the buffers cut from it.
Homes(c) ==
         {<<"pool", i>> : i \in {k \in DOMAIN pool : pool[k] = c}}
    \cup {<<"tls", t>> : t \in {u \in Threads : tls[u] = c}}
    \cup {<<"deleter", t>> : t \in {u \in Threads : dying[u] = c}}
    \cup {<<"buffers", 0>> : x \in {y \in live : y.chunk = c /\ \A u \in Threads : tls[u] # c}}

\* A chunk that was made is in exactly one place: never in the pool while a
\* thread cuts from it or a buffer of it is alive, never twice in the pool,
\* never lost.
ChunkHasOneHome == \A c \in made : Cardinality(Homes(c)) = 1

=============================================================================
