------------------------------- MODULE Memory -------------------------------
(***************************************************************************)
(* Pooled memory (MemoryManager.h/.cpp, MemoryPool.h/.cpp, ObjectPool.h): a *)
(* table maps every request size to one of the pools, a pool keeps the     *)
(* blocks that were given back in an interlocked list, and the header in   *)
(* front of a block remembers the size it was allocated for, by which      *)
(* Release finds its pool again.  ObjectPool<Type> goes past the table: it *)
(* has one pool of its own for each type.                                  *)
(*                                                                         *)
(* The SLIST and _aligned_malloc are external: their operations are atomic *)
(* and malloc returns a block nobody has.  Each atomic counter is changed  *)
(* in a step of its own.  A pool is named by the size it was made with, or *)
(* by the type.  Of a block's bytes only their number is kept.  The        *)
(* application releases what it was given, once and the way it got it.     *)
(***************************************************************************)
EXTENDS Integers, Sequences, FiniteSets

CONSTANTS
    Threads,         \* the threads of the process
    Blocks,          \* the blocks malloc may return, a bound on their number
    Requests,        \* the sizes the application asks for
    Types, SizeOf,   \* the types with an ObjectPool, and sizeof each
    Steps, Limits,   \* per loop of the constructor: the step and the last size
    MAX_ALLOC_SIZE,
    HeaderSize,      \* sizeof(MemoryHeader)
    MaxAllocs,       \* bound on the calls of Allocate and ObjectPool::Pop
    None

ASSUME MemoryConstants ==
    /\ Steps \in Seq(Nat \ {0}) /\ Len(Steps) = 3
    /\ Limits \in Seq(Nat) /\ Len(Limits) = 3
    /\ {MAX_ALLOC_SIZE, HeaderSize, MaxAllocs} \subseteq Nat
    /\ Requests \subseteq Nat \ {0}
    /\ SizeOf \in [Types -> Nat \ {0}]
    /\ Types \cap Requests = {}
    /\ None \notin Blocks \cup Types
    /\ IsFiniteSet(Threads) /\ IsFiniteSet(Blocks)

-----------------------------------------------------------------------------
\* MemoryManager::MemoryManager

\* Where a loop starts.  size is not reset between the loops: the second and
\* the third start one step of the loop before beyond where that one ended.
LoopStart[i \in 1 .. 3] ==
    IF i = 1 THEN Steps[1]
    ELSE LET from == LoopStart[i - 1]
         IN  from + Steps[i - 1] * ((Limits[i - 1] - from) \div Steps[i - 1] + 1)

\* The sizes of the pools loop i makes.
LoopSizes(i) ==
    {LoopStart[i] + Steps[i] * k : k \in 0 .. ((Limits[i] - LoopStart[i]) \div Steps[i])}

PoolSizes == LoopSizes(1) \cup LoopSizes(2) \cup LoopSizes(3)

\* poolTable[n]: the first pool made that is large enough; None where the loops
\* wrote nothing.
PoolTable(n) ==
    LET enough == {s \in PoolSizes : s >= n}
    IN  IF enough = {} THEN None ELSE CHOOSE s \in enough : \A z \in enough : s <= z

\* The pools the requests reach, and ObjectPool<Type>::s_memoryPool.
Pools ==
    Types \cup
    ({PoolTable(r + HeaderSize) : r \in {x \in Requests : x + HeaderSize <= MAX_ALLOC_SIZE}}
        \ {None})

\* MemoryPool::allocSize, the same of every pool: the constructor drops its
\* argument and the initial value stays.
PoolAllocSize == 0

\* sizeof the object or the _size that was asked for.
Bytes(r) == IF r \in Types THEN SizeOf[r] ELSE r

-----------------------------------------------------------------------------

VARIABLES
    list,           \* MemoryPool::header: the blocks in the pool, newest first
    usedCount,      \* MemoryPool::usedCount
    reservedCount,  \* MemoryPool::reservedCount
    allocSize,      \* MemoryHeader::allocSize of every block
    origin,         \* the pool that got the block from malloc, or None
    bytes,          \* what malloc was asked for, 0 of a block that is gone
    made,           \* the blocks that exist
    live,           \* what the application holds: block -> the size or type it asked for
    pc,             \* where each thread is
    block,          \* the block each thread works on
    pool,           \* the pool each thread works on
    size,           \* Allocate: _size; ObjectPool::Pop: the type
    allocs,         \* calls of Allocate and ObjectPool::Pop so far
    crashed         \* what terminated the process, or "none"

heap == <<origin, bytes, made>>
counts == <<usedCount, reservedCount>>
locals == <<block, pool, size>>
vars == <<list, counts, allocSize, heap, live, pc, locals, allocs, crashed>>

Init ==
    /\ list = [p \in Pools |-> << >>]
    /\ usedCount = [p \in Pools |-> 0]
    /\ reservedCount = [p \in Pools |-> 0]
    /\ allocSize = [x \in Blocks |-> 0]
    /\ origin = [x \in Blocks |-> None]
    /\ bytes = [x \in Blocks |-> 0]
    /\ made = {}
    /\ live = << >>
    /\ pc = [t \in Threads |-> "idle"]
    /\ block = [t \in Threads |-> None]
    /\ pool = [t \in Threads |-> None]
    /\ size = [t \in Threads |-> 0]
    /\ allocs = 0
    /\ crashed = "none"

Goto(t, l) == pc' = [pc EXCEPT ![t] = l]

Crash(why) ==
    /\ crashed' = why
    /\ UNCHANGED <<list, counts, allocSize, heap, live, pc, locals, allocs>>

\* malloc of n bytes: a block that does not exist yet.
Malloc(t, p, n) ==
    \E x \in Blocks \ made :
        /\ made' = made \cup {x}
        /\ origin' = [origin EXCEPT ![x] = p]
        /\ bytes' = [bytes EXCEPT ![x] = n]
        /\ block' = [block EXCEPT ![t] = x]

-----------------------------------------------------------------------------
\* MemoryManager::Allocate and MemoryPool::Pop

\* A request that is too large is not pooled; an entry of the table that was
\* never written is a wild pointer.
Allocate(t, n) ==
    /\ pc[t] = "idle" /\ allocs < MaxAllocs
    /\ IF n + HeaderSize <= MAX_ALLOC_SIZE /\ PoolTable(n + HeaderSize) = None
       THEN Crash("uninitialized poolTable entry")
       ELSE /\ allocs' = allocs + 1
            /\ size' = [size EXCEPT ![t] = n]
            /\ IF n + HeaderSize > MAX_ALLOC_SIZE
               THEN /\ Malloc(t, None, n + HeaderSize)
                    /\ Goto(t, "attach")
                    /\ UNCHANGED pool
               ELSE /\ pool' = [pool EXCEPT ![t] = PoolTable(n + HeaderSize)]
                    /\ Goto(t, "pop")
                    /\ UNCHANGED <<heap, block>>
            /\ UNCHANGED <<list, counts, allocSize, live, crashed>>

\* ObjectPool::Pop, and MakeShared, which stores Push as the deleter.
ObjectPop(t, T) ==
    /\ pc[t] = "idle" /\ allocs < MaxAllocs
    /\ allocs' = allocs + 1
    /\ size' = [size EXCEPT ![t] = T]
    /\ pool' = [pool EXCEPT ![t] = T]
    /\ Goto(t, "pop")
    /\ UNCHANGED <<list, counts, allocSize, heap, live, block, crashed>>

\* Mutant: the first block is read and stays in the list.
PopEntryPeeks(t) ==
    /\ pc[t] = "pop" /\ list[pool[t]] # << >>
    /\ block' = [block EXCEPT ![t] = Head(list[pool[t]])]
    /\ Goto(t, "pop_reserved")
    /\ UNCHANGED <<list, counts, allocSize, heap, live, pool, size, allocs, crashed>>

PopEntry(t) ==
    /\ pc[t] = "pop" /\ list[pool[t]] # << >>
    /\ IF allocSize[Head(list[pool[t]])] # 0
       THEN Crash("allocSize is not 0")
       ELSE /\ block' = [block EXCEPT ![t] = Head(list[pool[t]])]
            /\ list' = [list EXCEPT ![pool[t]] = Tail(@)]
            /\ Goto(t, "pop_reserved")
            /\ UNCHANGED <<counts, allocSize, heap, live, pool, size, allocs, crashed>>

\* The list is empty.
PopMalloc(t) ==
    /\ pc[t] = "pop" /\ list[pool[t]] = << >>
    /\ Malloc(t, pool[t], PoolAllocSize)
    /\ Goto(t, "pop_used")
    /\ UNCHANGED <<list, counts, allocSize, live, pool, size, allocs, crashed>>

\* Mutant: the counter of what is left is not maintained.
PopReservedSkipped(t) ==
    /\ pc[t] = "pop_reserved"
    /\ Goto(t, "pop_used")
    /\ UNCHANGED <<list, counts, allocSize, heap, live, locals, allocs, crashed>>

PopReserved(t) ==
    /\ pc[t] = "pop_reserved"
    /\ reservedCount' = [reservedCount EXCEPT ![pool[t]] = @ - 1]
    /\ Goto(t, "pop_used")
    /\ UNCHANGED <<list, usedCount, allocSize, heap, live, locals, allocs, crashed>>

PopUsed(t) ==
    /\ pc[t] = "pop_used"
    /\ usedCount' = [usedCount EXCEPT ![pool[t]] = @ + 1]
    /\ Goto(t, "attach")
    /\ UNCHANGED <<list, reservedCount, allocSize, heap, live, locals, allocs, crashed>>

\* Mutant: the header remembers the size without itself.
AttachHeaderUserSize(t) ==
    /\ pc[t] = "attach"
    /\ allocSize' = [allocSize EXCEPT ![block[t]] = Bytes(size[t])]
    /\ live' = [x \in DOMAIN live \cup {block[t]} |-> IF x = block[t] THEN size[t] ELSE live[x]]
    /\ block' = [block EXCEPT ![t] = None]
    /\ pool' = [pool EXCEPT ![t] = None]
    /\ Goto(t, "idle")
    /\ UNCHANGED <<list, counts, heap, size, allocs, crashed>>

\* MemoryHeader::AttachHeader; the block belongs to the caller.
AttachHeader(t) ==
    /\ pc[t] = "attach"
    /\ allocSize' = [allocSize EXCEPT ![block[t]] = Bytes(size[t]) + HeaderSize]
    /\ live' = [x \in DOMAIN live \cup {block[t]} |-> IF x = block[t] THEN size[t] ELSE live[x]]
    /\ block' = [block EXCEPT ![t] = None]
    /\ pool' = [pool EXCEPT ![t] = None]
    /\ Goto(t, "idle")
    /\ UNCHANGED <<list, counts, heap, size, allocs, crashed>>

-----------------------------------------------------------------------------
\* MemoryManager::Release and MemoryPool::Push

\* The pool is found by the size in the header; free ends a block that was not
\* pooled.
Release(t, x) ==
    /\ pc[t] = "idle" /\ x \in DOMAIN live /\ live[x] \notin Types
    /\ IF allocSize[x] = 0
       THEN Crash("Unknown error - allocSize is zero")
       ELSE /\ live' = [y \in DOMAIN live \ {x} |-> live[y]]
            /\ IF allocSize[x] > MAX_ALLOC_SIZE
               THEN /\ made' = made \ {x}
                    /\ bytes' = [bytes EXCEPT ![x] = 0]
                    /\ allocSize' = [allocSize EXCEPT ![x] = 0]
                    /\ UNCHANGED <<origin, block, pool, pc>>
               ELSE /\ block' = [block EXCEPT ![t] = x]
                    /\ pool' = [pool EXCEPT ![t] = PoolTable(allocSize[x])]
                    /\ Goto(t, "push")
                    /\ UNCHANGED <<allocSize, heap>>
            /\ UNCHANGED <<list, counts, size, allocs, crashed>>

\* ObjectPool::Push: the pool is that of the type, whatever the header says.
ObjectPush(t, x) ==
    /\ pc[t] = "idle" /\ x \in DOMAIN live /\ live[x] \in Types
    /\ live' = [y \in DOMAIN live \ {x} |-> live[y]]
    /\ block' = [block EXCEPT ![t] = x]
    /\ pool' = [pool EXCEPT ![t] = live[x]]
    /\ Goto(t, "push")
    /\ UNCHANGED <<list, counts, allocSize, heap, size, allocs, crashed>>

\* Mutant: the size in the header is left as it was.
PushEntryKeepsSize(t) ==
    /\ pc[t] = "push"
    /\ list' = [list EXCEPT ![pool[t]] = <<block[t]>> \o @]
    /\ block' = [block EXCEPT ![t] = None]
    /\ Goto(t, "push_used")
    /\ UNCHANGED <<counts, allocSize, heap, live, pool, size, allocs, crashed>>

\* The header's size is reset before the block can be seen by others.
PushEntry(t) ==
    /\ pc[t] = "push"
    /\ allocSize' = [allocSize EXCEPT ![block[t]] = 0]
    /\ list' = [list EXCEPT ![pool[t]] = <<block[t]>> \o @]
    /\ block' = [block EXCEPT ![t] = None]
    /\ Goto(t, "push_used")
    /\ UNCHANGED <<counts, heap, live, pool, size, allocs, crashed>>

PushUsed(t) ==
    /\ pc[t] = "push_used"
    /\ usedCount' = [usedCount EXCEPT ![pool[t]] = @ - 1]
    /\ Goto(t, "push_reserved")
    /\ UNCHANGED <<list, reservedCount, allocSize, heap, live, locals, allocs, crashed>>

PushReserved(t) ==
    /\ pc[t] = "push_reserved"
    /\ reservedCount' = [reservedCount EXCEPT ![pool[t]] = @ + 1]
    /\ pool' = [pool EXCEPT ![t] = None]
    /\ Goto(t, "idle")
    /\ UNCHANGED <<list, usedCount, allocSize, heap, live, block, size, allocs, crashed>>

-----------------------------------------------------------------------------

Next ==
    /\ crashed = "none"
    /\ \E t \in Threads :
         \/ \E n \in Requests : Allocate(t, n)
         \/ \E T \in Types : ObjectPop(t, T)
         \/ PopEntry(t) \/ PopMalloc(t) \/ PopReserved(t) \/ PopUsed(t) \/ AttachHeader(t)
         \/ \E x \in DOMAIN live : Release(t, x) \/ ObjectPush(t, x)
         \/ PushEntry(t) \/ PushUsed(t) \/ PushReserved(t)

Spec == Init /\ [][Next]_vars

-----------------------------------------------------------------------------
(* Properties.                                                              *)

Homes(x) ==
         {<<"live", x>> : y \in {z \in DOMAIN live : z = x}}
    \cup {<<"thread", t>> : t \in {u \in Threads : block[u] = x}}
    \cup {<<"list", e>> : e \in {d \in Pools \X (1 .. Cardinality(Blocks)) :
              d[2] \in DOMAIN list[d[1]] /\ list[d[1]][d[2]] = x}}

\* A block is in exactly one place: two callers never get the same memory, and
\* none is lost, however Pop and Push interleave.
BlockHasOneHome == \A x \in made : Cardinality(Homes(x)) = 1

\* Release makes of a block what Allocate made of it, however long ago and by
\* whichever thread, from the size in the header alone.  A block of a pool goes
\* back to that pool and no other, and never by an entry of the table that was not
\* written, which Allocate can meet; so what a list holds was obtained with the
\* bytes its pool asks for.  (Those are PoolAllocSize, not the size the pool was
\* made for: the next caller gets a block of its pool, not one it fits in.)  The
\* block free gets was obtained for one request, with the bytes its header says.
ReturnsToOrigin ==
    /\ \A t \in Threads : pc[t] = "push" => pool[t] \in Pools /\ pool[t] = origin[block[t]]
    /\ \A p \in Pools : \A i \in DOMAIN list[p] :
         origin[list[p][i]] = p /\ bytes[list[p][i]] = PoolAllocSize
    /\ \A x \in DOMAIN live : live[x] \notin Types /\ allocSize[x] > MAX_ALLOC_SIZE =>
         origin[x] = None /\ bytes[x] = allocSize[x]

\* The counters are right whenever no thread is inside the pools: usedCount is
\* what callers hold, reservedCount what the list holds.
CountersSettle ==
    (\A t \in Threads : pc[t] = "idle") =>
        \A p \in Pools :
            /\ usedCount[p] = Cardinality({x \in DOMAIN live : origin[x] = p})
            /\ reservedCount[p] = Len(list[p])

\* MemoryPool.cpp:36 and MemoryManager.cpp:85: the assertions on the size in the
\* header hold for a caller that releases what it was given, once.
HeadersConsistent ==
    crashed \notin {"allocSize is not 0", "Unknown error - allocSize is zero"}

=============================================================================
