---------------------------- MODULE MemoryProofs ----------------------------
(***************************************************************************)
(* Proofs about Memory, for any number of threads and blocks, any sizes    *)
(* and types asked for, and any table the constructor's loops build.       *)
(***************************************************************************)
EXTENDS Memory, FiniteSetTheorems, SequenceTheorems, TLAPS

PCs == {"idle", "pop", "pop_reserved", "pop_used", "attach", "push", "push_used",
        "push_reserved"}

\* The pool a block for request r comes from and goes back to; None for malloc.
HomePool(r) ==
    IF r \in Types THEN r
    ELSE IF r + HeaderSize > MAX_ALLOC_SIZE THEN None ELSE PoolTable(r + HeaderSize)

\* A request that gets a block: its entry of the table was written.
Served(r) ==
    /\ r \in Requests \cup Types
    /\ r \in Types \/ r + HeaderSize > MAX_ALLOC_SIZE \/ PoolTable(r + HeaderSize) # None

TypeOK ==
    /\ list \in [Pools -> Seq(Blocks)]
    /\ usedCount \in [Pools -> Int] /\ reservedCount \in [Pools -> Int]
    /\ allocSize \in [Blocks -> Nat]
    /\ origin \in [Blocks -> Pools \cup {None}]
    /\ made \subseteq Blocks /\ DOMAIN live \subseteq made
    /\ pc \in [Threads -> PCs]
    /\ block \in [Threads -> Blocks \cup {None}]
    /\ pool \in [Threads -> Pools \cup {None}]
    /\ size \in [Threads -> Requests \cup Types \cup {0}]

\* What a thread works on: its block, and the pool the block belongs to.
InHand ==
    \A t \in Threads :
        /\ block[t] # None <=> pc[t] \in {"pop_reserved", "pop_used", "attach", "push"}
        /\ block[t] # None => block[t] \in made /\ origin[block[t]] = pool[t]
        /\ pc[t] = "idle" => pool[t] = None
        /\ pc[t] \notin {"idle", "attach"} => pool[t] \in Pools
        /\ pc[t] \in {"pop", "pop_reserved", "pop_used", "attach"} =>
              Served(size[t]) /\ pool[t] = HomePool(size[t])

Shape == TypeOK /\ InHand

\* The header of a block the application holds leads back to its pool.
HeldRight ==
    \A x \in DOMAIN live :
        /\ Served(live[x])
        /\ origin[x] = HomePool(live[x])
        /\ allocSize[x] = Bytes(live[x]) + HeaderSize

\* A pool holds blocks of its own, each once, with nothing in the header.
ListsRight ==
    \A p \in Pools : \A i \in 1 .. Len(list[p]) :
        /\ list[p][i] \in made \ DOMAIN live
        /\ origin[list[p][i]] = p
        /\ allocSize[list[p][i]] = 0
        /\ \A t \in Threads : block[t] # list[p][i]
        /\ \A k \in 1 .. Len(list[p]) : list[p][i] = list[p][k] => i = k

ThreadsApart ==
    \A t \in Threads : block[t] # None =>
        /\ block[t] \notin DOMAIN live
        /\ \A u \in Threads : block[u] = block[t] => u = t

Somewhere(x) ==
    \/ x \in DOMAIN live
    \/ \E t \in Threads : block[t] = x
    \/ \E p \in Pools : \E i \in 1 .. Len(list[p]) : list[p][i] = x

NoneLost == \A x \in made : Somewhere(x)

\* The steps of Pop and Push in which a counter is not what it will be.
LiveFrom(p)   == {x \in DOMAIN live : origin[x] = p}
UsedBy(p)     == {t \in Threads : pc[t] \in {"attach", "push", "push_used"} /\ pool[t] = p}
PoppedFrom(p) == {t \in Threads : pc[t] = "pop_reserved" /\ pool[t] = p}
PushedTo(p)   == {t \in Threads : pc[t] \in {"push_used", "push_reserved"} /\ pool[t] = p}

CountInv ==
    \A p \in Pools :
        /\ usedCount[p] = Cardinality(LiveFrom(p)) + Cardinality(UsedBy(p))
        /\ reservedCount[p] =
              Len(list[p]) + Cardinality(PoppedFrom(p)) - Cardinality(PushedTo(p))

\* What malloc was asked for: by a pool, or for the request the block is for.
Obtained ==
    /\ bytes \in [Blocks -> Nat]
    /\ \A x \in made : origin[x] # None => bytes[x] = PoolAllocSize
    /\ \A x \in DOMAIN live : origin[x] = None => bytes[x] = Bytes(live[x]) + HeaderSize
    /\ \A t \in Threads : pc[t] = "attach" /\ pool[t] = None =>
          bytes[block[t]] = Bytes(size[t]) + HeaderSize

IInv == Shape /\ HeldRight /\ ListsRight /\ ThreadsApart /\ NoneLost /\ CountInv
        /\ HeadersConsistent

-----------------------------------------------------------------------------

LEMMA InitIInv == Init => IInv
<1>. SUFFICES ASSUME Init PROVE IInv
  OBVIOUS
<1>. USE MemoryConstants DEF Init
<1>1. DOMAIN live = {}
  OBVIOUS
<1>2. Shape
  <2>1. list \in [Pools -> Seq(Blocks)]
    OBVIOUS
  <2>2. TypeOK
    BY <1>1, <2>1 DEF TypeOK, PCs
  <2>3. InHand
    BY DEF InHand
  <2>. QED
    BY <2>2, <2>3 DEF Shape
<1>3. HeldRight /\ ListsRight /\ ThreadsApart /\ NoneLost /\ HeadersConsistent
  BY <1>1 DEF HeldRight, ListsRight, ThreadsApart, NoneLost, HeadersConsistent
<1>4. CountInv
  <2>1. ASSUME NEW p \in Pools
        PROVE  LiveFrom(p) = {} /\ UsedBy(p) = {} /\ PoppedFrom(p) = {} /\ PushedTo(p) = {}
    BY <1>1 DEF LiveFrom, UsedBy, PoppedFrom, PushedTo
  <2>2. Cardinality({}) = 0
    BY FS_EmptySet
  <2>3. \A p \in Pools : Len(list[p]) = 0 /\ usedCount[p] = 0 /\ reservedCount[p] = 0
    OBVIOUS
  <2>. QED
    <3>. SUFFICES ASSUME NEW p \in Pools
         PROVE  /\ usedCount[p] = Cardinality(LiveFrom(p)) + Cardinality(UsedBy(p))
                /\ reservedCount[p] =
                      Len(list[p]) + Cardinality(PoppedFrom(p)) - Cardinality(PushedTo(p))
      BY DEF CountInv
    <3>1. /\ Cardinality(LiveFrom(p)) = 0 /\ Cardinality(UsedBy(p)) = 0
          /\ Cardinality(PoppedFrom(p)) = 0 /\ Cardinality(PushedTo(p)) = 0
      BY <2>1, <2>2
    <3>. HIDE DEF Init
    <3>. QED
      BY <2>3, <3>1
<1>. QED
  BY <1>2, <1>3, <1>4 DEF IInv

\* Where the blocks are, when no block moves.
LEMMA FrameHomes ==
  ASSUME IInv, UNCHANGED <<list, allocSize, origin, made, live, block>>
  PROVE  HeldRight' /\ ListsRight' /\ ThreadsApart' /\ NoneLost'
BY DEF IInv, HeldRight, ListsRight, ThreadsApart, NoneLost, Somewhere

\* The process ends and nothing changes.
LEMMA CrashPreserves ==
  ASSUME IInv, NEW why, Crash(why),
         why \notin {"allocSize is not 0", "Unknown error - allocSize is zero"}
  PROVE  IInv'
<1>1. /\ UNCHANGED <<list, usedCount, reservedCount, allocSize, origin, made, live, pc,
                     block, pool, size>>
      /\ crashed' = why
  BY DEF Crash, counts, heap, locals
<1>2. Shape'
  BY <1>1 DEF IInv, Shape, TypeOK, InHand
<1>3. HeldRight' /\ ListsRight' /\ ThreadsApart' /\ NoneLost'
  BY <1>1, FrameHomes
<1>4. CountInv'
  BY <1>1 DEF IInv, CountInv, LiveFrom, UsedBy, PoppedFrom, PushedTo
<1>5. HeadersConsistent'
  BY <1>1 DEF HeadersConsistent
<1>. QED
  BY <1>2, <1>3, <1>4, <1>5 DEF IInv

\* What the counters count are finite sets.
LEMMA CountedFinite ==
  ASSUME Shape, NEW p \in Pools
  PROVE  /\ IsFiniteSet(LiveFrom(p)) /\ IsFiniteSet(UsedBy(p))
         /\ IsFiniteSet(PoppedFrom(p)) /\ IsFiniteSet(PushedTo(p))
<1>1. /\ LiveFrom(p) \subseteq Blocks /\ UsedBy(p) \subseteq Threads
      /\ PoppedFrom(p) \subseteq Threads /\ PushedTo(p) \subseteq Threads
  BY DEF LiveFrom, UsedBy, PoppedFrom, PushedTo, Shape, TypeOK
<1>. QED
  BY <1>1, FS_Subset, MemoryConstants

LEMMA OneMore ==
  ASSUME NEW S, IsFiniteSet(S), NEW x, x \notin S
  PROVE  Cardinality(S \cup {x}) = Cardinality(S) + 1 /\ Cardinality(S) \in Nat
BY FS_AddElement, FS_CardinalityType

LEMMA OneLess ==
  ASSUME NEW S, IsFiniteSet(S), NEW x \in S
  PROVE  Cardinality(S \ {x}) = Cardinality(S) - 1 /\ Cardinality(S) \in Nat
BY FS_RemoveElement, FS_CardinalityType

\* A thread that works on a pool is in one of these sets of that pool alone.
LEMMA ThreadMoves ==
  ASSUME Shape, NEW t \in Threads, NEW p \in Pools,
         \A u \in Threads : u # t => pc'[u] = pc[u] /\ pool'[u] = pool[u]
  PROVE  /\ UsedBy(p)' = IF pc'[t] \in {"attach", "push", "push_used"} /\ pool'[t] = p
                         THEN UsedBy(p) \cup {t} ELSE UsedBy(p) \ {t}
         /\ PoppedFrom(p)' = IF pc'[t] = "pop_reserved" /\ pool'[t] = p
                             THEN PoppedFrom(p) \cup {t} ELSE PoppedFrom(p) \ {t}
         /\ PushedTo(p)' = IF pc'[t] \in {"push_used", "push_reserved"} /\ pool'[t] = p
                           THEN PushedTo(p) \cup {t} ELSE PushedTo(p) \ {t}
         /\ t \in UsedBy(p) <=> pc[t] \in {"attach", "push", "push_used"} /\ pool[t] = p
         /\ t \in PoppedFrom(p) <=> pc[t] = "pop_reserved" /\ pool[t] = p
         /\ t \in PushedTo(p) <=> pc[t] \in {"push_used", "push_reserved"} /\ pool[t] = p
<1>1. /\ UsedBy(p)' = {u \in Threads : pc'[u] \in {"attach", "push", "push_used"} /\ pool'[u] = p}
      /\ PoppedFrom(p)' = {u \in Threads : pc'[u] = "pop_reserved" /\ pool'[u] = p}
      /\ PushedTo(p)' = {u \in Threads : pc'[u] \in {"push_used", "push_reserved"} /\ pool'[u] = p}
  BY DEF UsedBy, PoppedFrom, PushedTo
<1>. QED
  BY <1>1 DEF UsedBy, PoppedFrom, PushedTo

\* What a set counts to when x goes in, or goes out, and was in or out before.
LEMMA Recount ==
  ASSUME NEW S, IsFiniteSet(S), NEW x, NEW T, NEW goesIn \in BOOLEAN,
         T = IF goesIn THEN S \cup {x} ELSE S \ {x}
  PROVE  Cardinality(T) = Cardinality(S) + (IF goesIn THEN 1 ELSE 0) - (IF x \in S THEN 1 ELSE 0)
<1>1. Cardinality(S) \in Nat
  BY FS_CardinalityType
<1>2. CASE goesIn /\ x \in S
  <2>1. T = S
    BY <1>2
  <2>2. (IF goesIn THEN 1 ELSE 0) = 1 /\ (IF x \in S THEN 1 ELSE 0) = 1
    BY <1>2
  <2>3. Cardinality(S) = Cardinality(S) + 1 - 1
    BY <1>1
  <2>. QED
    BY <2>1, <2>2, <2>3, Zenon
<1>3. CASE goesIn /\ x \notin S
  <2>1. Cardinality(T) = Cardinality(S) + 1
    BY <1>3, OneMore
  <2>. QED
    BY <1>1, <1>3, <2>1
<1>4. CASE ~goesIn /\ x \in S
  <2>1. Cardinality(T) = Cardinality(S) - 1
    BY <1>4, OneLess
  <2>. QED
    BY <1>1, <1>4, <2>1
<1>5. CASE ~goesIn /\ x \notin S
  <2>1. T = S
    BY <1>5
  <2>2. (IF goesIn THEN 1 ELSE 0) = 0 /\ (IF x \in S THEN 1 ELSE 0) = 0
    BY <1>5
  <2>3. Cardinality(S) = Cardinality(S) + 0 - 0
    BY <1>1
  <2>. QED
    BY <2>1, <2>2, <2>3, Zenon
<1>. QED
  BY <1>2, <1>3, <1>4, <1>5

\* The counts of the threads at work, before and after a step of t.
LEMMA ThreadCounts ==
  ASSUME Shape, NEW t \in Threads, NEW p \in Pools,
         \A u \in Threads : u # t => pc'[u] = pc[u] /\ pool'[u] = pool[u]
  PROVE  /\ Cardinality(UsedBy(p)) \in Nat /\ Cardinality(PoppedFrom(p)) \in Nat
         /\ Cardinality(PushedTo(p)) \in Nat /\ Cardinality(LiveFrom(p)) \in Nat
         /\ Cardinality(UsedBy(p)') = Cardinality(UsedBy(p))
              + (IF pc'[t] \in {"attach", "push", "push_used"} /\ pool'[t] = p THEN 1 ELSE 0)
              - (IF pc[t] \in {"attach", "push", "push_used"} /\ pool[t] = p THEN 1 ELSE 0)
         /\ Cardinality(PoppedFrom(p)') = Cardinality(PoppedFrom(p))
              + (IF pc'[t] = "pop_reserved" /\ pool'[t] = p THEN 1 ELSE 0)
              - (IF pc[t] = "pop_reserved" /\ pool[t] = p THEN 1 ELSE 0)
         /\ Cardinality(PushedTo(p)') = Cardinality(PushedTo(p))
              + (IF pc'[t] \in {"push_used", "push_reserved"} /\ pool'[t] = p THEN 1 ELSE 0)
              - (IF pc[t] \in {"push_used", "push_reserved"} /\ pool[t] = p THEN 1 ELSE 0)
<1>1. /\ IsFiniteSet(LiveFrom(p)) /\ IsFiniteSet(UsedBy(p))
      /\ IsFiniteSet(PoppedFrom(p)) /\ IsFiniteSet(PushedTo(p))
  BY CountedFinite
<1>2. /\ Cardinality(UsedBy(p)) \in Nat /\ Cardinality(PoppedFrom(p)) \in Nat
      /\ Cardinality(PushedTo(p)) \in Nat /\ Cardinality(LiveFrom(p)) \in Nat
  BY <1>1, FS_CardinalityType
<1>. DEFINE inUsed == pc'[t] \in {"attach", "push", "push_used"} /\ pool'[t] = p
            inPopped == pc'[t] = "pop_reserved" /\ pool'[t] = p
            inPushed == pc'[t] \in {"push_used", "push_reserved"} /\ pool'[t] = p
<1>3. Cardinality(UsedBy(p)') = Cardinality(UsedBy(p))
         + (IF inUsed THEN 1 ELSE 0) - (IF t \in UsedBy(p) THEN 1 ELSE 0)
  <2>1. UsedBy(p)' = IF inUsed THEN UsedBy(p) \cup {t} ELSE UsedBy(p) \ {t}
    BY ThreadMoves
  <2>2. inUsed \in BOOLEAN
    OBVIOUS
  <2>. HIDE DEF inUsed
  <2>. QED
    BY <1>1, <2>1, <2>2, Recount
<1>4. Cardinality(PoppedFrom(p)') = Cardinality(PoppedFrom(p))
         + (IF inPopped THEN 1 ELSE 0) - (IF t \in PoppedFrom(p) THEN 1 ELSE 0)
  <2>1. PoppedFrom(p)' = IF inPopped THEN PoppedFrom(p) \cup {t} ELSE PoppedFrom(p) \ {t}
    BY ThreadMoves
  <2>2. inPopped \in BOOLEAN
    OBVIOUS
  <2>. HIDE DEF inPopped
  <2>. QED
    BY <1>1, <2>1, <2>2, Recount
<1>5. Cardinality(PushedTo(p)') = Cardinality(PushedTo(p))
         + (IF inPushed THEN 1 ELSE 0) - (IF t \in PushedTo(p) THEN 1 ELSE 0)
  <2>1. PushedTo(p)' = IF inPushed THEN PushedTo(p) \cup {t} ELSE PushedTo(p) \ {t}
    BY ThreadMoves
  <2>2. inPushed \in BOOLEAN
    OBVIOUS
  <2>. HIDE DEF inPushed
  <2>. QED
    BY <1>1, <2>1, <2>2, Recount
<1>6. /\ t \in UsedBy(p) <=> pc[t] \in {"attach", "push", "push_used"} /\ pool[t] = p
      /\ t \in PoppedFrom(p) <=> pc[t] = "pop_reserved" /\ pool[t] = p
      /\ t \in PushedTo(p) <=> pc[t] \in {"push_used", "push_reserved"} /\ pool[t] = p
  BY ThreadMoves
<1>. QED
  BY <1>2, <1>3, <1>4, <1>5, <1>6

-----------------------------------------------------------------------------
(* Allocate and ObjectPool::Pop.                                            *)

\* A thread goes for a pool.
LEMMA StartPop ==
  ASSUME IInv, NEW t \in Threads, NEW r \in Requests \cup Types, Served(r),
         HomePool(r) \in Pools, pc[t] = "idle",
         size' = [size EXCEPT ![t] = r], pool' = [pool EXCEPT ![t] = HomePool(r)],
         Goto(t, "pop"),
         UNCHANGED <<list, counts, allocSize, heap, live, block, crashed>>
  PROVE  IInv'
<1>. USE DEF IInv
<1>1. /\ UNCHANGED <<list, usedCount, reservedCount, allocSize, origin, made, live, block>>
      /\ pc'[t] = "pop" /\ pool'[t] = HomePool(r) /\ size'[t] = r
      /\ \A u \in Threads : u # t => pc'[u] = pc[u] /\ pool'[u] = pool[u] /\ size'[u] = size[u]
  BY DEF Goto, Shape, TypeOK, counts, heap
<1>2. TypeOK'
  BY <1>1 DEF Goto, Shape, TypeOK, PCs
<1>3. InHand'
  BY <1>1 DEF Shape, InHand
<1>4. CountInv'
  <2>. SUFFICES ASSUME NEW p \in Pools
       PROVE  /\ usedCount'[p] = Cardinality(LiveFrom(p)') + Cardinality(UsedBy(p)')
              /\ reservedCount'[p] = Len(list'[p]) + Cardinality(PoppedFrom(p)')
                                     - Cardinality(PushedTo(p)')
    BY DEF CountInv
  <2>1. LiveFrom(p)' = LiveFrom(p)
    BY <1>1 DEF LiveFrom
  <2>2. /\ Cardinality(UsedBy(p)') = Cardinality(UsedBy(p))
        /\ Cardinality(PoppedFrom(p)') = Cardinality(PoppedFrom(p))
        /\ Cardinality(PushedTo(p)') = Cardinality(PushedTo(p))
    BY <1>1, ThreadCounts
  <2>. QED
    BY <1>1, <2>1, <2>2 DEF CountInv
<1>5. HeldRight' /\ ListsRight' /\ ThreadsApart' /\ NoneLost'
  BY <1>1, FrameHomes
<1>. QED
  BY <1>2, <1>3, <1>4, <1>5 DEF Shape, HeadersConsistent

\* A block from malloc is the thread's alone.
LEMMA MallocHomes ==
  ASSUME IInv, NEW t \in Threads, NEW p, NEW n, Malloc(t, p, n), block[t] = None,
         UNCHANGED <<list, allocSize, live>>
  PROVE  /\ HeldRight' /\ ListsRight' /\ ThreadsApart' /\ NoneLost'
         /\ block'[t] \in made' /\ origin'[block'[t]] = p
         /\ made' \subseteq Blocks /\ made \subseteq made'
         /\ \A x \in made : origin'[x] = origin[x]
         /\ \A u \in Threads : u # t => block'[u] = block[u]
         /\ block' \in [Threads -> Blocks \cup {None}]
         /\ p \in Pools \cup {None} => origin' \in [Blocks -> Pools \cup {None}]
<1>. USE DEF IInv
<1>1. PICK x \in Blocks \ made : /\ made' = made \cup {x}
                                /\ origin' = [origin EXCEPT ![x] = p]
                                /\ block' = [block EXCEPT ![t] = x]
  BY DEF Malloc
<1>2. /\ origin'[x] = p /\ \A y \in made : y # x /\ origin'[y] = origin[y]
      /\ block'[t] = x /\ \A u \in Threads : u # t => block'[u] = block[u]
      /\ DOMAIN live \subseteq made /\ made \subseteq Blocks /\ made' = made \cup {x}
      /\ None \notin Blocks
  BY <1>1, MemoryConstants DEF Shape, TypeOK
<1>3. HeldRight'
  BY <1>2 DEF HeldRight
<1>4. ListsRight'
  <2>. SUFFICES ASSUME NEW q \in Pools, NEW i \in 1 .. Len(list[q])
       PROVE  /\ list[q][i] \in made' \ DOMAIN live
              /\ origin'[list[q][i]] = q
              /\ allocSize[list[q][i]] = 0
              /\ \A u \in Threads : block'[u] # list[q][i]
              /\ \A k \in 1 .. Len(list[q]) : list[q][i] = list[q][k] => i = k
    BY DEF ListsRight
  <2>1. list[q][i] \in made \ DOMAIN live /\ list[q][i] # x
    BY <1>2 DEF ListsRight
  <2>. QED
    BY <1>2, <2>1 DEF ListsRight
<1>5. ThreadsApart'
  <2>1. \A u \in Threads : u # t => block[u] # x
    BY <1>2 DEF Shape, InHand
  <2>. QED
    BY <1>2, <2>1 DEF ThreadsApart
<1>6. NoneLost'
  <2>1. ASSUME NEW y \in made PROVE Somewhere(y)'
    <3>1. \A u \in Threads : block[u] = y => block'[u] = y
      BY <1>2
    <3>. QED
      BY <3>1 DEF NoneLost, Somewhere
  <2>2. Somewhere(x)'
    BY <1>2 DEF Somewhere
  <2>. QED
    BY <1>2, <2>1, <2>2 DEF NoneLost
<1>7. /\ block' \in [Threads -> Blocks \cup {None}]
      /\ p \in Pools \cup {None} => origin' \in [Blocks -> Pools \cup {None}]
  BY <1>1 DEF Shape, TypeOK
<1>. QED
  BY <1>2, <1>3, <1>4, <1>5, <1>6, <1>7

\* Blocks are malloc'ed: the counters see no difference.
LEMMA MallocCounts ==
  ASSUME IInv, NEW t \in Threads, NEW p, NEW n, Malloc(t, p, n),
         UNCHANGED <<list, counts, live>>,
         \A u \in Threads : u # t => pc'[u] = pc[u] /\ pool'[u] = pool[u],
         pc[t] \in {"idle", "pop"},
         pc'[t] = "pop_used" \/ (pc'[t] = "attach" /\ pool'[t] \notin Pools)
  PROVE  CountInv'
<1>. USE DEF IInv
<1>. SUFFICES ASSUME NEW q \in Pools
     PROVE  /\ usedCount'[q] = Cardinality(LiveFrom(q)') + Cardinality(UsedBy(q)')
            /\ reservedCount'[q] = Len(list'[q]) + Cardinality(PoppedFrom(q)')
                                   - Cardinality(PushedTo(q)')
  BY DEF CountInv
<1>1. \A x \in DOMAIN live : origin'[x] = origin[x]
  BY DEF Malloc, Shape, TypeOK
<1>2. LiveFrom(q)' = LiveFrom(q)
  BY <1>1 DEF LiveFrom
<1>3. /\ Cardinality(UsedBy(q)') = Cardinality(UsedBy(q))
      /\ Cardinality(PoppedFrom(q)') = Cardinality(PoppedFrom(q))
      /\ Cardinality(PushedTo(q)') = Cardinality(PushedTo(q))
  BY ThreadCounts
<1>. QED
  BY <1>2, <1>3 DEF CountInv, counts

LEMMA AllocatePreserves ==
  ASSUME IInv, NEW t \in Threads, NEW n \in Requests, Allocate(t, n)
  PROVE  IInv'
<1>. USE DEF IInv
<1>1. n \in Nat \ {0} /\ n \notin Types /\ None \notin Types /\ HeaderSize \in Nat
      /\ MAX_ALLOC_SIZE \in Nat
  BY MemoryConstants
<1>2. CASE n + HeaderSize <= MAX_ALLOC_SIZE /\ PoolTable(n + HeaderSize) = None
  <2>1. Crash("uninitialized poolTable entry")
    BY <1>2 DEF Allocate
  <2>. QED
    BY <2>1, CrashPreserves
<1>3. CASE n + HeaderSize <= MAX_ALLOC_SIZE /\ PoolTable(n + HeaderSize) # None
  <2>1. HomePool(n) = PoolTable(n + HeaderSize) /\ Served(n)
    BY <1>1, <1>3 DEF HomePool, Served
  <2>2. HomePool(n) \in Pools
    BY <1>3, <2>1 DEF Pools
  <2>3. ~(n + HeaderSize > MAX_ALLOC_SIZE)
    BY <1>1, <1>3
  <2>4. /\ pc[t] = "idle" /\ size' = [size EXCEPT ![t] = n]
        /\ pool' = [pool EXCEPT ![t] = PoolTable(n + HeaderSize)] /\ Goto(t, "pop")
        /\ UNCHANGED <<heap, block, list, counts, allocSize, live, crashed>>
    BY <1>3, <2>3 DEF Allocate
  <2>. QED
    BY <2>1, <2>2, <2>4, StartPop
<1>4. CASE n + HeaderSize > MAX_ALLOC_SIZE
  <2>1. /\ pc[t] = "idle" /\ size' = [size EXCEPT ![t] = n]
        /\ Malloc(t, None, n + HeaderSize) /\ Goto(t, "attach")
        /\ UNCHANGED <<pool, list, counts, allocSize, live, crashed>>
    <3>1. ~(n + HeaderSize <= MAX_ALLOC_SIZE)
      BY <1>1, <1>4
    <3>. QED
      BY <1>4, <3>1 DEF Allocate
  <2>2. HomePool(n) = None /\ Served(n)
    BY <1>1, <1>4 DEF HomePool, Served
  <2>3. /\ pc'[t] = "attach" /\ size'[t] = n
        /\ \A u \in Threads : u # t => pc'[u] = pc[u] /\ size'[u] = size[u]
        /\ block[t] = None /\ pool[t] = None /\ pool' = pool
    BY <2>1 DEF Goto, Shape, TypeOK, InHand
  <2>4. None \notin Pools
    BY MemoryConstants DEF Pools
  <2>5. /\ HeldRight' /\ ListsRight' /\ ThreadsApart' /\ NoneLost'
        /\ block'[t] \in made' /\ origin'[block'[t]] = None
        /\ made' \subseteq Blocks /\ made \subseteq made'
        /\ \A x \in made : origin'[x] = origin[x]
        /\ \A u \in Threads : u # t => block'[u] = block[u]
        /\ block' \in [Threads -> Blocks \cup {None}]
        /\ origin' \in [Blocks -> Pools \cup {None}]
    BY <2>1, <2>3, MallocHomes
  <2>6. TypeOK'
    BY <2>1, <2>5 DEF Goto, Shape, TypeOK, PCs, counts
  <2>7. InHand'
    <3>1. ASSUME NEW u \in Threads, u # t, block[u] # None
          PROVE  block'[u] \in made' /\ origin'[block'[u]] = pool'[u]
      BY <2>3, <2>5, <3>1 DEF Shape, InHand
    <3>2. block'[t] # None
      BY <2>5, MemoryConstants
    <3>3. \A u \in Threads : u # t => block'[u] = block[u]
      BY <2>5
    <3>. QED
      BY <2>2, <2>3, <2>5, <3>1, <3>2, <3>3 DEF Shape, InHand
  <2>8. CountInv'
    BY <2>1, <2>3, <2>4, MallocCounts
  <2>. QED
    BY <2>1, <2>5, <2>6, <2>7, <2>8 DEF Shape, HeadersConsistent
<1>. QED
  BY <1>1, <1>2, <1>3, <1>4

LEMMA ObjectPopPreserves ==
  ASSUME IInv, NEW t \in Threads, NEW T \in Types, ObjectPop(t, T)
  PROVE  IInv'
<1>1. HomePool(T) = T /\ Served(T) /\ T \in Pools
  BY DEF HomePool, Served, Pools
<1>2. /\ pc[t] = "idle" /\ size' = [size EXCEPT ![t] = T] /\ pool' = [pool EXCEPT ![t] = T]
      /\ Goto(t, "pop") /\ UNCHANGED <<list, counts, allocSize, heap, live, block, crashed>>
  BY DEF ObjectPop
<1>. QED
  BY <1>1, <1>2, StartPop

LEMMA PopEntryPreserves ==
  ASSUME IInv, NEW t \in Threads, PopEntry(t)
  PROVE  IInv'
<1>. USE DEF IInv
<1>1. PICK r \in Pools : r = pool[t]
  BY DEF PopEntry, Shape, InHand
<1>2. PICK s \in Seq(Blocks) : s = list[r] /\ s # << >>
  BY <1>1 DEF PopEntry, Shape, TypeOK
<1>3. PICK x : x = Head(s)
  OBVIOUS
<1>4. /\ 1 \in 1 .. Len(s) /\ s[1] = x /\ Len(s) \in Nat \ {0}
      /\ Len(Tail(s)) = Len(s) - 1 /\ Tail(s) \in Seq(Blocks)
      /\ \A i \in 1 .. Len(Tail(s)) : i + 1 \in 1 .. Len(s) /\ Tail(s)[i] = s[i + 1]
  BY <1>2, <1>3
<1>5. /\ x \in made \ DOMAIN live /\ origin[x] = r /\ allocSize[x] = 0 /\ x \in Blocks
      /\ (\A u \in Threads : block[u] # x) /\ x # None
      /\ \A p \in Pools : \A i \in 1 .. Len(list[p]) : list[p][i] = x => p = r /\ i = 1
  <2>1. /\ x \in made \ DOMAIN live /\ origin[x] = r /\ allocSize[x] = 0
        /\ \A u \in Threads : block[u] # x
    BY <1>2, <1>4 DEF ListsRight
  <2>2. x \in Blocks /\ x # None
    BY <2>1, MemoryConstants DEF Shape, TypeOK
  <2>3. ASSUME NEW p \in Pools, NEW i \in 1 .. Len(list[p]), list[p][i] = x
        PROVE  p = r /\ i = 1
    <3>1. p = r
      BY <2>1, <2>3 DEF ListsRight
    <3>. QED
      BY <1>2, <1>4, <2>3, <3>1 DEF ListsRight
  <2>. QED
    BY <2>1, <2>2, <2>3
<1>6. /\ pc[t] = "pop" /\ block' = [block EXCEPT ![t] = x] /\ Goto(t, "pop_reserved")
      /\ list' = [list EXCEPT ![r] = Tail(s)]
      /\ UNCHANGED <<usedCount, reservedCount, allocSize, origin, made, live, pool, size, crashed>>
  BY <1>1, <1>2, <1>3, <1>5 DEF PopEntry, counts, heap
<1>7. /\ pc'[t] = "pop_reserved" /\ block'[t] = x /\ list'[r] = Tail(s)
      /\ \A u \in Threads : u # t => pc'[u] = pc[u] /\ block'[u] = block[u]
      /\ \A p \in Pools : p # r => list'[p] = list[p]
      /\ block[t] = None /\ pc[t] = "pop" /\ pool[t] = r /\ pool'[t] = r
      /\ UNCHANGED <<usedCount, reservedCount, allocSize, origin, made, live, pool>>
  BY <1>1, <1>6 DEF Goto, Shape, TypeOK, InHand
<1>8. TypeOK'
  BY <1>4, <1>5, <1>6 DEF Goto, Shape, TypeOK, PCs
<1>9. InHand'
  BY <1>1, <1>5, <1>6, <1>7 DEF Shape, InHand
<1>10. HeldRight'
  BY <1>6 DEF HeldRight
<1>11. ListsRight'
  <2>. SUFFICES ASSUME NEW p \in Pools, NEW i \in 1 .. Len(list'[p])
       PROVE  /\ list'[p][i] \in made \ DOMAIN live
              /\ origin[list'[p][i]] = p
              /\ allocSize[list'[p][i]] = 0
              /\ \A u \in Threads : block'[u] # list'[p][i]
              /\ \A k \in 1 .. Len(list'[p]) : list'[p][i] = list'[p][k] => i = k
    BY <1>7 DEF ListsRight
  <2>1. CASE p # r
    <3>1. list'[p] = list[p] /\ list[p][i] # x
      BY <1>5, <1>7, <2>1
    <3>. QED
      BY <1>7, <3>1 DEF ListsRight
  <2>2. CASE p = r
    <3>1. /\ i + 1 \in 1 .. Len(s) /\ list'[p][i] = s[i + 1] /\ i \in Nat
          /\ \A k \in 1 .. Len(list'[p]) : k + 1 \in 1 .. Len(s) /\ list'[p][k] = s[k + 1]
                                          /\ k \in Nat
      <4>1. list'[p] = Tail(s) /\ i \in 1 .. Len(Tail(s)) /\ Len(Tail(s)) \in Nat
        BY <1>4, <1>7, <2>2
      <4>. QED
        BY <1>4, <4>1
    <3>2. s[i + 1] # x
      BY <1>2, <1>5, <3>1
    <3>3. \A u \in Threads : block'[u] # s[i + 1]
      BY <1>2, <1>7, <2>2, <3>1, <3>2 DEF ListsRight
    <3>4. \A k \in 1 .. Len(list'[p]) : s[i + 1] = s[k + 1] => i + 1 = k + 1
      BY <1>2, <2>2, <3>1 DEF ListsRight
    <3>5. \A k \in 1 .. Len(list'[p]) : list'[p][i] = list'[p][k] => i = k
      BY <3>1, <3>4, SMTT(30)
    <3>. QED
      BY <1>2, <2>2, <3>1, <3>3, <3>5 DEF ListsRight
  <2>. QED
    BY <2>1, <2>2
<1>12. ThreadsApart'
  BY <1>5, <1>6, <1>7 DEF ThreadsApart
<1>13. NoneLost'
  <2>. SUFFICES ASSUME NEW y \in made PROVE Somewhere(y)'
    BY <1>6 DEF NoneLost
  <2>1. CASE y = x
    BY <1>7, <2>1 DEF Somewhere
  <2>2. CASE y \in DOMAIN live
    BY <1>6, <2>2 DEF Somewhere
  <2>3. ASSUME NEW u \in Threads, block[u] = y PROVE Somewhere(y)'
    <3>1. block'[u] = y
      BY <1>7, <2>3, MemoryConstants DEF Shape, TypeOK
    <3>. QED
      BY <3>1 DEF Somewhere
  <2>4. ASSUME NEW p \in Pools, NEW i \in 1 .. Len(list[p]), list[p][i] = y, y # x
        PROVE  Somewhere(y)'
    <3>1. CASE p # r
      BY <1>7, <2>4, <3>1 DEF Somewhere
    <3>2. CASE p = r
      <4>1. i # 1 /\ i \in 1 .. Len(s) /\ s[i] = y
        BY <1>2, <1>4, <2>4, <3>2
      <4>2. i - 1 \in 1 .. Len(Tail(s)) /\ Tail(s)[i - 1] = y
        BY <1>4, <4>1
      <4>. QED
        BY <1>7, <4>2 DEF Somewhere
    <3>. QED
      BY <3>1, <3>2
  <2>. QED
    BY <2>1, <2>2, <2>3, <2>4 DEF NoneLost, Somewhere
<1>14. CountInv'
  <2>. SUFFICES ASSUME NEW p \in Pools
       PROVE  /\ usedCount'[p] = Cardinality(LiveFrom(p)') + Cardinality(UsedBy(p)')
              /\ reservedCount'[p] = Len(list'[p]) + Cardinality(PoppedFrom(p)')
                                     - Cardinality(PushedTo(p)')
    BY DEF CountInv
  <2>0. PICK d \in {0, 1} : d = IF p = r THEN 1 ELSE 0
    OBVIOUS
  <2>1. LiveFrom(p)' = LiveFrom(p)
    BY <1>6 DEF LiveFrom
  <2>2. /\ Cardinality(UsedBy(p)') = Cardinality(UsedBy(p))
        /\ Cardinality(PoppedFrom(p)') = Cardinality(PoppedFrom(p)) + d
        /\ Cardinality(PushedTo(p)') = Cardinality(PushedTo(p))
        /\ Cardinality(PoppedFrom(p)) \in Nat /\ Cardinality(PushedTo(p)) \in Nat
    <3>1. \A u \in Threads : u # t => pc'[u] = pc[u] /\ pool'[u] = pool[u]
      BY <1>7
    <3>2. pc[t] = "pop" /\ pc'[t] = "pop_reserved" /\ pool'[t] = r
      BY <1>7
    <3>3. (pc'[t] = "pop_reserved" /\ pool'[t] = p) <=> p = r
      BY <3>2
    <3>4. /\ Cardinality(UsedBy(p)') = Cardinality(UsedBy(p)) + 0 - 0
          /\ Cardinality(PoppedFrom(p)') = Cardinality(PoppedFrom(p))
                + (IF pc'[t] = "pop_reserved" /\ pool'[t] = p THEN 1 ELSE 0) - 0
          /\ Cardinality(PushedTo(p)') = Cardinality(PushedTo(p)) + 0 - 0
          /\ Cardinality(UsedBy(p)) \in Nat
          /\ Cardinality(PoppedFrom(p)) \in Nat /\ Cardinality(PushedTo(p)) \in Nat
      BY <3>1, <3>2, ThreadCounts
    <3>. QED
      BY <2>0, <3>3, <3>4
  <2>3. Len(list'[p]) = Len(list[p]) - d /\ Len(list[p]) \in Nat
    <3>1. Len(list[p]) \in Nat
      BY DEF Shape, TypeOK
    <3>2. CASE p = r
      BY <1>2, <1>4, <1>7, <2>0, <3>1, <3>2
    <3>3. CASE p # r
      BY <1>7, <2>0, <3>1, <3>3
    <3>. QED
      BY <3>1, <3>2, <3>3
  <2>. QED
    <3>1. UNCHANGED <<usedCount, reservedCount>>
      BY <1>7
    <3>. QED
      <4>1. usedCount'[p] = Cardinality(LiveFrom(p)') + Cardinality(UsedBy(p)')
        BY <2>1, <2>2, <3>1 DEF CountInv
      <4>2. reservedCount[p] = Len(list[p]) + Cardinality(PoppedFrom(p))
                               - Cardinality(PushedTo(p))
        BY DEF CountInv
      <4>3. reservedCount'[p] = reservedCount[p]
        BY <3>1
      <4>. HIDE DEF IInv
      <4>. QED
        BY <2>2, <2>3, <4>1, <4>2, <4>3
<1>. QED
  BY <1>6, <1>8, <1>9, <1>10, <1>11, <1>12, <1>13, <1>14 DEF Shape, HeadersConsistent

LEMMA PopMallocPreserves ==
  ASSUME IInv, NEW t \in Threads, PopMalloc(t)
  PROVE  IInv'
<1>. USE DEF IInv
<1>1. PICK r \in Pools : r = pool[t]
  BY DEF PopMalloc, Shape, InHand
<1>2. /\ pc[t] = "pop" /\ Malloc(t, r, PoolAllocSize) /\ Goto(t, "pop_used")
      /\ UNCHANGED <<list, counts, allocSize, live, pool, size, crashed>>
  BY <1>1 DEF PopMalloc
<1>3. /\ pc'[t] = "pop_used" /\ \A u \in Threads : u # t => pc'[u] = pc[u]
      /\ block[t] = None
  BY <1>2 DEF Goto, Shape, TypeOK, InHand
<1>4. /\ HeldRight' /\ ListsRight' /\ ThreadsApart' /\ NoneLost'
      /\ block'[t] \in made' /\ origin'[block'[t]] = r
      /\ made' \subseteq Blocks /\ made \subseteq made'
      /\ \A x \in made : origin'[x] = origin[x]
      /\ \A u \in Threads : u # t => block'[u] = block[u]
      /\ block' \in [Threads -> Blocks \cup {None}]
      /\ origin' \in [Blocks -> Pools \cup {None}]
  BY <1>2, <1>3, MallocHomes
<1>5. TypeOK'
  BY <1>2, <1>4 DEF Goto, Shape, TypeOK, PCs, counts
<1>6. InHand'
  <2>1. ASSUME NEW u \in Threads, u # t, block[u] # None
        PROVE  block'[u] \in made' /\ origin'[block'[u]] = pool'[u]
    BY <1>2, <1>4, <2>1 DEF Shape, InHand
  <2>2. block'[t] # None
    BY <1>4, MemoryConstants
  <2>3. \A u \in Threads : u # t => block'[u] = block[u]
    BY <1>4
  <2>. QED
    BY <1>1, <1>2, <1>3, <1>4, <2>1, <2>2, <2>3 DEF Shape, InHand
<1>7. CountInv'
  BY <1>2, <1>3, MallocCounts
<1>. QED
  BY <1>2, <1>4, <1>5, <1>6, <1>7 DEF Shape, HeadersConsistent

LEMMA PopReservedPreserves ==
  ASSUME IInv, NEW t \in Threads, PopReserved(t)
  PROVE  IInv'
<1>. USE DEF IInv
<1>1. PICK r \in Pools : r = pool[t]
  BY DEF PopReserved, Shape, InHand
<1>2. /\ UNCHANGED <<list, usedCount, allocSize, origin, made, live, block, pool, size, crashed>>
      /\ reservedCount' = [reservedCount EXCEPT ![r] = @ - 1]
      /\ pc[t] = "pop_reserved" /\ pc'[t] = "pop_used" /\ Goto(t, "pop_used")
      /\ \A u \in Threads : u # t => pc'[u] = pc[u]
  BY <1>1 DEF PopReserved, Goto, Shape, TypeOK, heap, locals
<1>3. TypeOK'
  BY <1>2 DEF Goto, Shape, TypeOK, PCs
<1>4. InHand'
  BY <1>2 DEF Shape, InHand
<1>5. CountInv'
  <2>. SUFFICES ASSUME NEW p \in Pools
       PROVE  /\ usedCount'[p] = Cardinality(LiveFrom(p)') + Cardinality(UsedBy(p)')
              /\ reservedCount'[p] = Len(list'[p]) + Cardinality(PoppedFrom(p)')
                                     - Cardinality(PushedTo(p)')
    BY DEF CountInv
  <2>1. LiveFrom(p)' = LiveFrom(p)
    BY <1>2 DEF LiveFrom
  <2>2. /\ Cardinality(UsedBy(p)') = Cardinality(UsedBy(p))
        /\ Cardinality(PoppedFrom(p)') = Cardinality(PoppedFrom(p)) - (IF p = r THEN 1 ELSE 0)
        /\ Cardinality(PushedTo(p)') = Cardinality(PushedTo(p))
        /\ Cardinality(PoppedFrom(p)) \in Nat /\ Cardinality(PushedTo(p)) \in Nat
    BY <1>1, <1>2, ThreadCounts
  <2>3. reservedCount'[p] = reservedCount[p] - (IF p = r THEN 1 ELSE 0) /\ Len(list[p]) \in Nat
    BY <1>2 DEF Shape, TypeOK
  <2>. QED
    BY <1>2, <2>1, <2>2, <2>3 DEF CountInv
<1>6. HeldRight' /\ ListsRight' /\ ThreadsApart' /\ NoneLost'
  BY <1>2, FrameHomes
<1>. QED
  BY <1>2, <1>3, <1>4, <1>5, <1>6 DEF Shape, HeadersConsistent

LEMMA PopUsedPreserves ==
  ASSUME IInv, NEW t \in Threads, PopUsed(t)
  PROVE  IInv'
<1>. USE DEF IInv
<1>1. PICK r \in Pools : r = pool[t]
  BY DEF PopUsed, Shape, InHand
<1>2. /\ UNCHANGED <<list, reservedCount, allocSize, origin, made, live, block, pool, size, crashed>>
      /\ usedCount' = [usedCount EXCEPT ![r] = @ + 1]
      /\ pc[t] = "pop_used" /\ pc'[t] = "attach" /\ Goto(t, "attach")
      /\ \A u \in Threads : u # t => pc'[u] = pc[u]
  BY <1>1 DEF PopUsed, Goto, Shape, TypeOK, heap, locals
<1>3. TypeOK'
  BY <1>2 DEF Goto, Shape, TypeOK, PCs
<1>4. InHand'
  BY <1>2 DEF Shape, InHand
<1>5. CountInv'
  <2>. SUFFICES ASSUME NEW p \in Pools
       PROVE  /\ usedCount'[p] = Cardinality(LiveFrom(p)') + Cardinality(UsedBy(p)')
              /\ reservedCount'[p] = Len(list'[p]) + Cardinality(PoppedFrom(p)')
                                     - Cardinality(PushedTo(p)')
    BY DEF CountInv
  <2>1. LiveFrom(p)' = LiveFrom(p)
    BY <1>2 DEF LiveFrom
  <2>2. /\ Cardinality(UsedBy(p)') = Cardinality(UsedBy(p)) + (IF p = r THEN 1 ELSE 0)
        /\ Cardinality(PoppedFrom(p)') = Cardinality(PoppedFrom(p))
        /\ Cardinality(PushedTo(p)') = Cardinality(PushedTo(p))
        /\ Cardinality(UsedBy(p)) \in Nat /\ Cardinality(LiveFrom(p)) \in Nat
    BY <1>1, <1>2, ThreadCounts
  <2>3. usedCount'[p] = usedCount[p] + (IF p = r THEN 1 ELSE 0)
    BY <1>2 DEF Shape, TypeOK
  <2>. QED
    BY <1>2, <2>1, <2>2, <2>3 DEF CountInv
<1>6. HeldRight' /\ ListsRight' /\ ThreadsApart' /\ NoneLost'
  BY <1>2, FrameHomes
<1>. QED
  BY <1>2, <1>3, <1>4, <1>5, <1>6 DEF Shape, HeadersConsistent

LEMMA AttachHeaderPreserves ==
  ASSUME IInv, NEW t \in Threads, AttachHeader(t)
  PROVE  IInv'
<1>. USE DEF IInv
<1>1. PICK x \in made : x = block[t]
  BY DEF AttachHeader, Shape, InHand
<1>2. PICK r : r = size[t]
  OBVIOUS
<1>3. /\ x \in Blocks /\ x # None /\ x \notin DOMAIN live /\ Served(r)
      /\ origin[x] = HomePool(r) /\ origin[x] = pool[t] /\ pc[t] = "attach"
      /\ \A u \in Threads : block[u] = x => u = t
      /\ \A p \in Pools : \A i \in 1 .. Len(list[p]) : list[p][i] # x
  <2>1. block[t] # None
    BY DEF AttachHeader, Shape, InHand
  <2>. QED
    BY <1>1, <1>2, <2>1 DEF AttachHeader, Shape, TypeOK, InHand, ThreadsApart, ListsRight
<1>4. /\ live' = [y \in DOMAIN live \cup {x} |-> IF y = x THEN r ELSE live[y]]
      /\ allocSize' = [allocSize EXCEPT ![x] = Bytes(r) + HeaderSize]
      /\ block' = [block EXCEPT ![t] = None] /\ pool' = [pool EXCEPT ![t] = None]
      /\ Goto(t, "idle")
      /\ UNCHANGED <<list, usedCount, reservedCount, origin, made, size, crashed>>
  BY <1>1, <1>2 DEF AttachHeader, counts, heap
<1>5. /\ DOMAIN live' = DOMAIN live \cup {x} /\ live'[x] = r
      /\ \A y \in DOMAIN live : live'[y] = live[y] /\ y # x
      /\ Bytes(r) + HeaderSize \in Nat
      /\ allocSize'[x] = Bytes(r) + HeaderSize
      /\ \A y \in Blocks : y # x => allocSize'[y] = allocSize[y]
      /\ pc'[t] = "idle" /\ block'[t] = None /\ pool'[t] = None
      /\ \A u \in Threads : u # t => pc'[u] = pc[u] /\ block'[u] = block[u] /\ pool'[u] = pool[u]
  <2>1. Bytes(r) + HeaderSize \in Nat
    BY <1>3, MemoryConstants DEF Bytes, Served
  <2>. QED
    BY <1>3, <1>4, <2>1 DEF Goto, Shape, TypeOK
<1>6. TypeOK'
  <2>1. allocSize' \in [Blocks -> Nat]
    BY <1>4, <1>5 DEF Shape, TypeOK
  <2>. QED
    BY <1>3, <1>4, <1>5, <2>1 DEF Goto, Shape, TypeOK, PCs
<1>7. InHand'
  BY <1>4, <1>5 DEF Shape, InHand
<1>8. HeldRight'
  <2>1. \A y \in DOMAIN live : allocSize'[y] = allocSize[y]
    BY <1>5 DEF Shape, TypeOK
  <2>. QED
    BY <1>3, <1>4, <1>5, <2>1 DEF HeldRight
<1>9. ListsRight'
  <2>. SUFFICES ASSUME NEW p \in Pools, NEW i \in 1 .. Len(list[p])
       PROVE  /\ list[p][i] \in made \ DOMAIN live'
              /\ origin[list[p][i]] = p
              /\ allocSize'[list[p][i]] = 0
              /\ \A u \in Threads : block'[u] # list[p][i]
              /\ \A k \in 1 .. Len(list[p]) : list[p][i] = list[p][k] => i = k
    BY <1>4 DEF ListsRight
  <2>1. /\ list[p][i] \in made \ DOMAIN live /\ origin[list[p][i]] = p
        /\ allocSize[list[p][i]] = 0 /\ list[p][i] # x
        /\ list[p][i] \in Blocks /\ list[p][i] # None
        /\ \A u \in Threads : block[u] # list[p][i]
        /\ \A k \in 1 .. Len(list[p]) : list[p][i] = list[p][k] => i = k
    BY <1>3, MemoryConstants, SMTT(30) DEF ListsRight, Shape, TypeOK
  <2>. QED
    BY <1>5, <2>1
<1>10. ThreadsApart'
  BY <1>3, <1>5 DEF ThreadsApart
<1>11. NoneLost'
  <2>. SUFFICES ASSUME NEW y \in made PROVE Somewhere(y)'
    BY <1>4 DEF NoneLost
  <2>1. CASE y = x
    BY <1>5, <2>1 DEF Somewhere
  <2>2. CASE y # x
    <3>1. \A u \in Threads : block[u] = y => block'[u] = y
      BY <1>1, <1>5, <2>2
    <3>. QED
      BY <1>4, <1>5, <3>1 DEF NoneLost, Somewhere
  <2>. QED
    BY <2>1, <2>2
<1>12. CountInv'
  <2>. SUFFICES ASSUME NEW p \in Pools
       PROVE  /\ usedCount'[p] = Cardinality(LiveFrom(p)') + Cardinality(UsedBy(p)')
              /\ reservedCount'[p] = Len(list'[p]) + Cardinality(PoppedFrom(p)')
                                     - Cardinality(PushedTo(p)')
    BY DEF CountInv
  <2>1. None # p
    BY MemoryConstants DEF Pools
  <2>2. /\ Cardinality(UsedBy(p)') = Cardinality(UsedBy(p)) - (IF pool[t] = p THEN 1 ELSE 0)
        /\ Cardinality(PoppedFrom(p)') = Cardinality(PoppedFrom(p))
        /\ Cardinality(PushedTo(p)') = Cardinality(PushedTo(p))
        /\ Cardinality(UsedBy(p)) \in Nat /\ Cardinality(LiveFrom(p)) \in Nat
    BY <1>3, <1>5, <2>1, ThreadCounts, SMTT(30)
  <2>3. Cardinality(LiveFrom(p)') = Cardinality(LiveFrom(p)) + (IF pool[t] = p THEN 1 ELSE 0)
    <3>1. CASE pool[t] = p
      <4>1. LiveFrom(p)' = LiveFrom(p) \cup {x} /\ x \notin LiveFrom(p)
        BY <1>3, <1>4, <1>5, <3>1 DEF LiveFrom
      <4>2. Cardinality(LiveFrom(p) \cup {x}) = Cardinality(LiveFrom(p)) + 1
        BY <4>1, CountedFinite, OneMore
      <4>. QED
        BY <3>1, <4>1, <4>2
    <3>2. CASE pool[t] # p
      <4>1. LiveFrom(p)' = LiveFrom(p)
        BY <1>3, <1>4, <1>5, <3>2 DEF LiveFrom
      <4>. QED
        BY <2>2, <3>2, <4>1
    <3>. QED
      BY <3>1, <3>2
  <2>4. (IF pool[t] = p THEN 1 ELSE 0) \in Nat
    OBVIOUS
  <2>. QED
    BY <1>4, <2>2, <2>3, <2>4 DEF CountInv
<1>. QED
  BY <1>4, <1>6, <1>7, <1>8, <1>9, <1>10, <1>11, <1>12 DEF Shape, HeadersConsistent

-----------------------------------------------------------------------------
(* Release and ObjectPool::Push.                                            *)

\* A block the application holds is nowhere else, and its home is known.
LEMMA HeldFacts ==
  ASSUME IInv, NEW x \in DOMAIN live
  PROVE  /\ x \in made /\ x \in Blocks /\ x # None
         /\ \A u \in Threads : block[u] # x
         /\ \A p \in Pools : \A i \in 1 .. Len(list[p]) : list[p][i] # x
         /\ Served(live[x]) /\ origin[x] = HomePool(live[x])
         /\ allocSize[x] = Bytes(live[x]) + HeaderSize
<1>1. x \in made /\ x \in Blocks /\ x # None
  BY MemoryConstants DEF IInv, Shape, TypeOK
<1>. QED
  BY <1>1 DEF IInv, ThreadsApart, ListsRight, HeldRight

\* What the application holds of a pool, when it gives x up.
LEMMA LiveFromLess ==
  ASSUME Shape, NEW x \in DOMAIN live, NEW p \in Pools, UNCHANGED origin,
         live' = [y \in DOMAIN live \ {x} |-> live[y]]
  PROVE  /\ Cardinality(LiveFrom(p)) \in Nat
         /\ origin[x] = p => Cardinality(LiveFrom(p)') = Cardinality(LiveFrom(p)) - 1
         /\ origin[x] # p => Cardinality(LiveFrom(p)') = Cardinality(LiveFrom(p))
<1>1. IsFiniteSet(LiveFrom(p)) /\ Cardinality(LiveFrom(p)) \in Nat
  BY CountedFinite, FS_CardinalityType
<1>2. LiveFrom(p)' = LiveFrom(p) \ {x}
  BY DEF LiveFrom
<1>3. CASE origin[x] = p
  <2>1. x \in LiveFrom(p)
    BY <1>3 DEF LiveFrom
  <2>. QED
    BY <1>1, <1>2, <1>3, <2>1, OneLess
<1>4. CASE origin[x] # p
  <2>1. LiveFrom(p) \ {x} = LiveFrom(p)
    BY <1>4 DEF LiveFrom
  <2>. QED
    BY <1>1, <1>2, <1>4, <2>1
<1>. QED
  BY <1>1, <1>3, <1>4

\* A thread takes a block back from the application, on its way to pool r.
LEMMA TakeBack ==
  ASSUME IInv, NEW t \in Threads, NEW x \in DOMAIN live, NEW r \in Pools, origin[x] = r,
         pc[t] = "idle", live' = [y \in DOMAIN live \ {x} |-> live[y]],
         block' = [block EXCEPT ![t] = x], pool' = [pool EXCEPT ![t] = r], Goto(t, "push"),
         UNCHANGED <<list, counts, allocSize, heap, size, crashed>>
  PROVE  IInv'
<1>. USE DEF IInv
<1>1. /\ x \in made /\ x \in Blocks /\ x # None
      /\ \A u \in Threads : block[u] # x
      /\ \A p \in Pools : \A i \in 1 .. Len(list[p]) : list[p][i] # x
  BY HeldFacts
<1>2. /\ DOMAIN live' = DOMAIN live \ {x} /\ \A y \in DOMAIN live' : live'[y] = live[y]
      /\ pc'[t] = "push" /\ block'[t] = x /\ pool'[t] = r /\ block[t] = None
      /\ \A u \in Threads : u # t => pc'[u] = pc[u] /\ block'[u] = block[u] /\ pool'[u] = pool[u]
      /\ UNCHANGED <<list, usedCount, reservedCount, allocSize, origin, made, size, crashed>>
  BY DEF Goto, Shape, TypeOK, InHand, counts, heap
<1>3. TypeOK'
  BY <1>1, <1>2 DEF Goto, Shape, TypeOK, PCs
<1>4. InHand'
  BY <1>1, <1>2 DEF Shape, InHand
<1>5. HeldRight'
  BY <1>2 DEF HeldRight
<1>6. ListsRight'
  <2>. SUFFICES ASSUME NEW p \in Pools, NEW i \in 1 .. Len(list[p])
       PROVE  /\ list[p][i] \in made \ DOMAIN live'
              /\ origin[list[p][i]] = p
              /\ allocSize[list[p][i]] = 0
              /\ \A u \in Threads : block'[u] # list[p][i]
              /\ \A k \in 1 .. Len(list[p]) : list[p][i] = list[p][k] => i = k
    BY <1>2 DEF ListsRight
  <2>1. list[p][i] # x
    BY <1>1
  <2>2. \A u \in Threads : block'[u] # list[p][i]
    BY <1>2, <2>1 DEF ListsRight
  <2>. QED
    BY <1>2, <2>2 DEF ListsRight
<1>7. ThreadsApart'
  BY <1>1, <1>2 DEF ThreadsApart
<1>8. NoneLost'
  <2>. SUFFICES ASSUME NEW y \in made PROVE Somewhere(y)'
    BY <1>2 DEF NoneLost
  <2>1. CASE y = x
    BY <1>2, <2>1 DEF Somewhere
  <2>2. CASE y # x
    <3>1. \A u \in Threads : block[u] = y => block'[u] = y
      <4>1. y # None
        BY MemoryConstants DEF Shape, TypeOK
      <4>. QED
        BY <1>2, <4>1
    <3>. QED
      BY <1>2, <2>2, <3>1 DEF NoneLost, Somewhere
  <2>. QED
    BY <2>1, <2>2
<1>9. CountInv'
  <2>. SUFFICES ASSUME NEW p \in Pools
       PROVE  /\ usedCount'[p] = Cardinality(LiveFrom(p)') + Cardinality(UsedBy(p)')
              /\ reservedCount'[p] = Len(list'[p]) + Cardinality(PoppedFrom(p)')
                                     - Cardinality(PushedTo(p)')
    BY DEF CountInv
  <2>0. PICK d \in {0, 1} : d = IF p = r THEN 1 ELSE 0
    OBVIOUS
  <2>1. /\ Cardinality(UsedBy(p)') = Cardinality(UsedBy(p)) + d
        /\ Cardinality(PoppedFrom(p)') = Cardinality(PoppedFrom(p))
        /\ Cardinality(PushedTo(p)') = Cardinality(PushedTo(p))
        /\ Cardinality(UsedBy(p)) \in Nat
    BY <1>2, <2>0, ThreadCounts
  <2>2. Cardinality(LiveFrom(p)') = Cardinality(LiveFrom(p)) - d /\ Cardinality(LiveFrom(p)) \in Nat
    BY <1>2, <2>0, LiveFromLess
  <2>3. UNCHANGED <<usedCount, reservedCount, list>>
    BY <1>2
  <2>. QED
    BY <2>1, <2>2, <2>3 DEF CountInv
<1>. QED
  BY <1>2, <1>3, <1>4, <1>5, <1>6, <1>7, <1>8, <1>9 DEF Shape, HeadersConsistent

\* A block that was not pooled goes back to malloc.
LEMMA FreeBlock ==
  ASSUME IInv, NEW x \in DOMAIN live, origin[x] = None,
         live' = [y \in DOMAIN live \ {x} |-> live[y]],
         made' = made \ {x}, allocSize' = [allocSize EXCEPT ![x] = 0],
         UNCHANGED <<list, usedCount, reservedCount, origin, pc, block, pool, size, crashed>>
  PROVE  IInv'
<1>. USE DEF IInv
<1>1. /\ x \in made /\ x \in Blocks /\ x # None
      /\ \A u \in Threads : block[u] # x
      /\ \A p \in Pools : \A i \in 1 .. Len(list[p]) : list[p][i] # x
  BY HeldFacts
<1>2. /\ DOMAIN live' = DOMAIN live \ {x} /\ \A y \in DOMAIN live' : live'[y] = live[y]
      /\ \A y \in Blocks : y # x => allocSize'[y] = allocSize[y]
  BY DEF Shape, TypeOK
<1>3. TypeOK'
  BY <1>1, <1>2 DEF Shape, TypeOK
<1>4. InHand'
  BY <1>1 DEF Shape, InHand
<1>5. HeldRight'
  BY <1>2 DEF HeldRight, Shape, TypeOK
<1>6. ListsRight'
  <2>. SUFFICES ASSUME NEW p \in Pools, NEW i \in 1 .. Len(list[p])
       PROVE  /\ list[p][i] \in made' \ DOMAIN live'
              /\ origin[list[p][i]] = p
              /\ allocSize'[list[p][i]] = 0
              /\ \A u \in Threads : block[u] # list[p][i]
              /\ \A k \in 1 .. Len(list[p]) : list[p][i] = list[p][k] => i = k
    BY DEF ListsRight
  <2>1. list[p][i] # x
    BY <1>1
  <2>2. list[p][i] \in Blocks
    BY DEF ListsRight, Shape, TypeOK
  <2>. QED
    BY <1>2, <2>1, <2>2 DEF ListsRight
<1>7. ThreadsApart'
  BY <1>2 DEF ThreadsApart
<1>8. NoneLost'
  BY <1>2 DEF NoneLost, Somewhere
<1>9. CountInv'
  <2>. SUFFICES ASSUME NEW p \in Pools
       PROVE  /\ usedCount'[p] = Cardinality(LiveFrom(p)') + Cardinality(UsedBy(p)')
              /\ reservedCount'[p] = Len(list'[p]) + Cardinality(PoppedFrom(p)')
                                     - Cardinality(PushedTo(p)')
    BY DEF CountInv
  <2>1. origin[x] # p
    BY MemoryConstants DEF Pools
  <2>2. Cardinality(LiveFrom(p)') = Cardinality(LiveFrom(p))
    BY <2>1, LiveFromLess
  <2>3. UsedBy(p)' = UsedBy(p) /\ PoppedFrom(p)' = PoppedFrom(p) /\ PushedTo(p)' = PushedTo(p)
    BY DEF UsedBy, PoppedFrom, PushedTo
  <2>. QED
    BY <2>2, <2>3 DEF CountInv
<1>. QED
  BY <1>3, <1>4, <1>5, <1>6, <1>7, <1>8, <1>9 DEF Shape, HeadersConsistent

LEMMA ReleasePreserves ==
  ASSUME IInv, NEW t \in Threads, NEW x \in DOMAIN live, Release(t, x)
  PROVE  IInv'
<1>1. PICK n \in Requests : n = live[x] /\ n \notin Types
  BY HeldFacts DEF Release, Served
<1>2. /\ n \in Nat \ {0} /\ HeaderSize \in Nat /\ MAX_ALLOC_SIZE \in Nat /\ None \notin Types
  BY MemoryConstants
<1>3. allocSize[x] = n + HeaderSize /\ origin[x] = HomePool(n) /\ Served(n)
  BY <1>1, HeldFacts DEF Bytes
<1>4. allocSize[x] # 0 /\ allocSize[x] \in Nat
  BY <1>2, <1>3
<1>5. /\ pc[t] = "idle" /\ live' = [y \in DOMAIN live \ {x} |-> live[y]]
      /\ UNCHANGED <<list, counts, size, crashed>>
  BY <1>4 DEF Release
<1>6. CASE allocSize[x] > MAX_ALLOC_SIZE
  <2>1. origin[x] = None
    BY <1>1, <1>3, <1>6 DEF HomePool
  <2>2. /\ made' = made \ {x} /\ allocSize' = [allocSize EXCEPT ![x] = 0]
        /\ UNCHANGED <<origin, block, pool, pc>>
    BY <1>4, <1>6 DEF Release
  <2>. QED
    BY <1>5, <2>1, <2>2, FreeBlock DEF counts
<1>7. CASE ~(allocSize[x] > MAX_ALLOC_SIZE)
  <2>1. HomePool(n) = PoolTable(n + HeaderSize) /\ PoolTable(n + HeaderSize) # None
        /\ n + HeaderSize <= MAX_ALLOC_SIZE
    BY <1>1, <1>2, <1>3, <1>7 DEF HomePool, Served
  <2>2. HomePool(n) \in Pools
    BY <2>1 DEF Pools
  <2>3. /\ block' = [block EXCEPT ![t] = x]
        /\ pool' = [pool EXCEPT ![t] = HomePool(n)]
        /\ Goto(t, "push") /\ UNCHANGED <<allocSize, heap>>
    BY <1>3, <1>4, <1>7, <2>1 DEF Release
  <2>. QED
    BY <1>3, <1>5, <2>2, <2>3, TakeBack
<1>. QED
  BY <1>6, <1>7

LEMMA ObjectPushPreserves ==
  ASSUME IInv, NEW t \in Threads, NEW x \in DOMAIN live, ObjectPush(t, x)
  PROVE  IInv'
<1>1. PICK T \in Types : T = live[x]
  BY DEF ObjectPush
<1>2. origin[x] = T /\ T \in Pools
  BY <1>1, HeldFacts DEF HomePool, Pools
<1>3. /\ pc[t] = "idle" /\ live' = [y \in DOMAIN live \ {x} |-> live[y]]
      /\ block' = [block EXCEPT ![t] = x] /\ pool' = [pool EXCEPT ![t] = T]
      /\ Goto(t, "push") /\ UNCHANGED <<list, counts, allocSize, heap, size, crashed>>
  BY <1>1 DEF ObjectPush
<1>. QED
  BY <1>2, <1>3, TakeBack

LEMMA PushEntryPreserves ==
  ASSUME IInv, NEW t \in Threads, PushEntry(t)
  PROVE  IInv'
<1>. USE DEF IInv
<1>1. PICK r \in Pools : r = pool[t]
  BY DEF PushEntry, Shape, InHand
<1>2. PICK s \in Seq(Blocks) : s = list[r]
  BY DEF Shape, TypeOK
<1>3. PICK x \in made : x = block[t]
  BY DEF PushEntry, Shape, InHand
<1>4. /\ x \in Blocks /\ x # None /\ x \notin DOMAIN live /\ origin[x] = r /\ pc[t] = "push"
      /\ \A u \in Threads : block[u] = x => u = t
      /\ \A p \in Pools : \A i \in 1 .. Len(list[p]) : list[p][i] # x
  <2>1. block[t] # None
    BY DEF PushEntry, Shape, InHand
  <2>. QED
    BY <1>1, <1>3, <2>1 DEF PushEntry, Shape, TypeOK, InHand, ThreadsApart, ListsRight
<1>5. PICK n \in Seq(Blocks) : n = <<x>> \o s
  <2>1. <<x>> \in Seq(Blocks)
    BY <1>4
  <2>. QED
    BY <1>2, <2>1, ConcatProperties
<1>6. /\ Len(s) \in Nat /\ Len(n) = Len(s) + 1 /\ n[1] = x
      /\ \A i \in 1 .. Len(n) : i = 1 \/ (i - 1 \in 1 .. Len(s) /\ n[i] = s[i - 1])
      /\ \A i \in 1 .. Len(s) : i + 1 \in 1 .. Len(n) /\ n[i + 1] = s[i]
  BY <1>2, <1>4, <1>5
<1>7. /\ allocSize' = [allocSize EXCEPT ![x] = 0] /\ list' = [list EXCEPT ![r] = n]
      /\ block' = [block EXCEPT ![t] = None] /\ Goto(t, "push_used")
      /\ UNCHANGED <<usedCount, reservedCount, origin, made, live, pool, size, crashed>>
  BY <1>1, <1>2, <1>3, <1>5 DEF PushEntry, counts, heap
<1>8. /\ pc'[t] = "push_used" /\ block'[t] = None /\ list'[r] = n /\ pool[t] = r /\ pool'[t] = r
      /\ \A u \in Threads : u # t => pc'[u] = pc[u] /\ block'[u] = block[u] /\ pool'[u] = pool[u]
      /\ \A p \in Pools : p # r => list'[p] = list[p]
      /\ allocSize'[x] = 0 /\ \A y \in Blocks : y # x => allocSize'[y] = allocSize[y]
      /\ UNCHANGED <<usedCount, reservedCount, origin, made, live, pool>>
  BY <1>1, <1>4, <1>7 DEF Goto, Shape, TypeOK
<1>9. TypeOK'
  BY <1>4, <1>7 DEF Goto, Shape, TypeOK, PCs
<1>10. InHand'
  BY <1>4, <1>7, <1>8 DEF Shape, InHand
<1>11. HeldRight'
  <2>1. \A y \in DOMAIN live : y # x /\ y \in Blocks
    BY <1>4 DEF Shape, TypeOK
  <2>. QED
    BY <1>8, <2>1 DEF HeldRight
<1>12. ListsRight'
  <2>. SUFFICES ASSUME NEW p \in Pools, NEW i \in 1 .. Len(list'[p])
       PROVE  /\ list'[p][i] \in made \ DOMAIN live
              /\ origin[list'[p][i]] = p
              /\ allocSize'[list'[p][i]] = 0
              /\ \A u \in Threads : block'[u] # list'[p][i]
              /\ \A k \in 1 .. Len(list'[p]) : list'[p][i] = list'[p][k] => i = k
    BY <1>8 DEF ListsRight
  <2>1. ASSUME NEW q \in Pools, NEW k \in 1 .. Len(list[q])
        PROVE  /\ list[q][k] \in made \ DOMAIN live /\ origin[list[q][k]] = q
               /\ allocSize'[list[q][k]] = 0 /\ list[q][k] # x
               /\ \A u \in Threads : block'[u] # list[q][k]
    <3>1. /\ list[q][k] \in made \ DOMAIN live /\ origin[list[q][k]] = q /\ list[q][k] # x
          /\ allocSize[list[q][k]] = 0 /\ \A u \in Threads : block[u] # list[q][k]
      BY <1>4 DEF ListsRight
    <3>2. list[q][k] \in Blocks /\ list[q][k] # None
      BY <3>1, MemoryConstants DEF Shape, TypeOK
    <3>. QED
      BY <1>8, <3>1, <3>2
  <2>2. CASE p # r
    <3>1. list'[p] = list[p]
      BY <1>8, <2>2
    <3>. QED
      BY <2>1, <3>1 DEF ListsRight
  <2>3. CASE p = r
    <3>1. list'[p] = n /\ i \in 1 .. Len(n)
      BY <1>8, <2>3
    <3>2. \A k \in 1 .. Len(s) : s[k] # x
      BY <1>2, <1>4
    <3>3. CASE i = 1
      <4>1. list'[p][i] = x /\ \A u \in Threads : block'[u] # x
        BY <1>4, <1>6, <1>8, <3>1, <3>3
      <4>2. \A k \in 1 .. Len(n) : n[k] = x => k = 1
        BY <1>6, <3>2
      <4>. QED
        BY <1>4, <1>8, <2>3, <3>1, <3>3, <4>1, <4>2
    <3>4. CASE i # 1
      <4>1. i - 1 \in 1 .. Len(list[r]) /\ list'[p][i] = list[r][i - 1]
        BY <1>2, <1>6, <3>1, <3>4
      <4>2. \A k \in 1 .. Len(n) : n[i] = n[k] => i = k
        <5>. SUFFICES ASSUME NEW k \in 1 .. Len(n), n[i] = n[k] PROVE i = k
          OBVIOUS
        <5>1. n[i] # x /\ k # 1
          BY <1>2, <1>6, <3>1, <3>2, <4>1, ZenonT(60)
        <5>2. k - 1 \in 1 .. Len(list[r]) /\ n[k] = list[r][k - 1]
          BY <1>2, <1>6, <5>1
        <5>3. i - 1 = k - 1
          <6>1. list[r][i - 1] = list[r][k - 1]
            BY <3>1, <4>1, <5>2
          <6>. QED
            BY <4>1, <5>2, <6>1 DEF ListsRight
        <5>. QED
          BY <3>1, <5>3
      <4>. QED
        BY <2>1, <2>3, <3>1, <4>1, <4>2
    <3>. QED
      BY <3>3, <3>4
  <2>. QED
    BY <2>2, <2>3
<1>13. ThreadsApart'
  BY <1>8 DEF ThreadsApart
<1>14. NoneLost'
  <2>. SUFFICES ASSUME NEW y \in made PROVE Somewhere(y)'
    BY <1>8 DEF NoneLost
  <2>1. CASE y = x
    <3>1. 1 \in 1 .. Len(list'[r]) /\ list'[r][1] = y
      BY <1>6, <1>8, <2>1
    <3>. QED
      BY <3>1 DEF Somewhere
  <2>2. CASE y \in DOMAIN live
    BY <1>8, <2>2 DEF Somewhere
  <2>3. ASSUME NEW u \in Threads, block[u] = y, y # x PROVE Somewhere(y)'
    <3>1. block'[u] = y
      BY <1>3, <1>8, <2>3
    <3>. QED
      BY <3>1 DEF Somewhere
  <2>4. ASSUME NEW p \in Pools, NEW i \in 1 .. Len(list[p]), list[p][i] = y
        PROVE  Somewhere(y)'
    <3>1. CASE p # r
      BY <1>8, <2>4, <3>1 DEF Somewhere
    <3>2. CASE p = r
      <4>1. i + 1 \in 1 .. Len(list'[r]) /\ list'[r][i + 1] = y
        BY <1>2, <1>6, <1>8, <2>4, <3>2
      <4>. QED
        BY <4>1 DEF Somewhere
    <3>. QED
      BY <3>1, <3>2
  <2>. QED
    BY <2>1, <2>2, <2>3, <2>4 DEF NoneLost, Somewhere
<1>15. CountInv'
  <2>. SUFFICES ASSUME NEW p \in Pools
       PROVE  /\ usedCount'[p] = Cardinality(LiveFrom(p)') + Cardinality(UsedBy(p)')
              /\ reservedCount'[p] = Len(list'[p]) + Cardinality(PoppedFrom(p)')
                                     - Cardinality(PushedTo(p)')
    BY DEF CountInv
  <2>0. PICK d \in {0, 1} : d = IF p = r THEN 1 ELSE 0
    OBVIOUS
  <2>1. LiveFrom(p)' = LiveFrom(p)
    BY <1>8 DEF LiveFrom
  <2>2. /\ Cardinality(UsedBy(p)') = Cardinality(UsedBy(p))
        /\ Cardinality(PoppedFrom(p)') = Cardinality(PoppedFrom(p))
        /\ Cardinality(PushedTo(p)') = Cardinality(PushedTo(p)) + d
        /\ Cardinality(PoppedFrom(p)) \in Nat /\ Cardinality(PushedTo(p)) \in Nat
    <3>1. /\ \A u \in Threads : u # t => pc'[u] = pc[u] /\ pool'[u] = pool[u]
          /\ pc[t] = "push" /\ pc'[t] = "push_used" /\ pool[t] = r /\ pool'[t] = r
      BY <1>4, <1>8
    <3>2. (pc'[t] \in {"push_used", "push_reserved"} /\ pool'[t] = p) <=> p = r
      BY <3>1
    <3>4. /\ Cardinality(UsedBy(p)') = Cardinality(UsedBy(p)) + d - d
          /\ Cardinality(PoppedFrom(p)') = Cardinality(PoppedFrom(p)) + 0 - 0
          /\ Cardinality(PushedTo(p)') = Cardinality(PushedTo(p))
                + (IF pc'[t] \in {"push_used", "push_reserved"} /\ pool'[t] = p THEN 1 ELSE 0) - 0
      BY <2>0, <3>1, ThreadCounts, ZenonT(60)
    <3>5. /\ Cardinality(UsedBy(p)) \in Nat
          /\ Cardinality(PoppedFrom(p)) \in Nat /\ Cardinality(PushedTo(p)) \in Nat
      BY <3>1, ThreadCounts
    <3>. QED
      BY <2>0, <3>2, <3>4, <3>5
  <2>3. Len(list'[p]) = Len(list[p]) + d /\ Len(list[p]) \in Nat
    <3>1. Len(list[p]) \in Nat
      BY DEF Shape, TypeOK
    <3>2. CASE p = r
      BY <1>2, <1>6, <1>8, <2>0, <3>1, <3>2
    <3>3. CASE p # r
      BY <1>8, <2>0, <3>1, <3>3
    <3>. QED
      BY <3>2, <3>3
  <2>4. UNCHANGED <<usedCount, reservedCount>>
    BY <1>8
  <2>5. reservedCount[p] = Len(list[p]) + Cardinality(PoppedFrom(p)) - Cardinality(PushedTo(p))
        /\ usedCount[p] = Cardinality(LiveFrom(p)) + Cardinality(UsedBy(p))
    BY DEF CountInv
  <2>. QED
    BY <2>1, <2>2, <2>3, <2>4, <2>5
<1>. QED
  BY <1>7, <1>9, <1>10, <1>11, <1>12, <1>13, <1>14, <1>15 DEF Shape, HeadersConsistent

LEMMA PushUsedPreserves ==
  ASSUME IInv, NEW t \in Threads, PushUsed(t)
  PROVE  IInv'
<1>. USE DEF IInv
<1>1. PICK r \in Pools : r = pool[t]
  BY DEF PushUsed, Shape, InHand
<1>2. /\ UNCHANGED <<list, reservedCount, allocSize, origin, made, live, block, pool, size, crashed>>
      /\ usedCount' = [usedCount EXCEPT ![r] = @ - 1]
      /\ pc[t] = "push_used" /\ pc'[t] = "push_reserved" /\ Goto(t, "push_reserved")
      /\ \A u \in Threads : u # t => pc'[u] = pc[u]
  BY <1>1 DEF PushUsed, Goto, Shape, TypeOK, heap, locals
<1>3. TypeOK'
  BY <1>2 DEF Goto, Shape, TypeOK, PCs
<1>4. InHand'
  BY <1>2 DEF Shape, InHand
<1>5. CountInv'
  <2>. SUFFICES ASSUME NEW p \in Pools
       PROVE  /\ usedCount'[p] = Cardinality(LiveFrom(p)') + Cardinality(UsedBy(p)')
              /\ reservedCount'[p] = Len(list'[p]) + Cardinality(PoppedFrom(p)')
                                     - Cardinality(PushedTo(p)')
    BY DEF CountInv
  <2>0. PICK d \in {0, 1} : d = IF p = r THEN 1 ELSE 0
    OBVIOUS
  <2>1. LiveFrom(p)' = LiveFrom(p)
    BY <1>2 DEF LiveFrom
  <2>2. /\ Cardinality(UsedBy(p)') = Cardinality(UsedBy(p)) - d
        /\ Cardinality(PoppedFrom(p)') = Cardinality(PoppedFrom(p))
        /\ Cardinality(PushedTo(p)') = Cardinality(PushedTo(p))
        /\ Cardinality(UsedBy(p)) \in Nat /\ Cardinality(LiveFrom(p)) \in Nat
    BY <1>1, <1>2, <2>0, ThreadCounts
  <2>3. usedCount'[p] = usedCount[p] - d
    BY <1>2, <2>0 DEF Shape, TypeOK
  <2>. QED
    BY <1>2, <2>1, <2>2, <2>3 DEF CountInv
<1>6. HeldRight' /\ ListsRight' /\ ThreadsApart' /\ NoneLost'
  BY <1>2, FrameHomes
<1>. QED
  BY <1>2, <1>3, <1>4, <1>5, <1>6 DEF Shape, HeadersConsistent

LEMMA PushReservedPreserves ==
  ASSUME IInv, NEW t \in Threads, PushReserved(t)
  PROVE  IInv'
<1>. USE DEF IInv
<1>1. PICK r \in Pools : r = pool[t]
  BY DEF PushReserved, Shape, InHand
<1>2. /\ UNCHANGED <<list, usedCount, allocSize, origin, made, live, block, size, crashed>>
      /\ reservedCount' = [reservedCount EXCEPT ![r] = @ + 1]
      /\ pool' = [pool EXCEPT ![t] = None] /\ pool'[t] = None
      /\ pc[t] = "push_reserved" /\ pc'[t] = "idle" /\ Goto(t, "idle")
      /\ \A u \in Threads : u # t => pc'[u] = pc[u] /\ pool'[u] = pool[u]
  BY <1>1 DEF PushReserved, Goto, Shape, TypeOK, heap
<1>3. TypeOK'
  BY <1>2 DEF Goto, Shape, TypeOK, PCs
<1>4. InHand'
  BY <1>2 DEF Shape, InHand
<1>5. CountInv'
  <2>. SUFFICES ASSUME NEW p \in Pools
       PROVE  /\ usedCount'[p] = Cardinality(LiveFrom(p)') + Cardinality(UsedBy(p)')
              /\ reservedCount'[p] = Len(list'[p]) + Cardinality(PoppedFrom(p)')
                                     - Cardinality(PushedTo(p)')
    BY DEF CountInv
  <2>0. PICK d \in {0, 1} : d = IF p = r THEN 1 ELSE 0
    OBVIOUS
  <2>1. LiveFrom(p)' = LiveFrom(p)
    BY <1>2 DEF LiveFrom
  <2>2. /\ Cardinality(UsedBy(p)') = Cardinality(UsedBy(p))
        /\ Cardinality(PoppedFrom(p)') = Cardinality(PoppedFrom(p))
        /\ Cardinality(PushedTo(p)') = Cardinality(PushedTo(p)) - d
        /\ Cardinality(PoppedFrom(p)) \in Nat /\ Cardinality(PushedTo(p)) \in Nat
    BY <1>1, <1>2, <2>0, ThreadCounts
  <2>3. reservedCount'[p] = reservedCount[p] + d /\ Len(list[p]) \in Nat
    BY <1>2, <2>0 DEF Shape, TypeOK
  <2>. QED
    BY <1>2, <2>1, <2>2, <2>3 DEF CountInv
<1>6. HeldRight' /\ ListsRight' /\ ThreadsApart' /\ NoneLost'
  BY <1>2, FrameHomes
<1>. QED
  BY <1>2, <1>3, <1>4, <1>5, <1>6 DEF Shape, HeadersConsistent

-----------------------------------------------------------------------------
(* What malloc was asked for.                                               *)

\* A step that obtains no block and frees none.  A thread that attaches a header
\* went on with a block it had, or has one of a pool.
LEMMA ObtainedFrame ==
  ASSUME IInv, Obtained, UNCHANGED heap,
         \A x \in DOMAIN live' : x \in DOMAIN live /\ live'[x] = live[x],
         \A u \in Threads : pc'[u] = "attach" /\ pool'[u] = None =>
             pc[u] = "attach" /\ pool[u] = None /\ size'[u] = size[u] /\ block'[u] = block[u]
  PROVE  Obtained'
  BY DEF Obtained, heap

LEMMA MallocObtained ==
  ASSUME IInv, Obtained, NEW t \in Threads, NEW p, NEW n \in Nat, Malloc(t, p, n),
         p # None => n = PoolAllocSize,
         pc'[t] = "attach" => n = Bytes(size'[t]) + HeaderSize,
         \A u \in Threads : u # t => pc'[u] = pc[u] /\ pool'[u] = pool[u] /\ size'[u] = size[u],
         live' = live
  PROVE  Obtained'
<1>1. PICK x \in Blocks \ made : /\ made' = made \cup {x}
                                /\ origin' = [origin EXCEPT ![x] = p]
                                /\ bytes' = [bytes EXCEPT ![x] = n]
                                /\ block' = [block EXCEPT ![t] = x]
  BY DEF Malloc
<1>2. /\ bytes' \in [Blocks -> Nat] /\ bytes'[x] = n /\ origin'[x] = p /\ block'[t] = x
      /\ \A y \in made : y # x /\ bytes'[y] = bytes[y] /\ origin'[y] = origin[y]
      /\ \A u \in Threads : u # t => block'[u] = block[u]
      /\ DOMAIN live \subseteq made
  BY <1>1 DEF Obtained, IInv, Shape, TypeOK
<1>3. \A y \in made' : origin'[y] # None => bytes'[y] = PoolAllocSize
  BY <1>1, <1>2 DEF Obtained
<1>4. \A y \in DOMAIN live' : origin'[y] = None => bytes'[y] = Bytes(live'[y]) + HeaderSize
  BY <1>2 DEF Obtained
<1>5. ASSUME NEW u \in Threads, pc'[u] = "attach", pool'[u] = None
      PROVE  bytes'[block'[u]] = Bytes(size'[u]) + HeaderSize
  <2>1. CASE u = t
    BY <1>2, <1>5, <2>1
  <2>2. CASE u # t
    <3>1. block[u] \in made
      BY <1>5, <2>2 DEF IInv, Shape, InHand
    <3>. QED
      BY <1>2, <1>5, <2>2, <3>1 DEF Obtained
  <2>. QED
    BY <2>1, <2>2
<1>. QED
  BY <1>2, <1>3, <1>4, <1>5 DEF Obtained

LEMMA AllocateObtained ==
  ASSUME IInv, Obtained, NEW t \in Threads, NEW n \in Requests, Allocate(t, n)
  PROVE  Obtained'
<1>1. n \in Nat \ {0} /\ n \notin Types /\ HeaderSize \in Nat /\ MAX_ALLOC_SIZE \in Nat
  BY MemoryConstants
<1>2. CASE Crash("uninitialized poolTable entry")
  BY <1>2, ObtainedFrame DEF Crash, locals
<1>3. CASE pool' = [pool EXCEPT ![t] = PoolTable(n + HeaderSize)] /\ Goto(t, "pop")
           /\ size' = [size EXCEPT ![t] = n] /\ UNCHANGED <<heap, block, live>>
  BY <1>3, ObtainedFrame DEF Goto, IInv, Shape, TypeOK
<1>4. CASE Malloc(t, None, n + HeaderSize) /\ Goto(t, "attach") /\ UNCHANGED <<pool, live>>
           /\ size' = [size EXCEPT ![t] = n]
  <2>1. n + HeaderSize \in Nat /\ Bytes(n) = n
    BY <1>1 DEF Bytes
  <2>2. size'[t] = n /\ \A u \in Threads : u # t =>
           pc'[u] = pc[u] /\ pool'[u] = pool[u] /\ size'[u] = size[u]
    BY <1>4 DEF Goto, IInv, Shape, TypeOK
  <2>. QED
    BY <1>4, <2>1, <2>2, MallocObtained
<1>. QED
  BY <1>1, <1>2, <1>3, <1>4 DEF Allocate

LEMMA PopMallocObtained ==
  ASSUME IInv, Obtained, NEW t \in Threads, PopMalloc(t)
  PROVE  Obtained'
<1>1. Malloc(t, pool[t], PoolAllocSize) /\ Goto(t, "pop_used") /\ UNCHANGED <<live, pool, size>>
  BY DEF PopMalloc
<1>2. PoolAllocSize \in Nat
  BY DEF PoolAllocSize
<1>3. pc'[t] # "attach" /\ \A u \in Threads : u # t => pc'[u] = pc[u]
  BY <1>1 DEF Goto, IInv, Shape, TypeOK
<1>. QED
  BY <1>1, <1>2, <1>3, MallocObtained

\* The header of a block from malloc is given the bytes it was obtained with.
LEMMA AttachObtained ==
  ASSUME IInv, Obtained, NEW t \in Threads, AttachHeader(t)
  PROVE  Obtained'
<1>1. /\ live' = [x \in DOMAIN live \cup {block[t]} |-> IF x = block[t] THEN size[t] ELSE live[x]]
      /\ UNCHANGED <<origin, bytes, made>> /\ size' = size
      /\ pc[t] = "attach" /\ origin[block[t]] = pool[t]
      /\ pc'[t] = "idle"
      /\ \A u \in Threads : u # t => pc'[u] = pc[u] /\ pool'[u] = pool[u] /\ block'[u] = block[u]
  BY DEF AttachHeader, heap, Goto, IInv, Shape, TypeOK, InHand
<1>2. ASSUME NEW x \in DOMAIN live', origin[x] = None
      PROVE  bytes[x] = Bytes(live'[x]) + HeaderSize
  <2>1. CASE x = block[t]
    BY <1>1, <1>2, <2>1 DEF Obtained
  <2>2. CASE x # block[t]
    BY <1>1, <1>2, <2>2 DEF Obtained
  <2>. QED
    BY <2>1, <2>2
<1>. QED
  BY <1>1, <1>2 DEF Obtained

LEMMA ReleaseObtained ==
  ASSUME IInv, Obtained, NEW t \in Threads, NEW x \in DOMAIN live, Release(t, x)
  PROVE  Obtained'
<1>1. CASE Crash("Unknown error - allocSize is zero")
  BY <1>1, ObtainedFrame DEF Crash, locals
<1>2. CASE /\ live' = [y \in DOMAIN live \ {x} |-> live[y]] /\ made' = made \ {x}
           /\ bytes' = [bytes EXCEPT ![x] = 0] /\ UNCHANGED <<origin, block, pool, pc, size>>
  <2>1. x \in Blocks /\ DOMAIN live \subseteq Blocks /\ made \subseteq Blocks
    BY DEF IInv, Shape, TypeOK
  <2>2. /\ bytes' \in [Blocks -> Nat]
        /\ \A y \in Blocks : y # x => bytes'[y] = bytes[y]
    BY <1>2, <2>1 DEF Obtained
  <2>3. \A y \in made' : origin'[y] # None => bytes'[y] = PoolAllocSize
    BY <1>2, <2>1, <2>2 DEF Obtained
  <2>4. \A y \in DOMAIN live' : origin'[y] = None => bytes'[y] = Bytes(live'[y]) + HeaderSize
    BY <1>2, <2>1, <2>2 DEF Obtained
  <2>5. ASSUME NEW u \in Threads, pc'[u] = "attach", pool'[u] = None
        PROVE  bytes'[block'[u]] = Bytes(size'[u]) + HeaderSize
    <3>1. block[u] # x
      BY HeldFacts
    <3>2. block[u] \in made
      BY <1>2, <2>5 DEF IInv, Shape, InHand
    <3>. QED
      BY <1>2, <2>1, <2>2, <2>5, <3>1, <3>2 DEF Obtained
  <2>. QED
    BY <2>2, <2>3, <2>4, <2>5 DEF Obtained
<1>3. CASE /\ live' = [y \in DOMAIN live \ {x} |-> live[y]]
           /\ block' = [block EXCEPT ![t] = x]
           /\ pool' = [pool EXCEPT ![t] = PoolTable(allocSize[x])]
           /\ Goto(t, "push") /\ UNCHANGED <<heap, size>>
  BY <1>3, ObtainedFrame DEF Goto, IInv, Shape, TypeOK
<1>. QED
  BY <1>1, <1>2, <1>3 DEF Release

LEMMA ObtainedNext == IInv /\ Obtained /\ [Next]_vars => Obtained'
<1>. SUFFICES ASSUME IInv, Obtained, [Next]_vars PROVE Obtained'
  OBVIOUS
<1>1. CASE UNCHANGED vars
  BY <1>1, ObtainedFrame DEF vars, locals
<1>2. ASSUME NEW t \in Threads, NEW T \in Types, ObjectPop(t, T) PROVE Obtained'
  BY <1>2, ObtainedFrame DEF ObjectPop, Goto, IInv, Shape, TypeOK
<1>3. ASSUME NEW t \in Threads, PopEntry(t) PROVE Obtained'
  <2>1. CASE Crash("allocSize is not 0")
    BY <2>1, ObtainedFrame DEF Crash, locals
  <2>2. CASE block' = [block EXCEPT ![t] = Head(list[pool[t]])] /\ Goto(t, "pop_reserved")
             /\ UNCHANGED <<heap, live, pool, size>>
    BY <2>2, ObtainedFrame DEF Goto, IInv, Shape, TypeOK
  <2>. QED
    BY <1>3, <2>1, <2>2 DEF PopEntry
<1>4. ASSUME NEW t \in Threads, PopReserved(t) \/ PopUsed(t) PROVE Obtained'
  <2>1. /\ UNCHANGED heap /\ live' = live /\ block' = block /\ pool' = pool /\ size' = size
        /\ pool[t] \in Pools /\ (Goto(t, "pop_used") \/ Goto(t, "attach"))
    BY <1>4 DEF PopReserved, PopUsed, locals, IInv, Shape, InHand
  <2>2. pool[t] # None
    BY <2>1, MemoryConstants DEF Pools
  <2>3. \A u \in Threads : u # t => pc'[u] = pc[u]
    BY <2>1 DEF Goto, IInv, Shape, TypeOK
  <2>. QED
    BY <2>1, <2>2, <2>3, ObtainedFrame
<1>5. ASSUME NEW t \in Threads, NEW x \in DOMAIN live, ObjectPush(t, x) PROVE Obtained'
  BY <1>5, ObtainedFrame DEF ObjectPush, Goto, IInv, Shape, TypeOK
<1>6. ASSUME NEW t \in Threads, PushEntry(t) \/ PushUsed(t) \/ PushReserved(t) PROVE Obtained'
  <2>1. /\ UNCHANGED heap /\ live' = live /\ size' = size
        /\ \A u \in Threads : u # t => pc'[u] = pc[u] /\ pool'[u] = pool[u] /\ block'[u] = block[u]
        /\ pc'[t] # "attach"
    BY <1>6 DEF PushEntry, PushUsed, PushReserved, Goto, locals, IInv, Shape, TypeOK
  <2>. QED
    BY <2>1, ObtainedFrame
<1>. QED
  BY <1>1, <1>2, <1>3, <1>4, <1>5, <1>6, AllocateObtained, PopMallocObtained, AttachObtained,
     ReleaseObtained
  DEF Next

-----------------------------------------------------------------------------
(* The theorems.                                                            *)

LEMMA NextPreserves == IInv /\ [Next]_vars => IInv'
<1>. SUFFICES ASSUME IInv, [Next]_vars PROVE IInv'
  OBVIOUS
<1>1. CASE UNCHANGED vars
  <2>1. UNCHANGED <<list, usedCount, reservedCount, allocSize, origin, made, live, pc, block,
                    pool, size, crashed>>
    BY <1>1 DEF vars, counts, heap, locals
  <2>2. Shape'
    BY <2>1 DEF IInv, Shape, TypeOK, InHand
  <2>3. CountInv'
    BY <2>1 DEF IInv, CountInv, LiveFrom, UsedBy, PoppedFrom, PushedTo
  <2>. QED
    BY <2>1, <2>2, <2>3, FrameHomes DEF IInv, HeadersConsistent
<1>2. CASE Next
  BY <1>2, AllocatePreserves, ObjectPopPreserves, PopEntryPreserves, PopMallocPreserves,
     PopReservedPreserves, PopUsedPreserves, AttachHeaderPreserves, ReleasePreserves,
     ObjectPushPreserves, PushEntryPreserves, PushUsedPreserves, PushReservedPreserves
  DEF Next
<1>. QED
  BY <1>1, <1>2

LEMMA InvariantHolds == Spec => []IInv
BY InitIInv, NextPreserves, PTL DEF Spec

LEMMA ObtainedHolds == Spec => []Obtained
<1>1. Init => Obtained
  BY DEF Init, Obtained
<1>. QED
  BY <1>1, ObtainedNext, InvariantHolds, PTL DEF Spec

\* MemoryPool.cpp:36 and MemoryManager.cpp:85: the assertions on the size in the
\* header hold for a caller that releases what it was given, once.
THEOREM HeadersTheorem == Spec => []HeadersConsistent
<1>1. IInv => HeadersConsistent
  BY DEF IInv
<1>. QED
  BY <1>1, InvariantHolds, PTL

\* Release takes a block back the way Allocate gave it, whatever table the loops
\* build and whatever is asked for: to the pool it came from, through an entry of
\* the table that was written, among blocks obtained with the same bytes; or to
\* free, if it was obtained for that request with the bytes its header says.
THEOREM OriginTheorem == Spec => []ReturnsToOrigin
<1>1. ASSUME IInv, Obtained, NEW t \in Threads, pc[t] = "push"
      PROVE  pool[t] \in Pools /\ pool[t] = origin[block[t]]
  BY <1>1 DEF IInv, Shape, InHand
<1>2. ASSUME IInv, Obtained, NEW p \in Pools, NEW i \in DOMAIN list[p]
      PROVE  origin[list[p][i]] = p /\ bytes[list[p][i]] = PoolAllocSize
  <2>1. i \in 1 .. Len(list[p])
    BY <1>2 DEF IInv, Shape, TypeOK
  <2>2. origin[list[p][i]] = p /\ list[p][i] \in made
    BY <1>2, <2>1 DEF IInv, ListsRight
  <2>3. p # None
    BY MemoryConstants DEF Pools
  <2>. QED
    BY <1>2, <2>2, <2>3 DEF Obtained
<1>3. ASSUME IInv, Obtained, NEW x \in DOMAIN live, live[x] \notin Types,
             allocSize[x] > MAX_ALLOC_SIZE
      PROVE  origin[x] = None /\ bytes[x] = allocSize[x]
  <2>1. allocSize[x] = Bytes(live[x]) + HeaderSize /\ origin[x] = HomePool(live[x])
    BY <1>3, HeldFacts
  <2>2. origin[x] = None
    BY <1>3, <2>1 DEF HomePool, Bytes
  <2>. QED
    BY <1>3, <2>1, <2>2 DEF Obtained
<1>4. IInv /\ Obtained => ReturnsToOrigin
  BY <1>1, <1>2, <1>3 DEF ReturnsToOrigin
<1>. QED
  BY <1>4, InvariantHolds, ObtainedHolds, PTL

\* The counters are right whenever no thread is inside the pools.
THEOREM CountersTheorem == Spec => []CountersSettle
<1>1. ASSUME IInv PROVE CountersSettle
  <2>. SUFFICES ASSUME \A t \in Threads : pc[t] = "idle", NEW p \in Pools
       PROVE  /\ usedCount[p] = Cardinality(LiveFrom(p))
              /\ reservedCount[p] = Len(list[p])
    BY DEF CountersSettle, LiveFrom
  <2>1. UsedBy(p) = {} /\ PoppedFrom(p) = {} /\ PushedTo(p) = {}
    BY DEF UsedBy, PoppedFrom, PushedTo
  <2>2. Cardinality({}) = 0
    BY FS_EmptySet
  <2>3. Cardinality(LiveFrom(p)) \in Nat /\ Len(list[p]) \in Nat
    BY <1>1, CountedFinite, FS_CardinalityType DEF IInv, Shape, TypeOK
  <2>4. /\ usedCount[p] = Cardinality(LiveFrom(p)) + Cardinality(UsedBy(p))
        /\ reservedCount[p] =
              Len(list[p]) + Cardinality(PoppedFrom(p)) - Cardinality(PushedTo(p))
    BY <1>1 DEF IInv, CountInv
  <2>. QED
    BY <2>1, <2>2, <2>3, <2>4
<1>. QED
  BY <1>1, InvariantHolds, PTL

\* A sequence without repetitions is no longer than the set its elements are from.
LEMMA DistinctFit ==
  ASSUME NEW S, IsFiniteSet(S), NEW s \in Seq(S),
         \A i, k \in 1 .. Len(s) : s[i] = s[k] => i = k
  PROVE  Len(s) <= Cardinality(S)
<1>1. Len(s) \in Nat /\ s \in [1 .. Len(s) -> S]
  OBVIOUS
<1>2. s \in Injection(1 .. Len(s), S)
  BY <1>1 DEF Injection, IsInjective
<1>3. Cardinality(1 .. Len(s)) <= Cardinality(S)
  BY <1>2, FS_Injection
<1>4. Cardinality(1 .. Len(s)) = Len(s)
  <2>1. 1 \in Int /\ Len(s) \in Int
    BY <1>1
  <2>2. Cardinality(1 .. Len(s)) = IF 1 > Len(s) THEN 0 ELSE Len(s) - 1 + 1
    BY <2>1, FS_Interval
  <2>. QED
    BY <1>1, <2>2
<1>. QED
  BY <1>3, <1>4

\* What the homes of a block are.
LEMMA HomesMember ==
  ASSUME NEW x, NEW h
  PROVE  h \in Homes(x) <=>
            \/ x \in DOMAIN live /\ h = <<"live", x>>
            \/ \E t \in Threads : block[t] = x /\ h = <<"thread", t>>
            \/ \E p \in Pools : \E i \in 1 .. Cardinality(Blocks) :
                  /\ i \in DOMAIN list[p] /\ list[p][i] = x
                  /\ h = <<"list", <<p, i>>>>
BY DEF Homes

\* A block is in exactly one place: two callers never get the same memory, and
\* none is lost, however Pop and Push interleave.
THEOREM OneHomeTheorem == Spec => []BlockHasOneHome
<1>1. ASSUME IInv, NEW x \in made PROVE \E h : Homes(x) = {h}
  <2>. USE <1>1 DEF IInv
  <2>1. x \in Blocks /\ x # None
    BY MemoryConstants DEF Shape, TypeOK
  <2>2. \A p \in Pools : DOMAIN list[p] = 1 .. Len(list[p]) /\ Len(list[p]) \in Nat
    BY DEF Shape, TypeOK
  <2>3. CASE x \in DOMAIN live
    <3>1. /\ \A t \in Threads : block[t] # x
          /\ \A p \in Pools : \A i \in 1 .. Len(list[p]) : list[p][i] # x
      BY <2>3, HeldFacts
    <3>2. ASSUME NEW h PROVE h \in Homes(x) <=> h = <<"live", x>>
      <4>1. h \in Homes(x) <=>
                  \/ x \in DOMAIN live /\ h = <<"live", x>>
                  \/ \E u \in Threads : block[u] = x /\ h = <<"thread", u>>
                  \/ \E q \in Pools : \E k \in 1 .. Cardinality(Blocks) :
                        /\ k \in DOMAIN list[q] /\ list[q][k] = x
                        /\ h = <<"list", <<q, k>>>>
        BY HomesMember
      <4>. QED
        BY <2>2, <2>3, <3>1, <4>1, Zenon
    <3>. DEFINE c == <<"live", x>>
    <3>3. \A h : h \in Homes(x) <=> h = c
      BY <3>2
    <3>. HIDE DEF c
    <3>4. Homes(x) = {c}
      BY <3>3
    <3>. QED
      BY <3>4
  <2>4. ASSUME NEW t \in Threads, block[t] = x PROVE \E h : Homes(x) = {h}
    <3>1. /\ x \notin DOMAIN live /\ \A u \in Threads : block[u] = x => u = t
          /\ \A p \in Pools : \A i \in 1 .. Len(list[p]) : list[p][i] # x
      BY <2>1, <2>4 DEF ThreadsApart, ListsRight
    <3>2. ASSUME NEW h PROVE h \in Homes(x) <=> h = <<"thread", t>>
      <4>1. h \in Homes(x) <=>
                  \/ x \in DOMAIN live /\ h = <<"live", x>>
                  \/ \E u \in Threads : block[u] = x /\ h = <<"thread", u>>
                  \/ \E q \in Pools : \E k \in 1 .. Cardinality(Blocks) :
                        /\ k \in DOMAIN list[q] /\ list[q][k] = x
                        /\ h = <<"list", <<q, k>>>>
        BY HomesMember
      <4>. QED
        BY <2>2, <2>4, <3>1, <4>1, Zenon
    <3>. DEFINE c == <<"thread", t>>
    <3>3. \A h : h \in Homes(x) <=> h = c
      BY <3>2
    <3>. HIDE DEF c
    <3>4. Homes(x) = {c}
      BY <3>3
    <3>. QED
      BY <3>4
  <2>5. ASSUME NEW p \in Pools, NEW i \in 1 .. Len(list[p]), list[p][i] = x
        PROVE  \E h : Homes(x) = {h}
    <3>1. /\ x \notin DOMAIN live /\ \A u \in Threads : block[u] # x
          /\ \A k \in 1 .. Len(list[p]) : list[p][k] = x => k = i
      BY <2>5 DEF ListsRight
    <3>2. \A q \in Pools : \A k \in 1 .. Len(list[q]) : list[q][k] = x => q = p
      BY <2>5 DEF ListsRight
    <3>3. i \in 1 .. Cardinality(Blocks)
      <4>1. list[p] \in Seq(Blocks)
            /\ \A j, k \in 1 .. Len(list[p]) : list[p][j] = list[p][k] => j = k
        BY DEF Shape, TypeOK, ListsRight
      <4>2. Len(list[p]) <= Cardinality(Blocks) /\ Cardinality(Blocks) \in Nat
        BY <4>1, DistinctFit, MemoryConstants, FS_CardinalityType
      <4>. QED
        BY <2>2, <4>2
    <3>4. ASSUME NEW h PROVE h \in Homes(x) <=> h = <<"list", <<p, i>>>>
      <4>1. h \in Homes(x) <=>
                  \/ x \in DOMAIN live /\ h = <<"live", x>>
                  \/ \E u \in Threads : block[u] = x /\ h = <<"thread", u>>
                  \/ \E q \in Pools : \E k \in 1 .. Cardinality(Blocks) :
                        /\ k \in DOMAIN list[q] /\ list[q][k] = x
                        /\ h = <<"list", <<q, k>>>>
        BY HomesMember
      <4>. QED
        BY <2>2, <2>5, <3>1, <3>2, <3>3, <4>1, Zenon
    <3>. DEFINE c == <<"list", <<p, i>>>>
    <3>5. \A h : h \in Homes(x) <=> h = c
      BY <3>4
    <3>. HIDE DEF c
    <3>6. Homes(x) = {c}
      BY <3>5
    <3>. QED
      BY <3>6
  <2>. QED
    BY <2>3, <2>4, <2>5 DEF NoneLost, Somewhere
<1>2. ASSUME IInv PROVE BlockHasOneHome
  BY <1>1, <1>2, FS_Singleton DEF BlockHasOneHome
<1>. QED
  BY <1>2, InvariantHolds, PTL

=============================================================================
