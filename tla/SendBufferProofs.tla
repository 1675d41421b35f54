-------------------------- MODULE SendBufferProofs --------------------------
(***************************************************************************)
(* Proofs about SendBuffer, for any number of threads and chunks, any      *)
(* sizes and either guard: a chunk has one home in every build, and in a   *)
(* Debug build, where ASSERT_CRASH is checked, the buffers cut from a      *)
(* chunk are disjoint.                                                     *)
(***************************************************************************)
EXTENDS SendBuffer, FiniteSetTheorems, SequenceTheorems, TLAPS

-----------------------------------------------------------------------------
(* The inductive invariant.                                                 *)

PCs == {"idle", "pop", "pop_more", "check", "open", "recycle", "drop_recycle"}

Buffers == [id : Nat, chunk : Chunks, off : Nat, len : Nat, open : BOOLEAN, by : Threads]

\* The types, without the bound on usedSize, which a Release build can exceed.
Shape ==
    /\ pool \in Seq(Chunks) /\ made \subseteq Chunks
    /\ isOpened \in [Chunks -> BOOLEAN]
    /\ usedSize \in [Chunks -> Nat]
    /\ tls \in [Threads -> Chunks \cup {None}]
    /\ live \subseteq Buffers
    /\ pc \in [Threads -> PCs]
    /\ size \in [Threads -> Nat]
    /\ dying \in [Threads -> Chunks \cup {None}]
    /\ inScope \in [Threads -> BOOLEAN]
    /\ opens \in Nat

\* A thread that is to look at its chunk has one; a deleter runs exactly while
\* there is a chunk to give back.
InHand ==
    \A t \in Threads :
      /\ pc[t] = "pop" => tls[t] = None
      /\ pc[t] \in {"pop_more", "check", "open", "recycle"} => tls[t] # None
      /\ dying[t] # None <=> pc[t] \in {"recycle", "drop_recycle"}

\* Some buffer cut from c is alive.
HasBuffer(c) == \E x \in live : x.chunk = c

\* What is kept somewhere was made, and what was made is kept somewhere.
Kept(c) ==
    \/ \E i \in 1 .. Len(pool) : pool[i] = c
    \/ \E t \in Threads : tls[t] = c \/ dying[t] = c
    \/ HasBuffer(c)

NoneLost == \A c \in Chunks : c \in made <=> Kept(c)

\* A chunk of the pool is there once, and nobody else has it.
PoolRight ==
    \A i \in 1 .. Len(pool) :
      /\ \A k \in 1 .. Len(pool) : pool[i] = pool[k] => i = k
      /\ \A t \in Threads : tls[t] # pool[i] /\ dying[t] # pool[i]
      /\ ~HasBuffer(pool[i])

\* Threads cut from chunks of their own; a chunk that is given back has neither
\* a thread nor a buffer.
Apart ==
    /\ \A t, u \in Threads : tls[t] # None /\ tls[t] = tls[u] => t = u
    /\ \A t, u \in Threads : dying[t] # None /\ dying[t] = dying[u] => t = u
    /\ \A t, u \in Threads : dying[t] # None => tls[u] # dying[t]
    /\ \A t \in Threads : dying[t] # None => ~HasBuffer(dying[t])

\* What is used of a chunk lies below usedSize; the one buffer that is open
\* begins there.
Cut ==
    /\ \A c \in Chunks : usedSize[c] <= ChunkSize
    /\ \A x \in live : ~x.open => x.off + x.len <= usedSize[x.chunk]
    /\ \A x \in live : x.open => /\ isOpened[x.chunk] /\ x.off = usedSize[x.chunk]
                                 /\ x.off + x.len <= ChunkSize
    /\ \A x, y \in live : x.open /\ y.open /\ x.chunk = y.chunk => x = y
    /\ DisjointRegions

Homed == NoneLost /\ PoolRight /\ Apart

IInv == Shape /\ InHand /\ Homed /\ (Debug => Cut)

-----------------------------------------------------------------------------
(* The shape of the state.                                                  *)

\* No chunk is None.
LEMMA NoneFacts == \A c \in Chunks : c # None
  BY SendBufferConstants

LEMMA ConstFacts == ChunkSize \in Nat /\ Sizes \subseteq Nat
  BY SendBufferConstants

\* Where control goes.
LEMMA GotoLands ==
  ASSUME Shape, NEW t \in Threads, NEW l \in PCs, Goto(t, l)
  PROVE  /\ pc' \in [Threads -> PCs] /\ pc'[t] = l
         /\ \A u \in Threads \ {t} : pc'[u] = pc[u]
  BY DEF Shape, Goto

\* Entering and leaving a scope.
LEMMA ScopeTyped ==
  ASSUME Shape, NEW t \in Threads,
         LeaveScope(t) \/ inScope' = [inScope EXCEPT ![t] = TRUE]
  PROVE  inScope' \in [Threads -> BOOLEAN]
  BY DEF Shape, LeaveScope

LEMMA CrashFrame ==
  ASSUME NEW why, Crash(why)
  PROVE  UNCHANGED <<pool, made, isOpened, usedSize, live, tls, pc, size, dying, inScope, opens>>
  BY DEF Crash, chunkVars

\* What Pop does to the pool: its last chunk is taken, or it is left alone and a
\* new chunk is made.
LEMMA PopEffect ==
  ASSUME Shape, InHand, NEW t \in Threads, Pop(t)
  PROVE  \E c \in Chunks :
           /\ \/ /\ Len(pool) \in Nat \ {0} /\ c = pool[Len(pool)] /\ made' = made
                 /\ pool' \in Seq(Chunks) /\ Len(pool') = Len(pool) - 1
                 /\ \A i \in 1 .. Len(pool) - 1 : pool'[i] = pool[i]
              \/ Len(pool) = 0 /\ c \notin made /\ made' = made \cup {c} /\ pool' = pool
           /\ tls' = [tls EXCEPT ![t] = c]
           /\ isOpened' = [isOpened EXCEPT ![c] = FALSE]
           /\ usedSize' = [usedSize EXCEPT ![c] = 0]
<1>1. PICK c \in Chunks :
         /\ IF pool # << >>
            THEN c = pool[Len(pool)] /\ pool' = SubSeq(pool, 1, Len(pool) - 1) /\ made' = made
            ELSE c \notin made /\ made' = made \cup {c} /\ pool' = pool
         /\ tls' = [tls EXCEPT ![t] = c]
         /\ isOpened' = [isOpened EXCEPT ![c] = FALSE]
         /\ usedSize' = [usedSize EXCEPT ![c] = 0]
  BY DEF Pop
<1>2. pool \in Seq(Chunks) /\ Len(pool) \in Nat
  BY DEF Shape
<1>3. CASE pool # << >>
  <2>1. Len(pool) > 0
    BY <1>2, <1>3, EmptySeq
  <2>2. PICK p, n : p = pool /\ n = Len(pool) - 1
    OBVIOUS
  <2>3. p \in Seq(Chunks) /\ n \in Nat /\ n <= Len(p)
    BY <1>2, <2>1, <2>2
  <2>4. /\ SubSeq(p, 1, n) \in Seq(Chunks) /\ Len(SubSeq(p, 1, n)) = n
        /\ \A i \in 1 .. n : SubSeq(p, 1, n)[i] = p[i]
    BY <2>3
  <2>5. pool' = SubSeq(p, 1, n) /\ c = pool[Len(pool)] /\ made' = made
    BY <1>1, <1>3, <2>2
  <2>6. /\ pool' \in Seq(Chunks) /\ Len(pool') = Len(pool) - 1
        /\ \A i \in 1 .. Len(pool) - 1 : pool'[i] = pool[i]
    BY <2>2, <2>4, <2>5
  <2>7. Len(pool) \in Nat \ {0}
    BY <1>2, <2>1
  <2>. QED
    BY <1>1, <2>5, <2>6, <2>7, Zenon
<1>4. CASE pool = << >>
  <2>1. Len(pool) = 0
    BY <1>2, <1>4, EmptySeq
  <2>. QED
    BY <1>1, <1>4, <2>1
<1>. QED
  BY <1>3, <1>4

\* What Pop does with the chunk the thread had: the buffers keep it, or it is to
\* be given back.
LEMMA PopOld ==
  ASSUME Shape, InHand, NEW t \in Threads, Pop(t)
  PROVE  /\ pc[t] \in {"pop", "pop_more"} /\ dying[t] = None
         /\ \/ /\ tls[t] # None /\ Unreferenced(tls[t], live, tls')
               /\ dying' = [dying EXCEPT ![t] = tls[t]] /\ Goto(t, "recycle")
            \/ /\ ~(tls[t] # None /\ Unreferenced(tls[t], live, tls'))
               /\ dying' = dying
               /\ Goto(t, "check") \/ Goto(t, "open")
         /\ UNCHANGED <<live, size, opens>>
  BY DEF Pop, InHand

LEMMA PopShape ==
  ASSUME Shape, InHand, NEW t \in Threads, Pop(t)
  PROVE  Shape' /\ InHand'
<1>1. PICK c \in Chunks :
           /\ \/ /\ Len(pool) \in Nat \ {0} /\ c = pool[Len(pool)] /\ made' = made
                 /\ pool' \in Seq(Chunks) /\ Len(pool') = Len(pool) - 1
                 /\ \A i \in 1 .. Len(pool) - 1 : pool'[i] = pool[i]
              \/ Len(pool) = 0 /\ c \notin made /\ made' = made \cup {c} /\ pool' = pool
           /\ tls' = [tls EXCEPT ![t] = c]
           /\ isOpened' = [isOpened EXCEPT ![c] = FALSE]
           /\ usedSize' = [usedSize EXCEPT ![c] = 0]
  BY PopEffect
<1>2. PICK l \in {"recycle", "check", "open"} :
          /\ Goto(t, l) /\ dying' \in [Threads -> Chunks \cup {None}]
          /\ l = "recycle" <=> dying'[t] # None
          /\ \A u \in Threads \ {t} : dying'[u] = dying[u]
  BY PopOld DEF Shape
<1>3. /\ pc' \in [Threads -> PCs] /\ pc'[t] = l
      /\ \A u \in Threads \ {t} : pc'[u] = pc[u]
  BY <1>2, GotoLands DEF PCs
<1>4. /\ tls' \in [Threads -> Chunks \cup {None}] /\ tls'[t] = c
      /\ \A u \in Threads \ {t} : tls'[u] = tls[u]
  BY <1>1 DEF Shape
<1>5. inScope' \in [Threads -> BOOLEAN]
  BY ScopeTyped DEF Pop
<1>6. Shape'
  <2>1. pool' \in Seq(Chunks) /\ made' \subseteq Chunks
    BY <1>1 DEF Shape
  <2>2. isOpened' \in [Chunks -> BOOLEAN] /\ usedSize' \in [Chunks -> Nat]
    BY <1>1 DEF Shape
  <2>. QED
    BY <1>2, <1>3, <1>4, <1>5, <2>1, <2>2, PopOld DEF Shape
<1>7. InHand'
  BY <1>2, <1>3, <1>4, NoneFacts DEF InHand
<1>. QED
  BY <1>6, <1>7

\* The other actions.
LEMMA EnterScopeShape ==
  ASSUME Shape, InHand, NEW t \in Threads, EnterScope(t)
  PROVE  Shape' /\ InHand'
<1>1. /\ inScope' \in [Threads -> BOOLEAN]
      /\ UNCHANGED <<pool, made, isOpened, usedSize, live, tls, pc, size, dying, opens>>
  BY ScopeTyped DEF EnterScope, chunkVars
<1>. QED
  BY <1>1 DEF Shape, InHand

LEMMA CrashShape ==
  ASSUME Shape, InHand, NEW why, Crash(why)
  PROVE  Shape' /\ InHand'
  BY CrashFrame DEF Shape, InHand

LEMMA CheckShape ==
  ASSUME Shape, InHand, NEW t \in Threads, Check(t)
  PROVE  Shape' /\ InHand'
<1>1. CASE \E why : Crash(why)
  BY <1>1, CrashShape
<1>2. CASE ~\E why : Crash(why)
  <2>1. /\ pc[t] = "check" /\ \E l \in {"pop_more", "open"} : Goto(t, l)
        /\ UNCHANGED <<pool, made, isOpened, usedSize, live, tls, size, dying, inScope, opens>>
    BY <1>2 DEF Check, chunkVars
  <2>2. PICK l \in {"pop_more", "open"} :
          /\ pc' \in [Threads -> PCs] /\ pc'[t] = l
          /\ \A u \in Threads \ {t} : pc'[u] = pc[u]
    BY <2>1, GotoLands DEF PCs
  <2>. QED
    BY <2>1, <2>2 DEF Shape, InHand
<1>. QED
  BY <1>1, <1>2

LEMMA OpenCallShape ==
  ASSUME Shape, InHand, NEW t \in Threads, NEW n \in Sizes, OpenCall(t, n)
  PROVE  Shape' /\ InHand'
<1>1. /\ pc[t] = "idle" /\ opens' = opens + 1 /\ size' = [size EXCEPT ![t] = n]
      /\ Goto(t, IF tls[t] = None THEN "pop" ELSE "check")
      /\ UNCHANGED <<pool, made, isOpened, usedSize, live, tls, dying, inScope>>
  BY DEF OpenCall, chunkVars
<1>2. /\ pc' \in [Threads -> PCs]
      /\ pc'[t] = IF tls[t] = None THEN "pop" ELSE "check"
      /\ \A u \in Threads \ {t} : pc'[u] = pc[u]
  BY <1>1, GotoLands DEF PCs
<1>3. size' \in [Threads -> Nat] /\ opens' \in Nat
  BY <1>1, ConstFacts DEF Shape
<1>. QED
  BY <1>1, <1>2, <1>3 DEF Shape, InHand

\* A buffer is cut from the chunk, or the request is refused.
LEMMA ChunkOpenEffect ==
  ASSUME Shape, InHand, NEW t \in Threads, ChunkOpen(t)
  PROVE  \/ \E why : Crash(why)
         \/ /\ pc[t] = "open" /\ tls[t] \in Chunks /\ Goto(t, "idle")
            /\ UNCHANGED <<pool, made, usedSize, tls, size, dying, inScope, opens>>
            /\ \/ UNCHANGED <<isOpened, live>>
               \/ /\ size[t] <= FreeSize(tls[t]) /\ (Debug => ~isOpened[tls[t]])
                  /\ isOpened' = [isOpened EXCEPT ![tls[t]] = TRUE]
                  /\ live' = live \cup {[id |-> opens, chunk |-> tls[t],
                         off |-> usedSize[tls[t]], len |-> size[t], open |-> TRUE, by |-> t]}
<1>1. pc[t] = "open" /\ tls[t] \in Chunks
  BY DEF ChunkOpen, InHand, Shape
<1>2. size[t] \in Nat /\ FreeSize(tls[t]) \in Int
  BY <1>1, ConstFacts DEF Shape, FreeSize
<1>3. CASE \E why : Crash(why)
  BY <1>3
<1>4. CASE ~\E why : Crash(why)
  <2>1. /\ ~(Debug /\ isOpened[tls[t]]) /\ Goto(t, "idle")
        /\ UNCHANGED <<pool, made, usedSize, tls, size, dying, inScope, opens>>
        /\ IF size[t] > FreeSize(tls[t])
           THEN UNCHANGED <<isOpened, live>>
           ELSE /\ isOpened' = [isOpened EXCEPT ![tls[t]] = TRUE]
                /\ live' = live \cup {[id |-> opens, chunk |-> tls[t],
                       off |-> usedSize[tls[t]], len |-> size[t], open |-> TRUE, by |-> t]}
    BY <1>4 DEF ChunkOpen
  <2>. QED
    BY <1>1, <1>2, <2>1
<1>. QED
  BY <1>3, <1>4

LEMMA ChunkOpenShape ==
  ASSUME Shape, InHand, NEW t \in Threads, ChunkOpen(t)
  PROVE  Shape' /\ InHand'
<1>1. CASE \E why : Crash(why)
  BY <1>1, CrashShape
<1>2. CASE ~\E why : Crash(why)
  <2>1. /\ pc[t] = "open" /\ tls[t] \in Chunks /\ Goto(t, "idle")
        /\ UNCHANGED <<pool, made, usedSize, tls, size, dying, inScope, opens>>
    BY <1>2, ChunkOpenEffect
  <2>2. /\ pc' \in [Threads -> PCs] /\ pc'[t] = "idle"
        /\ \A u \in Threads \ {t} : pc'[u] = pc[u]
    BY <2>1, GotoLands DEF PCs
  <2>3. [id |-> opens, chunk |-> tls[t], off |-> usedSize[tls[t]], len |-> size[t],
         open |-> TRUE, by |-> t] \in Buffers
    BY <2>1 DEF Shape, Buffers
  <2>4. \/ UNCHANGED <<isOpened, live>>
        \/ /\ isOpened' = [isOpened EXCEPT ![tls[t]] = TRUE]
           /\ live' = live \cup {[id |-> opens, chunk |-> tls[t],
                  off |-> usedSize[tls[t]], len |-> size[t], open |-> TRUE, by |-> t]}
    BY <1>2, ChunkOpenEffect, Zenon
  <2>5. live' \subseteq Buffers
    <3>1. PICK y : y = [id |-> opens, chunk |-> tls[t], off |-> usedSize[tls[t]],
                        len |-> size[t], open |-> TRUE, by |-> t]
      OBVIOUS
    <3>2. y \in Buffers
      BY <2>3, <3>1, Zenon
    <3>3. live' = live \/ live' = live \cup {y}
      BY <2>4, <3>1, Zenon
    <3>. QED
      BY <3>2, <3>3 DEF Shape
  <2>6. isOpened' \in [Chunks -> BOOLEAN]
    BY <2>1, <2>4 DEF Shape
  <2>7. Shape'
    BY <2>1, <2>2, <2>5, <2>6 DEF Shape
  <2>. QED
    BY <2>1, <2>2, <2>7 DEF InHand
<1>. QED
  BY <1>1, <1>2

\* The buffer that is closed keeps its place.
LEMMA CloseEffect ==
  ASSUME Shape, NEW t \in Threads, NEW x \in live, NEW w \in Sizes \cup {0}, Close(t, x, w)
  PROVE  \/ \E why : Crash(why)
         \/ /\ x.open /\ (Debug => w <= x.len) /\ w \in Nat /\ x \in Buffers
            /\ UNCHANGED <<pool, made, tls, pc, size, dying, inScope, opens>>
            /\ isOpened' = [isOpened EXCEPT ![x.chunk] = FALSE]
            /\ usedSize' = [usedSize EXCEPT ![x.chunk] = @ + w]
            /\ \E y \in Buffers :
                 /\ y.chunk = x.chunk /\ y.off = x.off /\ y.len = w /\ ~y.open
                 /\ live' = (live \ {x}) \cup {y}
<1>1. x \in Buffers /\ w \in Nat
  BY ConstFacts DEF Shape
<1>2. CASE \E why : Crash(why)
  BY <1>2
<1>3. CASE ~\E why : Crash(why)
  <2>. DEFINE y == [x EXCEPT !.len = w, !.open = FALSE]
  <2>1. /\ x.open /\ ~(Debug /\ w > x.len)
        /\ UNCHANGED <<pool, made, tls, pc, size, dying, inScope, opens>>
        /\ isOpened' = [isOpened EXCEPT ![x.chunk] = FALSE]
        /\ usedSize' = [usedSize EXCEPT ![x.chunk] = @ + w]
        /\ live' = (live \ {x}) \cup {y}
    BY <1>3 DEF Close
  <2>2. y \in Buffers /\ y.chunk = x.chunk /\ y.off = x.off /\ y.len = w /\ ~y.open
    BY <1>1 DEF Buffers
  <2>3. x.len \in Nat
    BY <1>1 DEF Buffers
  <2>. HIDE DEF y
  <2>4. Debug => w <= x.len
    BY <1>1, <2>1, <2>3
  <2>. QED
    BY <1>1, <2>1, <2>2, <2>4
<1>. QED
  BY <1>2, <1>3

LEMMA CloseShape ==
  ASSUME Shape, InHand, NEW t \in Threads, NEW x \in live, NEW w \in Sizes \cup {0},
         Close(t, x, w)
  PROVE  Shape' /\ InHand'
<1>1. CASE \E why : Crash(why)
  BY <1>1, CrashShape
<1>2. CASE ~\E why : Crash(why)
  <2>1. /\ w \in Nat /\ x.chunk \in Chunks
        /\ UNCHANGED <<pool, made, tls, pc, size, dying, inScope, opens>>
        /\ isOpened' = [isOpened EXCEPT ![x.chunk] = FALSE]
        /\ usedSize' = [usedSize EXCEPT ![x.chunk] = @ + w]
    BY <1>2, CloseEffect DEF Buffers
  <2>2. live' \subseteq Buffers
    BY <1>2, CloseEffect DEF Shape
  <2>3. isOpened' \in [Chunks -> BOOLEAN] /\ usedSize' \in [Chunks -> Nat]
    BY <2>1 DEF Shape
  <2>. QED
    BY <2>1, <2>2, <2>3 DEF Shape, InHand
<1>. QED
  BY <1>1, <1>2

LEMMA DropShape ==
  ASSUME Shape, InHand, NEW t \in Threads, NEW x \in live, Drop(t, x)
  PROVE  Shape' /\ InHand'
<1>1. /\ pc[t] = "idle" /\ live' = live \ {x} /\ x.chunk \in Chunks
      /\ UNCHANGED <<pool, made, isOpened, usedSize, tls, size, inScope, opens>>
      /\ \/ dying' = [dying EXCEPT ![t] = x.chunk] /\ Goto(t, "drop_recycle")
         \/ UNCHANGED <<dying, pc>>
  BY DEF Drop, Shape, Buffers
<1>2. CASE dying' = [dying EXCEPT ![t] = x.chunk] /\ Goto(t, "drop_recycle")
  <2>1. /\ pc' \in [Threads -> PCs] /\ pc'[t] = "drop_recycle"
        /\ \A u \in Threads \ {t} : pc'[u] = pc[u]
    BY <1>2, GotoLands DEF PCs
  <2>2. /\ dying' \in [Threads -> Chunks \cup {None}] /\ dying'[t] # None
        /\ \A u \in Threads \ {t} : dying'[u] = dying[u]
    BY <1>1, <1>2, NoneFacts DEF Shape
  <2>3. Shape'
    BY <1>1, <2>1, <2>2 DEF Shape
  <2>. QED
    BY <1>1, <2>1, <2>2, <2>3 DEF InHand
<1>3. CASE UNCHANGED <<dying, pc>>
  BY <1>1, <1>3 DEF Shape, InHand
<1>. QED
  BY <1>1, <1>2, <1>3

\* The chunk goes to the end of the pool.
LEMMA PushGlobalEffect ==
  ASSUME Shape, InHand, NEW t \in Threads, PushGlobal(t)
  PROVE  /\ pc[t] \in {"recycle", "drop_recycle"} /\ dying[t] \in Chunks
         /\ pool' \in Seq(Chunks) /\ Len(pool') = Len(pool) + 1 /\ Len(pool) \in Nat
         /\ \A i \in 1 .. Len(pool) : pool'[i] = pool[i]
         /\ pool'[Len(pool) + 1] = dying[t]
         /\ dying' \in [Threads -> Chunks \cup {None}] /\ dying'[t] = None
         /\ \A u \in Threads \ {t} : dying'[u] = dying[u]
         /\ Goto(t, IF pc[t] = "recycle" THEN "open" ELSE "idle")
         /\ UNCHANGED <<made, isOpened, usedSize, live, tls, size, opens>>
<1>1. /\ pc[t] \in {"recycle", "drop_recycle"} /\ dying[t] \in Chunks
      /\ pool' = Append(pool, dying[t]) /\ dying' = [dying EXCEPT ![t] = None]
      /\ Goto(t, IF pc[t] = "recycle" THEN "open" ELSE "idle")
      /\ UNCHANGED <<made, isOpened, usedSize, live, tls, size, opens>>
  BY DEF PushGlobal, Shape, InHand, chunkVars
<1>2. PICK p, d : p = pool /\ d = dying[t]
  OBVIOUS
<1>3. p \in Seq(Chunks) /\ d \in Chunks
  BY <1>1, <1>2 DEF Shape
<1>4. /\ Append(p, d) \in Seq(Chunks) /\ Len(Append(p, d)) = Len(p) + 1 /\ Len(p) \in Nat
      /\ \A i \in 1 .. Len(p) : Append(p, d)[i] = p[i]
      /\ Append(p, d)[Len(p) + 1] = d
  BY <1>3, AppendProperties
<1>5. /\ dying' \in [Threads -> Chunks \cup {None}] /\ dying'[t] = None
      /\ \A u \in Threads \ {t} : dying'[u] = dying[u]
  BY <1>1 DEF Shape
<1>. QED
  BY <1>1, <1>2, <1>4, <1>5

LEMMA PushGlobalShape ==
  ASSUME Shape, InHand, NEW t \in Threads, PushGlobal(t)
  PROVE  Shape' /\ InHand'
<1>1. PICK l \in {"open", "idle"} : Goto(t, l) /\ (l = "open" => pc[t] = "recycle")
  BY PushGlobalEffect
<1>2. /\ pc' \in [Threads -> PCs] /\ pc'[t] = l
      /\ \A u \in Threads \ {t} : pc'[u] = pc[u]
  BY <1>1, GotoLands DEF PCs
<1>3. inScope' \in [Threads -> BOOLEAN]
  BY ScopeTyped DEF PushGlobal
<1>4. Shape'
  BY <1>2, <1>3, PushGlobalEffect DEF Shape
<1>. QED
  BY <1>1, <1>2, <1>4, PushGlobalEffect DEF InHand

\* Every step.
LEMMA ShapeNext ==
  ASSUME Shape, InHand, Next
  PROVE  Shape' /\ InHand'
  BY EnterScopeShape, PopShape, CheckShape, ChunkOpenShape, PushGlobalShape, OpenCallShape,
     DropShape, CloseShape DEF Next

-----------------------------------------------------------------------------
(* One home.                                                                *)

\* Steps that move no chunk.
LEMMA HomedFrame ==
  ASSUME Homed, UNCHANGED <<pool, made, tls, dying>>,
         \A c : (\E x \in live' : x.chunk = c) <=> (\E x \in live : x.chunk = c)
  PROVE  Homed'
<1>1. NoneLost'
  BY DEF Homed, NoneLost, Kept, HasBuffer
<1>2. PoolRight'
  BY DEF Homed, PoolRight, HasBuffer
<1>3. Apart'
  BY DEF Homed, Apart, HasBuffer
<1>. QED
  BY <1>1, <1>2, <1>3 DEF Homed

LEMMA CrashHomed ==
  ASSUME Homed, NEW why, Crash(why)
  PROVE  Homed'
  BY CrashFrame, HomedFrame

\* A buffer is cut from the thread's own chunk.
LEMMA ChunkOpenHomed ==
  ASSUME Shape, InHand, Homed, NEW t \in Threads, ChunkOpen(t)
  PROVE  Homed'
<1>1. CASE \E why : Crash(why)
  BY <1>1, CrashHomed
<1>2. CASE ~\E why : Crash(why)
  <2>1. /\ tls[t] \in Chunks /\ UNCHANGED <<pool, made, tls, dying>>
        /\ \/ live' = live
           \/ \E y : y.chunk = tls[t] /\ live' = live \cup {y}
    BY <1>2, ChunkOpenEffect
  <2>2. CASE live' = live
    BY <2>1, <2>2, HomedFrame
  <2>3. CASE \E y : y.chunk = tls[t] /\ live' = live \cup {y}
    <3>1. \A c : HasBuffer(c)' <=> HasBuffer(c) \/ c = tls[t]
      BY <2>3 DEF HasBuffer
    <3>2. NoneLost'
      <4>1. \A c : Kept(c)' <=> Kept(c)
        BY <2>1, <3>1 DEF Kept
      <4>. QED
        BY <2>1, <4>1 DEF Homed, NoneLost
    <3>3. PoolRight'
      <4>1. \A i \in 1 .. Len(pool) : \A c : c = pool[i] => ~HasBuffer(c)'
        BY <2>1, <3>1 DEF Homed, PoolRight
      <4>2. \A i \in 1 .. Len(pool') : ~HasBuffer(pool[i])'
        BY <2>1, <4>1 DEF HasBuffer
      <4>. QED
        BY <2>1, <4>2 DEF Homed, PoolRight
    <3>4. Apart'
      <4>1. \A u \in Threads : \A c : dying[u] # None /\ c = dying[u] => ~HasBuffer(c)'
        BY <2>1, <3>1 DEF Homed, Apart
      <4>2. \A u \in Threads : dying'[u] # None => ~HasBuffer(dying[u])'
        BY <2>1, <4>1 DEF HasBuffer
      <4>. QED
        BY <2>1, <4>2 DEF Homed, Apart
    <3>. QED
      BY <3>2, <3>3, <3>4 DEF Homed
  <2>. QED
    BY <2>1, <2>2, <2>3
<1>. QED
  BY <1>1, <1>2

LEMMA CloseHomed ==
  ASSUME Shape, Homed, NEW t \in Threads, NEW x \in live, NEW w \in Sizes \cup {0}, Close(t, x, w)
  PROVE  Homed'
<1>1. CASE \E why : Crash(why)
  BY <1>1, CrashHomed
<1>2. CASE ~\E why : Crash(why)
  <2>1. /\ UNCHANGED <<pool, made, tls, dying>>
        /\ \E y : y.chunk = x.chunk /\ live' = (live \ {x}) \cup {y}
    BY <1>2, CloseEffect
  <2>2. \A c : (\E z \in live' : z.chunk = c) <=> (\E z \in live : z.chunk = c)
    BY <2>1
  <2>. QED
    BY <2>1, <2>2, HomedFrame
<1>. QED
  BY <1>1, <1>2

\* The chunk of the last buffer that goes, with no thread cutting from it, is
\* with the deleter.
LEMMA DropHomed ==
  ASSUME Shape, InHand, Homed, NEW t \in Threads, NEW x \in live, Drop(t, x)
  PROVE  Homed'
<1>1. /\ dying[t] = None /\ live' = live \ {x} /\ x.chunk \in Chunks /\ x.chunk # None
      /\ UNCHANGED <<pool, made, tls>> /\ HasBuffer(x.chunk)
  BY NoneFacts DEF Drop, Shape, Buffers, InHand, HasBuffer
<1>2. PICK c : c = x.chunk
  OBVIOUS
<1>3. \A d : d # c => (HasBuffer(d)' <=> HasBuffer(d))
  BY <1>1, <1>2 DEF HasBuffer
<1>4. /\ \A i \in 1 .. Len(pool) : pool[i] # c
      /\ \A u \in Threads : dying[u] # c
  BY <1>1, <1>2 DEF Homed, PoolRight, Apart
<1>5. CASE Unreferenced(x.chunk, live', tls)
  <2>1. dying' = [dying EXCEPT ![t] = c]
    BY <1>2, <1>5 DEF Drop
  <2>2. dying'[t] = c /\ \A u \in Threads \ {t} : dying'[u] = dying[u]
    BY <2>1 DEF Shape
  <2>3. ~HasBuffer(c)' /\ \A u \in Threads : tls[u] # c
    BY <1>2, <1>5 DEF Unreferenced, HasBuffer
  <2>4. NoneLost'
    <3>1. ASSUME NEW d \in Chunks, d # c PROVE Kept(d)' <=> Kept(d)
      BY <1>1, <1>3, <2>2, <3>1, NoneFacts DEF Kept
    <3>2. Kept(c)' /\ Kept(c)
      BY <1>1, <1>2, <2>2 DEF Kept
    <3>. QED
      BY <1>1, <3>1, <3>2 DEF Homed, NoneLost
  <2>5. PoolRight'
    <3>1. \A i \in 1 .. Len(pool) : \A d : d = pool[i] => ~HasBuffer(d)'
      BY <1>3, <1>4 DEF Homed, PoolRight
    <3>2. \A i \in 1 .. Len(pool') : ~HasBuffer(pool[i])'
      BY <1>1, <3>1 DEF HasBuffer
    <3>3. \A i \in 1 .. Len(pool), u \in Threads : dying'[u] # pool[i]
      BY <1>4, <2>2 DEF Homed, PoolRight
    <3>. QED
      BY <1>1, <3>2, <3>3 DEF Homed, PoolRight
  <2>6. Apart'
    <3>1. \A u \in Threads : \A d : dying'[u] # None /\ d = dying'[u] => ~HasBuffer(d)'
      BY <1>3, <1>4, <2>2, <2>3 DEF Homed, Apart
    <3>2. \A u \in Threads : dying'[u] # None => ~HasBuffer(dying[u])'
      BY <3>1 DEF HasBuffer
    <3>3. \A u, v \in Threads : dying'[u] # None /\ dying'[u] = dying'[v] => u = v
      BY <1>4, <2>2 DEF Homed, Apart
    <3>4. \A u, v \in Threads : dying'[u] # None => tls[v] # dying'[u]
      BY <2>2, <2>3 DEF Homed, Apart
    <3>. QED
      BY <1>1, <3>2, <3>3, <3>4 DEF Homed, Apart
  <2>. QED
    BY <2>4, <2>5, <2>6 DEF Homed
<1>6. CASE ~Unreferenced(x.chunk, live', tls)
  <2>1. dying' = dying
    BY <1>6 DEF Drop
  <2>2. HasBuffer(c)' \/ \E u \in Threads : tls[u] = c
    BY <1>2, <1>6 DEF Unreferenced, HasBuffer
  <2>3. NoneLost'
    <3>1. ASSUME NEW d \in Chunks, d # c PROVE Kept(d)' <=> Kept(d)
      BY <1>1, <1>3, <2>1, <3>1 DEF Kept
    <3>2. Kept(c)' /\ Kept(c)
      BY <1>1, <1>2, <2>2 DEF Kept
    <3>. QED
      BY <1>1, <3>1, <3>2 DEF Homed, NoneLost
  <2>4. \A d : HasBuffer(d)' => HasBuffer(d)
    BY <1>1 DEF HasBuffer
  <2>5. PoolRight'
    <3>1. \A i \in 1 .. Len(pool) : \A d : d = pool[i] => ~HasBuffer(d)'
      BY <2>4 DEF Homed, PoolRight
    <3>2. \A i \in 1 .. Len(pool') : ~HasBuffer(pool[i])'
      BY <1>1, <3>1 DEF HasBuffer
    <3>. QED
      BY <1>1, <2>1, <3>2 DEF Homed, PoolRight
  <2>6. Apart'
    <3>1. \A u \in Threads : \A d : dying'[u] # None /\ d = dying'[u] => ~HasBuffer(d)'
      BY <2>1, <2>4 DEF Homed, Apart
    <3>2. \A u \in Threads : dying'[u] # None => ~HasBuffer(dying[u])'
      BY <3>1 DEF HasBuffer
    <3>. QED
      BY <1>1, <2>1, <3>2 DEF Homed, Apart
  <2>. QED
    BY <2>3, <2>5, <2>6 DEF Homed
<1>. QED
  BY <1>5, <1>6

\* The deleter's chunk becomes the last of the pool.
LEMMA PushGlobalHomed ==
  ASSUME Shape, InHand, Homed, NEW t \in Threads, PushGlobal(t)
  PROVE  Homed'
<1>1. PICK c, n : c = dying[t] /\ n = Len(pool)
  OBVIOUS
<1>2. /\ c \in Chunks /\ c # None /\ n \in Nat
      /\ Len(pool') = n + 1 /\ pool'[n + 1] = c
      /\ \A i \in 1 .. n : pool'[i] = pool[i]
      /\ dying'[t] = None
      /\ \A u \in Threads \ {t} : dying'[u] = dying[u]
      /\ UNCHANGED <<made, live, tls>>
  BY <1>1, PushGlobalEffect, NoneFacts
<1>3. \A d : HasBuffer(d)' <=> HasBuffer(d)
  BY <1>2 DEF HasBuffer
<1>4. /\ ~HasBuffer(c)
      /\ \A u \in Threads : tls[u] # c
      /\ \A u \in Threads : dying[u] = c => u = t
      /\ \A i \in 1 .. n : pool[i] # c
  BY <1>1, <1>2 DEF Homed, Apart, PoolRight
<1>5. \A i \in 1 .. n + 1 : i \in 1 .. n \/ i = n + 1
  BY <1>2
<1>6. NoneLost'
  <2>1. ASSUME NEW d \in Chunks, d # c PROVE Kept(d)' <=> Kept(d)
    <3>1. (\E i \in 1 .. Len(pool') : pool'[i] = d) <=> (\E i \in 1 .. Len(pool) : pool[i] = d)
      BY <1>1, <1>2, <1>5, <2>1
    <3>2. (\E u \in Threads : tls'[u] = d \/ dying'[u] = d)
            <=> (\E u \in Threads : tls[u] = d \/ dying[u] = d)
      BY <1>1, <1>2, <2>1, NoneFacts
    <3>. QED
      BY <1>3, <3>1, <3>2 DEF Kept
  <2>2. Kept(c)
    BY <1>1 DEF Kept
  <2>3. n + 1 \in 1 .. Len(pool')
    BY <1>2
  <2>4. Kept(c)'
    BY <1>2, <2>3 DEF Kept
  <2>. QED
    BY <1>2, <2>1, <2>2, <2>4 DEF Homed, NoneLost
<1>7. PoolRight'
  <2>1. \A i \in 1 .. n + 1 : \A d : d = pool'[i] => ~HasBuffer(d)'
    BY <1>1, <1>2, <1>3, <1>4, <1>5 DEF Homed, PoolRight
  <2>2. \A i \in 1 .. Len(pool') : ~HasBuffer(pool[i])'
    BY <1>2, <2>1 DEF HasBuffer
  <2>3. \A i, k \in 1 .. n + 1 : pool'[i] = pool'[k] => i = k
    BY <1>1, <1>2, <1>4, <1>5 DEF Homed, PoolRight
  <2>4. ASSUME NEW i \in 1 .. n + 1, NEW u \in Threads
        PROVE  tls'[u] # pool'[i] /\ dying'[u] # pool'[i]
    <3>1. pool'[i] # None
      BY <1>2, PushGlobalEffect, NoneFacts
    <3>2. CASE i \in 1 .. n
      BY <1>1, <1>2, <3>1, <3>2 DEF Homed, PoolRight
    <3>3. CASE i = n + 1
      BY <1>2, <1>4, <3>1, <3>3
    <3>. QED
      BY <1>5, <3>2, <3>3
  <2>. QED
    BY <1>2, <2>2, <2>3, <2>4 DEF PoolRight
<1>8. Apart'
  <2>1. \A u \in Threads : \A d : dying'[u] # None /\ d = dying'[u] => ~HasBuffer(d)'
    BY <1>2, <1>3 DEF Homed, Apart
  <2>2. \A u \in Threads : dying'[u] # None => ~HasBuffer(dying[u])'
    BY <2>1 DEF HasBuffer
  <2>. QED
    BY <1>2, <2>2 DEF Homed, Apart
<1>. QED
  BY <1>6, <1>7, <1>8 DEF Homed

\* The thread gets a chunk nobody has; the one it had stays with its buffers or
\* is with the deleter.
LEMMA PopHomed ==
  ASSUME Shape, InHand, Homed, NEW t \in Threads, Pop(t)
  PROVE  Homed'
<1>1. PICK c \in Chunks :
           /\ \/ /\ Len(pool) \in Nat \ {0} /\ c = pool[Len(pool)] /\ made' = made
                 /\ pool' \in Seq(Chunks) /\ Len(pool') = Len(pool) - 1
                 /\ \A i \in 1 .. Len(pool) - 1 : pool'[i] = pool[i]
              \/ Len(pool) = 0 /\ c \notin made /\ made' = made \cup {c} /\ pool' = pool
           /\ tls' = [tls EXCEPT ![t] = c]
           /\ isOpened' = [isOpened EXCEPT ![c] = FALSE]
           /\ usedSize' = [usedSize EXCEPT ![c] = 0]
  BY PopEffect
<1>2. PICK old : old = tls[t]
  OBVIOUS
<1>3. /\ c # None /\ old \in Chunks \cup {None}
      /\ tls'[t] = c /\ \A u \in Threads \ {t} : tls'[u] = tls[u]
      /\ live' = live /\ dying[t] = None
  BY <1>1, <1>2, NoneFacts, PopOld DEF Shape
<1>4. \A d : HasBuffer(d)' <=> HasBuffer(d)
  BY <1>3 DEF HasBuffer
\* nobody had c, and the pool has lost it
<1>5. /\ ~HasBuffer(c)
      /\ \A u \in Threads : tls[u] # c /\ dying[u] # c
      /\ \A i \in 1 .. Len(pool') : i \in 1 .. Len(pool) /\ pool'[i] = pool[i] /\ pool[i] # c
  <2>1. CASE /\ Len(pool) \in Nat \ {0} /\ c = pool[Len(pool)]
             /\ Len(pool') = Len(pool) - 1
             /\ \A i \in 1 .. Len(pool) - 1 : pool'[i] = pool[i]
    <3>1. Len(pool) \in 1 .. Len(pool)
      BY <2>1
    <3>2. \A i \in 1 .. Len(pool') : i \in 1 .. Len(pool) - 1 /\ i \in 1 .. Len(pool) /\ i # Len(pool)
      BY <2>1
    <3>. QED
      BY <2>1, <3>1, <3>2 DEF Homed, PoolRight
  <2>2. CASE Len(pool) = 0 /\ c \notin made /\ pool' = pool
    <3>1. ~Kept(c)
      BY <2>2 DEF Homed, NoneLost
    <3>. QED
      BY <2>2, <3>1 DEF Kept
  <2>. QED
    BY <1>1, <2>1, <2>2
\* what the pool had but c it keeps
<1>6. \A d : d # c => ((\E i \in 1 .. Len(pool') : pool'[i] = d)
                         <=> (\E i \in 1 .. Len(pool) : pool[i] = d))
  <2>1. ASSUME NEW d, d # c, NEW i \in 1 .. Len(pool), pool[i] = d
        PROVE  \E k \in 1 .. Len(pool') : pool'[k] = d
    <3>1. i \in 1 .. Len(pool') /\ pool'[i] = pool[i]
      BY <1>1, <2>1
    <3>. QED
      BY <2>1, <3>1
  <2>. QED
    BY <1>5, <2>1
<1>7. made' = made \cup {c}
  <2>1. CASE Len(pool) \in Nat \ {0} /\ c = pool[Len(pool)] /\ made' = made
    <3>1. Len(pool) \in 1 .. Len(pool)
      BY <2>1
    <3>2. Kept(c)
      BY <2>1, <3>1 DEF Kept
    <3>. QED
      BY <2>1, <3>2 DEF Homed, NoneLost
  <2>. QED
    BY <1>1, <2>1
<1>8. Kept(c)'
  BY <1>3 DEF Kept
\* who is old's, if there is one
<1>9. old # None => /\ \A u \in Threads : (tls[u] = old => u = t) /\ dying[u] # old
                    /\ \A i \in 1 .. Len(pool) : pool[i] # old
  BY <1>2 DEF Homed, PoolRight, Apart
<1>10. CASE tls[t] # None /\ Unreferenced(tls[t], live, tls')
  <2>1. dying' = [dying EXCEPT ![t] = old]
    BY <1>2, <1>10, PopOld
  <2>2. dying'[t] = old /\ \A u \in Threads \ {t} : dying'[u] = dying[u]
    BY <2>1 DEF Shape
  <2>3. old # None /\ old # c /\ ~HasBuffer(old) /\ \A u \in Threads : tls'[u] # old
    BY <1>2, <1>3, <1>10 DEF Unreferenced, HasBuffer
  <2>4. NoneLost'
    <3>1. ASSUME NEW d \in Chunks, d # c PROVE Kept(d)' <=> Kept(d)
      <4>1. (\E u \in Threads : tls'[u] = d \/ dying'[u] = d)
              <=> (\E u \in Threads : tls[u] = d \/ dying[u] = d)
        <5>1. CASE d = old
          BY <1>2, <2>2, <5>1
        <5>2. CASE d # old
          BY <1>2, <1>3, <2>2, <3>1, <5>2, NoneFacts
        <5>. QED
          BY <5>1, <5>2
      <4>. QED
        BY <1>4, <1>6, <3>1, <4>1 DEF Kept
    <3>. QED
      BY <1>7, <1>8, <3>1 DEF Homed, NoneLost
  <2>5. PoolRight'
    <3>1. \A i \in 1 .. Len(pool') : \A d : d = pool'[i] => ~HasBuffer(d)'
      BY <1>4, <1>5 DEF Homed, PoolRight
    <3>2. \A i \in 1 .. Len(pool') : ~HasBuffer(pool[i])'
      BY <3>1 DEF HasBuffer
    <3>3. \A i, k \in 1 .. Len(pool') : pool'[i] = pool'[k] => i = k
      BY <1>5 DEF Homed, PoolRight
    <3>4. \A i \in 1 .. Len(pool'), u \in Threads : tls'[u] # pool'[i] /\ dying'[u] # pool'[i]
      BY <1>3, <1>5, <1>9, <2>2, <2>3 DEF Homed, PoolRight
    <3>. QED
      BY <3>2, <3>3, <3>4 DEF PoolRight
  <2>6. Apart'
    <3>1. \A u \in Threads : \A d : dying'[u] # None /\ d = dying'[u] => ~HasBuffer(d)'
      BY <1>4, <2>2, <2>3 DEF Homed, Apart
    <3>2. \A u \in Threads : dying'[u] # None => ~HasBuffer(dying[u])'
      BY <3>1 DEF HasBuffer
    <3>3. \A u, v \in Threads : dying'[u] # None /\ dying'[u] = dying'[v] => u = v
      BY <1>9, <2>2, <2>3 DEF Homed, Apart
    <3>4. \A u, v \in Threads : dying'[u] # None => tls'[v] # dying'[u]
      BY <1>3, <1>5, <2>2, <2>3 DEF Homed, Apart
    <3>5. \A u, v \in Threads : tls'[u] # None /\ tls'[u] = tls'[v] => u = v
      BY <1>3, <1>5 DEF Homed, Apart
    <3>. QED
      BY <3>2, <3>3, <3>4, <3>5 DEF Apart
  <2>. QED
    BY <2>4, <2>5, <2>6 DEF Homed
<1>11. CASE ~(tls[t] # None /\ Unreferenced(tls[t], live, tls'))
  <2>1. dying' = dying
    BY <1>11, PopOld
  <2>2. old # None => HasBuffer(old)
    BY <1>2, <1>3, <1>5, <1>9, <1>11 DEF Unreferenced, HasBuffer
  <2>3. NoneLost'
    <3>1. ASSUME NEW d \in Chunks, d # c PROVE Kept(d)' <=> Kept(d)
      <4>1. CASE d = old
        <5>1. HasBuffer(d)
          BY <2>2, <4>1, NoneFacts
        <5>. QED
          BY <1>4, <5>1 DEF Kept
      <4>2. CASE d # old
        <5>1. (\E u \in Threads : tls'[u] = d \/ dying'[u] = d)
                <=> (\E u \in Threads : tls[u] = d \/ dying[u] = d)
          BY <1>2, <1>3, <2>1, <3>1, <4>2
        <5>. QED
          BY <1>4, <1>6, <3>1, <5>1 DEF Kept
      <4>. QED
        BY <4>1, <4>2
    <3>. QED
      BY <1>7, <1>8, <3>1 DEF Homed, NoneLost
  <2>4. PoolRight'
    <3>1. \A i \in 1 .. Len(pool') : \A d : d = pool'[i] => ~HasBuffer(d)'
      BY <1>4, <1>5 DEF Homed, PoolRight
    <3>2. \A i \in 1 .. Len(pool') : ~HasBuffer(pool[i])'
      BY <3>1 DEF HasBuffer
    <3>3. \A i, k \in 1 .. Len(pool') : pool'[i] = pool'[k] => i = k
      BY <1>5 DEF Homed, PoolRight
    <3>4. \A i \in 1 .. Len(pool'), u \in Threads : tls'[u] # pool'[i] /\ dying'[u] # pool'[i]
      BY <1>3, <1>5, <2>1 DEF Homed, PoolRight
    <3>. QED
      BY <3>2, <3>3, <3>4 DEF PoolRight
  <2>5. Apart'
    <3>1. \A u \in Threads : \A d : dying'[u] # None /\ d = dying'[u] => ~HasBuffer(d)'
      BY <1>4, <2>1 DEF Homed, Apart
    <3>2. \A u \in Threads : dying'[u] # None => ~HasBuffer(dying[u])'
      BY <3>1 DEF HasBuffer
    <3>3. \A u, v \in Threads : dying'[u] # None => tls'[v] # dying'[u]
      BY <1>3, <1>5, <2>1 DEF Homed, Apart
    <3>4. \A u, v \in Threads : tls'[u] # None /\ tls'[u] = tls'[v] => u = v
      BY <1>3, <1>5 DEF Homed, Apart
    <3>. QED
      BY <2>1, <3>2, <3>3, <3>4 DEF Homed, Apart
  <2>. QED
    BY <2>3, <2>4, <2>5 DEF Homed
<1>. QED
  BY <1>10, <1>11

\* Every step.
LEMMA HomedNext ==
  ASSUME Shape, InHand, Homed, Next
  PROVE  Homed'
<1>1. ASSUME NEW t \in Threads, EnterScope(t) PROVE Homed'
  BY <1>1, HomedFrame DEF EnterScope, chunkVars
<1>2. ASSUME NEW t \in Threads, Check(t) PROVE Homed'
  <2>1. UNCHANGED <<pool, made, tls, dying, live>>
    BY <1>2 DEF Check, Crash, chunkVars
  <2>. QED
    BY <2>1, HomedFrame
<1>3. ASSUME NEW t \in Threads, NEW n \in Sizes, OpenCall(t, n) PROVE Homed'
  BY <1>3, HomedFrame DEF OpenCall, chunkVars
<1>. QED
  BY <1>1, <1>2, <1>3, PopHomed, ChunkOpenHomed, PushGlobalHomed, DropHomed, CloseHomed DEF Next

-----------------------------------------------------------------------------
(* Disjoint buffers.                                                        *)

\* The chunk a thread gets has no buffer, so it may be cut from the start.
LEMMA PopCut ==
  ASSUME Shape, InHand, Homed, Cut, NEW t \in Threads, Pop(t)
  PROVE  Cut'
<1>1. PICK c \in Chunks :
           /\ \/ /\ Len(pool) \in Nat \ {0} /\ c = pool[Len(pool)] /\ made' = made
                 /\ pool' \in Seq(Chunks) /\ Len(pool') = Len(pool) - 1
                 /\ \A i \in 1 .. Len(pool) - 1 : pool'[i] = pool[i]
              \/ Len(pool) = 0 /\ c \notin made /\ made' = made \cup {c} /\ pool' = pool
           /\ tls' = [tls EXCEPT ![t] = c]
           /\ isOpened' = [isOpened EXCEPT ![c] = FALSE]
           /\ usedSize' = [usedSize EXCEPT ![c] = 0]
  BY PopEffect
<1>2. \A x \in live : x.chunk # c
  <2>1. CASE Len(pool) \in Nat \ {0} /\ c = pool[Len(pool)]
    <3>1. Len(pool) \in 1 .. Len(pool)
      BY <2>1
    <3>. QED
      BY <2>1, <3>1 DEF Homed, PoolRight, HasBuffer
  <2>2. CASE c \notin made
    BY <2>2 DEF Homed, NoneLost, Kept, HasBuffer
  <2>. QED
    BY <1>1, <2>1, <2>2
<1>3. live' = live /\ \A x \in live : x.chunk \in Chunks
  BY PopOld DEF Shape, Buffers
<1>4. /\ usedSize'[c] = 0
      /\ \A d \in Chunks \ {c} : usedSize'[d] = usedSize[d] /\ isOpened'[d] = isOpened[d]
  BY <1>1 DEF Shape
<1>5. \A d \in Chunks : usedSize'[d] <= ChunkSize
  BY <1>4, ConstFacts DEF Cut
<1>6. \A x \in live : usedSize'[x.chunk] = usedSize[x.chunk] /\ isOpened'[x.chunk] = isOpened[x.chunk]
  BY <1>2, <1>3, <1>4
<1>. QED
  BY <1>3, <1>5, <1>6 DEF Cut, DisjointRegions

\* The new buffer begins where everything that was cut ends.
LEMMA ChunkOpenCut ==
  ASSUME Debug, Shape, InHand, Cut, NEW t \in Threads, ChunkOpen(t)
  PROVE  Cut'
<1>1. CASE UNCHANGED <<isOpened, usedSize, live>>
  BY <1>1 DEF Cut, DisjointRegions
<1>2. CASE ~UNCHANGED <<isOpened, usedSize, live>>
  <2>1. ~\E why : Crash(why)
    BY <1>2, CrashFrame
  <2>2. PICK c, y : c = tls[t] /\ y = [id |-> opens, chunk |-> tls[t],
                       off |-> usedSize[tls[t]], len |-> size[t], open |-> TRUE, by |-> t]
    OBVIOUS
  <2>3. /\ c \in Chunks /\ usedSize' = usedSize /\ size[t] <= FreeSize(c) /\ ~isOpened[c]
        /\ isOpened' = [isOpened EXCEPT ![c] = TRUE] /\ live' = live \cup {y}
    BY <1>2, <2>1, <2>2, ChunkOpenEffect, Zenon
  <2>4. y.chunk = c /\ y.off = usedSize[c] /\ y.len = size[t] /\ y.open
    BY <2>2
  <2>5. /\ y.off \in Nat /\ y.len \in Nat /\ y.off + y.len <= ChunkSize
        /\ usedSize[c] \in Nat
    BY <2>3, <2>4, ConstFacts DEF FreeSize, Shape
  <2>6. /\ isOpened'[c] /\ \A d \in Chunks : isOpened[d] => isOpened'[d]
    BY <2>3 DEF Shape
  <2>7. ASSUME NEW x \in live
        PROVE  /\ x.chunk \in Chunks /\ x.off \in Nat /\ x.len \in Nat
               /\ x.chunk = c => ~x.open /\ x.off + x.len <= y.off
    <3>1. x.chunk \in Chunks /\ x.off \in Nat /\ x.len \in Nat /\ x.open \in BOOLEAN
      BY DEF Shape, Buffers
    <3>2. x.chunk = c => ~x.open
      BY <2>3 DEF Cut
    <3>. QED
      BY <2>4, <3>1, <3>2 DEF Cut
  <2>8. \A x \in live' : x \in live \/ x = y
    BY <2>3
  <2>9. \A x \in live' : ~x.open => x.off + x.len <= usedSize'[x.chunk]
    BY <2>3, <2>4, <2>8 DEF Cut
  <2>10. \A x \in live' : x.open => /\ isOpened'[x.chunk] /\ x.off = usedSize'[x.chunk]
                                    /\ x.off + x.len <= ChunkSize
    BY <2>3, <2>4, <2>5, <2>6, <2>7, <2>8 DEF Cut
  <2>11. \A x, z \in live' : x.open /\ z.open /\ x.chunk = z.chunk => x = z
    BY <2>4, <2>7, <2>8 DEF Cut
  <2>12. \A x \in live' : x.off + x.len <= ChunkSize
    BY <2>5, <2>8 DEF Cut, DisjointRegions
  <2>13. \A x, z \in live' : x # z /\ x.chunk = z.chunk
                              => x.off + x.len <= z.off \/ z.off + z.len <= x.off
    BY <2>4, <2>7, <2>8 DEF Cut, DisjointRegions
  <2>14. \A d \in Chunks : usedSize'[d] <= ChunkSize
    BY <2>3 DEF Cut
  <2>. QED
    BY <2>9, <2>10, <2>11, <2>12, <2>13, <2>14 DEF Cut, DisjointRegions
<1>. QED
  BY <1>1, <1>2

\* A closed buffer keeps no more than it had, and usedSize is at its end.
LEMMA CloseCut ==
  ASSUME Debug, Shape, Cut, NEW t \in Threads, NEW x \in live, NEW w \in Sizes \cup {0},
         Close(t, x, w)
  PROVE  Cut'
<1>1. CASE \E why : Crash(why)
  BY <1>1, CrashFrame DEF Cut, DisjointRegions
<1>2. CASE ~\E why : Crash(why)
  <2>1. PICK c : c = x.chunk
    OBVIOUS
  <2>2. /\ x.open /\ w <= x.len /\ w \in Nat /\ c \in Chunks /\ x.off \in Nat /\ x.len \in Nat
        /\ isOpened' = [isOpened EXCEPT ![c] = FALSE]
        /\ usedSize' = [usedSize EXCEPT ![c] = @ + w]
    BY <1>2, <2>1, CloseEffect DEF Buffers
  <2>3. PICK y : /\ y.chunk = c /\ y.off = x.off /\ y.len = w /\ ~y.open
                 /\ live' = (live \ {x}) \cup {y}
    BY <1>2, <2>1, CloseEffect
  <2>4. x.off = usedSize[c] /\ x.off + x.len <= ChunkSize
    BY <2>1, <2>2 DEF Cut
  <2>5. /\ usedSize'[c] = y.off + y.len /\ usedSize'[c] <= ChunkSize
        /\ usedSize[c] <= usedSize'[c]
        /\ \A d \in Chunks \ {c} : usedSize'[d] = usedSize[d] /\ isOpened'[d] = isOpened[d]
    BY <2>2, <2>3, <2>4, ConstFacts DEF Shape
  <2>6. ASSUME NEW z \in live, z # x
        PROVE  /\ z.chunk \in Chunks /\ z.off \in Nat /\ z.len \in Nat
               /\ z.chunk = c => ~z.open /\ z.off + z.len <= y.off
    <3>1. z.chunk \in Chunks /\ z.off \in Nat /\ z.len \in Nat /\ z.open \in BOOLEAN
      BY DEF Shape, Buffers
    <3>2. z.chunk = c => ~z.open
      BY <2>1, <2>2, <2>6 DEF Cut
    <3>. QED
      BY <2>3, <2>4, <3>1, <3>2 DEF Cut
  <2>7. \A z \in live' : (z \in live /\ z # x) \/ z = y
    BY <2>3
  <2>8. \A z \in live' : ~z.open => z.off + z.len <= usedSize'[z.chunk]
    <3>1. ASSUME NEW z \in live, z # x, ~z.open PROVE z.off + z.len <= usedSize'[z.chunk]
      <4>1. z.off + z.len <= usedSize[z.chunk] /\ usedSize[z.chunk] \in Nat
        BY <2>6, <3>1 DEF Cut, Shape
      <4>2. usedSize'[z.chunk] \in Nat /\ usedSize[z.chunk] <= usedSize'[z.chunk]
        BY <2>2, <2>3, <2>4, <2>5, <2>6, <3>1, <4>1
      <4>. QED
        BY <2>6, <3>1, <4>1, <4>2
    <3>. QED
      BY <2>2, <2>3, <2>5, <2>7, <3>1
  <2>9. \A z \in live' : z.open => /\ isOpened'[z.chunk] /\ z.off = usedSize'[z.chunk]
                                   /\ z.off + z.len <= ChunkSize
    BY <2>3, <2>5, <2>6, <2>7 DEF Cut
  <2>10. \A p, q \in live' : p.open /\ q.open /\ p.chunk = q.chunk => p = q
    BY <2>3, <2>7 DEF Cut
  <2>11. \A z \in live' : z.off + z.len <= ChunkSize
    BY <2>5, <2>7 DEF Cut, DisjointRegions
  <2>12. \A p, q \in live' : p # q /\ p.chunk = q.chunk
                              => p.off + p.len <= q.off \/ q.off + q.len <= p.off
    BY <2>3, <2>6, <2>7 DEF Cut, DisjointRegions
  <2>13. \A d \in Chunks : usedSize'[d] <= ChunkSize
    BY <2>2, <2>5 DEF Cut
  <2>. QED
    BY <2>8, <2>9, <2>10, <2>11, <2>12, <2>13 DEF Cut, DisjointRegions
<1>. QED
  BY <1>1, <1>2

\* Every step.
LEMMA CutNext ==
  ASSUME Debug, Shape, InHand, Homed, Cut, Next
  PROVE  Cut'
<1>1. CASE UNCHANGED <<isOpened, usedSize, live>>
  BY <1>1 DEF Cut, DisjointRegions
<1>2. ASSUME NEW t \in Threads,
             \/ EnterScope(t) \/ Check(t) \/ PushGlobal(t)
             \/ \E n \in Sizes : OpenCall(t, n)
      PROVE  Cut'
  BY <1>1, <1>2 DEF EnterScope, Check, PushGlobal, OpenCall, Crash, chunkVars
<1>3. ASSUME NEW t \in Threads, NEW x \in live, Drop(t, x) PROVE Cut'
  <2>1. UNCHANGED <<isOpened, usedSize>> /\ live' \subseteq live
    BY <1>3 DEF Drop
  <2>. QED
    BY <2>1 DEF Cut, DisjointRegions
<1>. QED
  BY <1>2, <1>3, PopCut, ChunkOpenCut, CloseCut DEF Next

-----------------------------------------------------------------------------
(* The invariant holds.                                                     *)

LEMMA InitIInv == Init => IInv
<1>. SUFFICES ASSUME Init PROVE IInv
  OBVIOUS
<1>1. pool \in Seq(Chunks) /\ Len(pool) = 0
  BY EmptySeq DEF Init
<1>2. Shape
  BY <1>1 DEF Init, Shape, PCs
<1>3. InHand
  BY DEF Init, InHand
<1>4. Homed
  BY <1>1, NoneFacts DEF Init, Homed, NoneLost, PoolRight, Apart, Kept, HasBuffer
<1>5. Cut
  BY ConstFacts DEF Init, Cut, DisjointRegions
<1>. QED
  BY <1>2, <1>3, <1>4, <1>5 DEF IInv

LEMMA NextIInv == IInv /\ [Next]_vars => IInv'
<1>. SUFFICES ASSUME IInv, [Next]_vars PROVE IInv'
  OBVIOUS
<1>1. CASE Next
  BY <1>1, ShapeNext, HomedNext, CutNext DEF IInv
<1>2. CASE UNCHANGED vars
  <2>. USE <1>2 DEF vars, chunkVars
  <2>1. Shape' /\ InHand'
    BY DEF IInv, Shape, InHand
  <2>2. Homed'
    BY HomedFrame DEF IInv
  <2>3. Debug => Cut'
    BY DEF IInv, Cut, DisjointRegions
  <2>. QED
    BY <2>1, <2>2, <2>3 DEF IInv
<1>. QED
  BY <1>1, <1>2

\* The inductive invariant holds in every reachable state.
THEOREM InvariantHolds == Spec => []IInv
<1>. QED
  BY InitIInv, NextIInv, PTL DEF Spec

-----------------------------------------------------------------------------
(* What it gives.                                                           *)

\* In a Debug build the state of the send buffers has its type and no chunk is
\* overfilled, whatever sizes the application asks for and writes.
THEOREM TypeCorrect ==
  ASSUME Debug PROVE Spec => []TypeOK
<1>1. IInv => TypeOK
  <2>. SUFFICES ASSUME IInv PROVE TypeOK
    OBVIOUS
  <2>1. usedSize \in [Chunks -> 0 .. ChunkSize]
    BY ConstFacts DEF IInv, Shape, Cut
  <2>2. \A x \in live : x.chunk \in Chunks /\ x.off \in Nat /\ x.len \in Nat
    BY DEF IInv, Shape, Buffers
  <2>. QED
    BY <2>1, <2>2 DEF IInv, Shape, PCs, TypeOK
<1>. QED
  BY <1>1, InvariantHolds, PTL

\* In a Debug build no two buffers the application holds share a byte and none
\* leaves its chunk: SendBufferManager::Open cuts from the calling thread's own
\* chunk, one buffer is open in it at a time, and a chunk is cut anew only when
\* its last buffer is gone.
THEOREM DisjointRegionsTheorem ==
  ASSUME Debug PROVE Spec => []DisjointRegions
<1>1. IInv => DisjointRegions
  BY DEF IInv, Cut
<1>. QED
  BY <1>1, InvariantHolds, PTL

\* What the homes of a chunk are.
LEMMA HomesMember ==
  ASSUME NEW c, NEW h
  PROVE  h \in Homes(c) <=>
            \/ \E i \in DOMAIN pool : pool[i] = c /\ h = <<"pool", i>>
            \/ \E t \in Threads : tls[t] = c /\ h = <<"tls", t>>
            \/ \E t \in Threads : dying[t] = c /\ h = <<"deleter", t>>
            \/ HasBuffer(c) /\ (\A u \in Threads : tls[u] # c) /\ h = <<"buffers", 0>>
  BY DEF Homes, HasBuffer

\* h is the home of c, the only one.
OnlyHome(c, h) == \A k : k \in Homes(c) <=> k = h

\* In either build and with either guard a chunk that was made is in exactly one
\* place: in the pool once, with one thread, with one deleter, or with the buffers
\* that were cut from it.
THEOREM OneHomeTheorem == Spec => []ChunkHasOneHome
<1>1. ASSUME IInv, NEW c \in made PROVE \E h : OnlyHome(c, h)
  <2>1. /\ c \in Chunks /\ c # None /\ Kept(c) /\ DOMAIN pool = 1 .. Len(pool)
    BY <1>1, NoneFacts DEF IInv, Shape, Homed, NoneLost
  <2>2. PoolRight /\ Apart
    BY <1>1 DEF IInv, Homed
  <2>3. ASSUME NEW i \in 1 .. Len(pool), pool[i] = c
        PROVE  OnlyHome(c, <<"pool", i>>)
    <3>1. /\ \A k \in 1 .. Len(pool) : pool[k] = c => k = i
          /\ \A t \in Threads : tls[t] # c /\ dying[t] # c
          /\ ~HasBuffer(c)
      BY <2>2, <2>3 DEF PoolRight
    <3>. QED
      BY <2>1, <2>3, <3>1, HomesMember, Zenon DEF OnlyHome
  <2>4. ASSUME NEW t \in Threads, tls[t] = c
        PROVE  OnlyHome(c, <<"tls", t>>)
    <3>1. /\ \A i \in 1 .. Len(pool) : pool[i] # c
          /\ \A u \in Threads : (tls[u] = c => u = t) /\ dying[u] # c
      BY <2>1, <2>2, <2>4 DEF PoolRight, Apart
    <3>. QED
      BY <2>1, <2>4, <3>1, HomesMember, Zenon DEF OnlyHome
  <2>5. ASSUME NEW t \in Threads, dying[t] = c
        PROVE  OnlyHome(c, <<"deleter", t>>)
    <3>1. /\ \A i \in 1 .. Len(pool) : pool[i] # c
          /\ \A u \in Threads : (dying[u] = c => u = t) /\ tls[u] # c
          /\ ~HasBuffer(c)
      BY <2>1, <2>2, <2>5 DEF PoolRight, Apart
    <3>. QED
      BY <2>1, <2>5, <3>1, HomesMember, Zenon DEF OnlyHome
  <2>6. ASSUME HasBuffer(c), \A u \in Threads : tls[u] # c
        PROVE  OnlyHome(c, <<"buffers", 0>>)
    <3>1. /\ \A i \in 1 .. Len(pool) : pool[i] # c
          /\ \A u \in Threads : dying[u] # c
      BY <2>1, <2>2, <2>6 DEF PoolRight, Apart
    <3>. QED
      BY <2>1, <2>6, <3>1, HomesMember, Zenon DEF OnlyHome
  <2>7. CASE \E i \in 1 .. Len(pool) : pool[i] = c
    BY <2>3, <2>7, Zenon
  <2>8. CASE \E t \in Threads : tls[t] = c \/ dying[t] = c
    BY <2>4, <2>5, <2>8, Zenon
  <2>9. CASE HasBuffer(c) /\ \A u \in Threads : tls[u] # c
    BY <2>6, <2>9, Zenon
  <2>. QED
    BY <2>1, <2>7, <2>8, <2>9 DEF Kept
<1>2. ASSUME IInv, NEW c \in made PROVE Cardinality(Homes(c)) = 1
  <2>1. PICK h : OnlyHome(c, h)
    BY <1>1, <1>2
  <2>2. Homes(c) = {h}
    BY <2>1 DEF OnlyHome
  <2>. QED
    BY <2>2, FS_Singleton
<1>3. IInv => ChunkHasOneHome
  BY <1>2 DEF ChunkHasOneHome
<1>. QED
  BY <1>3, InvariantHolds, PTL

=============================================================================
