----------------------------- MODULE LockProofs -----------------------------
(***************************************************************************)
(* Proofs about Lock, for any number of threads, any width of the flag and *)
(* any nesting of scopes, of two assumptions on the callers: thread ids    *)
(* are what ThreadManager hands out (IdsFromThreadManager), and no more    *)
(* scopes are open at once than the read count can hold (HoldsFit).        *)
(*                                                                         *)
(* The second half is about DeadLockProfiler, for any threads, any locks   *)
(* and any depth: the search for a cycle in the lock order is exact, ends, *)
(* and leaves no circle of held locks unseen.                              *)
(***************************************************************************)
EXTENDS Lock, DeadLockProfiler, SequenceTheorems, FiniteSetTheorems,
        WellFoundedInduction, TLAPS

-----------------------------------------------------------------------------
(* Arithmetic modulo 2^16, sequences.                                       *)

\* A count below the modulus is not wrapped, and stepping it down by adding
\* the modulus less one is a subtraction.
LEMMA ModFacts ==
  ASSUME NEW M \in Nat, NEW x \in Nat, x < M
  PROVE  /\ x % M = x
         /\ x > 0 => (x + M - 1) % M = x - 1
<1>1. x % M = x
  OBVIOUS
<1>2. ASSUME x > 0 PROVE (x + M - 1) % M = x - 1
  <2>1. x + M - 1 = 1 * M + (x - 1) /\ x - 1 \in 0 .. (M - 1)
    BY <1>2
  <2>. QED
    BY <2>1
<1>. QED
  BY <1>1, <1>2

\* The innermost scope is left: everything below it stays.
LEMMA PopFacts ==
  ASSUME NEW S, NEW s \in Seq(S), s # << >>
  PROVE  /\ Pop(s) \in Seq(S)
         /\ Len(s) \in Nat /\ Len(s) > 0
         /\ Len(Pop(s)) = Len(s) - 1
         /\ \A i \in 1 .. (Len(s) - 1) : Pop(s)[i] = s[i]
<1>1. Len(s) \in Nat /\ Len(s) > 0
  OBVIOUS
<1>2. \A i \in 1 .. (Len(s) - 1) : s[i] \in S
  BY <1>1
<1>3. /\ SubSeq(s, 1, Len(s) - 1) \in Seq(S)
      /\ Len(SubSeq(s, 1, Len(s) - 1))
           = IF 1 <= Len(s) - 1 THEN (Len(s) - 1) - 1 + 1 ELSE 0
      /\ \A i \in 1 .. (Len(s) - 1) - 1 + 1 : SubSeq(s, 1, Len(s) - 1)[i] = s[1 + i - 1]
  BY <1>1, <1>2, SubSeqProperties
<1>4. \A i \in 1 .. (Len(s) - 1) : i \in 1 .. (Len(s) - 1) - 1 + 1 /\ 1 + i - 1 = i
  BY <1>1
<1>5. \A i \in 1 .. (Len(s) - 1) : SubSeq(s, 1, Len(s) - 1)[i] = s[i]
  BY <1>3, <1>4
<1>6. \A n \in Nat : n > 0 => (IF 1 <= n - 1 THEN (n - 1) - 1 + 1 ELSE 0) = n - 1
  OBVIOUS
<1>. DEFINE p == SubSeq(s, 1, Len(s) - 1)
<1>7. /\ p \in Seq(S)
      /\ Len(p) = Len(s) - 1
      /\ \A i \in 1 .. (Len(s) - 1) : p[i] = s[i]
  BY <1>1, <1>3, <1>5, <1>6, Zenon
<1>8. Pop(s) = p
  BY Zenon DEF Pop
<1>. HIDE DEF p
<1>. QED
  BY <1>1, <1>7, <1>8, Zenon

\* A scope is entered: everything below it stays.
LEMMA AppendFacts ==
  ASSUME NEW S, NEW s \in Seq(S), NEW e \in S
  PROVE  /\ Append(s, e) \in Seq(S)
         /\ Len(s) \in Nat
         /\ Len(Append(s, e)) = Len(s) + 1
         /\ \A i \in 1 .. Len(s) : Append(s, e)[i] = s[i]
         /\ Append(s, e)[Len(s) + 1] = e
  OBVIOUS

-----------------------------------------------------------------------------
(* Counting scopes.                                                         *)

\* The scopes of mode m in the stacks h.
TokensOf(h, m) ==
    {k \in Threads \X (1 .. Mod16) : k[2] \in DOMAIN h[k[1]] /\ h[k[1]][k[2]] = m}

\* Stacks of at most d scopes, few enough to be counted in 16 bits.
Fits(h, d) ==
    /\ h \in [Threads -> Seq(Modes)]
    /\ \A t \in Threads : Len(h[t]) <= d

\* A thread's own depth fits the flag when everybody's together does.
LEMMA DepthFits ==
  ASSUME NEW d, HoldsFit(d), NEW t \in Threads
  PROVE  d \in Nat /\ d < Mod16
<1>1. Cardinality(Threads) \in Nat /\ Cardinality(Threads) # 0
  BY LockConstants, FS_CardinalityType, FS_EmptySet
<1>. QED
  BY <1>1, LockConstants DEF HoldsFit

\* At any moment fewer than 2^16 scopes of either mode are open.
LEMMA TokensBound ==
  ASSUME NEW d, HoldsFit(d), NEW h, Fits(h, d), NEW m
  PROVE  /\ IsFiniteSet(TokensOf(h, m))
         /\ Cardinality(TokensOf(h, m)) \in Nat
         /\ Cardinality(TokensOf(h, m)) < Mod16
<1>. DEFINE P == Threads \X (1 .. d)
<1>0. d \in Nat
  BY DEF HoldsFit
<1>1. IsFiniteSet(1 .. d) /\ Cardinality(1 .. d) = d
  BY <1>0, FS_Interval
<1>2. IsFiniteSet(P) /\ Cardinality(P) = Cardinality(Threads) * d
  BY <1>1, LockConstants, FS_Product
<1>3. TokensOf(h, m) \subseteq P
  BY <1>0 DEF TokensOf, Fits
<1>4. /\ IsFiniteSet(TokensOf(h, m))
      /\ Cardinality(TokensOf(h, m)) <= Cardinality(P)
  BY <1>2, <1>3, FS_Subset
<1>5. Cardinality(TokensOf(h, m)) \in Nat /\ Cardinality(Threads) \in Nat
  BY <1>4, LockConstants, FS_CardinalityType
<1>. QED
  BY <1>0, <1>2, <1>4, <1>5, LockConstants DEF HoldsFit

\* The stacks h after thread t has entered a scope of mode m, or left one.
Pushed(h, t, m) == [h EXCEPT ![t] = Append(@, m)]
Popped(h, t) == [h EXCEPT ![t] = Pop(@)]

\* A thread that enters a scope of mode m adds one token of that mode.
LEMMA AcquireTokens ==
  ASSUME NEW h \in [Threads -> Seq(Modes)], NEW t \in Threads, NEW m \in Modes,
         Len(h[t]) + 1 <= Mod16, IsFiniteSet(TokensOf(h, m))
  PROVE  /\ Pushed(h, t, m) \in [Threads -> Seq(Modes)]
         /\ Pushed(h, t, m)[t] = Append(h[t], m)
         /\ \A u \in Threads \ {t} : Pushed(h, t, m)[u] = h[u]
         /\ Cardinality(TokensOf(Pushed(h, t, m), m)) = Cardinality(TokensOf(h, m)) + 1
         /\ \A n \in Modes \ {m} : TokensOf(Pushed(h, t, m), n) = TokensOf(h, n)
<1>. DEFINE g == Pushed(h, t, m)
<1>1. /\ Append(h[t], m) \in Seq(Modes)
      /\ Len(h[t]) \in Nat
      /\ Len(Append(h[t], m)) = Len(h[t]) + 1
      /\ \A i \in 1 .. Len(h[t]) : Append(h[t], m)[i] = h[t][i]
      /\ Append(h[t], m)[Len(h[t]) + 1] = m
  BY AppendFacts
<1>2. /\ g \in [Threads -> Seq(Modes)]
      /\ g[t] = Append(h[t], m) /\ \A u \in Threads \ {t} : g[u] = h[u]
  BY <1>1 DEF Pushed
<1>. DEFINE new == <<t, Len(h[t]) + 1>>
<1>3. ASSUME NEW u \in Threads
      PROVE  DOMAIN h[u] = 1 .. Len(h[u]) /\ DOMAIN g[u] = 1 .. Len(g[u])
  <2>1. h[u] \in Seq(Modes) /\ g[u] \in Seq(Modes)
    BY <1>2
  <2>. QED
    BY <2>1
<1>4. /\ DOMAIN h[t] = 1 .. Len(h[t]) /\ DOMAIN g[t] = 1 .. (Len(h[t]) + 1)
  BY <1>1, <1>2, <1>3
<1>5. ASSUME NEW n \in Modes, NEW u \in Threads, NEW i \in 1 .. Mod16
      PROVE  (i \in DOMAIN g[u] /\ g[u][i] = n)
               <=> \/ i \in DOMAIN h[u] /\ h[u][i] = n
                   \/ u = t /\ i = Len(h[t]) + 1 /\ n = m
  <2>1. CASE u # t
    BY <2>1, <1>2
  <2>2. CASE u = t
    <3>1. CASE i = Len(h[t]) + 1
      BY <2>2, <3>1, <1>1, <1>2, <1>4
    <3>2. CASE i # Len(h[t]) + 1
      <4>1. i \in DOMAIN g[t] <=> i \in DOMAIN h[t]
        BY <3>2, <1>1, <1>4
      <4>2. i \in DOMAIN h[t] => g[t][i] = h[t][i]
        BY <1>1, <1>2, <1>4
      <4>. QED
        BY <2>2, <3>2, <4>1, <4>2
    <3>. QED
      BY <3>1, <3>2
  <2>. QED
    BY <2>1, <2>2
<1>6. Len(h[t]) + 1 \in 1 .. Mod16 /\ new \in Threads \X (1 .. Mod16)
  BY <1>1, LockConstants
<1>7. TokensOf(g, m) = TokensOf(h, m) \cup {new}
  BY <1>5, <1>6 DEF TokensOf
<1>8. new \notin TokensOf(h, m)
  BY <1>1, <1>4 DEF TokensOf
<1>9. \A n \in Modes \ {m} : TokensOf(g, n) = TokensOf(h, n)
  BY <1>5 DEF TokensOf
<1>10. Cardinality(TokensOf(g, m)) = Cardinality(TokensOf(h, m)) + 1
  <2>. HIDE DEF new
  <2>. QED
    BY <1>7, <1>8, FS_AddElement
<1>. QED
  BY <1>2, <1>9, <1>10

\* A thread that leaves its innermost scope, of mode m, takes that token away.
LEMMA ReleaseTokens ==
  ASSUME NEW h \in [Threads -> Seq(Modes)], NEW t \in Threads, NEW m \in Modes,
         h[t] # << >>, Top(h[t]) = m, Len(h[t]) <= Mod16, IsFiniteSet(TokensOf(h, m))
  PROVE  /\ Popped(h, t) \in [Threads -> Seq(Modes)]
         /\ Popped(h, t)[t] = Pop(h[t]) /\ \A u \in Threads \ {t} : Popped(h, t)[u] = h[u]
         /\ <<t, Len(h[t])>> \in TokensOf(h, m)
         /\ Cardinality(TokensOf(Popped(h, t), m)) = Cardinality(TokensOf(h, m)) - 1
         /\ \A n \in Modes \ {m} : TokensOf(Popped(h, t), n) = TokensOf(h, n)
<1>. DEFINE g == Popped(h, t)
<1>1. /\ Pop(h[t]) \in Seq(Modes)
      /\ Len(h[t]) \in Nat /\ Len(h[t]) > 0
      /\ Len(Pop(h[t])) = Len(h[t]) - 1
      /\ \A i \in 1 .. (Len(h[t]) - 1) : Pop(h[t])[i] = h[t][i]
  BY PopFacts
<1>2. /\ g \in [Threads -> Seq(Modes)]
      /\ g[t] = Pop(h[t]) /\ \A u \in Threads \ {t} : g[u] = h[u]
  BY <1>1 DEF Popped
<1>. DEFINE old == <<t, Len(h[t])>>
<1>4. /\ DOMAIN h[t] = 1 .. Len(h[t]) /\ DOMAIN g[t] = 1 .. (Len(h[t]) - 1)
      /\ h[t][Len(h[t])] = m
  BY <1>1, <1>2 DEF Top
<1>5. ASSUME NEW n \in Modes, NEW u \in Threads, NEW i \in 1 .. Mod16
      PROVE  (i \in DOMAIN g[u] /\ g[u][i] = n)
               <=> /\ i \in DOMAIN h[u] /\ h[u][i] = n
                   /\ ~(u = t /\ i = Len(h[t]))
  <2>1. CASE u # t
    BY <2>1, <1>2
  <2>2. CASE u = t
    <3>1. CASE i = Len(h[t])
      BY <2>2, <3>1, <1>1, <1>2, <1>4
    <3>2. CASE i # Len(h[t])
      <4>1. i \in DOMAIN g[t] <=> i \in DOMAIN h[t]
        BY <3>2, <1>1, <1>4
      <4>2. i \in DOMAIN g[t] => g[t][i] = h[t][i]
        BY <1>1, <1>2, <1>4
      <4>. QED
        BY <2>2, <3>2, <4>1, <4>2
    <3>. QED
      BY <3>1, <3>2
  <2>. QED
    BY <2>1, <2>2
<1>6. Len(h[t]) \in 1 .. Mod16 /\ old \in Threads \X (1 .. Mod16)
  BY <1>1, LockConstants
<1>7. TokensOf(g, m) = TokensOf(h, m) \ {old}
  BY <1>5, <1>6 DEF TokensOf
<1>8. old \in TokensOf(h, m)
  BY <1>1, <1>4, <1>6 DEF TokensOf
<1>9. \A n \in Modes \ {m} : TokensOf(g, n) = TokensOf(h, n)
  <2>1. ASSUME NEW n \in Modes \ {m} PROVE h[t][Len(h[t])] # n
    BY <1>4
  <2>. QED
    BY <1>5, <2>1 DEF TokensOf
<1>10. Cardinality(TokensOf(g, m)) = Cardinality(TokensOf(h, m)) - 1
  <2>. HIDE DEF old
  <2>. QED
    BY <1>7, <1>8, FS_RemoveElement
<1>. QED
  BY <1>2, <1>8, <1>9, <1>10

-----------------------------------------------------------------------------
(* The inductive invariant.                                                 *)

\* The points of the methods where a scope is about to be opened, those only
\* the writer reaches, and those between the atomic operation on lockFlag and
\* the plain one on writeCount, or the other way round.
Entering == {"write_recurse", "write_cas", "read_add", "read_load", "read_cas"}

OwnerPCs == {"write_recurse", "write_count", "write_uncount", "write_store", "read_add"}

LaggingPCs == {"write_count", "write_store"}

\* No thread is in more than d scopes, and one that is about to enter has room.
DepthBound(d) ==
    \A t \in Threads :
        /\ Len(held[t]) <= d
        /\ pc[t] \in Entering => Len(held[t]) < d

\* The owner field of the flag names the thread in an exclusive scope.
OwnerIsWriter ==
    /\ \A t \in Threads : HoldsWrite(t) <=> lockFlag.wr = ThreadId[t]
    /\ (\A t \in Threads : ~HoldsWrite(t)) => lockFlag.wr = 0

\* The threads whose exclusive scope writeCount does not tell of.
Lagging == {t \in Threads : pc[t] \in LaggingPCs}

ReadCountIsTokens == lockFlag.rd = Cardinality(Tokens("R"))

WriteCountIsTokens == writeCount = Cardinality(Tokens("W")) - Cardinality(Lagging)

\* What a thread inside a method knows, and nobody else can change: the branch
\* for the owner is taken by the owner; in WriteUnlock the innermost scope is
\* an exclusive one and nobody is in a shared one; the flag is cleared only
\* when the count is down to 0.
OwnerBranch ==
    \A t \in Threads :
        pc[t] \in OwnerPCs => HoldsWrite(t)

Unlocking ==
    \A t \in Threads :
        pc[t] \in {"write_uncount", "write_store"} =>
            held[t] # << >> /\ Top(held[t]) = "W" /\ lockFlag.rd = 0

Storing == \A t \in Threads : pc[t] = "write_store" => writeCount = 0

\* MutualExclusion and FlagMatchesScopes are not inductive alone: that the
\* owner's branches are taken by the owner, and that clearing the flag ends
\* the last exclusive scope, depends on what the thread's position says.
IInv(d) ==
    /\ TypeOK /\ DepthBound(d)
    /\ OwnerIsWriter /\ ReadCountIsTokens /\ WriteCountIsTokens
    /\ OwnerBranch /\ Unlocking /\ Storing
    /\ MutualExclusion /\ UnlockNeverBlamesCaller

-----------------------------------------------------------------------------
(* Facts about any state or step of the invariant.                          *)

\* The numbers the invariant speaks of are natural numbers below 2^16.
LEMMA StateFacts ==
  ASSUME NEW d, HoldsFit(d), IInv(d)
  PROVE  /\ Mod16 \in Nat /\ Mod16 > 0
         /\ held \in [Threads -> Seq(Modes)]
         /\ \A t \in Threads : Len(held[t]) <= d /\ Len(held[t]) \in Nat
         /\ \A t \in Threads : Len(held[t]) <= Mod16
         /\ Fits(held, d)
         /\ \A m : /\ Tokens(m) = TokensOf(held, m)
                   /\ IsFiniteSet(TokensOf(held, m))
                   /\ Cardinality(TokensOf(held, m)) \in Nat
                   /\ Cardinality(TokensOf(held, m)) < Mod16
         /\ IsFiniteSet(Lagging) /\ Cardinality(Lagging) \in Nat
         /\ lockFlag.rd \in Nat /\ lockFlag.rd < Mod16
         /\ lockFlag.wr \in Nat /\ lockFlag.wr < Mod16
         /\ writeCount \in Nat /\ writeCount < Mod16
         /\ pc \in [Threads -> PCs]
<1>1. Mod16 \in Nat /\ Mod16 > 0
  BY LockConstants
<1>2. held \in [Threads -> Seq(Modes)] /\ pc \in [Threads -> PCs]
  BY DEF IInv, TypeOK
<1>3. ASSUME NEW t \in Threads PROVE Len(held[t]) <= d /\ Len(held[t]) \in Nat
  <2>1. held[t] \in Seq(Modes)
    BY <1>2
  <2>2. Len(held[t]) <= d
    BY DEF IInv, DepthBound
  <2>. QED
    BY <2>1, <2>2
<1>4. ASSUME NEW t \in Threads PROVE Len(held[t]) <= Mod16
  <2>1. d \in Nat /\ d < Mod16
    BY DepthFits
  <2>2. Len(held[t]) <= d /\ Len(held[t]) \in Nat
    BY <1>3
  <2>. QED
    BY <1>1, <2>1, <2>2
<1>5. Fits(held, d)
  BY <1>2, <1>3 DEF Fits
<1>6. ASSUME NEW m
      PROVE  /\ Tokens(m) = TokensOf(held, m)
             /\ IsFiniteSet(TokensOf(held, m))
             /\ Cardinality(TokensOf(held, m)) \in Nat
             /\ Cardinality(TokensOf(held, m)) < Mod16
  <2>1. Tokens(m) = TokensOf(held, m)
    BY DEF Tokens, TokensOf
  <2>2. /\ IsFiniteSet(TokensOf(held, m))
        /\ Cardinality(TokensOf(held, m)) \in Nat
        /\ Cardinality(TokensOf(held, m)) < Mod16
    BY <1>5, TokensBound
  <2>. QED
    BY <2>1, <2>2
<1>7. IsFiniteSet(Lagging) /\ Cardinality(Lagging) \in Nat
  <2>1. Lagging \in SUBSET Threads
    BY DEF Lagging, LaggingPCs
  <2>. QED
    BY <2>1, LockConstants, FS_Subset, FS_CardinalityType
<1>8. /\ lockFlag.rd \in Nat /\ lockFlag.rd < Mod16
      /\ lockFlag.wr \in Nat /\ lockFlag.wr < Mod16
      /\ writeCount \in Nat /\ writeCount < Mod16
  BY <1>1 DEF IInv, TypeOK
<1>. QED
  BY <1>1, <1>2, <1>3, <1>4, <1>5, <1>6, <1>7, <1>8

\* How a thread's step moves it into or out of the threads that lag behind.
LEMMA LaggingFacts ==
  ASSUME pc \in [Threads -> PCs], IsFiniteSet(Lagging), NEW t \in Threads, NEW x \in PCs,
         pc' = [pc EXCEPT ![t] = x]
  PROVE  /\ pc[t] \notin LaggingPCs /\ x \notin LaggingPCs
               => Cardinality(Lagging') = Cardinality(Lagging)
         /\ pc[t] \in LaggingPCs /\ x \in LaggingPCs
               => Cardinality(Lagging') = Cardinality(Lagging)
         /\ pc[t] \notin LaggingPCs /\ x \in LaggingPCs
               => Cardinality(Lagging') = Cardinality(Lagging) + 1
         /\ pc[t] \in LaggingPCs /\ x \notin LaggingPCs
               => Cardinality(Lagging') = Cardinality(Lagging) - 1
<1>1. Lagging' = {u \in Threads : pc'[u] \in LaggingPCs}
  BY DEF Lagging, LaggingPCs
<1>2. Lagging = {u \in Threads : pc[u] \in LaggingPCs}
  BY DEF Lagging, LaggingPCs
<1>3. pc'[t] = x /\ \A u \in Threads \ {t} : pc'[u] = pc[u]
  OBVIOUS
<1>4. CASE (pc[t] \in LaggingPCs <=> x \in LaggingPCs)
  <2>1. Lagging' = Lagging
    BY <1>1, <1>2, <1>3, <1>4
  <2>. QED
    BY <2>1, <1>4
<1>5. CASE pc[t] \notin LaggingPCs /\ x \in LaggingPCs
  <2>1. Lagging' = Lagging \cup {t} /\ t \notin Lagging
    BY <1>1, <1>2, <1>3, <1>5
  <2>. QED
    BY <2>1, <1>5, FS_AddElement
<1>6. CASE pc[t] \in LaggingPCs /\ x \notin LaggingPCs
  <2>1. Lagging' = Lagging \ {t} /\ t \in Lagging
    BY <1>1, <1>2, <1>3, <1>6
  <2>. QED
    BY <2>1, <1>6, FS_RemoveElement
<1>. QED
  BY <1>4, <1>5, <1>6

\* What the threads know is preserved by a step of thread t that establishes
\* its own part, and changes counts only while no other thread is a writer.
LEMMA KnowledgeKept ==
  ASSUME NEW d, IInv(d), NEW t \in Threads, NEW x \in PCs,
         pc' = [pc EXCEPT ![t] = x],
         \A u \in Threads \ {t} : held'[u] = held[u],
         Len(held'[t]) <= d,
         x \in Entering => Len(held'[t]) < d,
         x \in OwnerPCs => HoldsWrite(t)',
         x \in {"write_uncount", "write_store"} =>
            held'[t] # << >> /\ Top(held'[t]) = "W" /\ lockFlag'.rd = 0,
         x = "write_store" => writeCount' = 0,
         \A u \in Threads \ {t} :
            HoldsWrite(u) => lockFlag'.rd = lockFlag.rd /\ writeCount' = writeCount
  PROVE  DepthBound(d)' /\ OwnerBranch' /\ Unlocking' /\ Storing'
<1>1. pc \in [Threads -> PCs]
  BY DEF IInv, TypeOK
<1>2. pc'[t] = x /\ \A u \in Threads \ {t} : pc'[u] = pc[u]
  BY <1>1
<1>3. \A u \in Threads \ {t} : HoldsWrite(u)' <=> HoldsWrite(u)
  BY DEF HoldsWrite
<1>4. DepthBound(d)'
  BY <1>2 DEF IInv, DepthBound, Entering
<1>5. OwnerBranch'
  BY <1>2, <1>3 DEF IInv, OwnerBranch, OwnerPCs
<1>6. ASSUME NEW u \in Threads \ {t}, pc[u] \in {"write_uncount", "write_store"}
      PROVE  lockFlag'.rd = lockFlag.rd /\ writeCount' = writeCount
  BY <1>6 DEF IInv, OwnerBranch, OwnerPCs
<1>7. Unlocking'
  BY <1>2, <1>6 DEF IInv, Unlocking
<1>8. Storing'
  BY <1>2, <1>6 DEF IInv, Storing
<1>. QED
  BY <1>4, <1>5, <1>7, <1>8

\* Entering a scope of mode m makes t a writer if m is the exclusive mode.
LEMMA AcquireHolds ==
  ASSUME held \in [Threads -> Seq(Modes)], NEW t \in Threads, NEW m \in Modes,
         Acquire(t, m)
  PROVE  /\ HoldsWrite(t)' <=> HoldsWrite(t) \/ m = "W"
         /\ \A u \in Threads \ {t} : held'[u] = held[u] /\ (HoldsWrite(u)' <=> HoldsWrite(u))
         /\ held'[t] # << >>
<1>1. /\ Append(held[t], m) \in Seq(Modes)
      /\ Len(held[t]) \in Nat
      /\ Len(Append(held[t], m)) = Len(held[t]) + 1
      /\ \A i \in 1 .. Len(held[t]) : Append(held[t], m)[i] = held[t][i]
      /\ Append(held[t], m)[Len(held[t]) + 1] = m
  BY AppendFacts
<1>2. held'[t] = Append(held[t], m) /\ \A u \in Threads \ {t} : held'[u] = held[u]
  BY DEF Acquire
<1>3. /\ DOMAIN held[t] = 1 .. Len(held[t])
      /\ DOMAIN held'[t] = 1 .. (Len(held[t]) + 1)
  BY <1>1, <1>2
<1>4. HoldsWrite(t)' <=> HoldsWrite(t) \/ m = "W"
  <2>1. HoldsWrite(t) => HoldsWrite(t)'
    BY <1>1, <1>2, <1>3 DEF HoldsWrite
  <2>2. m = "W" => HoldsWrite(t)'
    BY <1>1, <1>2, <1>3 DEF HoldsWrite
  <2>3. ASSUME HoldsWrite(t)', m # "W" PROVE HoldsWrite(t)
    <3>1. PICK i \in 1 .. (Len(held[t]) + 1) : held'[t][i] = "W"
      BY <2>3, <1>3 DEF HoldsWrite
    <3>2. i # Len(held[t]) + 1
      BY <3>1, <2>3, <1>1, <1>2
    <3>3. i \in 1 .. Len(held[t])
      BY <3>2, <1>1
    <3>. QED
      BY <3>1, <3>3, <1>1, <1>2, <1>3 DEF HoldsWrite
  <2>. QED
    BY <2>1, <2>2, <2>3
<1>5. \A u \in Threads \ {t} : HoldsWrite(u)' <=> HoldsWrite(u)
  BY <1>2 DEF HoldsWrite
<1>6. held'[t] # << >>
  BY <1>1, <1>2
<1>. QED
  BY <1>2, <1>4, <1>5, <1>6

\* Leaving a scope makes nobody a writer, and ends no exclusive scope when the
\* scope left is a shared one.
LEMMA ReleaseHolds ==
  ASSUME held \in [Threads -> Seq(Modes)], NEW t \in Threads, held[t] # << >>, Release(t)
  PROVE  /\ HoldsWrite(t)' => HoldsWrite(t)
         /\ Top(held[t]) # "W" => (HoldsWrite(t) => HoldsWrite(t)')
         /\ \A u \in Threads \ {t} : held'[u] = held[u] /\ (HoldsWrite(u)' <=> HoldsWrite(u))
<1>1. /\ Pop(held[t]) \in Seq(Modes)
      /\ Len(held[t]) \in Nat /\ Len(held[t]) > 0
      /\ Len(Pop(held[t])) = Len(held[t]) - 1
      /\ \A i \in 1 .. (Len(held[t]) - 1) : Pop(held[t])[i] = held[t][i]
  BY PopFacts
<1>2. held'[t] = Pop(held[t]) /\ \A u \in Threads \ {t} : held'[u] = held[u]
  BY DEF Release
<1>3. /\ DOMAIN held[t] = 1 .. Len(held[t])
      /\ DOMAIN held'[t] = 1 .. (Len(held[t]) - 1)
  BY <1>1, <1>2
<1>4. HoldsWrite(t)' => HoldsWrite(t)
  BY <1>1, <1>2, <1>3 DEF HoldsWrite
<1>5. ASSUME Top(held[t]) # "W", HoldsWrite(t) PROVE HoldsWrite(t)'
  <2>1. PICK i \in 1 .. Len(held[t]) : held[t][i] = "W"
    BY <1>5, <1>3 DEF HoldsWrite
  <2>2. i # Len(held[t])
    BY <2>1, <1>5 DEF Top
  <2>3. i \in 1 .. (Len(held[t]) - 1)
    BY <2>2, <1>1
  <2>. QED
    BY <2>1, <2>3, <1>1, <1>2, <1>3 DEF HoldsWrite
<1>6. \A u \in Threads \ {t} : HoldsWrite(u)' <=> HoldsWrite(u)
  BY <1>2 DEF HoldsWrite
<1>. QED
  BY <1>2, <1>4, <1>5, <1>6

-----------------------------------------------------------------------------
(* What the invariant says of one state.                                    *)

\* Every open scope is a token of its mode.
LEMMA OpenScopeIsToken ==
  ASSUME NEW d, HoldsFit(d), IInv(d), NEW t \in Threads, NEW i \in DOMAIN held[t]
  PROVE  /\ held[t][i] \in Modes
         /\ <<t, i>> \in Tokens(held[t][i])
         /\ Cardinality(Tokens(held[t][i])) > 0
<1>1. /\ held[t] \in Seq(Modes) /\ DOMAIN held[t] = 1 .. Len(held[t])
      /\ Len(held[t]) \in Nat /\ Len(held[t]) <= Mod16 /\ Mod16 \in Nat
  BY StateFacts
<1>2. held[t][i] \in Modes /\ i \in 1 .. Mod16
  BY <1>1
<1>3. <<t, i>> \in Tokens(held[t][i])
  BY <1>2 DEF Tokens
<1>. DEFINE toks == Tokens(held[t][i])
<1>4. IsFiniteSet(toks) /\ Cardinality(toks) \in Nat
  BY StateFacts
<1>. HIDE DEF toks
<1>5. toks # {} => Cardinality(toks) # 0
  BY <1>4, FS_EmptySet
<1>. QED
  BY <1>2, <1>3, <1>4, <1>5 DEF toks

\* While a thread is in an exclusive scope no other thread is in any scope, and
\* none is at a point of the methods that only a writer reaches.
LEMMA OnlyWriter ==
  ASSUME NEW d, IInv(d), NEW t \in Threads, HoldsWrite(t)
  PROVE  /\ \A u \in Threads \ {t} : held[u] = << >> /\ ~HoldsWrite(u)
         /\ Lagging = IF pc[t] \in LaggingPCs THEN {t} ELSE {}
<1>1. \A u \in Threads \ {t} : held[u] = << >>
  BY DEF IInv, MutualExclusion
<1>2. ASSUME NEW u \in Threads \ {t} PROVE ~HoldsWrite(u)
  <2>1. held[u] = << >> /\ DOMAIN << >> = {}
    BY <1>1
  <2>. QED
    BY <2>1, Zenon DEF HoldsWrite
<1>3. \A u \in Threads \ {t} : pc[u] \notin LaggingPCs
  BY <1>2 DEF IInv, OwnerBranch, LaggingPCs, OwnerPCs
<1>4. Lagging = IF pc[t] \in LaggingPCs THEN {t} ELSE {}
  BY <1>3 DEF Lagging, LaggingPCs
<1>. QED
  BY <1>1, <1>2, <1>4

\* An owner field of 0 means that nobody is in an exclusive scope, or at a
\* point of the methods that only a writer reaches.
LEMMA UnownedFacts ==
  ASSUME NEW d, IdsFromThreadManager, HoldsFit(d), IInv(d), lockFlag.wr = 0
  PROVE  /\ \A u \in Threads : ~HoldsWrite(u)
         /\ Lagging = {}
<1>1. \A u \in Threads : ThreadId[u] # 0
  BY LockConstants DEF IdsFromThreadManager
<1>2. \A u \in Threads : ~HoldsWrite(u)
  BY <1>1 DEF IInv, OwnerIsWriter
<1>3. Lagging = {}
  BY <1>2 DEF IInv, OwnerBranch, Lagging, OwnerPCs, LaggingPCs
<1>. QED
  BY <1>2, <1>3

\* EMPTY_FLAG means that nobody is in any scope.
LEMMA FreeMeansEmpty ==
  ASSUME NEW d, IdsFromThreadManager, HoldsFit(d), IInv(d), lockFlag = EMPTY_FLAG
  PROVE  /\ \A u \in Threads : held[u] = << >> /\ ~HoldsWrite(u)
         /\ Lagging = {}
<1>1. lockFlag.wr = 0 /\ lockFlag.rd = 0
  BY DEF EMPTY_FLAG
<1>2. /\ \A u \in Threads : ~HoldsWrite(u)
      /\ Lagging = {}
  BY <1>1, UnownedFacts
<1>3. Cardinality(Tokens("R")) = 0
  BY <1>1 DEF IInv, ReadCountIsTokens
<1>4. ASSUME NEW u \in Threads, held[u] # << >> PROVE FALSE
  <2>1. held[u] \in Seq(Modes)
    BY StateFacts
  <2>2. 1 \in DOMAIN held[u]
    BY <1>4, <2>1
  <2>3. held[u][1] \in Modes /\ Cardinality(Tokens(held[u][1])) > 0
    BY <2>2, OpenScopeIsToken
  <2>4. held[u][1] # "W"
    BY <1>2, <2>2 DEF HoldsWrite
  <2>5. held[u][1] = "R"
    BY <2>3, <2>4 DEF Modes
  <2>. QED
    BY <1>3, <2>3, <2>5
<1>. QED
  BY <1>2, <1>4

-----------------------------------------------------------------------------
(* What a step that opens or closes a scope does to the counts.             *)

\* The next state of held and everything the invariant counts in it, after
\* thread t has entered a scope of mode m.
LEMMA AcquireFacts ==
  ASSUME NEW d, HoldsFit(d), IInv(d), NEW t \in Threads, NEW m \in Modes,
         Len(held[t]) < d, Acquire(t, m)
  PROVE  /\ held' \in [Threads -> Seq(Modes)]
         /\ Len(held'[t]) <= d
         /\ Cardinality(Tokens(m)') = Cardinality(Tokens(m)) + 1
         /\ \A n \in Modes \ {m} : Cardinality(Tokens(n)') = Cardinality(Tokens(n))
         /\ \A n \in Modes : Cardinality(Tokens(n)') < Mod16
<1>1. held' = Pushed(held, t, m)
  BY DEF Acquire, Pushed
<1>2. d \in Nat /\ d < Mod16 /\ Mod16 \in Nat
  BY DepthFits, LockConstants
<1>3. /\ held \in [Threads -> Seq(Modes)] /\ Len(held[t]) \in Nat
      /\ \A u \in Threads : Len(held[u]) <= d
      /\ IsFiniteSet(TokensOf(held, m))
      /\ \A n : Tokens(n) = TokensOf(held, n)
  BY StateFacts
<1>4. Len(held[t]) + 1 <= Mod16
  BY <1>2, <1>3
<1>5. /\ held' \in [Threads -> Seq(Modes)]
      /\ held'[t] = Append(held[t], m) /\ \A u \in Threads \ {t} : held'[u] = held[u]
      /\ Cardinality(TokensOf(held', m)) = Cardinality(TokensOf(held, m)) + 1
      /\ \A n \in Modes \ {m} : TokensOf(held', n) = TokensOf(held, n)
  BY <1>1, <1>3, <1>4, AcquireTokens
<1>6. Len(held'[t]) <= d
  BY <1>2, <1>3, <1>5, AppendFacts
<1>7. \A u \in Threads : Len(held'[u]) <= d
  BY <1>3, <1>5, <1>6
<1>8. \A n : Tokens(n)' = TokensOf(held', n)
  BY DEF Tokens, TokensOf
<1>9. Fits(held', d)
  BY <1>5, <1>7 DEF Fits
<1>10. \A n : Cardinality(TokensOf(held', n)) < Mod16
  BY <1>9, TokensBound
<1>. QED
  BY <1>3, <1>5, <1>6, <1>8, <1>10

\* The same after thread t has left its innermost scope, of mode m.
LEMMA ReleaseFacts ==
  ASSUME NEW d, HoldsFit(d), IInv(d), NEW t \in Threads, NEW m \in Modes,
         held[t] # << >>, Top(held[t]) = m, Release(t)
  PROVE  /\ held' \in [Threads -> Seq(Modes)]
         /\ Len(held'[t]) <= d
         /\ Cardinality(Tokens(m)) > 0
         /\ Cardinality(Tokens(m)') = Cardinality(Tokens(m)) - 1
         /\ \A n \in Modes \ {m} : Cardinality(Tokens(n)') = Cardinality(Tokens(n))
<1>1. held' = Popped(held, t)
  BY DEF Release, Popped
<1>2. d \in Nat
  BY DEF HoldsFit
<1>3. /\ held \in [Threads -> Seq(Modes)] /\ Len(held[t]) \in Nat
      /\ Len(held[t]) <= d /\ Len(held[t]) <= Mod16
      /\ IsFiniteSet(TokensOf(held, m))
      /\ \A n : Tokens(n) = TokensOf(held, n)
  BY StateFacts
<1>4. /\ held' \in [Threads -> Seq(Modes)]
      /\ held'[t] = Pop(held[t])
      /\ Cardinality(TokensOf(held', m)) = Cardinality(TokensOf(held, m)) - 1
      /\ \A n \in Modes \ {m} : TokensOf(held', n) = TokensOf(held, n)
  BY <1>1, <1>3, ReleaseTokens, ZenonT(60)
<1>5. Len(held'[t]) <= d
  BY <1>2, <1>3, <1>4, PopFacts
<1>6. \A n : Tokens(n)' = TokensOf(held', n)
  BY DEF Tokens, TokensOf
<1>7. Cardinality(Tokens(m)) > 0
  <2>1. Len(held[t]) \in DOMAIN held[t] /\ held[t][Len(held[t])] = m
    BY <1>3 DEF Top
  <2>. QED
    BY <2>1, OpenScopeIsToken
<1>. QED
  BY <1>3, <1>4, <1>5, <1>6, <1>7

-----------------------------------------------------------------------------
(* Every step preserves the invariant.                                      *)

\* The constructors of Lock and its guards: nobody is in a scope.
LEMMA InitEstablishes ==
  ASSUME NEW d, IdsFromThreadManager, HoldsFit(d), Init
  PROVE  IInv(d)
<1>1. /\ lockFlag.wr = 0 /\ lockFlag.rd = 0 /\ writeCount = 0 /\ crashed = "none"
      /\ \A t \in Threads : pc[t] = "idle" /\ held[t] = << >>
  BY DEF Init, EMPTY_FLAG
<1>2. ASSUME NEW t \in Threads PROVE ~HoldsWrite(t)
  <2>1. held[t] = << >> /\ DOMAIN << >> = {}
    BY <1>1
  <2>. QED
    BY <2>1, Zenon DEF HoldsWrite
<1>3. \A m : Tokens(m) = {}
  BY <1>1 DEF Tokens
<1>4. Lagging = {}
  BY <1>1 DEF Lagging, LaggingPCs
<1>5. Cardinality({}) = 0
  BY FS_EmptySet
<1>6. TypeOK
  BY LockConstants DEF Init, TypeOK, EMPTY_FLAG, PCs, CrashReasons
<1>7. DepthBound(d)
  <2>1. ASSUME NEW t \in Threads PROVE Len(held[t]) <= d /\ pc[t] \notin Entering
    <3>1. pc[t] = "idle" /\ Len(held[t]) = 0
      BY <1>1
    <3>2. d \in Nat
      BY DEF HoldsFit
    <3>3. "idle" \notin Entering
      BY DEF Entering
    <3>4. Len(held[t]) <= d
      BY <3>1, <3>2
    <3>. QED
      BY <3>1, <3>3, <3>4
  <2>. QED
    BY <2>1, Zenon DEF DepthBound
<1>8. OwnerIsWriter
  BY <1>1, <1>2, LockConstants DEF OwnerIsWriter, IdsFromThreadManager
<1>9. ReadCountIsTokens /\ WriteCountIsTokens
  <2>1. Cardinality(Tokens("R")) = 0 /\ Cardinality(Tokens("W")) = 0 /\ Cardinality(Lagging) = 0
    BY <1>3, <1>4, <1>5, Zenon
  <2>. QED
    BY <1>1, <2>1 DEF ReadCountIsTokens, WriteCountIsTokens
<1>10. OwnerBranch /\ Unlocking /\ Storing
  BY <1>1 DEF OwnerBranch, Unlocking, Storing, OwnerPCs
<1>11. MutualExclusion /\ UnlockNeverBlamesCaller
  BY <1>1, <1>2 DEF MutualExclusion, UnlockNeverBlamesCaller
<1>. QED
  BY <1>6, <1>7, <1>8, <1>9, <1>10, <1>11 DEF IInv

\* A FORCED_CRASH that is a timeout, or that WriteUnlock makes of a scope
\* opened out of order, leaves everything else as it is.
LEMMA CrashPreserves ==
  ASSUME NEW d, IInv(d), NEW why \in CrashReasons, FORCED_CRASH(why),
         why # "ReadUnlock_multiple",
         why = "WriteUnlock_order" =>
            \E t \in Threads : \E i, j \in DOMAIN held[t] :
               i < j /\ held[t][i] = "R" /\ held[t][j] = "W"
  PROVE  IInv(d)'
<1>1. /\ crashed' = why
      /\ UNCHANGED <<lockFlag, writeCount, pc, expected, held>>
  BY DEF FORCED_CRASH
<1>2. TypeOK'
  BY <1>1 DEF IInv, TypeOK
<1>3. DepthBound(d)' /\ OwnerIsWriter' /\ OwnerBranch' /\ Unlocking' /\ Storing'
  BY <1>1 DEF IInv, DepthBound, OwnerIsWriter, OwnerBranch, Unlocking, Storing,
       HoldsWrite, Entering, OwnerPCs
<1>4. ReadCountIsTokens' /\ WriteCountIsTokens'
  BY <1>1 DEF IInv, ReadCountIsTokens, WriteCountIsTokens, Tokens, Lagging, LaggingPCs
<1>5. MutualExclusion'
  BY <1>1 DEF IInv, MutualExclusion, HoldsWrite
<1>6. UnlockNeverBlamesCaller'
  BY <1>1 DEF UnlockNeverBlamesCaller
<1>. QED
  BY <1>2, <1>3, <1>4, <1>5, <1>6 DEF IInv

\* A step of thread t to x that only loads and compares keeps the invariant
\* when x says nothing of t that is not so.
LEMMA QuietPreserves ==
  ASSUME NEW d, HoldsFit(d), IInv(d), crashed = "none",
         NEW t \in Threads, NEW x \in PCs \ LaggingPCs,
         pc[t] \notin LaggingPCs, pc' = [pc EXCEPT ![t] = x],
         expected' \in [Threads -> 0 .. (Mod16 - 1)],
         UNCHANGED <<lockFlag, writeCount, held, crashed>>,
         x \in Entering => Len(held[t]) < d,
         x \in OwnerPCs => HoldsWrite(t),
         x = "write_uncount" => held[t] # << >> /\ Top(held[t]) = "W" /\ lockFlag.rd = 0
  PROVE  IInv(d)'
<1>1. pc \in [Threads -> PCs] /\ Len(held[t]) <= d /\ IsFiniteSet(Lagging)
  BY StateFacts
<1>2. HoldsWrite(t) <=> HoldsWrite(t)'
  BY DEF HoldsWrite
<1>3. TypeOK'
  <2>1. pc' \in [Threads -> PCs]
    BY <1>1
  <2>. QED
    BY <2>1 DEF IInv, TypeOK
<1>4. DepthBound(d)' /\ OwnerBranch' /\ Unlocking' /\ Storing'
  BY <1>1, <1>2, KnowledgeKept DEF LaggingPCs
<1>5. OwnerIsWriter'
  BY DEF IInv, OwnerIsWriter, HoldsWrite
<1>6. ReadCountIsTokens'
  BY DEF IInv, ReadCountIsTokens, Tokens
<1>7. WriteCountIsTokens'
  <2>1. Cardinality(Lagging') = Cardinality(Lagging)
    BY <1>1, LaggingFacts
  <2>2. Tokens("W")' = Tokens("W")
    BY DEF Tokens
  <2>. QED
    BY <2>1, <2>2 DEF IInv, WriteCountIsTokens
<1>8. MutualExclusion'
  BY DEF IInv, MutualExclusion, HoldsWrite
<1>9. UnlockNeverBlamesCaller'
  BY DEF UnlockNeverBlamesCaller
<1>. QED
  BY <1>3, <1>4, <1>5, <1>6, <1>7, <1>8, <1>9 DEF IInv

\* The nestings the callers build leave room for the scope about to be opened.
LEMMA RoomToNest ==
  ASSUME NEW d, HoldsFit(d), IInv(d), NEW t \in Threads, NEW m \in Modes, MayNest(t, m)
  PROVE  Len(held[t]) < d
<1>1. held[t] \in Seq(Modes) /\ d \in Nat
  BY StateFacts DEF HoldsFit
<1>2. Len(Append(held[t], m)) = Len(held[t]) + 1 /\ Len(held[t]) \in Nat
  BY <1>1, AppendFacts
<1>3. Len(Append(held[t], m)) <= d
  BY DEF MayNest, HoldsFit
<1>. QED
  BY <1>1, <1>2, <1>3

\* WriteLock's first load: the branch of the owner is taken by the writer.
LEMMA WriteLockLoadPreserves ==
  ASSUME NEW d, HoldsFit(d), IInv(d), crashed = "none", NEW t \in Threads, WriteLockLoad(t)
  PROVE  IInv(d)'
<1>1. Len(held[t]) < d
  BY RoomToNest DEF WriteLockLoad, Modes
<1>2. lockFlag.wr = ThreadId[t] => HoldsWrite(t)
  BY DEF IInv, OwnerIsWriter
<1>3. expected' \in [Threads -> 0 .. (Mod16 - 1)]
  BY DEF IInv, TypeOK, WriteLockLoad
<1>. DEFINE x == IF lockFlag.wr = ThreadId[t] THEN "write_recurse" ELSE "write_cas"
<1>4. x \in PCs \ LaggingPCs /\ x # "write_uncount"
  BY DEF PCs, LaggingPCs
<1>5. x \in OwnerPCs => HoldsWrite(t)
  BY <1>2 DEF OwnerPCs
<1>6. pc[t] \notin LaggingPCs /\ pc' = [pc EXCEPT ![t] = x]
  BY DEF WriteLockLoad, Goto, LaggingPCs
<1>7. UNCHANGED <<lockFlag, writeCount, held, crashed>>
  BY DEF WriteLockLoad
<1>. HIDE DEF x
<1>. QED
  BY <1>1, <1>3, <1>4, <1>5, <1>6, <1>7, QuietPreserves

\* ReadLock's first load: the branch of the owner is taken by the writer.
LEMMA ReadLockLoadPreserves ==
  ASSUME NEW d, HoldsFit(d), IInv(d), crashed = "none", NEW t \in Threads, ReadLockLoad(t)
  PROVE  IInv(d)'
<1>1. Len(held[t]) < d
  BY RoomToNest DEF ReadLockLoad, Modes
<1>2. lockFlag.wr = ThreadId[t] => HoldsWrite(t)
  BY DEF IInv, OwnerIsWriter
<1>3. expected' \in [Threads -> 0 .. (Mod16 - 1)]
  BY DEF IInv, TypeOK, ReadLockLoad
<1>. DEFINE x == IF lockFlag.wr = ThreadId[t] THEN "read_add" ELSE "read_load"
<1>4. x \in PCs \ LaggingPCs /\ x # "write_uncount"
  BY DEF PCs, LaggingPCs
<1>5. x \in OwnerPCs => HoldsWrite(t)
  BY <1>2 DEF OwnerPCs
<1>6. pc[t] \notin LaggingPCs /\ pc' = [pc EXCEPT ![t] = x]
  BY DEF ReadLockLoad, Goto, LaggingPCs
<1>7. UNCHANGED <<lockFlag, writeCount, held, crashed>>
  BY DEF ReadLockLoad
<1>. HIDE DEF x
<1>. QED
  BY <1>1, <1>3, <1>4, <1>5, <1>6, <1>7, QuietPreserves

\* The load of the count to expect: it may be stale as soon as it is made, so
\* the invariant says nothing of it.
LEMMA ReadLockExpectPreserves ==
  ASSUME NEW d, HoldsFit(d), IInv(d), crashed = "none", NEW t \in Threads, ReadLockExpect(t)
  PROVE  IInv(d)'
<1>1. Len(held[t]) < d
  BY DEF IInv, DepthBound, ReadLockExpect, Entering
<1>2. expected' \in [Threads -> 0 .. (Mod16 - 1)]
  BY DEF IInv, TypeOK, ReadLockExpect
<1>3. /\ pc[t] \notin LaggingPCs /\ pc' = [pc EXCEPT ![t] = "read_cas"]
      /\ UNCHANGED <<lockFlag, writeCount, held, crashed>>
  BY DEF ReadLockExpect, Goto, LaggingPCs
<1>4. /\ "read_cas" \in PCs \ LaggingPCs /\ "read_cas" \notin OwnerPCs
      /\ "read_cas" # "write_uncount"
  BY DEF PCs, LaggingPCs, OwnerPCs
<1>. QED
  BY <1>1, <1>2, <1>3, <1>4, QuietPreserves

\* WriteUnlock's check: it crashes only when t has a shared scope open below
\* the exclusive one, for while t is the writer nobody else has any.
LEMMA WriteUnlockCheckPreserves ==
  ASSUME NEW d, HoldsFit(d), IInv(d), crashed = "none", NEW t \in Threads, WriteUnlockCheck(t)
  PROVE  IInv(d)'
<1>1. /\ held[t] # << >> /\ Top(held[t]) = "W" /\ pc[t] = "idle"
      /\ held[t] \in Seq(Modes) /\ Len(held[t]) \in Nat /\ Len(held[t]) <= d
      /\ DOMAIN held[t] = 1 .. Len(held[t])
  BY StateFacts DEF WriteUnlockCheck
<1>2. Len(held[t]) \in DOMAIN held[t] /\ held[t][Len(held[t])] = "W"
  BY <1>1 DEF Top
<1>3. HoldsWrite(t)
  BY <1>2 DEF HoldsWrite
<1>4. CASE lockFlag.rd # 0
  <2>1. Cardinality(Tokens("R")) # 0
    BY <1>4 DEF IInv, ReadCountIsTokens
  <2>2. Tokens("R") # {}
    BY <2>1, FS_EmptySet
  <2>3. PICK k \in Tokens("R") : TRUE
    BY <2>2
  <2>4. k[1] \in Threads /\ k[2] \in DOMAIN held[k[1]] /\ held[k[1]][k[2]] = "R"
    BY <2>3 DEF Tokens
  <2>5. k[1] = t
    <3>1. ASSUME k[1] # t PROVE FALSE
      <4>1. held[k[1]] = << >>
        BY <3>1, <2>4, <1>3, OnlyWriter
      <4>. QED
        BY <4>1, <2>4
    <3>. QED
      BY <3>1
  <2>6. k[2] \in DOMAIN held[t] /\ held[t][k[2]] = "R" /\ k[2] < Len(held[t])
    BY <2>4, <2>5, <1>1, <1>2
  <2>7. FORCED_CRASH("WriteUnlock_order")
    BY <1>4 DEF WriteUnlockCheck
  <2>8. /\ "WriteUnlock_order" \in CrashReasons
        /\ "WriteUnlock_order" # "ReadUnlock_multiple"
    BY DEF CrashReasons
  <2>9. \E u \in Threads : \E i, j \in DOMAIN held[u] :
           i < j /\ held[u][i] = "R" /\ held[u][j] = "W"
    BY <2>6, <1>2
  <2>. QED
    BY <2>7, <2>8, <2>9, CrashPreserves
<1>5. CASE lockFlag.rd = 0
  <2>1. /\ pc' = [pc EXCEPT ![t] = "write_uncount"]
        /\ UNCHANGED <<lockFlag, writeCount, held, crashed>>
        /\ expected' = expected
    BY <1>5 DEF WriteUnlockCheck, Goto
  <2>2. expected' \in [Threads -> 0 .. (Mod16 - 1)]
    BY <2>1 DEF IInv, TypeOK
  <2>3. /\ "write_uncount" \in PCs \ LaggingPCs /\ "write_uncount" \notin Entering
        /\ pc[t] \notin LaggingPCs
    BY <1>1 DEF PCs, LaggingPCs, Entering
  <2>. QED
    BY <1>1, <1>3, <1>5, <2>1, <2>2, <2>3, QuietPreserves
<1>. QED
  BY <1>4, <1>5

\* WriteLock of the owner: one more exclusive scope, one more in writeCount.
LEMMA WriteLockRecursePreserves ==
  ASSUME NEW d, HoldsFit(d), IInv(d), crashed = "none", NEW t \in Threads, WriteLockRecurse(t)
  PROVE  IInv(d)'
<1>1. /\ pc[t] = "write_recurse" /\ pc' = [pc EXCEPT ![t] = "idle"]
      /\ Acquire(t, "W") /\ writeCount' = (writeCount + 1) % Mod16
      /\ UNCHANGED <<lockFlag, expected, crashed>>
  BY DEF WriteLockRecurse, Goto
<1>2. Len(held[t]) < d /\ HoldsWrite(t)
  BY <1>1 DEF IInv, DepthBound, OwnerBranch, Entering, OwnerPCs
<1>3. \A u \in Threads \ {t} : held[u] = << >> /\ ~HoldsWrite(u)
  BY <1>2, OnlyWriter
<1>4. /\ held \in [Threads -> Seq(Modes)] /\ pc \in [Threads -> PCs]
      /\ IsFiniteSet(Lagging) /\ Cardinality(Lagging) \in Nat
      /\ Mod16 \in Nat /\ writeCount \in Nat
      /\ Cardinality(Tokens("W")) \in Nat
  BY StateFacts
<1>5. /\ HoldsWrite(t)'
      /\ \A u \in Threads \ {t} : held'[u] = held[u] /\ (HoldsWrite(u)' <=> HoldsWrite(u))
  BY <1>1, <1>2, <1>4, AcquireHolds DEF Modes
<1>6. /\ held' \in [Threads -> Seq(Modes)] /\ Len(held'[t]) <= d
      /\ Cardinality(Tokens("W")') = Cardinality(Tokens("W")) + 1
      /\ Cardinality(Tokens("R")') = Cardinality(Tokens("R"))
      /\ Cardinality(Tokens("W")') < Mod16
  BY <1>1, <1>2, AcquireFacts DEF Modes
<1>7. Cardinality(Lagging') = Cardinality(Lagging)
  BY <1>1, <1>4, LaggingFacts DEF PCs, LaggingPCs
<1>8. writeCount' = writeCount + 1 /\ writeCount + 1 < Mod16
  <2>1. writeCount + 1 < Mod16
    BY <1>4, <1>6 DEF IInv, WriteCountIsTokens
  <2>2. writeCount + 1 \in Nat
    BY <1>4
  <2>3. (writeCount + 1) % Mod16 = writeCount + 1
    BY <2>1, <2>2, <1>4, ModFacts, Zenon
  <2>. QED
    BY <2>1, <2>3, <1>1, Zenon
<1>9. TypeOK'
  <2>1. pc' \in [Threads -> PCs] /\ writeCount' \in 0 .. (Mod16 - 1)
    BY <1>1, <1>4, <1>8 DEF PCs
  <2>. QED
    BY <2>1, <1>1, <1>6 DEF IInv, TypeOK
<1>10. DepthBound(d)' /\ OwnerBranch' /\ Unlocking' /\ Storing'
  <2>1. "idle" \in PCs \ (Entering \cup OwnerPCs)
    BY DEF PCs, Entering, OwnerPCs
  <2>. QED
    BY <1>1, <1>3, <1>5, <1>6, <2>1, KnowledgeKept
<1>11. OwnerIsWriter'
  BY <1>1, <1>2, <1>5 DEF IInv, OwnerIsWriter
<1>12. ReadCountIsTokens' /\ WriteCountIsTokens'
  <2>1. ReadCountIsTokens'
    BY <1>1, <1>6, Zenon DEF IInv, ReadCountIsTokens
  <2>2. WriteCountIsTokens'
    BY <1>4, <1>6, <1>7, <1>8 DEF IInv, WriteCountIsTokens
  <2>. QED
    BY <2>1, <2>2
<1>13. MutualExclusion'
  BY <1>3, <1>5 DEF MutualExclusion
<1>14. UnlockNeverBlamesCaller'
  BY <1>1 DEF UnlockNeverBlamesCaller
<1>. QED
  BY <1>9, <1>10, <1>11, <1>12, <1>13, <1>14 DEF IInv

\* WriteLock's compare_exchange: it succeeds on EMPTY_FLAG, when nobody is in
\* any scope; writeCount lags behind until the next step of t.
LEMMA WriteLockCasPreserves ==
  ASSUME NEW d, IdsFromThreadManager, HoldsFit(d), IInv(d), crashed = "none",
         NEW t \in Threads, WriteLockCas(t)
  PROVE  IInv(d)'
<1>1. /\ pc[t] = "write_cas" /\ pc' = [pc EXCEPT ![t] = "write_count"]
      /\ Acquire(t, "W") /\ lockFlag = EMPTY_FLAG
      /\ lockFlag' = [wr |-> ThreadId[t] % Mod16, rd |-> 0]
      /\ UNCHANGED <<writeCount, expected, crashed>>
  BY DEF WriteLockCas, Goto
<1>2. Len(held[t]) < d
  BY <1>1 DEF IInv, DepthBound, Entering
<1>3. /\ \A u \in Threads : held[u] = << >> /\ ~HoldsWrite(u)
      /\ Lagging = {}
  BY <1>1, FreeMeansEmpty
<1>4. /\ held \in [Threads -> Seq(Modes)] /\ pc \in [Threads -> PCs]
      /\ IsFiniteSet(Lagging) /\ Cardinality(Lagging) \in Nat
      /\ Mod16 \in Nat /\ writeCount \in Nat
      /\ Cardinality(Tokens("W")) \in Nat
  BY StateFacts
<1>5. /\ HoldsWrite(t)'
      /\ \A u \in Threads \ {t} : held'[u] = held[u] /\ ~HoldsWrite(u)'
  BY <1>1, <1>3, <1>4, AcquireHolds DEF Modes
<1>6. /\ held' \in [Threads -> Seq(Modes)] /\ Len(held'[t]) <= d
      /\ Cardinality(Tokens("W")') = Cardinality(Tokens("W")) + 1
      /\ Cardinality(Tokens("R")') = Cardinality(Tokens("R"))
  BY <1>1, <1>2, AcquireFacts DEF Modes
<1>7. Cardinality(Lagging') = Cardinality(Lagging) + 1
  BY <1>1, <1>4, LaggingFacts DEF PCs, LaggingPCs
<1>8. /\ \A u \in Threads : ThreadId[u] \in 1 .. (Mod16 - 1)
      /\ \A u \in Threads \ {t} : ThreadId[u] # ThreadId[t]
      /\ lockFlag'.rd = 0 /\ lockFlag.rd = 0
      /\ lockFlag'.wr = ThreadId[t]
  <2>1. /\ \A u \in Threads : ThreadId[u] \in 1 .. (Mod16 - 1)
        /\ \A u \in Threads \ {t} : ThreadId[u] # ThreadId[t]
    BY DEF IdsFromThreadManager
  <2>2. ThreadId[t] % Mod16 = ThreadId[t]
    <3>1. ThreadId[t] \in Nat /\ ThreadId[t] < Mod16
      BY <2>1, <1>4
    <3>. QED
      BY <3>1, <1>4, ModFacts, Zenon
  <2>. QED
    BY <1>1, <2>1, <2>2 DEF EMPTY_FLAG
<1>9. TypeOK'
  <2>1. pc' \in [Threads -> PCs]
    BY <1>1, <1>4 DEF PCs
  <2>2. lockFlag' \in [wr : 0 .. (Mod16 - 1), rd : 0 .. (Mod16 - 1)]
    <3>1. ThreadId[t] % Mod16 = ThreadId[t]
      BY <1>1, <1>8
    <3>. QED
      BY <3>1, <1>1, <1>4, <1>8
  <2>. QED
    BY <2>1, <2>2, <1>1, <1>6 DEF IInv, TypeOK
<1>10. DepthBound(d)' /\ OwnerBranch' /\ Unlocking' /\ Storing'
  <2>1. "write_count" \in PCs \ Entering
    BY DEF PCs, Entering
  <2>. QED
    BY <1>1, <1>3, <1>5, <1>6, <2>1, KnowledgeKept
<1>11. OwnerIsWriter'
  BY <1>5, <1>8 DEF OwnerIsWriter
<1>12. ReadCountIsTokens' /\ WriteCountIsTokens'
  <2>1. ReadCountIsTokens'
    BY <1>6, <1>8, Zenon DEF IInv, ReadCountIsTokens
  <2>2. writeCount' = writeCount
    BY <1>1
  <2>3. WriteCountIsTokens'
    BY <2>2, <1>4, <1>6, <1>7 DEF IInv, WriteCountIsTokens
  <2>. QED
    BY <2>1, <2>3
<1>13. MutualExclusion'
  BY <1>3, <1>5 DEF MutualExclusion
<1>14. UnlockNeverBlamesCaller'
  BY <1>1 DEF UnlockNeverBlamesCaller
<1>. QED
  BY <1>9, <1>10, <1>11, <1>12, <1>13, <1>14 DEF IInv

\* The count that follows the compare_exchange: it catches up, and it does not
\* wrap, for it stays at most the number of exclusive scopes.
LEMMA WriteLockCountPreserves ==
  ASSUME NEW d, HoldsFit(d), IInv(d), crashed = "none", NEW t \in Threads, WriteLockCount(t)
  PROVE  IInv(d)'
<1>1. /\ pc[t] = "write_count" /\ pc' = [pc EXCEPT ![t] = "idle"]
      /\ writeCount' = (writeCount + 1) % Mod16
      /\ UNCHANGED <<lockFlag, expected, held, crashed>>
  BY DEF WriteLockCount, Goto
<1>2. HoldsWrite(t)
  BY <1>1 DEF IInv, OwnerBranch, OwnerPCs
<1>3. /\ \A u \in Threads \ {t} : held[u] = << >> /\ ~HoldsWrite(u)
      /\ Lagging = {t}
  BY <1>1, <1>2, OnlyWriter DEF LaggingPCs
<1>4. /\ held \in [Threads -> Seq(Modes)] /\ pc \in [Threads -> PCs]
      /\ IsFiniteSet(Lagging) /\ Len(held[t]) <= d
      /\ Mod16 \in Nat /\ writeCount \in Nat
      /\ Cardinality(Tokens("W")) \in Nat /\ Cardinality(Tokens("W")) < Mod16
  BY StateFacts
<1>5. /\ \A u \in Threads : HoldsWrite(u)' <=> HoldsWrite(u)
      /\ \A m : Tokens(m)' = Tokens(m)
  BY <1>1 DEF HoldsWrite, Tokens
<1>6. Cardinality(Lagging) = 1 /\ Cardinality(Lagging') = 0
  <2>1. Cardinality(Lagging) = 1
    BY <1>3, FS_Singleton
  <2>2. Cardinality(Lagging') = Cardinality(Lagging) - 1
    BY <1>1, <1>4, LaggingFacts DEF PCs, LaggingPCs
  <2>. QED
    BY <2>1, <2>2
<1>7. writeCount + 1 = Cardinality(Tokens("W"))
  BY <1>4, <1>6 DEF IInv, WriteCountIsTokens
<1>8. writeCount' = writeCount + 1
  BY <1>1, <1>4, <1>7, ModFacts
<1>9. TypeOK'
  <2>1. pc' \in [Threads -> PCs] /\ writeCount' \in 0 .. (Mod16 - 1)
    BY <1>1, <1>4, <1>7, <1>8 DEF PCs
  <2>. QED
    BY <2>1, <1>1 DEF IInv, TypeOK
<1>10. DepthBound(d)' /\ OwnerBranch' /\ Unlocking' /\ Storing'
  <2>1. "idle" \in PCs \ (Entering \cup OwnerPCs)
    BY DEF PCs, Entering, OwnerPCs
  <2>. QED
    BY <1>1, <1>3, <1>4, <2>1, KnowledgeKept
<1>11. OwnerIsWriter' /\ MutualExclusion'
  BY <1>1, <1>5 DEF IInv, OwnerIsWriter, MutualExclusion
<1>12. ReadCountIsTokens' /\ WriteCountIsTokens'
  <2>1. ReadCountIsTokens'
    BY <1>1, <1>5, Zenon DEF IInv, ReadCountIsTokens
  <2>2. WriteCountIsTokens'
    BY <1>4, <1>5, <1>6, <1>7, <1>8 DEF WriteCountIsTokens
  <2>. QED
    BY <2>1, <2>2
<1>13. UnlockNeverBlamesCaller'
  BY <1>1 DEF UnlockNeverBlamesCaller
<1>. QED
  BY <1>9, <1>10, <1>11, <1>12, <1>13 DEF IInv

\* WriteUnlock's count: down to 0 exactly when the scope left is the last
\* exclusive one, and otherwise t stays the writer.
LEMMA WriteUnlockCountPreserves ==
  ASSUME NEW d, HoldsFit(d), IInv(d), crashed = "none", NEW t \in Threads, WriteUnlockCount(t)
  PROVE  IInv(d)'
<1>1. /\ pc[t] = "write_uncount"
      /\ writeCount' = (writeCount + Mod16 - 1) % Mod16
      /\ UNCHANGED <<lockFlag, expected, crashed>>
  BY DEF WriteUnlockCount
<1>2. /\ HoldsWrite(t) /\ held[t] # << >> /\ Top(held[t]) = "W" /\ lockFlag.rd = 0
  BY <1>1 DEF IInv, OwnerBranch, Unlocking, OwnerPCs
<1>3. /\ \A u \in Threads \ {t} : held[u] = << >> /\ ~HoldsWrite(u)
      /\ Lagging = {}
  BY <1>1, <1>2, OnlyWriter DEF LaggingPCs
<1>4. /\ held \in [Threads -> Seq(Modes)] /\ pc \in [Threads -> PCs]
      /\ IsFiniteSet(Lagging) /\ Len(held[t]) <= d
      /\ Mod16 \in Nat /\ writeCount \in Nat /\ writeCount < Mod16
      /\ Cardinality(Tokens("W")) \in Nat
  BY StateFacts
<1>5. Cardinality(Lagging) = 0 /\ Cardinality(Tokens("W")) > 0
  <2>1. Len(held[t]) \in DOMAIN held[t] /\ held[t][Len(held[t])] = "W"
    BY <1>2, <1>4 DEF Top
  <2>2. Cardinality(Tokens("W")) > 0
    BY <2>1, OpenScopeIsToken
  <2>. QED
    BY <2>2, <1>3, FS_EmptySet
<1>6. writeCount = Cardinality(Tokens("W"))
  BY <1>4, <1>5 DEF IInv, WriteCountIsTokens
<1>7. writeCount' = writeCount - 1
  BY <1>1, <1>4, <1>5, <1>6, ModFacts, Zenon
<1>8. writeCount' \in 0 .. (Mod16 - 1)
  BY <1>4, <1>5, <1>6, <1>7
<1>9. CASE writeCount' = 0
  <2>1. /\ pc' = [pc EXCEPT ![t] = "write_store"]
        /\ held' = held
    BY <1>9 DEF WriteUnlockCount, Goto
  <2>2. /\ \A u \in Threads : HoldsWrite(u)' <=> HoldsWrite(u)
        /\ \A m : Tokens(m)' = Tokens(m)
    BY <2>1 DEF HoldsWrite, Tokens
  <2>3. Cardinality(Lagging') = Cardinality(Lagging) + 1
    BY <1>1, <1>4, <2>1, LaggingFacts DEF PCs, LaggingPCs
  <2>4. TypeOK'
    <3>1. pc' \in [Threads -> PCs]
      BY <1>4, <2>1 DEF PCs
    <3>. QED
      BY <3>1, <2>1, <1>1, <1>8 DEF IInv, TypeOK
  <2>5. DepthBound(d)' /\ OwnerBranch' /\ Unlocking' /\ Storing'
    <3>1. "write_store" \in PCs \ Entering
      BY DEF PCs, Entering
    <3>. QED
      BY <3>1, <1>1, <1>2, <1>3, <1>4, <1>9, <2>1, <2>2, KnowledgeKept
  <2>6. OwnerIsWriter' /\ MutualExclusion'
    BY <1>1, <2>1, <2>2 DEF IInv, OwnerIsWriter, MutualExclusion
  <2>7. ReadCountIsTokens'
    BY <1>1, <2>2 DEF IInv, ReadCountIsTokens
  <2>8. WriteCountIsTokens'
    BY <1>4, <1>5, <1>6, <1>7, <2>2, <2>3 DEF WriteCountIsTokens
  <2>9. UnlockNeverBlamesCaller'
    BY <1>1 DEF UnlockNeverBlamesCaller
  <2>. QED
    BY <2>4, <2>5, <2>6, <2>7, <2>8, <2>9 DEF IInv
<1>10. CASE writeCount' # 0
  <2>1. /\ pc' = [pc EXCEPT ![t] = "idle"]
        /\ Release(t)
    BY <1>10 DEF WriteUnlockCount, Goto
  <2>2. /\ held' \in [Threads -> Seq(Modes)] /\ Len(held'[t]) <= d
        /\ Cardinality(Tokens("W")') = Cardinality(Tokens("W")) - 1
        /\ Cardinality(Tokens("R")') = Cardinality(Tokens("R"))
    BY <1>2, <2>1, ReleaseFacts DEF Modes
  <2>3. /\ HoldsWrite(t)' => HoldsWrite(t)
        /\ \A u \in Threads \ {t} : held'[u] = held[u] /\ (HoldsWrite(u)' <=> HoldsWrite(u))
    BY <1>2, <1>4, <2>1, ReleaseHolds
  <2>4. HoldsWrite(t)'
    <3>1. Cardinality(Tokens("W")') # 0
      BY <1>4, <1>6, <1>7, <1>10, <2>2
    <3>2. Tokens("W")' # {}
      BY <3>1, FS_EmptySet
    <3>3. PICK k \in Tokens("W")' : TRUE
      BY <3>2
    <3>4. k[1] \in Threads /\ HoldsWrite(k[1])'
      BY <3>3 DEF Tokens, HoldsWrite
    <3>. QED
      BY <3>4, <2>3, <1>3
  <2>5. Cardinality(Lagging') = Cardinality(Lagging)
    BY <1>1, <1>4, <2>1, LaggingFacts DEF PCs, LaggingPCs
  <2>6. TypeOK'
    <3>1. pc' \in [Threads -> PCs]
      BY <1>4, <2>1 DEF PCs
    <3>. QED
      BY <3>1, <2>2, <1>1, <1>8 DEF IInv, TypeOK
  <2>7. DepthBound(d)' /\ OwnerBranch' /\ Unlocking' /\ Storing'
    <3>1. "idle" \in PCs \ (Entering \cup OwnerPCs)
      BY DEF PCs, Entering, OwnerPCs
    <3>. QED
      BY <3>1, <1>3, <2>1, <2>2, <2>3, KnowledgeKept
  <2>8. OwnerIsWriter'
    BY <1>1, <1>2, <2>3, <2>4 DEF IInv, OwnerIsWriter
  <2>9. MutualExclusion'
    BY <1>3, <2>3 DEF MutualExclusion
  <2>10. ReadCountIsTokens'
    BY <1>1, <2>2, Zenon DEF IInv, ReadCountIsTokens
  <2>11. WriteCountIsTokens'
    BY <1>4, <1>5, <1>6, <1>7, <2>2, <2>5 DEF WriteCountIsTokens
  <2>12. UnlockNeverBlamesCaller'
    BY <1>1 DEF UnlockNeverBlamesCaller
  <2>. QED
    BY <2>6, <2>7, <2>8, <2>9, <2>10, <2>11, <2>12 DEF IInv
<1>. QED
  BY <1>9, <1>10

\* WriteUnlock's store: the scope that ends is the only exclusive one, and no
\* shared one is open, so EMPTY_FLAG says what is the case.
LEMMA WriteUnlockStorePreserves ==
  ASSUME NEW d, IdsFromThreadManager, HoldsFit(d), IInv(d), crashed = "none",
         NEW t \in Threads, WriteUnlockStore(t)
  PROVE  IInv(d)'
<1>1. /\ pc[t] = "write_store" /\ pc' = [pc EXCEPT ![t] = "idle"]
      /\ lockFlag' = EMPTY_FLAG /\ Release(t)
      /\ UNCHANGED <<writeCount, expected, crashed>>
  BY DEF WriteUnlockStore, Goto
<1>2. /\ HoldsWrite(t) /\ held[t] # << >> /\ Top(held[t]) = "W"
      /\ lockFlag.rd = 0 /\ writeCount = 0
  BY <1>1 DEF IInv, OwnerBranch, Unlocking, Storing, OwnerPCs
<1>3. /\ \A u \in Threads \ {t} : held[u] = << >> /\ ~HoldsWrite(u)
      /\ Lagging = {t}
  BY <1>1, <1>2, OnlyWriter DEF LaggingPCs
<1>4. /\ held \in [Threads -> Seq(Modes)] /\ pc \in [Threads -> PCs]
      /\ IsFiniteSet(Lagging) /\ Mod16 \in Nat /\ Mod16 > 0
      /\ Cardinality(Tokens("W")) \in Nat
      /\ IsFiniteSet(TokensOf(held', "W"))
  <2>1. held' \in [Threads -> Seq(Modes)] /\ Len(held'[t]) <= d
    BY <1>1, <1>2, ReleaseFacts DEF Modes
  <2>2. \A u \in Threads \ {t} : held'[u] = held[u]
    BY <1>1 DEF Release
  <2>3. Fits(held', d)
    BY <2>1, <2>2, StateFacts DEF Fits
  <2>. QED
    BY <2>3, StateFacts, TokensBound
<1>5. /\ held' \in [Threads -> Seq(Modes)] /\ Len(held'[t]) <= d
      /\ Cardinality(Tokens("W")') = Cardinality(Tokens("W")) - 1
      /\ Cardinality(Tokens("R")') = Cardinality(Tokens("R"))
      /\ \A u \in Threads \ {t} : held'[u] = held[u] /\ (HoldsWrite(u)' <=> HoldsWrite(u))
  BY <1>1, <1>2, <1>4, ReleaseFacts, ReleaseHolds DEF Modes
<1>6. Cardinality(Lagging) = 1 /\ Cardinality(Lagging') = 0
  <2>1. Cardinality(Lagging) = 1
    BY <1>3, FS_Singleton
  <2>2. Cardinality(Lagging') = Cardinality(Lagging) - 1
    BY <1>1, <1>4, LaggingFacts DEF PCs, LaggingPCs
  <2>. QED
    BY <2>1, <2>2
<1>7. Cardinality(Tokens("W")') = 0
  BY <1>2, <1>4, <1>5, <1>6 DEF IInv, WriteCountIsTokens
<1>8. \A u \in Threads : ~HoldsWrite(u)'
  <2>1. Tokens("W")' = {}
    <3>1. Tokens("W")' = TokensOf(held', "W")
      BY DEF Tokens, TokensOf
    <3>. QED
      BY <3>1, <1>4, <1>7, FS_EmptySet
  <2>2. ASSUME HoldsWrite(t)' PROVE FALSE
    <3>1. PICK i \in DOMAIN held'[t] : held'[t][i] = "W"
      BY <2>2 DEF HoldsWrite
    <3>2. d \in Nat /\ d < Mod16
      BY DepthFits
    <3>3. i \in 1 .. Mod16
      <4>1. DOMAIN held'[t] = 1 .. Len(held'[t]) /\ Len(held'[t]) \in Nat
        BY <1>5
      <4>. QED
        BY <4>1, <3>2, <1>4, <1>5
    <3>4. <<t, i>> \in Tokens("W")'
      BY <3>1, <3>3 DEF Tokens
    <3>. QED
      BY <3>4, <2>1
  <2>. QED
    BY <2>2, <1>3, <1>5
<1>9. lockFlag'.wr = 0 /\ lockFlag'.rd = 0
  BY <1>1 DEF EMPTY_FLAG
<1>10. TypeOK'
  <2>1. pc' \in [Threads -> PCs]
    BY <1>1, <1>4 DEF PCs
  <2>2. lockFlag' \in [wr : 0 .. (Mod16 - 1), rd : 0 .. (Mod16 - 1)]
    BY <1>1, <1>4 DEF EMPTY_FLAG
  <2>. QED
    BY <2>1, <2>2, <1>1, <1>5 DEF IInv, TypeOK
<1>11. DepthBound(d)' /\ OwnerBranch' /\ Unlocking' /\ Storing'
  <2>1. "idle" \in PCs \ (Entering \cup OwnerPCs)
    BY DEF PCs, Entering, OwnerPCs
  <2>. QED
    BY <1>1, <1>3, <1>5, <2>1, KnowledgeKept
<1>12. OwnerIsWriter'
  <2>1. \A u \in Threads : ThreadId[u] # 0
    BY LockConstants DEF IdsFromThreadManager
  <2>. QED
    BY <2>1, <1>8, <1>9 DEF OwnerIsWriter
<1>13. ReadCountIsTokens'
  BY <1>2, <1>5, <1>9, Zenon DEF IInv, ReadCountIsTokens
<1>14. WriteCountIsTokens'
  BY <1>1, <1>2, <1>6, <1>7 DEF WriteCountIsTokens
<1>15. MutualExclusion'
  BY <1>8 DEF MutualExclusion
<1>16. UnlockNeverBlamesCaller'
  BY <1>1 DEF UnlockNeverBlamesCaller
<1>. QED
  BY <1>10, <1>11, <1>12, <1>13, <1>14, <1>15, <1>16 DEF IInv

\* A shared scope is opened, by the owner's fetch_add or by the successful
\* compare_exchange, when no other thread is the writer: the read count goes up
\* by one and does not carry into the owner field.
LEMMA SharedScopeOpened ==
  ASSUME NEW d, HoldsFit(d), IInv(d), crashed = "none", NEW t \in Threads,
         pc[t] \in {"read_add", "read_cas"}, pc' = [pc EXCEPT ![t] = "idle"],
         Acquire(t, "R"), lockFlag' = FetchAdd(lockFlag),
         UNCHANGED <<writeCount, expected, crashed>>,
         \A u \in Threads \ {t} : ~HoldsWrite(u)
  PROVE  IInv(d)'
<1>1. Len(held[t]) < d
  BY DEF IInv, DepthBound, Entering
<1>2. /\ held \in [Threads -> Seq(Modes)] /\ pc \in [Threads -> PCs]
      /\ IsFiniteSet(Lagging) /\ Mod16 \in Nat
      /\ lockFlag.rd \in Nat
  BY StateFacts
<1>3. /\ held' \in [Threads -> Seq(Modes)] /\ Len(held'[t]) <= d
      /\ Cardinality(Tokens("R")') = Cardinality(Tokens("R")) + 1
      /\ Cardinality(Tokens("W")') = Cardinality(Tokens("W"))
      /\ Cardinality(Tokens("R")') < Mod16
  BY <1>1, AcquireFacts DEF Modes
<1>4. /\ HoldsWrite(t)' <=> HoldsWrite(t)
      /\ \A u \in Threads \ {t} : held'[u] = held[u] /\ (HoldsWrite(u)' <=> HoldsWrite(u))
  BY <1>2, AcquireHolds DEF Modes
<1>5. lockFlag.rd + 1 < Mod16
  BY <1>3 DEF IInv, ReadCountIsTokens
<1>6. /\ lockFlag' \in [wr : 0 .. (Mod16 - 1), rd : 0 .. (Mod16 - 1)]
      /\ lockFlag'.wr = lockFlag.wr /\ lockFlag'.rd = lockFlag.rd + 1
  BY <1>2, <1>5 DEF FetchAdd, IInv, TypeOK
<1>7. Cardinality(Lagging') = Cardinality(Lagging)
  BY <1>2, LaggingFacts DEF PCs, LaggingPCs
<1>8. TypeOK'
  <2>1. pc' \in [Threads -> PCs]
    BY <1>2 DEF PCs
  <2>. QED
    BY <2>1, <1>3, <1>6 DEF IInv, TypeOK
<1>9. DepthBound(d)' /\ OwnerBranch' /\ Unlocking' /\ Storing'
  <2>1. "idle" \in PCs \ (Entering \cup OwnerPCs)
    BY DEF PCs, Entering, OwnerPCs
  <2>. QED
    BY <1>3, <1>4, <2>1, KnowledgeKept
<1>10. OwnerIsWriter'
  BY <1>4, <1>6 DEF IInv, OwnerIsWriter
<1>11. ReadCountIsTokens'
  BY <1>3, <1>6 DEF IInv, ReadCountIsTokens
<1>12. WriteCountIsTokens'
  BY <1>3, <1>7 DEF IInv, WriteCountIsTokens
<1>13. MutualExclusion'
  <2>1. ASSUME NEW u \in Threads, NEW v \in Threads, u # v, HoldsWrite(u)'
        PROVE  held'[v] = << >>
    <3>1. u = t /\ HoldsWrite(u)
      BY <2>1, <1>4
    <3>. QED
      BY <3>1, <2>1, <1>4 DEF IInv, MutualExclusion
  <2>. QED
    BY <2>1 DEF MutualExclusion
<1>14. UnlockNeverBlamesCaller'
  BY DEF UnlockNeverBlamesCaller
<1>. QED
  BY <1>8, <1>9, <1>10, <1>11, <1>12, <1>13, <1>14 DEF IInv

\* ReadLock of the owner: nobody else is the writer.
LEMMA ReadLockAddPreserves ==
  ASSUME NEW d, HoldsFit(d), IInv(d), crashed = "none", NEW t \in Threads, ReadLockAdd(t)
  PROVE  IInv(d)'
<1>1. /\ pc[t] = "read_add" /\ pc' = [pc EXCEPT ![t] = "idle"]
      /\ Acquire(t, "R") /\ lockFlag' = FetchAdd(lockFlag)
      /\ UNCHANGED <<writeCount, expected, crashed>>
  BY DEF ReadLockAdd, Goto
<1>2. HoldsWrite(t)
  BY <1>1 DEF IInv, OwnerBranch, OwnerPCs
<1>3. \A u \in Threads \ {t} : ~HoldsWrite(u)
  BY <1>2, OnlyWriter
<1>. QED
  BY <1>1, <1>3, SharedScopeOpened

\* ReadLock's compare_exchange: it succeeds on an owner field of 0, however
\* old the count it expects; a failed one goes back to load the count again.
LEMMA ReadLockCasPreserves ==
  ASSUME NEW d, IdsFromThreadManager, HoldsFit(d), IInv(d), crashed = "none",
         NEW t \in Threads, ReadLockCas(t)
  PROVE  IInv(d)'
<1>1. pc[t] = "read_cas" /\ UNCHANGED <<writeCount, expected, crashed>>
  BY DEF ReadLockCas
<1>2. CASE lockFlag = [wr |-> 0, rd |-> expected[t]]
  <2>1. /\ pc' = [pc EXCEPT ![t] = "idle"]
        /\ Acquire(t, "R") /\ lockFlag' = FetchAdd(lockFlag)
    BY <1>2 DEF ReadLockCas, Goto
  <2>2. lockFlag.wr = 0
    BY <1>2
  <2>3. \A u \in Threads \ {t} : ~HoldsWrite(u)
    BY <2>2, UnownedFacts
  <2>. QED
    BY <1>1, <2>1, <2>3, SharedScopeOpened
<1>3. CASE lockFlag # [wr |-> 0, rd |-> expected[t]]
  <2>1. /\ pc' = [pc EXCEPT ![t] = "read_load"]
        /\ UNCHANGED <<lockFlag, writeCount, held, crashed>>
    BY <1>1, <1>3 DEF ReadLockCas, Goto
  <2>2. Len(held[t]) < d
    BY <1>1 DEF IInv, DepthBound, Entering
  <2>3. expected' \in [Threads -> 0 .. (Mod16 - 1)]
    BY <1>1 DEF IInv, TypeOK
  <2>4. /\ "read_load" \in PCs \ LaggingPCs /\ "read_load" \notin OwnerPCs
        /\ "read_load" # "write_uncount" /\ pc[t] \notin LaggingPCs
    BY <1>1 DEF PCs, LaggingPCs, OwnerPCs
  <2>. QED
    BY <2>1, <2>2, <2>3, <2>4, QuietPreserves
<1>. QED
  BY <1>2, <1>3

\* ReadUnlock: the scope it closes is counted, so fetch_sub neither borrows
\* from the owner field nor finds a count of 0 to crash on.
LEMMA ReadUnlockPreserves ==
  ASSUME NEW d, HoldsFit(d), IInv(d), crashed = "none", NEW t \in Threads, ReadUnlock(t)
  PROVE  IInv(d)'
<1>1. /\ pc[t] = "idle" /\ held[t] # << >> /\ Top(held[t]) = "R"
      /\ lockFlag' = FetchSub(lockFlag) /\ Release(t)
      /\ crashed' = IF lockFlag.rd = 0 THEN "ReadUnlock_multiple" ELSE crashed
      /\ UNCHANGED <<writeCount, pc, expected>>
  BY DEF ReadUnlock
<1>2. /\ held \in [Threads -> Seq(Modes)] /\ pc \in [Threads -> PCs]
      /\ Mod16 \in Nat /\ lockFlag.rd \in Nat
  BY StateFacts
<1>3. /\ held' \in [Threads -> Seq(Modes)] /\ Len(held'[t]) <= d
      /\ Cardinality(Tokens("R")) > 0
      /\ Cardinality(Tokens("R")') = Cardinality(Tokens("R")) - 1
      /\ Cardinality(Tokens("W")') = Cardinality(Tokens("W"))
  BY <1>1, ReleaseFacts DEF Modes
<1>4. /\ HoldsWrite(t)' <=> HoldsWrite(t)
      /\ \A u \in Threads \ {t} : held'[u] = held[u] /\ (HoldsWrite(u)' <=> HoldsWrite(u))
  BY <1>1, <1>2, ReleaseHolds
<1>5. lockFlag.rd > 0
  BY <1>3 DEF IInv, ReadCountIsTokens
<1>6. /\ lockFlag' \in [wr : 0 .. (Mod16 - 1), rd : 0 .. (Mod16 - 1)]
      /\ lockFlag'.wr = lockFlag.wr /\ lockFlag'.rd = lockFlag.rd - 1
  BY <1>1, <1>2, <1>5 DEF FetchSub, IInv, TypeOK
<1>7. crashed' = "none"
  BY <1>1, <1>5
<1>8. \A u \in Threads \ {t} : ~HoldsWrite(u)
  <2>1. ASSUME NEW u \in Threads \ {t}, HoldsWrite(u) PROVE FALSE
    BY <2>1, <1>1, OnlyWriter
  <2>. QED
    BY <2>1
<1>9. TypeOK'
  BY <1>1, <1>3, <1>6, <1>7 DEF IInv, TypeOK
<1>10. DepthBound(d)' /\ OwnerBranch' /\ Unlocking' /\ Storing'
  <2>1. "idle" \in PCs \ (Entering \cup OwnerPCs)
    BY DEF PCs, Entering, OwnerPCs
  <2>2. pc' = [pc EXCEPT ![t] = "idle"]
    BY <1>1, <1>2
  <2>. QED
    BY <1>3, <1>4, <1>8, <2>1, <2>2, KnowledgeKept
<1>11. OwnerIsWriter'
  BY <1>4, <1>6 DEF IInv, OwnerIsWriter
<1>12. ReadCountIsTokens'
  BY <1>3, <1>6 DEF IInv, ReadCountIsTokens
<1>13. WriteCountIsTokens'
  <2>1. Lagging' = Lagging
    BY <1>1 DEF Lagging, LaggingPCs
  <2>. QED
    BY <1>1, <1>3, <2>1 DEF IInv, WriteCountIsTokens
<1>14. MutualExclusion'
  <2>1. ASSUME NEW u \in Threads, NEW v \in Threads, u # v, HoldsWrite(u)'
        PROVE  held'[v] = << >>
    <3>1. u = t /\ HoldsWrite(u)
      BY <2>1, <1>4, <1>8
    <3>. QED
      BY <3>1, <2>1, <1>4 DEF IInv, MutualExclusion
  <2>. QED
    BY <2>1 DEF MutualExclusion
<1>15. UnlockNeverBlamesCaller'
  BY <1>7 DEF UnlockNeverBlamesCaller
<1>. QED
  BY <1>9, <1>10, <1>11, <1>12, <1>13, <1>14, <1>15 DEF IInv

\* A timeout changes nothing but that the process is gone.
LEMMA TimeoutPreserves ==
  ASSUME NEW d, IInv(d), NEW t \in Threads, Timeout(t)
  PROVE  IInv(d)'
<1>1. \E why \in {"WriteLock_timeout", "ReadLock_timeout"} : FORCED_CRASH(why)
  BY DEF Timeout, WriteLockTimeout, ReadLockTimeout
<1>2. PICK why \in {"WriteLock_timeout", "ReadLock_timeout"} : FORCED_CRASH(why)
  BY <1>1
<1>3. why \in CrashReasons /\ why # "ReadUnlock_multiple" /\ why # "WriteUnlock_order"
  BY DEF CrashReasons
<1>. QED
  BY <1>2, <1>3, CrashPreserves

\* One step, or none, of any thread.
LEMMA NextPreserves ==
  ASSUME NEW d, IdsFromThreadManager, HoldsFit(d), IInv(d), [Next]_vars
  PROVE  IInv(d)'
<1>1. CASE UNCHANGED vars
  <2>1. UNCHANGED <<lockFlag, writeCount, pc, expected, held, crashed>>
    BY <1>1 DEF vars
  <2>2. /\ TypeOK' /\ DepthBound(d)' /\ OwnerIsWriter' /\ OwnerBranch'
        /\ Unlocking' /\ Storing'
    BY <2>1 DEF IInv, TypeOK, DepthBound, OwnerIsWriter, OwnerBranch, Unlocking, Storing,
       HoldsWrite, Entering, OwnerPCs
  <2>3. ReadCountIsTokens' /\ WriteCountIsTokens'
    BY <2>1 DEF IInv, ReadCountIsTokens, WriteCountIsTokens, Tokens, Lagging, LaggingPCs
  <2>4. MutualExclusion' /\ UnlockNeverBlamesCaller'
    BY <2>1 DEF IInv, MutualExclusion, UnlockNeverBlamesCaller, HoldsWrite
  <2>. QED
    BY <2>2, <2>3, <2>4 DEF IInv
<1>2. CASE Next
  <2>1. crashed = "none"
    BY <1>2 DEF Next
  <2>2. PICK t \in Threads : Step(t) \/ Enter(t) \/ Exit(t) \/ Timeout(t)
    BY <1>2 DEF Next
  <2>3. CASE WriteLockLoad(t)
    BY <2>1, <2>3, WriteLockLoadPreserves
  <2>4. CASE WriteLockRecurse(t)
    BY <2>1, <2>4, WriteLockRecursePreserves
  <2>5. CASE WriteLockCas(t)
    BY <2>1, <2>5, WriteLockCasPreserves
  <2>6. CASE WriteLockCount(t)
    BY <2>1, <2>6, WriteLockCountPreserves
  <2>7. CASE WriteUnlockCheck(t)
    BY <2>1, <2>7, WriteUnlockCheckPreserves
  <2>8. CASE WriteUnlockCount(t)
    BY <2>1, <2>8, WriteUnlockCountPreserves
  <2>9. CASE WriteUnlockStore(t)
    BY <2>1, <2>9, WriteUnlockStorePreserves
  <2>10. CASE ReadLockLoad(t)
    BY <2>1, <2>10, ReadLockLoadPreserves
  <2>11. CASE ReadLockAdd(t)
    BY <2>1, <2>11, ReadLockAddPreserves
  <2>12. CASE ReadLockExpect(t)
    BY <2>1, <2>12, ReadLockExpectPreserves
  <2>13. CASE ReadLockCas(t)
    BY <2>1, <2>13, ReadLockCasPreserves
  <2>14. CASE ReadUnlock(t)
    BY <2>1, <2>14, ReadUnlockPreserves
  <2>15. CASE Timeout(t)
    BY <2>15, TimeoutPreserves
  <2>. QED
    BY <2>2, <2>3, <2>4, <2>5, <2>6, <2>7, <2>8, <2>9, <2>10, <2>11, <2>12, <2>13,
       <2>14, <2>15 DEF Step, Enter, Exit
<1>. QED
  BY <1>1, <1>2

-----------------------------------------------------------------------------
(* The theorems.                                                            *)

\* The invariant holds in every reachable state.
THEOREM InvariantHolds ==
  ASSUME NEW d, IdsFromThreadManager, HoldsFit(d)
  PROVE  Spec => []IInv(d)
<1>1. Init => IInv(d)
  BY InitEstablishes
<1>2. IInv(d) /\ [Next]_vars => IInv(d)'
  BY NextPreserves
<1>. QED
  BY <1>1, <1>2, PTL DEF Spec

\* lockFlag's fields and writeCount stay within 16 bits, and every thread is at
\* a point of Lock's methods, whatever the scopes the callers open.
THEOREM TypeCorrect ==
  ASSUME NEW d, IdsFromThreadManager, HoldsFit(d)
  PROVE  Spec => []TypeOK
<1>1. IInv(d) => TypeOK
  BY DEF IInv
<1>. QED
  BY <1>1, InvariantHolds, PTL

\* Lock.cpp:73: while the write lock is occupied the read lock cannot be, nor
\* the write lock by another thread.
THEOREM MutualExclusionTheorem ==
  ASSUME NEW d, IdsFromThreadManager, HoldsFit(d)
  PROVE  Spec => []MutualExclusion
<1>1. IInv(d) => MutualExclusion
  BY DEF IInv
<1>. QED
  BY <1>1, InvariantHolds, PTL

\* The packed flag and writeCount are an exact account of the open scopes: no
\* carry, borrow, stale compare or early clear ever makes them drift.
THEOREM FlagTheorem ==
  ASSUME NEW d, IdsFromThreadManager, HoldsFit(d)
  PROVE  Spec => []FlagMatchesScopes
<1>1. IInv(d) => FlagMatchesScopes
  BY DEF IInv, FlagMatchesScopes, OwnerIsWriter, ReadCountIsTokens, WriteCountIsTokens, Lagging, LaggingPCs
<1>. QED
  BY <1>1, InvariantHolds, PTL

\* The crashes of ReadUnlock and WriteUnlock are never raised against a caller
\* whose scopes nest, but for an exclusive scope inside a shared one.
THEOREM UnlockTheorem ==
  ASSUME NEW d, IdsFromThreadManager, HoldsFit(d)
  PROVE  Spec => []UnlockNeverBlamesCaller
<1>1. IInv(d) => UnlockNeverBlamesCaller
  BY DEF IInv
<1>. QED
  BY <1>1, InvariantHolds, PTL

\* A scope that is left is left as RWLock's Leave leaves it.
LEMMA ReleaseIsLeave ==
  ASSUME NEW t \in Threads, held[t] # << >>, Release(t)
  PROVE  RW!Leave(t)
BY DEF Release, Pop, RW!Leave, RW!HoldsAny

\* A step of the lock is a step of the abstract lock, or leaves the scopes as
\* they are.
LEMMA StepRefines ==
  ASSUME NEW d, IdsFromThreadManager, HoldsFit(d), IInv(d), [Next]_vars
  PROVE  [RW!Next]_held
<1>1. CASE UNCHANGED vars
  BY <1>1 DEF vars
<1>2. CASE Next
  <2>1. PICK t \in Threads : Step(t) \/ Enter(t) \/ Exit(t) \/ Timeout(t)
    BY <1>2 DEF Next
  <2>2. \A u \in Threads : RW!HoldsWrite(u) <=> HoldsWrite(u)
    BY DEF RW!HoldsWrite, HoldsWrite
  <2>3. CASE WriteLockRecurse(t)
    <3>1. HoldsWrite(t)
      BY <2>3 DEF WriteLockRecurse, IInv, OwnerBranch, OwnerPCs
    <3>2. RW!EnterWrite(t)
      BY <2>2, <2>3, <3>1 DEF WriteLockRecurse, Acquire, RW!EnterWrite
    <3>. QED
      BY <3>2 DEF RW!Next
  <2>4. CASE WriteLockCas(t)
    <3>1. \A u \in Threads : held[u] = << >>
      BY <2>4, FreeMeansEmpty DEF WriteLockCas
    <3>2. RW!EnterWrite(t)
      BY <2>4, <3>1 DEF WriteLockCas, Acquire, RW!EnterWrite, RW!HoldsAny
    <3>. QED
      BY <3>2 DEF RW!Next
  <2>5. CASE ReadLockAdd(t)
    <3>1. HoldsWrite(t)
      BY <2>5 DEF ReadLockAdd, IInv, OwnerBranch, OwnerPCs
    <3>2. \A u \in Threads \ {t} : ~HoldsWrite(u)
      BY <3>1, OnlyWriter
    <3>3. RW!EnterRead(t)
      BY <2>2, <2>5, <3>2 DEF ReadLockAdd, Acquire, RW!EnterRead
    <3>. QED
      BY <3>3 DEF RW!Next
  <2>6. CASE ReadLockCas(t)
    <3>1. CASE lockFlag = [wr |-> 0, rd |-> expected[t]]
      <4>1. \A u \in Threads \ {t} : ~HoldsWrite(u)
        BY <3>1, UnownedFacts
      <4>2. RW!EnterRead(t)
        BY <2>2, <2>6, <3>1, <4>1 DEF ReadLockCas, Acquire, RW!EnterRead
      <4>. QED
        BY <4>2 DEF RW!Next
    <3>2. CASE lockFlag # [wr |-> 0, rd |-> expected[t]]
      BY <2>6, <3>2 DEF ReadLockCas
    <3>. QED
      BY <3>1, <3>2
  <2>7. CASE WriteUnlockCount(t)
    <3>1. held[t] # << >>
      BY <2>7 DEF WriteUnlockCount, IInv, Unlocking
    <3>2. held' = held \/ Release(t)
      BY <2>7, Zenon DEF WriteUnlockCount
    <3>. QED
      BY <3>1, <3>2, ReleaseIsLeave DEF RW!Next
  <2>8. CASE WriteUnlockStore(t)
    <3>1. held[t] # << >>
      BY <2>8 DEF WriteUnlockStore, IInv, Unlocking
    <3>2. Release(t)
      BY <2>8 DEF WriteUnlockStore
    <3>. QED
      BY <3>1, <3>2, ReleaseIsLeave DEF RW!Next
  <2>9. CASE ReadUnlock(t)
    <3>1. held[t] # << >> /\ Release(t)
      BY <2>9 DEF ReadUnlock
    <3>. QED
      BY <3>1, ReleaseIsLeave DEF RW!Next
  <2>10. CASE Enter(t) \/ WriteUnlockCheck(t) \/ Timeout(t) \/ WriteLockCount(t) \/ ReadLockExpect(t)
    BY <2>10 DEF Enter, WriteLockLoad, ReadLockLoad, WriteUnlockCheck, Timeout,
                 WriteLockTimeout, ReadLockTimeout, WriteLockCount, ReadLockExpect,
                 FORCED_CRASH
  <2>. QED
    BY <2>1, <2>3, <2>4, <2>5, <2>6, <2>7, <2>8, <2>9, <2>10 DEF Step, Exit
<1>. QED
  BY <1>1, <1>2

\* The atomic operations on lockFlag, stale loads and all, implement the
\* abstract reader-writer lock of RWLock, which is what its callers rely on.
THEOREM RefinementTheorem ==
  ASSUME NEW d, IdsFromThreadManager, HoldsFit(d)
  PROVE  Spec => ImplementsRWLock
<1>1. Init => RW!Init
  BY DEF Init, RW!Init
<1>2. IInv(d) /\ [Next]_vars => [RW!Next]_held
  BY StepRefines
<1>. QED
  BY <1>1, <1>2, InvariantHolds, PTL DEF Spec, ImplementsRWLock, RW!Spec

-----------------------------------------------------------------------------
(* Lock order: DeadLockProfiler.                                            *)

\* The stacks of DeadLockProfiler are cut like those of scopes.
LEMMA FrontFacts ==
  ASSUME NEW S, NEW s \in Seq(S), s # << >>
  PROVE  /\ Front(s) \in Seq(S)
         /\ Len(s) \in Nat /\ Len(s) > 0
         /\ Len(Front(s)) = Len(s) - 1
         /\ \A i \in 1 .. (Len(s) - 1) : Front(s)[i] = s[i]
<1>1. Front(s) = Pop(s)
  BY DEF Front, Pop
<1>. QED
  BY <1>1, PopFacts

\* The ids that were given out.
Ids == 0 .. (lockCount - 1)

\* The edge for which the search was started.
NewEdge == <<Last(lockStack[pusher]), currentLockId>>

\* The history that was searched before; that of a search under way is not yet.
Settled == IF pusher = None THEN lockHistory ELSE lockHistory \ {NewEdge}

\* The types, and the state between two searches.
ProfilerShape ==
    /\ IsFiniteSet(DOMAIN nameToId) /\ \A n \in DOMAIN nameToId : nameToId[n] \in Ids
    /\ lockHistory \subseteq Ids \X Ids /\ IsFiniteSet(lockHistory)
    /\ \A e \in lockHistory : e[1] # e[2]
    /\ lockStack \in [Threads -> Seq(Ids)]
    /\ pusher \in Threads \cup {None}
    /\ pusher = None => Len(calls) = 0 /\ calls = << >> /\ report = << >>
                        /\ crashed # "DeadLock_detected"

\* Neighbours on the stack s are a lock taken again or one of the edges.
Neighbours(s, edges) ==
    \A i \in 1 .. (Len(s) - 1) : s[i] = s[i + 1] \/ <<s[i], s[i + 1]>> \in edges

\* Every stack follows edges that were searched, and these have no cycle.
StacksSettled ==
    /\ \A t \in Threads : Neighbours(lockStack[t], Settled)
    /\ ~Cyclic(Settled)

\* The tables cover every lock, and the edge that is searched for is recorded.
Tables ==
    /\ currentLockId \in Ids /\ Len(lockStack[pusher]) > 0 /\ NewEdge \in lockHistory
    /\ visitedOrder \in [Ids -> Nat \cup {-1}] /\ totalNodeCount \in Nat
    /\ isFinished \in [Ids -> BOOLEAN]
    /\ parent \in [Ids -> Ids \cup {-1}]
    /\ lockId \in 0 .. lockCount
    /\ calls \in Seq(Ids)
    /\ untried \subseteq lockHistory

\* The calls of DFS are a path of the lock order, recorded in parent; exactly
\* their locks are visited and not finished, each later than those before it.
CallPath ==
    /\ \A i \in 1 .. Len(calls) : visitedOrder[calls[i]] # -1 /\ ~isFinished[calls[i]]
    /\ \A i, k \in 1 .. Len(calls) : i < k => visitedOrder[calls[i]] < visitedOrder[calls[k]]
    /\ \A i \in 1 .. (Len(calls) - 1) :
          parent[calls[i + 1]] = calls[i] /\ <<calls[i], calls[i + 1]>> \in lockHistory
    /\ \A v \in Ids : visitedOrder[v] < totalNodeCount
    /\ \A v \in Ids : isFinished[v] => visitedOrder[v] # -1
    /\ \A v \in Ids : visitedOrder[v] # -1 /\ ~isFinished[v] =>
          \E i \in 1 .. Len(calls) : calls[i] = v
    /\ \A v \in Ids : v < lockId => visitedOrder[v] # -1

\* An edge that was looked at leads to a finished lock, or is the one the call
\* it belongs to is in; from a finished lock edges lead to finished ones, and
\* these have no cycle.
Explored ==
    /\ \A e \in lockHistory \ untried :
          \/ isFinished[e[2]]
          \/ \E i \in 1 .. (Len(calls) - 1) : calls[i] = e[1] /\ calls[i + 1] = e[2]
    /\ \A e \in lockHistory : isFinished[e[1]] => isFinished[e[2]]
    /\ \A S \in SUBSET {v \in Ids : isFinished[v]} :
          S # {} => \E a \in S : \A b \in S : <<a, b>> \notin lockHistory

\* The edges printed so far lead along the calls, from the innermost one, and
\* the walk is on its way to the lock the cycle was found at.
Printed ==
    /\ \A i \in 1 .. Len(report) : report[i] \in lockHistory
    /\ \A i \in 1 .. (Len(report) - 1) : report[i][1] = report[i + 1][2]
    /\ IF crashed = "DeadLock_detected" THEN report[Len(report)][1] = report[1][2]
       ELSE \E j, k \in 1 .. Len(calls) :
               j < k /\ calls[j] = report[1][2] /\ calls[k] = report[Len(report)][1]

\* While edges are looked at, and once a cycle is being printed.
SearchInv ==
    /\ Tables /\ CallPath
    /\ report = << >> => Explored /\ crashed # "DeadLock_detected"
    /\ report # << >> => report \in Seq(lockHistory) /\ Len(report) > 0 /\ Printed

\* The inductive invariant.
ProfilerInv == ProfilerShape /\ StacksSettled /\ (pusher # None => SearchInv)
-----------------------------------------------------------------------------
(* Registering a lock.                                                      *)

\* The number of locks is a number.
LEMMA CountIsNat == ProfilerShape => lockCount \in Nat
  BY FS_CardinalityType DEF ProfilerShape, lockCount

\* A lock is registered: ids are below the number of locks, and stay so.
LEMMA RegisterFacts ==
  ASSUME ProfilerShape, NEW name, nameToId' = Register(name)
  PROVE  /\ IsFiniteSet(DOMAIN nameToId') /\ name \in DOMAIN nameToId'
         /\ lockCount \in Nat /\ lockCount' \in Nat /\ lockCount <= lockCount'
         /\ \A n \in DOMAIN nameToId' : nameToId'[n] \in Ids'
         /\ Ids \subseteq Ids'
<1>1. lockCount \in Nat /\ IsFiniteSet(DOMAIN nameToId)
  BY CountIsNat DEF ProfilerShape
<1>2. CASE name \in DOMAIN nameToId
  <2>1. nameToId' = nameToId
    BY <1>2 DEF Register
  <2>2. lockCount' = lockCount
    BY <2>1 DEF lockCount
  <2>3. \A n \in DOMAIN nameToId : nameToId[n] \in 0 .. (lockCount - 1)
    BY DEF ProfilerShape, Ids
  <2>. QED
    BY <1>1, <1>2, <2>1, <2>2, <2>3 DEF Ids
<1>3. CASE name \notin DOMAIN nameToId
  <2>1. /\ DOMAIN nameToId' = DOMAIN nameToId \cup {name}
        /\ nameToId'[name] = lockCount
        /\ \A n \in DOMAIN nameToId : nameToId'[n] = nameToId[n]
    BY <1>3 DEF Register
  <2>2. IsFiniteSet(DOMAIN nameToId') /\ lockCount' = lockCount + 1
    BY <1>1, <1>3, <2>1, FS_AddElement DEF lockCount
  <2>3. \A n \in DOMAIN nameToId : nameToId[n] \in 0 .. (lockCount - 1)
    BY DEF ProfilerShape, Ids
  <2>. QED
    BY <1>1, <2>1, <2>2, <2>3 DEF Ids
<1>. QED
  BY <1>2, <1>3

-----------------------------------------------------------------------------
(* Lock orders without a cycle.                                             *)

\* Without edges there is no cycle.
LEMMA NoEdges == ~Cyclic({})
  BY DEF Cyclic

\* A cycle in some edges is a cycle in more of them.
LEMMA CycleInMore ==
  ASSUME NEW edges, NEW more, edges \subseteq more, Cyclic(edges)
  PROVE  Cyclic(more)
<1>1. PICK S \in SUBSET {e[1] : e \in edges} :
         S # {} /\ \A a \in S : \E b \in S : <<a, b>> \in edges
  BY DEF Cyclic
<1>2. S \in SUBSET {e[1] : e \in more}
  BY <1>1
<1>. QED
  BY <1>1, <1>2 DEF Cyclic

\* A circle of locks is a set of locks that edges start from.
LEMMA CircleIsCyclic ==
  ASSUME NEW edges, NEW S, S # {}, \A a \in S : \E b \in S : <<a, b>> \in edges
  PROVE  Cyclic(edges)
<1>1. ASSUME NEW a \in S PROVE a \in {e[1] : e \in edges}
  <2>1. PICK b \in S : <<a, b>> \in edges
    OBVIOUS
  <2>2. <<a, b>>[1] = a
    OBVIOUS
  <2>. QED
    BY <2>1, <2>2
<1>. QED
  BY <1>1 DEF Cyclic

-----------------------------------------------------------------------------
\* The invariant holds before the first lock is taken.
LEMMA InitProfilerInv == ProfilerInit => ProfilerInv
<1>. SUFFICES ASSUME ProfilerInit PROVE ProfilerInv
  OBVIOUS
<1>1. /\ DOMAIN nameToId = {} /\ lockHistory = {} /\ pusher = None /\ crashed = "none"
      /\ calls = << >> /\ report = << >> /\ lockStack = [t \in Threads |-> << >>]
  BY DEF ProfilerInit
<1>2. ProfilerShape
  BY <1>1, FS_EmptySet DEF ProfilerShape
<1>3. \A t \in Threads : Len(lockStack[t]) = 0
  BY <1>1
<1>4. ~Cyclic(Settled)
  BY <1>1, NoEdges DEF Settled
<1>5. StacksSettled
  BY <1>3, <1>4 DEF StacksSettled, Neighbours
<1>. QED
  BY <1>1, <1>2, <1>5 DEF ProfilerInv
-----------------------------------------------------------------------------
(* Stacks.                                                                  *)

\* A stack of some locks is a stack of more of them.
LEMMA SeqOfMore ==
  ASSUME NEW A, NEW B, A \subseteq B, NEW s \in Seq(A)
  PROVE  s \in Seq(B)
  OBVIOUS

\* A lock is pushed: it is the top again, or the edge to it is known.
LEMMA AppendNeighbours ==
  ASSUME NEW S, NEW s \in Seq(S), NEW id \in S, NEW edges,
         Neighbours(s, edges),
         s # << >> /\ id # Last(s) => <<Last(s), id>> \in edges
  PROVE  Neighbours(Append(s, id), edges)
<1>1. /\ Len(s) \in Nat /\ Len(Append(s, id)) = Len(s) + 1
      /\ \A i \in 1 .. Len(s) : Append(s, id)[i] = s[i]
      /\ Append(s, id)[Len(s) + 1] = id
  BY AppendFacts
<1>. SUFFICES ASSUME NEW i \in 1 .. Len(s)
              PROVE  \/ Append(s, id)[i] = Append(s, id)[i + 1]
                     \/ <<Append(s, id)[i], Append(s, id)[i + 1]>> \in edges
  BY <1>1 DEF Neighbours
<1>2. CASE i < Len(s)
  <2>1. i \in 1 .. (Len(s) - 1) /\ i \in 1 .. Len(s) /\ i + 1 \in 1 .. Len(s)
    BY <1>1, <1>2
  <2>2. s[i] = s[i + 1] \/ <<s[i], s[i + 1]>> \in edges
    BY <2>1 DEF Neighbours
  <2>3. Append(s, id)[i] = s[i] /\ Append(s, id)[i + 1] = s[i + 1]
    BY <1>1, <2>1
  <2>. QED
    BY <2>2, <2>3
<1>3. CASE i = Len(s)
  <2>1. s # << >>
    BY <1>1, <1>3
  <2>2. Append(s, id)[i] = Last(s) /\ Append(s, id)[i + 1] = id
    BY <1>1, <1>3 DEF Last
  <2>. QED
    BY <2>1, <2>2
<1>4. i < Len(s) \/ i = Len(s)
  BY <1>1
<1>. QED
  BY <1>2, <1>3, <1>4

\* A lock is popped.
LEMMA FrontNeighbours ==
  ASSUME NEW S, NEW s \in Seq(S), s # << >>, NEW edges, Neighbours(s, edges)
  PROVE  Neighbours(Front(s), edges)
<1>1. /\ Len(s) \in Nat /\ Len(Front(s)) = Len(s) - 1
      /\ \A i \in 1 .. (Len(s) - 1) : Front(s)[i] = s[i]
  BY FrontFacts
<1>. SUFFICES ASSUME NEW i \in 1 .. (Len(s) - 2)
              PROVE  \/ Front(s)[i] = Front(s)[i + 1]
                     \/ <<Front(s)[i], Front(s)[i + 1]>> \in edges
  BY <1>1 DEF Neighbours
<1>2. i \in 1 .. (Len(s) - 1) /\ i + 1 \in 1 .. (Len(s) - 1)
  BY <1>1
<1>3. s[i] = s[i + 1] \/ <<s[i], s[i + 1]>> \in edges
  BY <1>2 DEF Neighbours
<1>. QED
  BY <1>1, <1>2, <1>3

-----------------------------------------------------------------------------
(* Steps that do not search.                                                *)

\* The edges that the push of id on the stack of t adds to the history.
LEMMA NewEdgesFacts ==
  ASSUME NEW s, NEW id
  PROVE  /\ NewEdges(s, id) \subseteq {<<Last(s), id>>}
         /\ s # << >> /\ id # Last(s) => <<Last(s), id>> \in NewEdges(s, id)
         /\ NewEdges(s, id) # {} => s # << >> /\ id # Last(s)
  BY DEF NewEdges

\* A lock whose edge is known, or that makes none, is pushed.
LEMMA PushLockAtOnce ==
  ASSUME ProfilerInv, NEW t \in Threads, NEW id \in Ids', pusher = None,
         IsFiniteSet(DOMAIN nameToId'), \A n \in DOMAIN nameToId' : nameToId'[n] \in Ids',
         Ids \subseteq Ids',
         NewEdges(lockStack[t], id) \subseteq lockHistory,
         lockStack' = [lockStack EXCEPT ![t] = Append(@, id)],
         UNCHANGED <<lockHistory, searchVars, report, crashed>>
  PROVE  ProfilerInv'
<1>1. ProfilerShape /\ StacksSettled
  BY DEF ProfilerInv
<1>2. /\ lockHistory \subseteq Ids \X Ids /\ IsFiniteSet(lockHistory)
      /\ \A e \in lockHistory : e[1] # e[2]
      /\ lockStack \in [Threads -> Seq(Ids)]
      /\ calls = << >> /\ report = << >> /\ crashed # "DeadLock_detected"
  BY <1>1 DEF ProfilerShape
<1>3. UNCHANGED <<lockHistory, pusher, calls, report, crashed>>
  BY DEF searchVars
<1>4. lockStack \in [Threads -> Seq(Ids')]
  BY <1>2, SeqOfMore
<1>5. Append(lockStack[t], id) \in Seq(Ids')
  BY <1>4
<1>6. lockStack' \in [Threads -> Seq(Ids')]
  BY <1>4, <1>5
<1>7. lockHistory' \subseteq Ids' \X Ids'
  BY <1>2, <1>3
<1>8. ProfilerShape'
  BY <1>2, <1>3, <1>6, <1>7 DEF ProfilerShape
<1>9. Settled = lockHistory /\ Settled' = lockHistory
  BY <1>3 DEF Settled
<1>10. Neighbours(Append(lockStack[t], id), lockHistory)
  <2>1. Neighbours(lockStack[t], lockHistory)
    BY <1>1, <1>9 DEF StacksSettled
  <2>2. lockStack[t] # << >> /\ id # Last(lockStack[t]) => <<Last(lockStack[t]), id>> \in lockHistory
    BY NewEdgesFacts
  <2>. QED
    BY <1>4, <2>1, <2>2, AppendNeighbours
<1>11. ASSUME NEW u \in Threads PROVE Neighbours(lockStack'[u], lockHistory)
  BY <1>1, <1>2, <1>9, <1>10 DEF StacksSettled
<1>12. StacksSettled'
  BY <1>1, <1>9, <1>11 DEF StacksSettled
<1>. QED
  BY <1>3, <1>8, <1>12 DEF ProfilerInv

\* A lock is popped, or a process ends that pops the wrong one.
LEMMA PopLockPreserves ==
  ASSUME ProfilerInv, NEW t \in Threads, NEW name, PopLock(t, name)
  PROVE  ProfilerInv'
<1>1. ProfilerShape /\ StacksSettled /\ pusher = None
  BY DEF ProfilerInv, PopLock
<1>2. /\ lockHistory \subseteq Ids \X Ids /\ IsFiniteSet(lockHistory)
      /\ \A e \in lockHistory : e[1] # e[2]
      /\ lockStack \in [Threads -> Seq(Ids)]
      /\ calls = << >> /\ report = << >> /\ crashed # "DeadLock_detected"
      /\ IsFiniteSet(DOMAIN nameToId) /\ \A n \in DOMAIN nameToId : nameToId[n] \in Ids
  BY <1>1 DEF ProfilerShape
<1>3. UNCHANGED <<lockHistory, pusher, calls, report>> /\ crashed' # "DeadLock_detected"
  BY <1>2 DEF PopLock, searchVars
<1>4. /\ IsFiniteSet(DOMAIN nameToId') /\ \A n \in DOMAIN nameToId' : nameToId'[n] \in Ids'
      /\ Ids \subseteq Ids'
  <2>. DEFINE id == IF name \in DOMAIN nameToId THEN nameToId[name] ELSE 0
  <2>1. lockCount \in Nat
    BY <1>1, CountIsNat
  <2>2. CASE lockStack[t] = << >>
    <3>1. nameToId' = nameToId
      BY <2>2 DEF PopLock
    <3>. QED
      BY <1>2, <3>1 DEF Ids, lockCount
  <2>3. CASE lockStack[t] # << >>
    <3>1. nameToId' = [n \in DOMAIN nameToId \cup {name} |-> IF n = name THEN id ELSE nameToId[n]]
      BY <2>3 DEF PopLock
    <3>2. CASE name \in DOMAIN nameToId
      <4>1. /\ DOMAIN nameToId' = DOMAIN nameToId
            /\ \A n \in DOMAIN nameToId : nameToId'[n] = nameToId[n]
        BY <3>1, <3>2
      <4>2. Ids' = Ids
        BY <4>1 DEF Ids, lockCount
      <4>. QED
        BY <1>2, <4>1, <4>2
    <3>3. CASE name \notin DOMAIN nameToId
      <4>1. /\ DOMAIN nameToId' = DOMAIN nameToId \cup {name} /\ nameToId'[name] = 0
            /\ \A n \in DOMAIN nameToId : nameToId'[n] = nameToId[n]
        BY <3>1, <3>3
      <4>2. IsFiniteSet(DOMAIN nameToId') /\ lockCount' = lockCount + 1
        BY <1>2, <3>3, <4>1, FS_AddElement DEF lockCount
      <4>3. \A n \in DOMAIN nameToId : nameToId[n] \in 0 .. (lockCount - 1)
        BY <1>2 DEF Ids
      <4>. QED
        BY <2>1, <4>1, <4>2, <4>3 DEF Ids
    <3>. QED
      BY <3>2, <3>3
  <2>. QED
    BY <2>2, <2>3
<1>5. \/ lockStack' = lockStack
      \/ /\ lockStack[t] # << >>
         /\ lockStack' = [lockStack EXCEPT ![t] = Front(@)]
  BY DEF PopLock
<1>6. Settled = lockHistory /\ Settled' = lockHistory
  BY <1>1, <1>3 DEF Settled
<1>7. \A u \in Threads : Neighbours(lockStack[u], lockHistory)
  BY <1>1, <1>6 DEF StacksSettled
<1>8. /\ lockStack' \in [Threads -> Seq(Ids)]
      /\ \A u \in Threads : Neighbours(lockStack'[u], lockHistory)
  <2>1. CASE lockStack' = lockStack
    BY <1>2, <1>7, <2>1
  <2>2. CASE lockStack[t] # << >> /\ lockStack' = [lockStack EXCEPT ![t] = Front(@)]
    <3>1. lockStack[t] \in Seq(Ids) /\ Neighbours(lockStack[t], lockHistory)
      BY <1>2, <1>7
    <3>2. Front(lockStack[t]) \in Seq(Ids)
      BY <2>2, <3>1, FrontFacts
    <3>3. Neighbours(Front(lockStack[t]), lockHistory)
      BY <2>2, <3>1, FrontNeighbours
    <3>. QED
      BY <1>2, <1>7, <2>2, <3>2, <3>3
  <2>. QED
    BY <1>5, <2>1, <2>2
<1>9. lockStack' \in [Threads -> Seq(Ids')]
  BY <1>4, <1>8, SeqOfMore
<1>10. lockHistory' \subseteq Ids' \X Ids'
  BY <1>2, <1>3, <1>4
<1>11. ProfilerShape'
  BY <1>1, <1>2, <1>3, <1>4, <1>9, <1>10 DEF ProfilerShape
<1>12. StacksSettled'
  BY <1>1, <1>6, <1>8 DEF StacksSettled
<1>. QED
  BY <1>1, <1>3, <1>11, <1>12 DEF ProfilerInv

\* A search starts: the new edge is in the history, nothing is visited.
LEMMA PushLockSearches ==
  ASSUME ProfilerInv, NEW t \in Threads, NEW id \in Ids', pusher = None,
         lockCount' \in Nat, Ids \subseteq Ids',
         IsFiniteSet(DOMAIN nameToId'), \A n \in DOMAIN nameToId' : nameToId'[n] \in Ids',
         NewEdges(lockStack[t], id) \ lockHistory # {},
         lockHistory' = lockHistory \cup (NewEdges(lockStack[t], id) \ lockHistory),
         pusher' = t, currentLockId' = id, lockId' = 0, untried' = lockHistory',
         ClearTables,
         UNCHANGED <<lockStack, calls, report, crashed>>
  PROVE  ProfilerInv'
<1>1. ProfilerShape /\ StacksSettled
  BY DEF ProfilerInv
<1>2. /\ lockHistory \subseteq Ids \X Ids /\ IsFiniteSet(lockHistory)
      /\ \A e \in lockHistory : e[1] # e[2]
      /\ lockStack \in [Threads -> Seq(Ids)]
      /\ calls = << >> /\ report = << >> /\ crashed # "DeadLock_detected"
  BY <1>1 DEF ProfilerShape
<1>. DEFINE edge == <<Last(lockStack[t]), id>>
<1>3. /\ lockStack[t] # << >> /\ id # Last(lockStack[t]) /\ edge \notin lockHistory
      /\ lockHistory' = lockHistory \cup {edge}
  <2>1. /\ NewEdges(lockStack[t], id) \subseteq {edge}
        /\ lockStack[t] # << >> /\ id # Last(lockStack[t])
    BY NewEdgesFacts
  <2>. HIDE DEF edge
  <2>. QED
    BY <2>1
<1>4. lockStack[t] \in Seq(Ids) /\ Len(lockStack[t]) > 0 /\ Last(lockStack[t]) \in Ids
  <2>1. lockStack[t] \in Seq(Ids)
    BY <1>2
  <2>. QED
    BY <1>3, <2>1 DEF Last
<1>5. edge \in Ids' \X Ids' /\ edge[1] # edge[2]
  BY <1>3, <1>4
<1>6. lockHistory' \subseteq Ids' \X Ids' /\ \A e \in lockHistory' : e[1] # e[2]
  BY <1>2, <1>3, <1>5
<1>7. IsFiniteSet(lockHistory')
  <2>. HIDE DEF edge
  <2>1. IsFiniteSet(lockHistory \cup {edge})
    BY <1>2, FS_AddElement
  <2>. QED
    BY <1>3, <2>1, Zenon
<1>8. lockStack' \in [Threads -> Seq(Ids')]
  BY <1>2, SeqOfMore
<1>9. pusher' \in Threads /\ pusher' # None
  BY ProfilerConstants
<1>10. ProfilerShape'
  BY <1>6, <1>7, <1>8, <1>9 DEF ProfilerShape
<1>11. Settled = lockHistory /\ Settled' = lockHistory
  <2>1. NewEdge' = edge
    BY DEF NewEdge
  <2>. QED
    BY <1>3, <1>9, <2>1 DEF Settled
<1>12. StacksSettled'
  BY <1>1, <1>11 DEF StacksSettled
<1>. HIDE DEF edge
<1>13. /\ visitedOrder' = [i \in Ids' |-> -1] /\ totalNodeCount' = 0
       /\ isFinished' = [i \in Ids' |-> FALSE] /\ parent' = [i \in Ids' |-> -1]
  BY DEF ClearTables, Ids
<1>14. Tables'
  <2>1. NewEdge' \in lockHistory'
    BY <1>3 DEF edge, NewEdge
  <2>2. calls' \in Seq(Ids')
    <3>1. << >> \in Seq(Ids')
      BY EmptySeq, Zenon
    <3>2. calls' = << >>
      BY <1>2
    <3>. QED
      BY <3>1, <3>2, Zenon
  <2>4. lockId' \in 0 .. lockCount'
    OBVIOUS
  <2>3. Len(lockStack'[pusher']) > 0
    BY <1>4
  <2>. QED
    BY <1>13, <2>1, <2>2, <2>3, <2>4 DEF Tables
<1>15. Len(calls') = 0 /\ report' = << >>
  BY <1>2
<1>16. CallPath'
  <2>1. \A v \in Ids' : v \in Int /\ ~(v < 0)
    BY DEF Ids
  <2>. QED
    BY <1>13, <1>15, <2>1 DEF CallPath
<1>17. Explored'
  <2>1. \A e \in lockHistory' : e[1] \in Ids' /\ e[2] \in Ids'
    BY <1>6
  <2>2. {v \in Ids' : isFinished'[v]} = {}
    BY <1>13
  <2>. QED
    BY <1>13, <2>1, <2>2 DEF Explored
<1>. QED
  BY <1>2, <1>10, <1>12, <1>14, <1>15, <1>16, <1>17 DEF ProfilerInv, SearchInv

\* PushLock, with and without a search.
LEMMA PushLockPreserves ==
  ASSUME ProfilerInv, NEW t \in Threads, NEW name, PushLock(t, name)
  PROVE  ProfilerInv'
<1>1. pusher = None /\ nameToId' = Register(name) /\ ProfilerShape
  BY DEF PushLock, ProfilerInv
<1>. DEFINE id == nameToId'[name]
            edges == NewEdges(lockStack[t], id) \ lockHistory
<1>2. /\ IsFiniteSet(DOMAIN nameToId') /\ name \in DOMAIN nameToId'
      /\ lockCount' \in Nat /\ Ids \subseteq Ids'
      /\ \A n \in DOMAIN nameToId' : nameToId'[n] \in Ids'
  BY <1>1, RegisterFacts
<1>3. id \in Ids'
  BY <1>2
<1>4. CASE /\ edges = {}
           /\ lockStack' = [lockStack EXCEPT ![t] = Append(@, id)]
           /\ UNCHANGED searchVars
  <2>1. lockHistory' = lockHistory \cup edges /\ UNCHANGED <<report, crashed>>
    BY DEF PushLock
  <2>2. NewEdges(lockStack[t], id) \subseteq lockHistory /\ lockHistory' = lockHistory
    BY <1>4, <2>1
  <2>. HIDE DEF id
  <2>. QED
    BY <1>1, <1>2, <1>3, <1>4, <2>1, <2>2, PushLockAtOnce
<1>5. CASE /\ edges # {}
           /\ pusher' = t /\ currentLockId' = id /\ lockId' = 0
           /\ untried' = lockHistory'
           /\ ClearTables
           /\ UNCHANGED <<lockStack, calls>>
  <2>1. lockHistory' = lockHistory \cup edges /\ UNCHANGED <<report, crashed>>
    BY DEF PushLock
  <2>. HIDE DEF id
  <2>. QED
    BY <1>1, <1>2, <1>3, <1>5, <2>1, PushLockSearches
<1>. QED
  BY <1>4, <1>5 DEF PushLock
-----------------------------------------------------------------------------
(* The search.                                                              *)

\* What the history and the tables are while a search is under way.
LEMMA SearchFacts ==
  ASSUME ProfilerInv, pusher # None
  PROVE  /\ lockCount \in Nat /\ Ids \subseteq Int
         /\ lockHistory \subseteq Ids \X Ids /\ IsFiniteSet(lockHistory)
         /\ \A e \in lockHistory : e[1] # e[2] /\ e[1] \in Ids /\ e[2] \in Ids
         /\ lockStack \in [Threads -> Seq(Ids)] /\ pusher \in Threads
         /\ Tables /\ CallPath
         /\ Len(calls) \in Nat /\ \A i \in 1 .. Len(calls) : calls[i] \in Ids
<1>1. ProfilerShape /\ SearchInv
  BY DEF ProfilerInv
<1>2. Tables /\ CallPath
  BY <1>1 DEF SearchInv
<1>3. lockCount \in Nat
  BY <1>1, CountIsNat
<1>4. calls \in Seq(Ids)
  BY <1>2 DEF Tables
<1>5. Len(calls) \in Nat /\ \A i \in 1 .. Len(calls) : calls[i] \in Ids
  BY <1>4
<1>6. Ids \subseteq Int
  BY <1>3 DEF Ids
<1>7. /\ lockHistory \subseteq Ids \X Ids /\ IsFiniteSet(lockHistory)
      /\ \A e \in lockHistory : e[1] # e[2]
      /\ lockStack \in [Threads -> Seq(Ids)] /\ pusher \in Threads
  BY <1>1 DEF ProfilerShape
<1>8. \A e \in lockHistory : e[1] \in Ids /\ e[2] \in Ids
  BY <1>7
<1>. QED
  BY <1>2, <1>3, <1>5, <1>6, <1>7, <1>8, Zenon

\* Steps of the search change only what belongs to it.
LEMMA SearchFrame ==
  ASSUME ProfilerInv, pusher # None,
         UNCHANGED <<nameToId, lockHistory, lockStack, pusher, currentLockId>>,
         SearchInv'
  PROVE  ProfilerInv'
<1>1. ProfilerShape /\ StacksSettled
  BY DEF ProfilerInv
<1>2. Ids' = Ids
  BY DEF Ids, lockCount
<1>3. ProfilerShape'
  BY <1>1, <1>2 DEF ProfilerShape
<1>4. Settled' = Settled
  BY DEF Settled, NewEdge
<1>5. StacksSettled'
  BY <1>1, <1>4 DEF StacksSettled
<1>. QED
  BY <1>3, <1>5 DEF ProfilerInv

\* DFS is called for a lock that was not visited, by CheckCycle or by the call
\* of DFS that looks at the edge to it.
LEMMA VisitPreserves ==
  ASSUME ProfilerInv, Searching, NEW lock \in Ids,
         visitedOrder[lock] = -1, Visit(lock),
         \/ /\ calls = << >>
            /\ UNCHANGED <<parent, untried>>
         \/ /\ calls # << >> /\ <<Last(calls), lock>> \in lockHistory
            /\ parent' = [parent EXCEPT ![lock] = Last(calls)]
            /\ untried' = untried \ {<<Last(calls), lock>>},
         lockId' \in 0 .. lockCount, \A v \in Ids : v < lockId' => v < lockId \/ v = lock,
         UNCHANGED <<nameToId, lockHistory, lockStack, pusher, currentLockId, isFinished, report, crashed>>
  PROVE  ProfilerInv'
<1>1. /\ pusher # None /\ report = << >>
      /\ Explored /\ crashed # "DeadLock_detected"
  BY DEF ProfilerInv, SearchInv, Searching
<1>2. /\ Tables /\ CallPath /\ Ids \subseteq Int
      /\ \A e \in lockHistory : e[1] # e[2] /\ e[1] \in Ids /\ e[2] \in Ids
      /\ Len(calls) \in Nat /\ \A i \in 1 .. Len(calls) : calls[i] \in Ids
  BY <1>1, SearchFacts
<1>3. /\ visitedOrder \in [Ids -> Nat \cup {-1}] /\ totalNodeCount \in Nat
      /\ isFinished \in [Ids -> BOOLEAN] /\ parent \in [Ids -> Ids \cup {-1}]
      /\ calls \in Seq(Ids) /\ untried \subseteq lockHistory
  BY <1>2 DEF Tables
<1>4. Ids' = Ids /\ lockCount' = lockCount
  BY DEF Ids, lockCount
<1>5. PICK n \in Nat : n = Len(calls)
  BY <1>2
<1>6. /\ calls' \in Seq(Ids) /\ Len(calls') = n + 1
      /\ \A i \in 1 .. n : calls'[i] = calls[i] /\ calls[i] \in Ids
      /\ calls'[n + 1] = lock
  BY <1>2, <1>3, <1>5, AppendFacts DEF Visit
<1>7. /\ visitedOrder' \in [Ids -> Nat \cup {-1}] /\ totalNodeCount' = totalNodeCount + 1
      /\ visitedOrder'[lock] = totalNodeCount
      /\ \A v \in Ids \ {lock} : visitedOrder'[v] = visitedOrder[v]
  BY <1>3 DEF Visit
<1>8. ~isFinished[lock] /\ \A v \in Ids : visitedOrder[v] < totalNodeCount
  BY <1>2 DEF CallPath
<1>9. \A i \in 1 .. n : /\ calls[i] \in Ids \ {lock}
                        /\ visitedOrder[calls[i]] # -1 /\ ~isFinished[calls[i]]
  BY <1>2, <1>5 DEF CallPath
<1>10. n > 0 => Last(calls) = calls[n] /\ n \in 1 .. n /\ Last(calls) \in Ids
  BY <1>2, <1>5 DEF Last
<1>11. calls # << >> => n > 0
  BY <1>3, <1>5
<1>12. /\ parent' \in [Ids -> Ids \cup {-1}] /\ untried' \subseteq lockHistory
       /\ \A v \in Ids \ {lock} : parent'[v] = parent[v]
       /\ n > 0 => parent'[lock] = calls[n] /\ <<calls[n], lock>> \in lockHistory
  <2>1. CASE calls = << >> /\ UNCHANGED <<parent, untried>>
    <3>1. n = 0
      BY <1>5, <2>1
    <3>. QED
      BY <1>3, <2>1, <3>1
  <2>2. CASE /\ calls # << >> /\ <<Last(calls), lock>> \in lockHistory
             /\ parent' = [parent EXCEPT ![lock] = Last(calls)]
             /\ untried' = untried \ {<<Last(calls), lock>>}
    BY <1>3, <1>10, <1>11, <2>2
  <2>. QED
    BY <2>1, <2>2
<1>13. Tables'
  <2>1. NewEdge' = NewEdge /\ lockStack'[pusher'] = lockStack[pusher]
    BY DEF NewEdge
  <2>2. lockId' \in 0 .. lockCount'
    BY <1>4
  <2>3. totalNodeCount' \in Nat
    BY <1>3, <1>7
  <2>. QED
    BY <1>2, <1>3, <1>4, <1>6, <1>7, <1>12, <2>1, <2>2, <2>3 DEF Tables
<1>14. CallPath'
  <2>1. ASSUME NEW i \in 1 .. (n + 1)
        PROVE  visitedOrder'[calls'[i]] # -1 /\ ~isFinished'[calls'[i]]
    <3>1. CASE i \in 1 .. n
      BY <1>6, <1>7, <1>9, <3>1
    <3>2. CASE i = n + 1
      BY <1>3, <1>6, <1>7, <1>8, <3>2
    <3>. QED
      BY <3>1, <3>2
  <2>2. ASSUME NEW i \in 1 .. (n + 1), NEW k \in 1 .. (n + 1), i < k
        PROVE  visitedOrder'[calls'[i]] < visitedOrder'[calls'[k]]
    <3>1. CASE k \in 1 .. n
      <4>1. i \in 1 .. n
        BY <2>2, <3>1
      <4>2. visitedOrder[calls[i]] < visitedOrder[calls[k]]
        BY <1>2, <1>5, <2>2, <3>1, <4>1 DEF CallPath
      <4>. QED
        BY <1>6, <1>7, <1>9, <3>1, <4>1, <4>2
    <3>2. CASE k = n + 1
      <4>1. i \in 1 .. n
        BY <2>2, <3>2
      <4>. QED
        BY <1>6, <1>7, <1>8, <1>9, <3>2, <4>1
    <3>. QED
      BY <3>1, <3>2
  <2>3. ASSUME NEW i \in 1 .. n
        PROVE  parent'[calls'[i + 1]] = calls'[i] /\ <<calls'[i], calls'[i + 1]>> \in lockHistory'
    <3>1. CASE i \in 1 .. (n - 1)
      <4>1. i + 1 \in 1 .. n
        BY <3>1
      <4>2. parent[calls[i + 1]] = calls[i] /\ <<calls[i], calls[i + 1]>> \in lockHistory
        BY <1>2, <1>5, <3>1 DEF CallPath
      <4>3. calls[i + 1] \in Ids \ {lock}
        BY <1>9, <4>1
      <4>. QED
        BY <1>6, <1>12, <4>1, <4>2, <4>3
    <3>2. CASE i = n
      <4>1. n > 0 /\ n \in 1 .. n
        BY <3>2
      <4>2. calls'[i] = calls[n] /\ calls'[i + 1] = lock
        BY <1>6, <3>2, <4>1
      <4>3. parent'[lock] = calls[n] /\ <<calls[n], lock>> \in lockHistory
        BY <1>12, <4>1
      <4>. QED
        BY <4>2, <4>3
    <3>. QED
      BY <3>1, <3>2
  <2>4. ASSUME NEW v \in Ids
        PROVE  /\ visitedOrder'[v] < totalNodeCount'
               /\ isFinished'[v] => visitedOrder'[v] # -1
    <3>1. /\ visitedOrder[v] < totalNodeCount
          /\ isFinished[v] => visitedOrder[v] # -1
      BY <1>2 DEF CallPath
    <3>. QED
      BY <1>3, <1>7, <1>8, <3>1
  <2>5. ASSUME NEW v \in Ids, visitedOrder'[v] # -1, ~isFinished'[v]
        PROVE  \E i \in 1 .. (n + 1) : calls'[i] = v
    <3>1. CASE v = lock
      BY <1>6, <3>1
    <3>2. CASE v # lock
      <4>1. visitedOrder[v] # -1 /\ ~isFinished[v]
        BY <1>7, <2>5, <3>2
      <4>2. PICK i \in 1 .. n : calls[i] = v
        BY <1>2, <1>5, <4>1 DEF CallPath
      <4>3. i \in 1 .. (n + 1) /\ calls'[i] = v
        BY <1>6, <4>2
      <4>. QED
        BY <4>3
    <3>. QED
      BY <3>1, <3>2
  <2>6. ASSUME NEW v \in Ids, v < lockId'
        PROVE  visitedOrder'[v] # -1
    <3>1. v = lock \/ visitedOrder[v] # -1
      BY <1>2, <2>6 DEF CallPath
    <3>. QED
      BY <1>3, <1>7, <3>1
  <2>7. \A i \in 1 .. (Len(calls') - 1) : i \in 1 .. n
    BY <1>6
  <2>. QED
    BY <1>4, <1>6, <2>1, <2>2, <2>3, <2>4, <2>5, <2>6, <2>7 DEF CallPath
<1>15. Explored'
  <2>1. ASSUME NEW e \in lockHistory' \ untried', ~isFinished'[e[2]]
        PROVE  \E i \in 1 .. (Len(calls') - 1) : calls'[i] = e[1] /\ calls'[i + 1] = e[2]
    <3>1. CASE e \notin untried
      <4>1. PICK i \in 1 .. (n - 1) : calls[i] = e[1] /\ calls[i + 1] = e[2]
        BY <1>1, <1>5, <2>1, <3>1 DEF Explored
      <4>2. i \in 1 .. n /\ i + 1 \in 1 .. n
        BY <4>1
      <4>3. calls'[i] = e[1] /\ calls'[i + 1] = e[2]
        BY <1>6, <4>1, <4>2
      <4>. QED
        BY <1>6, <4>2, <4>3
    <3>2. CASE e \in untried
      <4>1. calls # << >> /\ e = <<Last(calls), lock>>
        BY <2>1, <3>2
      <4>2. n \in 1 .. n /\ e[1] = calls[n] /\ e[2] = lock
        BY <1>10, <1>11, <4>1
      <4>. QED
        BY <1>6, <4>2
    <3>. QED
      BY <3>1, <3>2
  <2>2. \A e \in lockHistory' : isFinished'[e[1]] => isFinished'[e[2]]
    BY <1>1 DEF Explored
  <2>3. \A S \in SUBSET {v \in Ids' : isFinished'[v]} :
           S # {} => \E a \in S : \A b \in S : <<a, b>> \notin lockHistory'
    BY <1>1, <1>4 DEF Explored
  <2>. QED
    BY <2>1, <2>2, <2>3 DEF Explored
<1>16. SearchInv'
  BY <1>1, <1>13, <1>14, <1>15 DEF SearchInv
<1>. QED
  BY <1>1, <1>16, SearchFrame

\* A turn of the loop over all locks.
LEMMA CheckCycleLoopPreserves ==
  ASSUME ProfilerInv, CheckCycleLoop
  PROVE  ProfilerInv'
<1>1. /\ Searching /\ calls = << >> /\ lockId < lockCount /\ lockId' = lockId + 1
      /\ UNCHANGED <<nameToId, lockHistory, lockStack, pusher, currentLockId, untried, report, crashed>>
  BY DEF CheckCycleLoop
<1>2. /\ pusher # None /\ report = << >>
      /\ Explored /\ crashed # "DeadLock_detected"
  BY <1>1 DEF ProfilerInv, SearchInv, Searching
<1>3. lockCount \in Nat /\ Tables /\ CallPath
  BY <1>2, SearchFacts
<1>4. lockId \in 0 .. lockCount
  BY <1>3 DEF Tables
<1>5. lockId \in Ids /\ lockId' \in 0 .. lockCount /\ \A v \in Ids : v < lockId' => v < lockId \/ v = lockId
  BY <1>1, <1>3, <1>4 DEF Ids
<1>6. CASE visitedOrder[lockId] # -1 /\ UNCHANGED <<tables, calls>>
  <2>1. UNCHANGED <<visitedOrder, totalNodeCount, isFinished, parent, calls>>
    BY <1>6 DEF tables
  <2>2. Ids' = Ids /\ lockCount' = lockCount /\ NewEdge' = NewEdge
    BY <1>1 DEF Ids, lockCount, NewEdge
  <2>3. Tables'
    BY <1>1, <1>3, <1>5, <2>1, <2>2 DEF Tables
  <2>4. \A v \in Ids : v < lockId' => visitedOrder[v] # -1
    BY <1>3, <1>5, <1>6 DEF CallPath
  <2>5. CallPath'
    BY <1>1, <1>3, <2>1, <2>2, <2>4 DEF CallPath
  <2>6. Explored'
    BY <1>1, <1>2, <2>1, <2>2 DEF Explored
  <2>7. SearchInv'
    BY <1>1, <1>2, <2>3, <2>5, <2>6 DEF SearchInv
  <2>. QED
    BY <1>1, <1>2, <2>7, SearchFrame
<1>7. CASE visitedOrder[lockId] = -1 /\ Visit(lockId) /\ UNCHANGED <<isFinished, parent>>
  <2>1. PICK lock \in Ids : lock = lockId
    BY <1>5
  <2>. QED
    BY <1>1, <1>5, <1>7, <2>1, VisitPreserves
<1>. QED
  BY <1>6, <1>7 DEF CheckCycleLoop

\* The lock at the end of an edge that the innermost call looks at has been
\* visited: it is finished, or it is the lock of an outer call.
LEMMA VisitedLock ==
  ASSUME ProfilerInv, pusher # None, calls # << >>,
         NEW lock, <<Last(calls), lock>> \in lockHistory,
         visitedOrder[lock] # -1, ~isFinished[lock]
  PROVE  \E j \in 1 .. (Len(calls) - 1) :
            calls[j] = lock /\ visitedOrder[lock] < visitedOrder[Last(calls)]
<1>1. /\ CallPath /\ Tables
      /\ \A e \in lockHistory : e[1] # e[2] /\ e[1] \in Ids /\ e[2] \in Ids
      /\ Len(calls) \in Nat
  BY SearchFacts
<1>2. lock \in Ids /\ lock # Last(calls)
  BY <1>1
<1>3. PICK j \in 1 .. Len(calls) : calls[j] = lock
  BY <1>1, <1>2 DEF CallPath
<1>4. j # Len(calls)
  BY <1>2, <1>3 DEF Last
<1>5. j \in 1 .. (Len(calls) - 1) /\ j < Len(calls) /\ Len(calls) \in 1 .. Len(calls)
  BY <1>1, <1>3, <1>4
<1>6. visitedOrder[calls[j]] < visitedOrder[calls[Len(calls)]]
  BY <1>1, <1>5 DEF CallPath
<1>. QED
  BY <1>3, <1>5, <1>6 DEF Last

\* The innermost call looks at an edge: the lock is visited, needs no visit, or
\* closes a cycle.
LEMMA DFSLoopPreserves ==
  ASSUME ProfilerInv, DFSLoop
  PROVE  ProfilerInv'
<1>1. /\ Searching /\ calls # << >>
      /\ UNCHANGED <<nameToId, lockHistory, lockStack, pusher, currentLockId, lockId, crashed>>
  BY DEF DFSLoop
<1>2. /\ pusher # None /\ report = << >>
      /\ Explored /\ crashed # "DeadLock_detected"
  BY <1>1 DEF ProfilerInv, SearchInv, Searching
<1>3. /\ lockCount \in Nat /\ Tables /\ CallPath /\ Ids \subseteq Int
      /\ \A e \in lockHistory : e[1] # e[2] /\ e[1] \in Ids /\ e[2] \in Ids
      /\ lockHistory \subseteq Ids \X Ids
      /\ Len(calls) \in Nat
  BY <1>2, SearchFacts
<1>4. untried \subseteq lockHistory /\ visitedOrder \in [Ids -> Nat \cup {-1}]
  BY <1>3 DEF Tables
<1>5. PICK nextLock \in NextSet(Last(calls)) :
         /\ untried' = untried \ {<<Last(calls), nextLock>>}
         /\ LookAt(Last(calls), nextLock)
  BY DEF DFSLoop
<1>6. <<Last(calls), nextLock>> \in untried
  <2>1. PICK e \in untried : e[1] = Last(calls) /\ nextLock = e[2]
    BY <1>5 DEF NextSet
  <2>2. e \in Ids \X Ids
    BY <1>3, <1>4, <2>1
  <2>3. e = <<e[1], e[2]>>
    BY <2>2
  <2>. QED
    BY <2>1, <2>3
<1>7. <<Last(calls), nextLock>> \in lockHistory
  BY <1>4, <1>6
<1>8. nextLock \in Ids /\ Last(calls) \in Ids
  BY <1>3, <1>7
<1>9. /\ Ids' = Ids /\ lockCount' = lockCount /\ NewEdge' = NewEdge
  BY <1>1 DEF Ids, lockCount, NewEdge
<1>10. CASE /\ visitedOrder[nextLock] = -1
            /\ parent' = [parent EXCEPT ![nextLock] = Last(calls)]
            /\ Visit(nextLock)
            /\ UNCHANGED <<isFinished, report>>
  <2>1. lockId' \in 0 .. lockCount /\ \A v \in Ids : v < lockId' => v < lockId \/ v = nextLock
    BY <1>1, <1>3 DEF Tables
  <2>. QED
    BY <1>1, <1>5, <1>7, <1>8, <1>10, <2>1, VisitPreserves
<1>11. CASE /\ visitedOrder[Last(calls)] < visitedOrder[nextLock] \/ isFinished[nextLock]
            /\ UNCHANGED <<tables, calls, report>>
  <2>1. UNCHANGED <<visitedOrder, totalNodeCount, isFinished, parent, calls, report>>
    BY <1>11 DEF tables
  <2>2. isFinished[nextLock]
    <3>1. SUFFICES ASSUME ~isFinished[nextLock], visitedOrder[Last(calls)] < visitedOrder[nextLock]
                   PROVE  FALSE
      BY <1>11
    <3>2. visitedOrder[nextLock] # -1
      BY <1>4, <1>8, <3>1
    <3>3. visitedOrder[nextLock] < visitedOrder[Last(calls)]
      BY <1>1, <1>2, <1>7, <3>1, <3>2, VisitedLock
    <3>. QED
      BY <1>4, <1>8, <3>1, <3>3
  <2>3. Tables'
    BY <1>1, <1>3, <1>5, <1>9, <2>1 DEF Tables
  <2>4. CallPath'
    BY <1>1, <1>3, <1>9, <2>1 DEF CallPath
  <2>5. Explored'
    <3>1. ASSUME NEW e \in lockHistory' \ untried', ~isFinished'[e[2]]
          PROVE  \E i \in 1 .. (Len(calls') - 1) : calls'[i] = e[1] /\ calls'[i + 1] = e[2]
      <4>1. e # <<Last(calls), nextLock>>
        BY <2>1, <2>2, <3>1
      <4>2. e \in lockHistory \ untried
        BY <1>1, <1>5, <3>1, <4>1
      <4>. QED
        BY <1>2, <2>1, <3>1, <4>2 DEF Explored
    <3>2. /\ \A e \in lockHistory' : isFinished'[e[1]] => isFinished'[e[2]]
          /\ \A S \in SUBSET {v \in Ids' : isFinished'[v]} :
                S # {} => \E a \in S : \A b \in S : <<a, b>> \notin lockHistory'
      BY <1>1, <1>2, <1>9, <2>1 DEF Explored
    <3>. QED
      BY <3>1, <3>2 DEF Explored
  <2>6. SearchInv'
    BY <1>1, <1>2, <2>1, <2>3, <2>4, <2>5 DEF SearchInv
  <2>. QED
    BY <1>1, <1>2, <2>6, SearchFrame
<1>12. CASE /\ visitedOrder[nextLock] \in 0 .. visitedOrder[Last(calls)] /\ ~isFinished[nextLock]
            /\ report' = <<<<Last(calls), nextLock>>>>
            /\ UNCHANGED <<tables, calls>>
  <2>1. UNCHANGED <<visitedOrder, totalNodeCount, isFinished, parent, calls>>
    BY <1>12 DEF tables
  <2>2. visitedOrder[nextLock] # -1
    BY <1>12
  <2>3. PICK j \in 1 .. (Len(calls) - 1) : calls[j] = nextLock
    BY <1>1, <1>2, <1>7, <1>12, <2>2, VisitedLock
  <2>4. Tables'
    BY <1>1, <1>3, <1>5, <1>9, <2>1 DEF Tables
  <2>5. CallPath'
    BY <1>1, <1>3, <1>9, <2>1 DEF CallPath
  <2>6. PICK e \in lockHistory : e = <<Last(calls), nextLock>>
    BY <1>7
  <2>7. report' = <<e>> /\ report' \in Seq(lockHistory) /\ Len(report') = 1 /\ report'[1] = e
    BY <1>12, <2>6
  <2>8. e[1] = Last(calls) /\ e[2] = nextLock
    BY <2>6
  <2>9. /\ j \in 1 .. Len(calls) /\ Len(calls) \in 1 .. Len(calls) /\ j < Len(calls)
        /\ calls[Len(calls)] = Last(calls)
    BY <1>3, <2>3 DEF Last
  <2>10. \E i, k \in 1 .. Len(calls') :
            i < k /\ calls'[i] = report'[1][2] /\ calls'[k] = report'[Len(report')][1]
    BY <2>1, <2>3, <2>7, <2>8, <2>9
  <2>11. Printed'
    <3>1. \A i \in 1 .. Len(report') : report'[i] \in lockHistory'
      BY <1>1, <2>7
    <3>2. \A i \in 1 .. (Len(report') - 1) : report'[i][1] = report'[i + 1][2]
      BY <2>7
    <3>3. crashed' # "DeadLock_detected"
      BY <1>1, <1>2
    <3>. QED
      BY <2>10, <3>1, <3>2, <3>3, Zenon DEF Printed
  <2>12. report' \in Seq(lockHistory') /\ Len(report') > 0 /\ report' # << >>
    BY <1>1, <2>7
  <2>13. SearchInv'
    BY <2>4, <2>5, <2>11, <2>12 DEF SearchInv
  <2>. QED
    BY <1>1, <1>2, <2>13, SearchFrame
<1>. QED
  BY <1>5, <1>10, <1>11, <1>12 DEF LookAt

\* A call returns: every edge from its lock leads to a finished one, so with
\* the lock itself the finished ones still have no cycle.
LEMMA DFSReturnsPreserves ==
  ASSUME ProfilerInv, DFSReturns
  PROVE  ProfilerInv'
<1>1. /\ Searching /\ calls # << >> /\ NextSet(Last(calls)) = {}
      /\ isFinished' = [isFinished EXCEPT ![Last(calls)] = TRUE]
      /\ calls' = Front(calls)
      /\ UNCHANGED <<nameToId, lockHistory, lockStack, pusher, currentLockId, lockId, untried,
                     visitedOrder, totalNodeCount, parent, report, crashed>>
  BY DEF DFSReturns
<1>2. /\ pusher # None /\ report = << >>
      /\ Explored /\ crashed # "DeadLock_detected"
  BY <1>1 DEF ProfilerInv, SearchInv, Searching
<1>3. /\ lockCount \in Nat /\ Tables /\ CallPath /\ Ids \subseteq Int
      /\ \A e \in lockHistory : e[1] # e[2] /\ e[1] \in Ids /\ e[2] \in Ids
      /\ lockHistory \subseteq Ids \X Ids
  BY <1>2, SearchFacts
<1>4. /\ visitedOrder \in [Ids -> Nat \cup {-1}] /\ isFinished \in [Ids -> BOOLEAN]
      /\ calls \in Seq(Ids) /\ untried \subseteq lockHistory
  BY <1>3 DEF Tables
<1>5. PICK n \in Nat : n = Len(calls)
  BY <1>4
<1>6. /\ n > 0 /\ calls' \in Seq(Ids) /\ Len(calls') = n - 1
      /\ \A i \in 1 .. (n - 1) : calls'[i] = calls[i]
  BY <1>1, <1>4, <1>5, FrontFacts
<1>7. PICK lock \in Ids : lock = Last(calls) /\ lock = calls[n]
  BY <1>4, <1>5, <1>6 DEF Last
<1>8. /\ isFinished' \in [Ids -> BOOLEAN] /\ isFinished'[lock]
      /\ \A v \in Ids \ {lock} : isFinished'[v] = isFinished[v]
  BY <1>1, <1>4, <1>7
<1>9. Ids' = Ids /\ lockCount' = lockCount /\ NewEdge' = NewEdge
  BY <1>1 DEF Ids, lockCount, NewEdge
<1>10. \A i \in 1 .. n : /\ calls[i] \in Ids /\ visitedOrder[calls[i]] # -1 /\ ~isFinished[calls[i]]
                         /\ i < n => visitedOrder[calls[i]] < visitedOrder[lock] /\ calls[i] # lock
  <2>1. ASSUME NEW i \in 1 .. n
        PROVE  calls[i] \in Ids /\ visitedOrder[calls[i]] # -1 /\ ~isFinished[calls[i]]
    BY <1>3, <1>4, <1>5, <2>1 DEF CallPath
  <2>2. ASSUME NEW i \in 1 .. n, i < n
        PROVE  visitedOrder[calls[i]] < visitedOrder[lock] /\ calls[i] # lock
    <3>1. visitedOrder[calls[i]] < visitedOrder[lock]
      BY <1>3, <1>5, <1>6, <1>7, <2>2 DEF CallPath
    <3>2. visitedOrder[lock] \in Int
      BY <1>4
    <3>. QED
      BY <3>1, <3>2
  <2>. QED
    BY <2>1, <2>2
\* Edges from the lock lead to finished locks: none of them is untried, and the
\* lock is not that of an outer call.
<1>11. ASSUME NEW e \in lockHistory, e[1] = lock
       PROVE  isFinished[e[2]] /\ e[2] # lock
  <2>1. e \notin untried
    BY <1>1, <1>7, <1>11 DEF NextSet
  <2>2. ASSUME NEW i \in 1 .. (n - 1), calls[i] = lock PROVE FALSE
    BY <1>10, <2>2
  <2>3. isFinished[e[2]]
    BY <1>2, <1>5, <1>11, <2>1, <2>2 DEF Explored
  <2>. QED
    BY <1>3, <1>11, <2>3
<1>12. Tables'
  BY <1>1, <1>3, <1>6, <1>8, <1>9 DEF Tables
<1>13. CallPath'
  <2>1. ASSUME NEW i \in 1 .. (n - 1)
        PROVE  visitedOrder'[calls'[i]] # -1 /\ ~isFinished'[calls'[i]]
    <3>1. i \in 1 .. n /\ i < n
      BY <2>1
    <3>2. calls'[i] = calls[i] /\ calls[i] \in Ids \ {lock} /\ visitedOrder[calls[i]] # -1 /\ ~isFinished[calls[i]]
      BY <1>6, <1>10, <2>1, <3>1
    <3>. QED
      BY <1>1, <1>8, <3>2
  <2>2. ASSUME NEW i \in 1 .. (n - 1), NEW k \in 1 .. (n - 1), i < k
        PROVE  visitedOrder'[calls'[i]] < visitedOrder'[calls'[k]]
    <3>1. visitedOrder[calls[i]] < visitedOrder[calls[k]]
      BY <1>3, <1>5, <2>2 DEF CallPath
    <3>. QED
      BY <1>1, <1>6, <3>1
  <2>3. ASSUME NEW i \in 1 .. (n - 2)
        PROVE  parent'[calls'[i + 1]] = calls'[i] /\ <<calls'[i], calls'[i + 1]>> \in lockHistory'
    <3>1. i \in 1 .. (n - 1) /\ i + 1 \in 1 .. (n - 1)
      OBVIOUS
    <3>2. parent[calls[i + 1]] = calls[i] /\ <<calls[i], calls[i + 1]>> \in lockHistory
      BY <1>3, <1>5, <3>1 DEF CallPath
    <3>. QED
      BY <1>1, <1>6, <3>1, <3>2
  <2>4. ASSUME NEW v \in Ids
        PROVE  /\ visitedOrder'[v] < totalNodeCount'
               /\ isFinished'[v] => visitedOrder'[v] # -1
               /\ v < lockId' => visitedOrder'[v] # -1
    <3>1. /\ visitedOrder[v] < totalNodeCount
          /\ isFinished[v] => visitedOrder[v] # -1
          /\ v < lockId => visitedOrder[v] # -1
      BY <1>3 DEF CallPath
    <3>2. visitedOrder[lock] # -1
      BY <1>6, <1>7, <1>10
    <3>. QED
      BY <1>1, <1>8, <3>1, <3>2
  <2>5. ASSUME NEW v \in Ids, visitedOrder'[v] # -1, ~isFinished'[v]
        PROVE  \E i \in 1 .. (n - 1) : calls'[i] = v
    <3>1. v # lock /\ visitedOrder[v] # -1 /\ ~isFinished[v]
      BY <1>1, <1>8, <2>5
    <3>2. PICK i \in 1 .. n : calls[i] = v
      BY <1>3, <1>5, <3>1 DEF CallPath
    <3>3. i # n
      BY <1>7, <3>1, <3>2
    <3>4. i \in 1 .. (n - 1)
      BY <3>2, <3>3
    <3>. QED
      BY <1>6, <3>2, <3>4
  <2>6. \A i \in 1 .. (Len(calls') - 1) : i \in 1 .. (n - 2)
    BY <1>6
  <2>. QED
    BY <1>6, <1>9, <2>1, <2>2, <2>3, <2>4, <2>5, <2>6 DEF CallPath
<1>14. Explored'
  <2>1. ASSUME NEW e \in lockHistory' \ untried', ~isFinished'[e[2]]
        PROVE  \E i \in 1 .. (Len(calls') - 1) : calls'[i] = e[1] /\ calls'[i + 1] = e[2]
    <3>1. e[2] \in Ids /\ e[2] # lock /\ ~isFinished[e[2]]
      BY <1>1, <1>3, <1>8, <2>1
    <3>2. PICK i \in 1 .. (n - 1) : calls[i] = e[1] /\ calls[i + 1] = e[2]
      BY <1>1, <1>2, <1>5, <2>1, <3>1 DEF Explored
    <3>3. i + 1 # n
      BY <1>7, <3>1, <3>2
    <3>4. i \in 1 .. (n - 2) /\ i + 1 \in 1 .. (n - 1)
      BY <3>2, <3>3
    <3>. QED
      BY <1>6, <3>2, <3>4
  <2>2. ASSUME NEW e \in lockHistory', isFinished'[e[1]] PROVE isFinished'[e[2]]
    <3>1. e \in lockHistory /\ e[1] \in Ids /\ e[2] \in Ids
      BY <1>1, <1>3
    <3>2. isFinished[e[2]]
      <4>1. CASE e[1] = lock
        BY <1>11, <3>1, <4>1
      <4>2. CASE e[1] # lock
        <5>1. isFinished[e[1]]
          BY <1>8, <2>2, <3>1, <4>2
        <5>. QED
          BY <1>2, <3>1, <5>1 DEF Explored
      <4>. QED
        BY <4>1, <4>2
    <3>. QED
      BY <1>8, <3>1, <3>2
  <2>3. ASSUME NEW S \in SUBSET {v \in Ids : isFinished'[v]}, S # {}
        PROVE  \E a \in S : \A b \in S : <<a, b>> \notin lockHistory
    <3>1. S \ {lock} \subseteq {v \in Ids : isFinished[v]}
      BY <1>8
    <3>2. CASE S \ {lock} = {}
      <4>1. lock \in S /\ \A b \in S : b = lock
        BY <2>3, <3>2
      <4>2. <<lock, lock>> \notin lockHistory
        BY <1>3
      <4>. QED
        BY <4>1, <4>2
    <3>3. CASE S \ {lock} # {}
      <4>1. PICK a \in S \ {lock} : \A b \in S \ {lock} : <<a, b>> \notin lockHistory
        BY <1>2, <3>1, <3>3 DEF Explored
      <4>2. <<a, lock>> \notin lockHistory
        <5>1. SUFFICES ASSUME <<a, lock>> \in lockHistory PROVE FALSE
          OBVIOUS
        <5>2. isFinished[a]
          BY <3>1, <4>1
        <5>3. isFinished[lock]
          BY <1>2, <5>1, <5>2 DEF Explored
        <5>. QED
          BY <1>6, <1>7, <1>10, <5>3
      <4>3. \A b \in S : <<a, b>> \notin lockHistory
        BY <4>1, <4>2
      <4>. QED
        BY <4>1, <4>3
    <3>. QED
      BY <3>2, <3>3
  <2>. QED
    BY <1>1, <1>9, <2>1, <2>2, <2>3 DEF Explored
<1>15. SearchInv'
  BY <1>1, <1>2, <1>12, <1>13, <1>14 DEF SearchInv
<1>. QED
  BY <1>1, <1>2, <1>15, SearchFrame

\* A lock that was visited earlier on the calls is printed next.
LEMMA PrintCyclePreserves ==
  ASSUME ProfilerInv, PrintCycle, crashed # "DeadLock_detected"
  PROVE  ProfilerInv'
<1>1. report # << >> /\ UNCHANGED <<nameToId, lockHistory, lockStack, searchVars>>
  BY DEF PrintCycle
<1>2. UNCHANGED <<pusher, currentLockId, lockId, calls, untried,
                  visitedOrder, totalNodeCount, isFinished, parent>>
  BY <1>1 DEF searchVars, tables
<1>3. pusher # None
  BY <1>1 DEF ProfilerInv, ProfilerShape
<1>4. report \in Seq(lockHistory) /\ Len(report) > 0 /\ Printed
  BY <1>1, <1>3 DEF ProfilerInv, SearchInv
<1>5. /\ Tables /\ CallPath /\ Len(calls) \in Nat /\ \A i \in 1 .. Len(calls) : calls[i] \in Ids
      /\ Ids \subseteq Int /\ lockCount \in Nat
  BY <1>3, SearchFacts
<1>6. PICK n \in Nat : n = Len(report) /\ n > 0
  BY <1>4
<1>7. PICK j \in 1 .. Len(calls), k \in 1 .. Len(calls) :
         j < k /\ calls[j] = report[1][2] /\ calls[k] = report[n][1]
  BY <1>4, <1>6 DEF Printed
<1>8. k - 1 \in 1 .. (Len(calls) - 1) /\ k - 1 \in 1 .. Len(calls) /\ (k - 1) + 1 = k
  BY <1>5, <1>7
<1>9. parent[calls[k]] = calls[k - 1] /\ <<calls[k - 1], calls[k]>> \in lockHistory
  BY <1>5, <1>8 DEF CallPath
<1>10. Last(report)[1] = calls[k]
  BY <1>6, <1>7 DEF Last
<1>11. PICK e \in lockHistory : e = <<calls[k - 1], calls[k]>>
  BY <1>9
<1>12. /\ report' = Append(report, e)
       /\ crashed' = IF calls[k - 1] \in {-1, report[1][2]} THEN "DeadLock_detected" ELSE crashed
  BY <1>9, <1>10, <1>11 DEF PrintCycle
<1>13. /\ report' \in Seq(lockHistory) /\ Len(report') = n + 1
       /\ \A i \in 1 .. n : report'[i] = report[i]
       /\ report'[n + 1] = e
  BY <1>4, <1>6, <1>12, AppendFacts
<1>14. e[1] = calls[k - 1] /\ e[2] = calls[k]
  BY <1>11
<1>15. calls[k - 1] # -1
  <2>1. calls[k - 1] \in 0 .. (lockCount - 1)
    BY <1>5, <1>8 DEF Ids
  <2>. QED
    BY <1>5, <2>1
<1>16. Printed'
  <2>1. ASSUME NEW i \in 1 .. (n + 1) PROVE report'[i] \in lockHistory'
    BY <1>1, <1>13
  <2>2. ASSUME NEW i \in 1 .. n PROVE report'[i][1] = report'[i + 1][2]
    <3>1. CASE i \in 1 .. (n - 1)
      <4>1. report[i][1] = report[i + 1][2]
        BY <1>4, <1>6, <3>1 DEF Printed
      <4>2. i \in 1 .. n /\ i + 1 \in 1 .. n
        BY <3>1
      <4>. QED
        BY <1>13, <4>1, <4>2
    <3>2. CASE i = n
      BY <1>7, <1>13, <1>14, <3>2
    <3>. QED
      BY <3>1, <3>2
  <2>3. report'[1] = report[1]
    BY <1>6, <1>13
  <2>4. CASE calls[k - 1] = report[1][2]
    <3>1. crashed' = "DeadLock_detected"
      BY <1>12, <2>4
    <3>2. report'[n + 1][1] = report'[1][2]
      BY <1>13, <1>14, <2>3, <2>4
    <3>3. \A i \in 1 .. (Len(report') - 1) : i \in 1 .. n
      BY <1>13
    <3>. QED
      BY <1>13, <2>1, <2>2, <3>1, <3>2, <3>3, Zenon DEF Printed
  <2>5. CASE calls[k - 1] # report[1][2]
    <3>1. crashed' # "DeadLock_detected"
      BY <1>12, <1>15, <2>5
    <3>2. j # k - 1
      BY <1>7, <2>5
    <3>3. j < k - 1
      BY <1>7, <3>2
    <3>4. calls'[j] = report'[1][2] /\ calls'[k - 1] = report'[n + 1][1]
      BY <1>2, <1>7, <1>13, <1>14, <2>3
    <3>5. \E i, m \in 1 .. Len(calls') :
             i < m /\ calls'[i] = report'[1][2] /\ calls'[m] = report'[n + 1][1]
      BY <1>2, <1>7, <1>8, <3>3, <3>4
    <3>6. \A i \in 1 .. (Len(report') - 1) : i \in 1 .. n
      BY <1>13
    <3>. QED
      BY <1>13, <2>1, <2>2, <3>1, <3>5, <3>6, Zenon DEF Printed
  <2>. QED
    BY <2>4, <2>5
<1>17. Ids' = Ids /\ lockCount' = lockCount /\ NewEdge' = NewEdge
  BY <1>1, <1>2 DEF Ids, lockCount, NewEdge
<1>18. Tables'
  BY <1>1, <1>2, <1>5, <1>17 DEF Tables
<1>19. CallPath'
  BY <1>1, <1>2, <1>5, <1>17 DEF CallPath
<1>20. report' \in Seq(lockHistory') /\ Len(report') > 0 /\ report' # << >>
  BY <1>1, <1>13
<1>21. SearchInv'
  BY <1>16, <1>18, <1>19, <1>20 DEF SearchInv
<1>. QED
  BY <1>1, <1>2, <1>3, <1>21, SearchFrame

\* The search has come to its end: every lock is finished, and the history has
\* no cycle.
LEMMA SearchedIsAcyclic ==
  ASSUME ProfilerInv, Searching, calls = << >>, lockId = lockCount
  PROVE  ~Cyclic(lockHistory)
<1>1. pusher # None /\ Explored
  BY DEF ProfilerInv, SearchInv, Searching
<1>2. /\ CallPath /\ lockCount \in Nat
      /\ \A e \in lockHistory : e[1] \in Ids /\ e[2] \in Ids
  BY <1>1, SearchFacts
<1>3. \A v \in Ids : v < lockId
  BY <1>2 DEF Ids
<1>4. \A v \in Ids : isFinished[v]
  BY <1>2, <1>3 DEF CallPath
<1>. SUFFICES ASSUME Cyclic(lockHistory) PROVE FALSE
  OBVIOUS
<1>5. PICK S \in SUBSET {e[1] : e \in lockHistory} :
         S # {} /\ \A a \in S : \E b \in S : <<a, b>> \in lockHistory
  BY DEF Cyclic
<1>6. S \in SUBSET {v \in Ids : isFinished[v]}
  BY <1>2, <1>4, <1>5
<1>7. PICK a \in S : \A b \in S : <<a, b>> \notin lockHistory
  BY <1>1, <1>5, <1>6 DEF Explored
<1>. QED
  BY <1>5, <1>7

\* The search found nothing, and the lock is pushed.
LEMMA PushLockReturnsPreserves ==
  ASSUME ProfilerInv, PushLockReturns
  PROVE  ProfilerInv'
<1>1. /\ Searching /\ calls = << >> /\ lockId = lockCount
      /\ lockStack' = [lockStack EXCEPT ![pusher] = Append(@, currentLockId)]
      /\ pusher' = None
      /\ UNCHANGED <<nameToId, lockHistory, calls, report, crashed>>
  BY DEF PushLockReturns
<1>2. /\ pusher # None /\ report = << >> /\ crashed # "DeadLock_detected"
      /\ ProfilerShape /\ StacksSettled
  BY <1>1 DEF ProfilerInv, SearchInv, Searching
<1>3. /\ lockStack \in [Threads -> Seq(Ids)] /\ pusher \in Threads /\ Tables
  BY <1>2, SearchFacts
<1>4. /\ currentLockId \in Ids /\ NewEdge \in lockHistory
  BY <1>3 DEF Tables
<1>5. ~Cyclic(lockHistory)
  BY <1>1, SearchedIsAcyclic
<1>6. Ids' = Ids
  BY <1>1 DEF Ids, lockCount
<1>7. PICK s \in Seq(Ids), id \in Ids : s = lockStack[pusher] /\ id = currentLockId
  BY <1>3, <1>4
<1>8. Append(s, id) \in Seq(Ids)
  BY AppendFacts
<1>9. lockStack' \in [Threads -> Seq(Ids)]
  BY <1>1, <1>3, <1>7, <1>8
<1>10. ProfilerShape'
  BY <1>1, <1>2, <1>6, <1>9 DEF ProfilerShape
<1>11. Settled' = lockHistory /\ Settled \subseteq lockHistory
  BY <1>1, <1>2 DEF Settled
<1>12. ASSUME NEW u \in Threads PROVE Neighbours(lockStack[u], lockHistory)
  <2>1. Neighbours(lockStack[u], Settled)
    BY <1>2 DEF StacksSettled
  <2>. QED
    BY <1>11, <2>1 DEF Neighbours
<1>13. Neighbours(Append(s, id), lockHistory)
  <2>1. <<Last(s), id>> \in lockHistory
    BY <1>4, <1>7 DEF NewEdge
  <2>2. Neighbours(s, lockHistory)
    BY <1>3, <1>7, <1>12
  <2>. QED
    BY <2>1, <2>2, AppendNeighbours
<1>14. ASSUME NEW u \in Threads PROVE Neighbours(lockStack'[u], lockHistory)
  BY <1>1, <1>3, <1>7, <1>12, <1>13
<1>15. StacksSettled'
  BY <1>5, <1>11, <1>14 DEF StacksSettled
<1>. QED
  BY <1>1, <1>10, <1>15 DEF ProfilerInv

-----------------------------------------------------------------------------
(* The invariant and what follows from it.                                  *)

\* What leaves every variable alone keeps the invariant.
LEMMA ProfilerStutters ==
  ASSUME ProfilerInv, UNCHANGED profilerVars
  PROVE  ProfilerInv'
<1>1. UNCHANGED <<nameToId, lockHistory, lockStack, pusher, currentLockId, lockId, calls, untried,
                  visitedOrder, totalNodeCount, isFinished, parent, report, crashed>>
  BY DEF profilerVars, searchVars, tables
<1>2. /\ Ids' = Ids /\ lockCount' = lockCount /\ NewEdge' = NewEdge /\ Settled' = Settled
  BY <1>1 DEF Ids, lockCount, NewEdge, Settled
<1>3. ProfilerShape' = ProfilerShape
  BY <1>1, <1>2 DEF ProfilerShape
<1>4. StacksSettled' = StacksSettled
  BY <1>1, <1>2 DEF StacksSettled
<1>5. Tables' = Tables
  BY <1>1, <1>2 DEF Tables
<1>6. CallPath' = CallPath
  BY <1>1, <1>2 DEF CallPath
<1>7. Explored' = Explored
  BY <1>1, <1>2 DEF Explored
<1>8. Printed' = Printed
  BY <1>1 DEF Printed
<1>9. SearchInv' = SearchInv
  BY <1>1, <1>5, <1>6, <1>7, <1>8 DEF SearchInv
<1>. QED
  BY <1>1, <1>3, <1>4, <1>9 DEF ProfilerInv

\* Every step keeps the invariant.
LEMMA ProfilerStep ==
  ASSUME ProfilerInv, [ProfilerNext]_profilerVars
  PROVE  ProfilerInv'
<1>1. CASE UNCHANGED profilerVars
  BY <1>1, ProfilerStutters
<1>2. ASSUME NEW t \in Threads, NEW name \in Names, PushLock(t, name) PROVE ProfilerInv'
  BY <1>2, PushLockPreserves
<1>3. ASSUME NEW t \in Threads, NEW name \in Names, PopLock(t, name) PROVE ProfilerInv'
  BY <1>3, PopLockPreserves
<1>4. CASE CheckCycleLoop
  BY <1>4, CheckCycleLoopPreserves
<1>5. CASE DFSLoop
  BY <1>5, DFSLoopPreserves
<1>6. CASE DFSReturns
  BY <1>6, DFSReturnsPreserves
<1>7. CASE ProfilerNext /\ PrintCycle
  BY <1>7, PrintCyclePreserves DEF ProfilerNext
<1>8. CASE PushLockReturns
  BY <1>8, PushLockReturnsPreserves
<1>. QED
  BY <1>1, <1>2, <1>3, <1>4, <1>5, <1>6, <1>7, <1>8 DEF ProfilerNext

\* The search of CheckCycle is a depth first search: the calls are a path, what
\* was left is finished and has no cycle, and every stack follows edges that
\* were searched.
THEOREM ProfilerInvariant == ProfilerSpec => []ProfilerInv
  BY InitProfilerInv, ProfilerStep, PTL DEF ProfilerSpec

\* w is a closed walk along edges, last edge first as DFS prints it.
ClosedWalk(w) ==
    /\ \A i \in 1 .. (Len(w) - 1) : w[i][1] = w[i + 1][2]
    /\ w[Len(w)][1] = w[1][2]

\* The locks of a closed walk are a circle.
LEMMA WalkIsCyclic ==
  ASSUME NEW I, NEW edges \in SUBSET (I \X I), NEW w \in Seq(edges), w # << >>, ClosedWalk(w)
  PROVE  Cyclic(edges)
<1>1. PICK n \in Nat : n = Len(w) /\ n > 0
  OBVIOUS
<1>2. \A i \in 1 .. n : w[i] \in edges
  BY <1>1
<1>3. /\ \A i \in 1 .. (n - 1) : w[i][1] = w[i + 1][2]
      /\ w[n][1] = w[1][2]
  BY <1>1 DEF ClosedWalk
<1>. DEFINE S == {w[i][1] : i \in 1 .. n}
<1>4. ASSUME NEW i \in 1 .. n PROVE <<w[i][1], w[i][2]>> \in edges
  <2>1. w[i] \in I \X I
    BY <1>2
  <2>2. w[i] = <<w[i][1], w[i][2]>>
    BY <2>1
  <2>. QED
    BY <1>2, <2>2
<1>5. ASSUME NEW i \in 1 .. n PROVE \E k \in 1 .. n : w[k][1] = w[i][2]
  <2>1. CASE i = 1
    BY <1>1, <1>3, <2>1
  <2>2. CASE i # 1
    <3>1. i - 1 \in 1 .. (n - 1) /\ i - 1 \in 1 .. n /\ (i - 1) + 1 = i
      BY <2>2
    <3>2. w[i - 1][1] = w[i][2]
      BY <1>3, <3>1
    <3>. QED
      BY <3>1, <3>2
  <2>. QED
    BY <2>1, <2>2
<1>6. ASSUME NEW a \in S PROVE \E b \in S : <<a, b>> \in edges
  <2>1. PICK i \in 1 .. n : a = w[i][1]
    OBVIOUS
  <2>2. PICK k \in 1 .. n : w[k][1] = w[i][2]
    BY <1>5
  <2>3. w[i][2] \in S /\ <<a, w[i][2]>> \in edges
    BY <1>4, <2>1, <2>2
  <2>. QED
    BY <2>3
<1>7. S # {}
  <2>1. 1 \in 1 .. n
    BY <1>1
  <2>. QED
    BY <2>1
<1>. HIDE DEF S
<1>. QED
  BY <1>6, <1>7, CircleIsCyclic

\* What is printed when the process stops is a closed walk.
LEMMA ReportIsWalk ==
  ASSUME ProfilerInv, crashed = "DeadLock_detected"
  PROVE  /\ report \in Seq(lockHistory) /\ report # << >> /\ ClosedWalk(report)
         /\ lockHistory \in SUBSET (Ids \X Ids)
<1>1. pusher # None
  BY DEF ProfilerInv, ProfilerShape
<1>2. report # << >> /\ report \in Seq(lockHistory) /\ Printed
  BY <1>1 DEF ProfilerInv, SearchInv
<1>3. lockHistory \subseteq Ids \X Ids
  BY <1>1, SearchFacts
<1>4. ClosedWalk(report)
  BY <1>2, Zenon DEF Printed, ClosedWalk
<1>. QED
  BY <1>2, <1>3, <1>4

\* A crash has its cycle, the report; a settled history has none.
LEMMA CrashFromInv ==
  ASSUME ProfilerInv PROVE CrashIffCycle
<1>1. ASSUME crashed = "DeadLock_detected" PROVE Cyclic(lockHistory)
  BY <1>1, ReportIsWalk, WalkIsCyclic
<1>2. ASSUME pusher = None PROVE ~Cyclic(lockHistory)
  BY <1>2 DEF ProfilerInv, StacksSettled, Settled
<1>. QED
  BY <1>1, <1>2 DEF CrashIffCycle

\* PushLock (DeadLockProfiler.cpp:4) stops the process with "DeadLock detected"
\* exactly when the lock order it has recorded has a cycle.
THEOREM CrashIffCycleTheorem == ProfilerSpec => []CrashIffCycle
  BY ProfilerInvariant, CrashFromInv, PTL

\* The same in terms of walks: once PushLock has returned, no walk along the
\* lock order, however long, comes back to where it started.
THEOREM NoClosedWalkTheorem ==
  ProfilerSpec => [](pusher = None =>
                       \A w \in Seq(lockHistory) : w # << >> => ~ClosedWalk(w))
<1>1. ASSUME ProfilerInv, pusher = None, NEW w \in Seq(lockHistory), w # << >>
      PROVE  ~ClosedWalk(w)
  <2>1. lockHistory \in SUBSET (Ids \X Ids) /\ ~Cyclic(lockHistory)
    BY <1>1 DEF ProfilerInv, ProfilerShape, StacksSettled, Settled
  <2>. QED
    BY <1>1, <2>1, WalkIsCyclic
<1>2. ProfilerInv => (pusher = None => \A w \in Seq(lockHistory) : w # << >> => ~ClosedWalk(w))
  BY <1>1
<1>. QED
  BY <1>2, ProfilerInvariant, PTL

\* What is printed is a closed walk along edges that were taken.
LEMMA ReportFromInv ==
  ASSUME ProfilerInv PROVE ReportIsCycle
<1>. SUFFICES ASSUME crashed = "DeadLock_detected"
              PROVE  /\ \A i \in DOMAIN report : report[i] \in lockHistory
                     /\ \A i \in 1 .. (Len(report) - 1) : report[i][1] = report[i + 1][2]
                     /\ report[Len(report)][1] = report[1][2]
  BY DEF ReportIsCycle
<1>1. report \in Seq(lockHistory) /\ ClosedWalk(report)
  BY ReportIsWalk
<1>2. \A i \in DOMAIN report : report[i] \in lockHistory
  BY <1>1
<1>. QED
  BY <1>1, <1>2, Zenon DEF ClosedWalk

\* The edges that DFS prints before it stops the process (DeadLockProfiler.cpp:
\* 116-126) are a cycle of the lock order.
THEOREM ReportTheorem == ProfilerSpec => []ReportIsCycle
  BY ProfilerInvariant, ReportFromInv, PTL

\* A set of numbers has a least one.
LEMMA LeastNumber ==
  ASSUME NEW T \in SUBSET Nat, T # {}
  PROVE  \E m \in T : \A k \in T : m <= k
<1>1. PICK m \in T : \A k \in T : <<k, m>> \notin OpToRel(<, Nat)
  BY NatLessThanWellFounded, WFMin
<1>2. ASSUME NEW k \in T PROVE ~(k < m)
  BY <1>1 DEF OpToRel
<1>. QED
  BY <1>2

\* From a lock on a stack to a different one above it, the stack leaves the
\* first along an edge.
LEMMA StackLeaves ==
  ASSUME NEW S, NEW s \in Seq(S), NEW edges, Neighbours(s, edges),
         NEW j \in 1 .. Len(s), NEW k \in 1 .. Len(s), j < k, s[j] # s[k]
  PROVE  \E m \in 1 .. Len(s) : m <= k /\ <<s[j], s[m]>> \in edges
<1>. DEFINE T == {m \in j .. k : s[m] # s[j]}
<1>1. T \in SUBSET Nat /\ k \in T /\ Len(s) \in Nat
  OBVIOUS
<1>. HIDE DEF T
<1>2. PICK m \in T : \A i \in T : m <= i
  BY <1>1, LeastNumber
<1>3. m \in j .. k /\ s[m] # s[j]
  BY <1>2 DEF T
<1>4. m # j
  BY <1>3
<1>5. m - 1 \in j .. k /\ m - 1 \in 1 .. (Len(s) - 1) /\ (m - 1) + 1 = m /\ ~(m <= m - 1)
  BY <1>1, <1>3, <1>4
<1>6. m - 1 \notin T
  BY <1>2, <1>5
<1>7. s[m - 1] = s[j]
  BY <1>5, <1>6 DEF T
<1>8. s[m - 1] = s[m] \/ <<s[m - 1], s[m]>> \in edges
  BY <1>5 DEF Neighbours
<1>9. m \in 1 .. Len(s) /\ m <= k
  BY <1>1, <1>3
<1>. QED
  BY <1>3, <1>7, <1>8, <1>9

\* Locks held in a circle would be a circle of settled edges: from each lock
\* on the way from one of them to the next, the stack goes on along an edge.
LEMMA NoUnseenFromInv ==
  ASSUME ProfilerInv PROVE NoUnseenDeadlock
<1>. SUFFICES ASSUME NEW S, S # {},
                     \A a \in S : \E b \in S \ {a}, t \in Threads : Under(t, a, b)
              PROVE  FALSE
  BY DEF NoUnseenDeadlock
<1>1. /\ lockStack \in [Threads -> Seq(Ids)] /\ ~Cyclic(Settled)
      /\ \A t \in Threads : Neighbours(lockStack[t], Settled)
  BY DEF ProfilerInv, ProfilerShape, StacksSettled
\* x is taken by a thread that now has a lock of S, or x is that lock.
<1>. DEFINE Below(x) == \E t \in Threads : \E j, k \in 1 .. Len(lockStack[t]) :
                           j <= k /\ lockStack[t][j] = x /\ lockStack[t][k] \in S
            K == {x \in Ids : Below(x)}
<1>2. ASSUME NEW t \in Threads
      PROVE  /\ lockStack[t] \in Seq(Ids) /\ DOMAIN lockStack[t] = 1 .. Len(lockStack[t])
             /\ Len(lockStack[t]) \in Nat
             /\ \A i \in 1 .. Len(lockStack[t]) : lockStack[t][i] \in Ids
  <2>1. lockStack[t] \in Seq(Ids)
    BY <1>1
  <2>. QED
    BY <2>1
<1>3. ASSUME NEW t \in Threads, NEW j \in 1 .. Len(lockStack[t]), NEW k \in 1 .. Len(lockStack[t]),
             j < k, lockStack[t][k] \in S, lockStack[t][j] # lockStack[t][k]
      PROVE  \E y \in K : <<lockStack[t][j], y>> \in Settled
  <2>1. lockStack[t] \in Seq(Ids) /\ Neighbours(lockStack[t], Settled)
    BY <1>1, <1>2
  <2>2. PICK s \in Seq(Ids) : s = lockStack[t]
    BY <2>1
  <2>3. \E m \in 1 .. Len(s) : m <= k /\ <<s[j], s[m]>> \in Settled
    BY <1>3, <2>1, <2>2, StackLeaves
  <2>4. PICK m \in 1 .. Len(lockStack[t]) :
           m <= k /\ <<lockStack[t][j], lockStack[t][m]>> \in Settled
    BY <2>2, <2>3
  <2>5. lockStack[t][m] \in K
    BY <1>2, <1>3, <2>4
  <2>. QED
    BY <2>4, <2>5
<1>4. ASSUME NEW a \in S
      PROVE  \E t \in Threads : \E j, k \in 1 .. Len(lockStack[t]) :
                j < k /\ lockStack[t][j] = a /\ lockStack[t][k] \in S /\ lockStack[t][k] # a
  <2>1. PICK b \in S \ {a}, t \in Threads : Under(t, a, b)
    OBVIOUS
  <2>2. PICK j, k \in DOMAIN lockStack[t] : j < k /\ lockStack[t][j] = a /\ lockStack[t][k] = b
    BY <2>1 DEF Under
  <2>3. j \in 1 .. Len(lockStack[t]) /\ k \in 1 .. Len(lockStack[t])
    BY <1>2, <2>1, <2>2
  <2>. QED
    BY <2>1, <2>2, <2>3
<1>5. ASSUME NEW x \in K PROVE \E y \in K : <<x, y>> \in Settled
  <2>0. PICK t \in Threads : \E j, k \in 1 .. Len(lockStack[t]) :
           j <= k /\ lockStack[t][j] = x /\ lockStack[t][k] \in S
    OBVIOUS
  <2>1. PICK j, k \in 1 .. Len(lockStack[t]) :
           j <= k /\ lockStack[t][j] = x /\ lockStack[t][k] \in S
    BY <2>0
  <2>2. CASE lockStack[t][k] # x
    <3>1. j < k
      BY <1>2, <2>1, <2>2
    <3>. HIDE DEF K
    <3>. QED
      BY <1>3, <2>1, <2>2, <3>1
  <2>3. CASE lockStack[t][k] = x
    <3>1. x \in S
      BY <2>1, <2>3
    <3>2. PICK u \in Threads : \E i, m \in 1 .. Len(lockStack[u]) :
             i < m /\ lockStack[u][i] = x /\ lockStack[u][m] \in S /\ lockStack[u][m] # x
      BY <1>4, <3>1
    <3>3. PICK i, m \in 1 .. Len(lockStack[u]) :
             i < m /\ lockStack[u][i] = x /\ lockStack[u][m] \in S /\ lockStack[u][m] # x
      BY <3>2
    <3>. HIDE DEF K
    <3>. QED
      BY <1>3, <3>3
  <2>. QED
    BY <2>2, <2>3
<1>6. K # {}
  <2>1. PICK a \in S : TRUE
    OBVIOUS
  <2>5. PICK t \in Threads : \E j, k \in 1 .. Len(lockStack[t]) :
           j < k /\ lockStack[t][j] = a /\ lockStack[t][k] \in S
    BY <1>4, <2>1
  <2>2. PICK j, k \in 1 .. Len(lockStack[t]) :
           j < k /\ lockStack[t][j] = a /\ lockStack[t][k] \in S
    BY <2>5
  <2>3. lockStack[t][j] \in Ids /\ j <= k
    BY <1>2, <2>2
  <2>4. lockStack[t][j] \in K
    BY <2>2, <2>3
  <2>. QED
    BY <2>4
<1>. HIDE DEF K
<1>7. Cyclic(Settled)
  BY <1>5, <1>6, CircleIsCyclic
<1>. QED
  BY <1>1, <1>7

\* However many threads there are and however deep they nest, no set of locks
\* is held in a circle, each taken above another, in a process that the
\* profiler has let go on.
THEOREM NoUnseenDeadlockTheorem == ProfilerSpec => []NoUnseenDeadlock
  BY ProfilerInvariant, NoUnseenFromInv, PTL

-----------------------------------------------------------------------------
(* The search ends.                                                         *)

\* The parts of Work while a search is under way.
LEMMA WorkFacts ==
  ASSUME ProfilerInv, pusher # None
  PROVE  /\ IsFiniteSet(untried) /\ Cardinality(untried) \in Nat
         /\ IsFiniteSet(Unvisited) /\ Cardinality(Unvisited) \in Nat
         /\ Len(calls) \in Nat /\ lockCount \in Nat /\ lockId \in Nat
<1>1. /\ lockCount \in Nat /\ IsFiniteSet(lockHistory) /\ Tables /\ Len(calls) \in Nat
  BY SearchFacts
<1>2. /\ untried \subseteq lockHistory /\ visitedOrder \in [Ids -> Nat \cup {-1}]
      /\ lockId \in 0 .. lockCount
  BY <1>1 DEF Tables
<1>3. IsFiniteSet(untried)
  BY <1>1, <1>2, FS_Subset
<1>4. IsFiniteSet(Ids)
  BY <1>1, FS_Interval DEF Ids
<1>5. Unvisited \subseteq Ids
  BY <1>2 DEF Unvisited
<1>6. IsFiniteSet(Unvisited)
  BY <1>4, <1>5, FS_Subset
<1>7. Cardinality(untried) \in Nat /\ Cardinality(Unvisited) \in Nat
  BY <1>3, <1>6, FS_CardinalityType
<1>8. lockId \in Nat
  BY <1>1, <1>2
<1>. QED
  BY <1>1, <1>3, <1>6, <1>7, <1>8

\* A visit takes a lock from the unvisited ones and adds a call.
LEMMA VisitWork ==
  ASSUME ProfilerInv, pusher # None, NEW lock \in Ids, visitedOrder[lock] = -1, Visit(lock)
  PROVE  /\ Cardinality(Unvisited') = Cardinality(Unvisited) - 1
         /\ Len(calls') = Len(calls) + 1
<1>1. IsFiniteSet(Unvisited) /\ Tables
  BY WorkFacts, SearchFacts
<1>2. visitedOrder \in [Ids -> Nat \cup {-1}] /\ totalNodeCount \in Nat /\ calls \in Seq(Ids)
  BY <1>1 DEF Tables
<1>3. Unvisited' = Unvisited \ {lock} /\ lock \in Unvisited
  BY <1>2 DEF Unvisited, Visit
<1>4. Cardinality(Unvisited \ {lock}) = Cardinality(Unvisited) - 1
  BY <1>1, <1>3, FS_RemoveElement
<1>5. Len(calls') = Len(calls) + 1
  BY <1>2 DEF Visit
<1>. QED
  BY <1>3, <1>4, <1>5

\* A step of the search, action by action.
LEMMA SearchStepShrinks ==
  ASSUME ProfilerInv, ProfilerInv', ProfilerNext, pusher # None, pusher' = pusher, crashed' = "none"
  PROVE  \/ Work' < Work
         \/ /\ Work' = Work /\ report # << >>
            /\ visitedOrder[Last(report')[1]] < visitedOrder[Last(report)[1]]
<1>1. /\ IsFiniteSet(untried) /\ Cardinality(untried) \in Nat
      /\ IsFiniteSet(Unvisited) /\ Cardinality(Unvisited) \in Nat
      /\ Len(calls) \in Nat /\ lockCount \in Nat /\ lockId \in Nat
  BY WorkFacts
<1>2. Tables
  BY SearchFacts
<1>3. CASE CheckCycleLoop
  <2>1. /\ lockId < lockCount /\ lockId' = lockId + 1 /\ lockCount' = lockCount
        /\ untried' = untried
    BY <1>3 DEF CheckCycleLoop, lockCount
  <2>2. CASE UNCHANGED <<tables, calls>>
    <3>1. Unvisited' = Unvisited /\ calls' = calls
      BY <2>2 DEF Unvisited, tables
    <3>. QED
      BY <1>1, <2>1, <3>1 DEF Work
  <2>3. CASE visitedOrder[lockId] = -1 /\ Visit(lockId)
    <3>1. PICK lock \in Ids : lock = lockId
      BY <1>1, <2>1 DEF Ids
    <3>2. Cardinality(Unvisited') = Cardinality(Unvisited) - 1 /\ Len(calls') = Len(calls) + 1
      BY <2>3, <3>1, VisitWork
    <3>. QED
      BY <1>1, <2>1, <3>2, SMTT(30) DEF Work
  <2>. QED
    BY <1>3, <2>2, <2>3 DEF CheckCycleLoop
<1>4. CASE DFSLoop
  <2>1. lockId' = lockId /\ lockCount' = lockCount
    BY <1>4 DEF DFSLoop, lockCount
  <2>2. PICK nextLock \in NextSet(Last(calls)) :
           /\ untried' = untried \ {<<Last(calls), nextLock>>}
           /\ LookAt(Last(calls), nextLock)
    BY <1>4 DEF DFSLoop
  <2>3. PICK e \in untried : e[1] = Last(calls) /\ nextLock = e[2]
    BY <2>2 DEF NextSet
  <2>4. e \in Ids \X Ids
    BY <1>2, <2>3, SearchFacts DEF Tables
  <2>5. e = <<Last(calls), nextLock>> /\ nextLock \in Ids
    BY <2>3, <2>4
  <2>6. untried' = untried \ {e}
    BY <2>2, <2>5
  <2>7. Cardinality(untried') = Cardinality(untried) - 1
    BY <1>1, <2>3, <2>6, FS_RemoveElement
  <2>8. CASE visitedOrder[nextLock] = -1 /\ Visit(nextLock)
    <3>1. Cardinality(Unvisited') = Cardinality(Unvisited) - 1 /\ Len(calls') = Len(calls) + 1
      BY <2>5, <2>8, VisitWork
    <3>. QED
      BY <1>1, <2>1, <2>7, <3>1, SMTT(30) DEF Work
  <2>9. CASE UNCHANGED <<tables, calls>>
    <3>1. Unvisited' = Unvisited /\ calls' = calls
      BY <2>9 DEF Unvisited, tables
    <3>. QED
      BY <1>1, <2>1, <2>7, <3>1, SMTT(30) DEF Work
  <2>. QED
    BY <2>2, <2>8, <2>9 DEF LookAt
<1>5. CASE DFSReturns
  <2>1. /\ calls # << >> /\ calls' = Front(calls) /\ lockId' = lockId /\ lockCount' = lockCount
        /\ untried' = untried /\ Unvisited' = Unvisited
    BY <1>5 DEF DFSReturns, lockCount, Unvisited
  <2>2. Len(calls') = Len(calls) - 1
    BY <1>2, <2>1, FrontFacts DEF Tables
  <2>. QED
    BY <1>1, <2>1, <2>2 DEF Work
<1>6. CASE PrintCycle
  <2>1. /\ report # << >> /\ UNCHANGED <<nameToId, searchVars>>
        /\ report' = Append(report, <<parent[Last(report)[1]], Last(report)[1]>>)
        /\ crashed = "none"
    BY <1>6 DEF PrintCycle, ProfilerNext
  <2>2. Work' = Work
    BY <2>1 DEF Work, Unvisited, searchVars, tables, lockCount
  <2>3. report \in Seq(lockHistory) /\ Len(report) > 0 /\ Printed
    BY <2>1 DEF ProfilerInv, SearchInv
  <2>4. PICK j, k \in 1 .. Len(calls) :
           j < k /\ calls[j] = report[1][2] /\ calls[k] = Last(report)[1]
    BY <2>1, <2>3 DEF Printed, Last
  <2>5. k - 1 \in 1 .. (Len(calls) - 1) /\ k - 1 \in 1 .. Len(calls) /\ (k - 1) + 1 = k /\ k - 1 < k
    BY <1>1, <2>4
  <2>6. CallPath
    BY SearchFacts
  <2>7. parent[calls[k]] = calls[k - 1] /\ visitedOrder[calls[k - 1]] < visitedOrder[calls[k]]
    BY <2>4, <2>5, <2>6 DEF CallPath
  <2>8. Last(report')[1] = parent[Last(report)[1]]
    <3>. DEFINE now == Last(report)[1]
                e == <<parent[now], now>>
    <3>1. Last(report') = e
      <4>. HIDE DEF e
      <4>. QED
        BY <2>1, <2>3 DEF Last, e
    <3>2. e[1] = parent[now]
      OBVIOUS
    <3>. QED
      BY <3>1, <3>2
  <2>. QED
    BY <2>1, <2>2, <2>4, <2>7, <2>8
<1>7. CASE PushLockReturns
  BY <1>7 DEF PushLockReturns
<1>8. \A t \in Threads, name \in Names : ~PushLock(t, name) /\ ~PopLock(t, name)
  BY DEF PushLock, PopLock
<1>. QED
  BY <1>3, <1>4, <1>5, <1>6, <1>7, <1>8 DEF ProfilerNext

\* Every step that CheckCycle and DFS take with the mutex held leaves less to
\* do, so that PushLock returns or stops the process.
THEOREM SearchShrinksTheorem == ProfilerSpec => SearchShrinks
<1>1. ProfilerInv /\ [ProfilerNext]_profilerVars
        => [pusher # None /\ pusher' = pusher /\ crashed' = "none" =>
             \/ Work' < Work
             \/ /\ Work' = Work /\ report # << >>
                /\ visitedOrder[Last(report')[1]] < visitedOrder[Last(report)[1]]]_profilerVars
  BY ProfilerStep, SearchStepShrinks
<1>. QED
  BY <1>1, ProfilerInvariant, PTL DEF ProfilerSpec, SearchShrinks

=============================================================================
