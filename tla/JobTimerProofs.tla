--------------------------- MODULE JobTimerProofs ---------------------------
(***************************************************************************)
(* Proofs about JobTimer, for any number of workers, job queues, jobs and  *)
(* delays and either guard: a JobData is pointed at from one place until   *)
(* it is given back, once, and jobs are delivered in the order they are    *)
(* due.                                                                    *)
(***************************************************************************)
EXTENDS JobTimer, FiniteSetTheorems, SequenceTheorems, TLAPS

-----------------------------------------------------------------------------
(* The inductive invariant.                                                 *)

PCs == {"idle", "reserve", "exchange", "take", "deliver", "clear"}

\* A thread has a TimerItem exactly while it is in Reserve, and jobs that were
\* taken out only while it distributes them.
InHand ==
    /\ reserved \in 0 .. MaxJobs
    /\ IsFiniteSet(items)
    /\ \A t \in Threads :
         /\ item[t] # None <=> pc[t] = "reserve"
         /\ pc[t] # "deliver" => Len(tempItems[t]) = 0

Shape == TypeOK /\ InHand

\* The thread that found distributing false is the only one that distributes.
OneDistributor ==
    /\ \A t \in Threads : pc[t] \in {"take", "deliver"} => distributing
    /\ \A t, u \in Threads :
         pc[t] \in {"take", "deliver"} /\ pc[u] \in {"take", "deliver"} => t = u

\* The places that may point at the JobData of job j.
Reserving(j) == \E t \in Threads : item[t] # None /\ item[t].job = j
Queued(j)    == \E x \in items : x.job = j
Taken(j)     == \E t \in Threads : \E i \in 1 .. Len(tempItems[t]) : tempItems[t][i].job = j

\* Every place holds a job once.
HeldOnce ==
    /\ \A t, u \in Threads :
         item[t] # None /\ item[u] # None /\ item[t].job = item[u].job => t = u
    /\ \A x, y \in items : x.job = y.job => x = y
    /\ \A t \in Threads : \A i, k \in 1 .. Len(tempItems[t]) :
         tempItems[t][i].job = tempItems[t][k].job => i = k

\* A job that was reserved is in one of the places or has been given back.
OnePlace ==
    \A j \in Jobs :
      /\ j <= reserved <=> Reserving(j) \/ Queued(j) \/ Taken(j) \/ freed[j] = 1
      /\ Reserving(j) => ~Queued(j) /\ ~Taken(j) /\ freed[j] = 0
      /\ Queued(j) => ~Taken(j) /\ freed[j] = 0
      /\ Taken(j) => freed[j] = 0

\* Jobs that were taken out were due by lastNow; one that is queued is due later
\* or was late, and those a worker has at hand come after those delivered.
Ordered ==
    /\ \A x \in items : x.late \/ x.executeTick > lastNow
    /\ \A i \in 1 .. Len(delivered) : delivered[i].executeTick <= lastNow
    /\ \A t \in Threads : \A k \in 1 .. Len(tempItems[t]) :
         /\ tempItems[t][k].executeTick <= lastNow
         /\ \A i \in 1 .. Len(tempItems[t]) :
              i < k => tempItems[t][i].executeTick <= tempItems[t][k].executeTick
         /\ \A i \in 1 .. Len(delivered) :
              delivered[i].executeTick <= tempItems[t][k].executeTick \/ tempItems[t][k].late
    /\ DeliveredInOrder

IInv == Shape /\ OneDistributor /\ HeldOnce /\ OnePlace /\ Ordered

-----------------------------------------------------------------------------
(* What the actions do.                                                     *)

LEMMA ConstFacts ==
  /\ MaxJobs \in Nat /\ MaxTick \in Nat /\ Delays \subseteq Nat
  /\ None \notin TimerItems /\ Jobs \subseteq Nat
<1>1. MaxJobs \in Nat /\ MaxTick \in Nat /\ Delays \subseteq Nat
  BY JobTimerConstants
<1>2. Jobs \subseteq Nat
  BY <1>1 DEF Jobs
<1>3. TimerItems \subseteq [job : Nat, owner : Queues, executeTick : Nat, late : BOOLEAN]
  BY <1>2 DEF TimerItems
<1>4. None \notin [job : Nat, owner : Queues, executeTick : Nat, late : BOOLEAN]
  BY JobTimerConstants
<1>. QED
  BY <1>1, <1>2, <1>3, <1>4

LEMMA ItemFacts ==
  ASSUME NEW x \in TimerItems
  PROVE  x.job \in Jobs /\ x.owner \in Queues /\ x.executeTick \in Nat /\ x.late \in BOOLEAN
  BY DEF TimerItems

\* Where control goes.
LEMMA GotoLands ==
  ASSUME Shape, NEW t \in Threads, NEW l \in PCs, Goto(t, l)
  PROVE  /\ pc' \in [Threads -> PCs] /\ pc'[t] = l
         /\ \A u \in Threads \ {t} : pc'[u] = pc[u]
  BY DEF Shape, TypeOK, Goto, PCs

LEMMA ScopeTyped ==
  ASSUME Shape, NEW t \in Threads,
         LeaveScope(t) \/ inScope' = [inScope EXCEPT ![t] = TRUE]
  PROVE  inScope' \in [Threads -> BOOLEAN]
  BY DEF Shape, TypeOK, LeaveScope

\* What a thread has taken out is a sequence of items.
LEMMA TempTyped ==
  ASSUME Shape, NEW t \in Threads
  PROVE  /\ tempItems[t] \in Seq(TimerItems) /\ Len(tempItems[t]) \in Nat
         /\ DOMAIN tempItems[t] = 1 .. Len(tempItems[t])
         /\ \A i \in 1 .. Len(tempItems[t]) : tempItems[t][i] \in TimerItems
<1>1. PICK q : q = tempItems[t]
  OBVIOUS
<1>2. q \in Seq(TimerItems)
  BY <1>1 DEF Shape, TypeOK
<1>3. Len(q) \in Nat /\ DOMAIN q = 1 .. Len(q)
  BY <1>2, LenProperties
<1>4. \A i \in 1 .. Len(q) : q[i] \in TimerItems
  BY <1>2, ElementOfSeq
<1>. QED
  BY <1>1, <1>2, <1>3, <1>4

\* What was delivered too.
LEMMA DeliveredTyped ==
  ASSUME Shape
  PROVE  /\ delivered \in Seq(TimerItems) /\ Len(delivered) \in Nat
         /\ DOMAIN delivered = 1 .. Len(delivered)
         /\ \A i \in 1 .. Len(delivered) : delivered[i] \in TimerItems
<1>1. PICK q : q = delivered
  OBVIOUS
<1>2. q \in Seq(TimerItems)
  BY <1>1 DEF Shape, TypeOK
<1>3. Len(q) \in Nat /\ DOMAIN q = 1 .. Len(q)
  BY <1>2, LenProperties
<1>4. \A i \in 1 .. Len(q) : q[i] \in TimerItems
  BY <1>2, ElementOfSeq
<1>. QED
  BY <1>1, <1>2, <1>3, <1>4

\* The ways items leave the priority queue: every due item once, by its tick.
LEMMA ByTickFacts ==
  ASSUME NEW D, IsFiniteSet(D), D \subseteq TimerItems, NEW s \in ByTick(D)
  PROVE  /\ s \in Seq(TimerItems) /\ Len(s) \in Nat
         /\ \A i \in 1 .. Len(s) : s[i] \in D
         /\ \A x \in D : \E i \in 1 .. Len(s) : s[i] = x
         /\ \A i, k \in 1 .. Len(s) : s[i] = s[k] => i = k
         /\ \A i, k \in 1 .. Len(s) : i < k => s[i].executeTick <= s[k].executeTick
<1>1. PICK n \in Nat : n = Cardinality(D)
  BY FS_CardinalityType
<1>2. /\ s \in [1 .. n -> D]
      /\ \A i, k \in 1 .. n : i < k => s[i] # s[k] /\ s[i].executeTick <= s[k].executeTick
  BY <1>1 DEF ByTick
<1>3. s \in Seq(TimerItems) /\ Len(s) = n
  BY <1>2
<1>4. \A i, k \in 1 .. n : s[i] = s[k] => i = k
  BY <1>2
<1>5. s \in Injection(1 .. n, D)
  BY <1>2, <1>4 DEF Injection, IsInjective
<1>6. Cardinality(1 .. n) = n
  <2>1. 1 \in Int /\ n \in Int
    OBVIOUS
  <2>2. Cardinality(1 .. n) = IF 1 > n THEN 0 ELSE n - 1 + 1
    BY <2>1, FS_Interval
  <2>. QED
    BY <2>2
<1>7. s \in Surjection(1 .. n, D)
  BY <1>1, <1>5, <1>6, FS_Injection
<1>8. \A x \in D : \E i \in 1 .. n : s[i] = x
  BY <1>7 DEF Surjection
<1>. QED
  BY <1>2, <1>3, <1>4, <1>8

LEMMA TakeDueEffect ==
  ASSUME Shape, NEW t \in Threads, TakeDue(t)
  PROVE  /\ pc[t] = "take" /\ Len(tempItems[t]) = 0 /\ Goto(t, "deliver")
         /\ items' = items \ Due(t) /\ Due(t) \subseteq items
         /\ lastNow' = IF now[t] > lastNow THEN now[t] ELSE lastNow
         /\ UNCHANGED <<clock, distributing, alive, delivered, freed, item, now, reserved>>
         /\ tempItems' \in [Threads -> Seq(TimerItems)]
         /\ \A u \in Threads \ {t} : tempItems'[u] = tempItems[u]
         /\ Len(tempItems'[t]) \in Nat
         /\ \A i \in 1 .. Len(tempItems'[t]) : tempItems'[t][i] \in Due(t)
         /\ \A x \in Due(t) : \E i \in 1 .. Len(tempItems'[t]) : tempItems'[t][i] = x
         /\ \A i, k \in 1 .. Len(tempItems'[t]) : tempItems'[t][i] = tempItems'[t][k] => i = k
         /\ \A i, k \in 1 .. Len(tempItems'[t]) :
              i < k => tempItems'[t][i].executeTick <= tempItems'[t][k].executeTick
<1>1. PICK s \in ByTick(Due(t)) : tempItems' = [tempItems EXCEPT ![t] = s]
  BY DEF TakeDue
<1>2. Due(t) \subseteq items /\ Due(t) \subseteq TimerItems
  BY DEF Due, Shape, TypeOK
<1>3. IsFiniteSet(Due(t))
  BY <1>2, FS_Subset DEF Shape, InHand
<1>4. PICK D : D = Due(t)
  OBVIOUS
<1>5. /\ s \in Seq(TimerItems) /\ Len(s) \in Nat
      /\ \A i \in 1 .. Len(s) : s[i] \in D
      /\ \A x \in D : \E i \in 1 .. Len(s) : s[i] = x
      /\ \A i, k \in 1 .. Len(s) : s[i] = s[k] => i = k
      /\ \A i, k \in 1 .. Len(s) : i < k => s[i].executeTick <= s[k].executeTick
  BY <1>1, <1>2, <1>3, <1>4, ByTickFacts
<1>6. /\ tempItems'[t] = s /\ tempItems' \in [Threads -> Seq(TimerItems)]
      /\ \A u \in Threads \ {t} : tempItems'[u] = tempItems[u]
  BY <1>1, <1>5 DEF Shape, TypeOK
<1>7. /\ pc[t] = "take" /\ Len(tempItems[t]) = 0 /\ Goto(t, "deliver")
      /\ items' = items \ Due(t)
      /\ lastNow' = IF now[t] > lastNow THEN now[t] ELSE lastNow
      /\ UNCHANGED <<clock, distributing, alive, delivered, freed, item, now, reserved>>
  BY DEF TakeDue, Shape, InHand, poolVars, bounds
<1>. QED
  BY <1>2, <1>4, <1>5, <1>6, <1>7, ZenonT(60)

\* One item is handed over.
LEMMA DeliverEffect ==
  ASSUME Shape, NEW t \in Threads, Deliver(t)
  PROVE  \E x \in TimerItems :
           /\ pc[t] = "deliver" /\ Len(tempItems[t]) \in Nat \ {0} /\ x = tempItems[t][1]
           /\ freed' = [freed EXCEPT ![x.job] = @ + 1]
           /\ tempItems' \in [Threads -> Seq(TimerItems)]
           /\ \A u \in Threads \ {t} : tempItems'[u] = tempItems[u]
           /\ Len(tempItems'[t]) = Len(tempItems[t]) - 1
           /\ \A i \in 1 .. Len(tempItems[t]) - 1 : tempItems'[t][i] = tempItems[t][i + 1]
           /\ \/ delivered' = delivered
              \/ /\ delivered' \in Seq(TimerItems) /\ Len(delivered') = Len(delivered) + 1
                 /\ \A i \in 1 .. Len(delivered) : delivered'[i] = delivered[i]
                 /\ delivered'[Len(delivered) + 1] = x
           /\ UNCHANGED <<clock, items, distributing, alive, pc, item, now, inScope, reserved,
                          lastNow>>
<1>1. PICK q, x, d : q = tempItems[t] /\ x = Head(tempItems[t]) /\ d = delivered
  OBVIOUS
<1>2. /\ pc[t] = "deliver" /\ q # << >>
      /\ delivered' = d \/ delivered' = Append(d, x)
      /\ freed' = [freed EXCEPT ![x.job] = @ + 1]
      /\ tempItems' = [tempItems EXCEPT ![t] = Tail(@)]
      /\ UNCHANGED <<clock, items, distributing, alive, pc, item, now, inScope, reserved,
                     lastNow>>
  BY <1>1 DEF Deliver, bounds
<1>3. q \in Seq(TimerItems) /\ d \in Seq(TimerItems)
  BY <1>1, TempTyped, DeliveredTyped
<1>4. /\ Len(q) \in Nat \ {0} /\ x = q[1] /\ x \in TimerItems
      /\ Tail(q) \in Seq(TimerItems) /\ Len(Tail(q)) = Len(q) - 1
      /\ \A i \in 1 .. Len(q) - 1 : Tail(q)[i] = q[i + 1]
  <2>1. x = Head(q)
    BY <1>1
  <2>2. Len(q) \in Nat \ {0}
    BY <1>2, <1>3, EmptySeq, LenProperties
  <2>3. Head(q) = q[1] /\ Head(q) \in TimerItems
    BY <1>2, <1>3, HeadTailProperties
  <2>4. /\ Tail(q) \in Seq(TimerItems) /\ Len(Tail(q)) = Len(q) - 1
        /\ \A i \in 1 .. Len(q) - 1 : Tail(q)[i] = q[i + 1]
    BY <1>2, <1>3, <2>2, HeadTailProperties
  <2>. QED
    BY <2>1, <2>2, <2>3, <2>4
<1>5. /\ Append(d, x) \in Seq(TimerItems) /\ Len(Append(d, x)) = Len(d) + 1
      /\ \A i \in 1 .. Len(d) : Append(d, x)[i] = d[i]
      /\ Append(d, x)[Len(d) + 1] = x
  BY <1>3, <1>4, AppendProperties
<1>6. /\ tempItems'[t] = Tail(q) /\ tempItems' \in [Threads -> Seq(TimerItems)]
      /\ \A u \in Threads \ {t} : tempItems'[u] = tempItems[u]
  BY <1>1, <1>2, <1>4 DEF Shape, TypeOK
<1>7. \/ delivered' = delivered
      \/ /\ delivered' \in Seq(TimerItems) /\ Len(delivered') = Len(delivered) + 1
         /\ \A i \in 1 .. Len(delivered) : delivered'[i] = delivered[i]
         /\ delivered'[Len(delivered) + 1] = x
  BY <1>1, <1>2, <1>5
<1>8. /\ Len(tempItems[t]) \in Nat \ {0} /\ x = tempItems[t][1] /\ x \in TimerItems
      /\ Len(tempItems'[t]) = Len(tempItems[t]) - 1
      /\ \A i \in 1 .. Len(tempItems[t]) - 1 : tempItems'[t][i] = tempItems[t][i + 1]
  BY <1>1, <1>4, <1>6
<1>. QED
  BY <1>2, <1>6, <1>7, <1>8, Zenon

\* A new job gets its item.
LEMMA ReserveCallEffect ==
  ASSUME Shape, NEW t \in Threads, NEW q \in alive, NEW d \in Delays, ReserveCall(t, q, d)
  PROVE  \E y \in TimerItems :
           /\ pc[t] = "idle" /\ item[t] = None /\ reserved' = reserved + 1
           /\ y.job = reserved + 1 /\ y # None
           /\ item' \in [Threads -> TimerItems \cup {None}] /\ item'[t] = y
           /\ \A u \in Threads \ {t} : item'[u] = item[u]
           /\ Goto(t, "reserve") /\ reserved' \in 0 .. MaxJobs
           /\ UNCHANGED <<clock, items, distributing, alive, delivered, freed, now, tempItems,
                          inScope, lastNow>>
<1>. DEFINE y == [job |-> reserved + 1, owner |-> q, executeTick |-> clock + d, late |-> FALSE]
<1>1. /\ pc[t] = "idle" /\ reserved < MaxJobs /\ reserved' = reserved + 1
      /\ item' = [item EXCEPT ![t] = y] /\ Goto(t, "reserve")
      /\ UNCHANGED <<clock, items, distributing, alive, delivered, freed, now, tempItems,
                     inScope, lastNow>>
  BY DEF ReserveCall, poolVars
<1>2. reserved \in Nat /\ reserved + 1 \in Jobs /\ reserved + 1 \in 0 .. MaxJobs
  BY <1>1, ConstFacts DEF Shape, InHand, Jobs
<1>3. q \in Queues /\ clock + d \in Nat
  BY ConstFacts DEF Shape, TypeOK
<1>4. y \in TimerItems /\ y.job = reserved + 1
  BY <1>2, <1>3 DEF TimerItems
<1>. HIDE DEF y
<1>5. /\ item' \in [Threads -> TimerItems \cup {None}] /\ item'[t] = y
      /\ \A u \in Threads \ {t} : item'[u] = item[u]
  BY <1>1, <1>4 DEF Shape, TypeOK
<1>6. item[t] = None
  BY <1>1 DEF Shape, InHand
<1>. QED
  BY <1>1, <1>2, <1>4, <1>5, <1>6, ConstFacts

\* The item is queued, marked when jobs due after it may have left.
LEMMA ReserveEffect ==
  ASSUME Shape, NEW t \in Threads, Reserve(t)
  PROVE  \E y \in TimerItems :
           /\ pc[t] = "reserve" /\ item[t] # None /\ y.job = item[t].job
           /\ y.late \/ y.executeTick > lastNow
           /\ items' = items \cup {y}
           /\ item' \in [Threads -> TimerItems \cup {None}] /\ item'[t] = None
           /\ \A u \in Threads \ {t} : item'[u] = item[u]
           /\ Goto(t, "idle")
           /\ UNCHANGED <<clock, distributing, alive, delivered, freed, now, tempItems,
                          reserved, lastNow>>
<1>1. PICK x : x = item[t]
  OBVIOUS
<1>2. pc[t] = "reserve" /\ x # None /\ x \in TimerItems
  BY <1>1 DEF Reserve, Shape, InHand, TypeOK
<1>. DEFINE y == [x EXCEPT !.late = @ \/ x.executeTick <= lastNow]
<1>3. /\ items' = items \cup {y} /\ item' = [item EXCEPT ![t] = None] /\ Goto(t, "idle")
      /\ UNCHANGED <<clock, distributing, alive, delivered, freed, now, tempItems,
                     reserved, lastNow>>
  BY <1>1 DEF Reserve, poolVars, bounds
<1>4. lastNow \in Int /\ x.executeTick \in Nat /\ x.late \in BOOLEAN
  BY <1>2, ItemFacts, ConstFacts DEF Shape, TypeOK
<1>5. /\ y \in TimerItems /\ y.job = x.job /\ y.executeTick = x.executeTick
      /\ y.late = (x.late \/ x.executeTick <= lastNow)
  BY <1>2, <1>4 DEF TimerItems
<1>. HIDE DEF y
<1>6. y.late \/ y.executeTick > lastNow
  <2>1. CASE x.executeTick <= lastNow
    BY <1>5, <2>1, Zenon
  <2>2. CASE ~(x.executeTick <= lastNow)
    BY <1>4, <1>5, <2>2
  <2>. QED
    BY <2>1, <2>2
<1>7. /\ item' \in [Threads -> TimerItems \cup {None}] /\ item'[t] = None
      /\ \A u \in Threads \ {t} : item'[u] = item[u]
  BY <1>3 DEF Shape, TypeOK
<1>. QED
  BY <1>1, <1>2, <1>3, <1>5, <1>6, <1>7

\* Every queued job is given back.
LEMMA ClearEffect ==
  ASSUME Shape, HeldOnce, NEW t \in Threads, Clear(t)
  PROVE  /\ pc[t] = "clear" /\ items' = {} /\ Goto(t, "idle")
         /\ freed' = [j \in Jobs |-> freed'[j]]
         /\ \A j \in Jobs : freed'[j] = IF Queued(j) THEN freed[j] + 1 ELSE freed[j]
         /\ UNCHANGED <<clock, distributing, alive, delivered, item, now, tempItems, reserved,
                        lastNow>>
<1>1. /\ pc[t] = "clear" /\ items' = {} /\ Goto(t, "idle")
      /\ freed' = [j \in Jobs |-> freed[j] + Cardinality({x \in items : x.job = j})]
      /\ UNCHANGED <<clock, distributing, alive, delivered, item, now, tempItems, reserved,
                     lastNow>>
  BY DEF Clear, bounds
<1>2. ASSUME NEW j \in Jobs
      PROVE  freed'[j] = IF Queued(j) THEN freed[j] + 1 ELSE freed[j]
  <2>1. freed'[j] = freed[j] + Cardinality({x \in items : x.job = j}) /\ freed[j] \in Nat
    <3>1. freed[j] \in {0, 1}
      BY DEF Shape, TypeOK
    <3>. QED
      BY <1>1, <3>1
  <2>2. CASE Queued(j)
    <3>1. PICK y \in items : y.job = j
      BY <2>2 DEF Queued
    <3>2. {x \in items : x.job = j} = {y}
      BY <3>1 DEF HeldOnce
    <3>3. Cardinality({x \in items : x.job = j}) = 1
      BY <3>2, FS_Singleton
    <3>. QED
      BY <2>1, <2>2, <3>3
  <2>3. CASE ~Queued(j)
    <3>1. {x \in items : x.job = j} = {}
      BY <2>3 DEF Queued
    <3>2. Cardinality({x \in items : x.job = j}) = 0
      BY <3>1, FS_EmptySet
    <3>. QED
      BY <2>1, <2>3, <3>2
  <2>. QED
    BY <2>2, <2>3
<1>. QED
  BY <1>1, <1>2

-----------------------------------------------------------------------------
(* The shape of the state.                                                  *)

\* Only pc, distributing, now and what no invariant of the shape is about moves.
LEMMA QuietShape ==
  ASSUME Shape, NEW t \in Threads, NEW l \in PCs \ {"reserve"}, pc[t] # "reserve", Goto(t, l),
         distributing' \in BOOLEAN, now' \in [Threads -> 0 .. MaxTick],
         Len(tempItems[t]) = 0,
         UNCHANGED <<clock, items, alive, delivered, freed, item, tempItems, inScope, reserved,
                     lastNow>>
  PROVE  Shape'
<1>1. /\ pc' \in [Threads -> PCs] /\ pc'[t] = l
      /\ \A u \in Threads \ {t} : pc'[u] = pc[u]
  BY GotoLands
<1>2. TypeOK'
  BY <1>1 DEF Shape, TypeOK, PCs
<1>3. InHand'
  BY <1>1 DEF Shape, InHand
<1>. QED
  BY <1>2, <1>3 DEF Shape

\* Calls, the exchange and the end of Distribute.
LEMMA WorkerShape ==
  ASSUME Shape, NEW t \in Threads,
         DistributeReservedJobs(t) \/ Exchange(t) \/ Finish(t) \/ ClearCall(t)
  PROVE  Shape'
<1>1. distributing \in BOOLEAN /\ now \in [Threads -> 0 .. MaxTick] /\ clock \in 0 .. MaxTick
  BY DEF Shape, TypeOK
<1>2. CASE DistributeReservedJobs(t)
  <2>1. /\ pc[t] = "idle" /\ Goto(t, "exchange") /\ now' \in [Threads -> 0 .. MaxTick]
        /\ UNCHANGED <<clock, items, distributing, alive, delivered, freed, item, tempItems,
                       inScope, reserved, lastNow>>
    BY <1>1, <1>2 DEF DistributeReservedJobs, poolVars
  <2>. QED
    BY <1>1, <2>1, QuietShape DEF PCs, Shape, InHand
<1>3. CASE Exchange(t)
  <2>1. /\ pc[t] = "exchange" /\ Goto(t, IF distributing THEN "idle" ELSE "take")
        /\ distributing' = TRUE
        /\ UNCHANGED <<clock, items, alive, delivered, freed, item, now, tempItems, inScope,
                       reserved, lastNow>>
    BY <1>3 DEF Exchange, poolVars, bounds
  <2>2. PICK l \in PCs \ {"reserve"} : Goto(t, l)
    BY <2>1 DEF PCs
  <2>. QED
    BY <1>1, <2>1, <2>2, QuietShape DEF Shape, InHand
<1>4. CASE Finish(t)
  <2>1. /\ pc[t] = "deliver" /\ tempItems[t] = << >> /\ Goto(t, "idle")
        /\ distributing' = FALSE
        /\ UNCHANGED <<clock, items, alive, delivered, freed, item, now, tempItems, inScope,
                       reserved, lastNow>>
    BY <1>4 DEF Finish, poolVars, bounds
  <2>2. Len(tempItems[t]) = 0
    BY <2>1
  <2>. QED
    BY <1>1, <2>1, <2>2, QuietShape DEF PCs
<1>5. CASE ClearCall(t)
  <2>1. /\ pc[t] = "idle" /\ Goto(t, "clear")
        /\ UNCHANGED <<clock, items, distributing, alive, delivered, freed, item, now,
                       tempItems, inScope, reserved, lastNow>>
    BY <1>5 DEF ClearCall, poolVars, bounds
  <2>. QED
    BY <1>1, <2>1, QuietShape DEF PCs, Shape, InHand
<1>. QED
  BY <1>2, <1>3, <1>4, <1>5

LEMMA ReserveCallShape ==
  ASSUME Shape, NEW t \in Threads, NEW q \in alive, NEW d \in Delays, ReserveCall(t, q, d)
  PROVE  Shape'
<1>1. PICK y \in TimerItems :
           /\ pc[t] = "idle" /\ item[t] = None /\ reserved' = reserved + 1
           /\ y.job = reserved + 1 /\ y # None
           /\ item' \in [Threads -> TimerItems \cup {None}] /\ item'[t] = y
           /\ \A u \in Threads \ {t} : item'[u] = item[u]
           /\ Goto(t, "reserve") /\ reserved' \in 0 .. MaxJobs
           /\ UNCHANGED <<clock, items, distributing, alive, delivered, freed, now, tempItems,
                          inScope, lastNow>>
  BY ReserveCallEffect
<1>2. /\ pc' \in [Threads -> PCs] /\ pc'[t] = "reserve"
      /\ \A u \in Threads \ {t} : pc'[u] = pc[u]
  BY <1>1, GotoLands DEF PCs
<1>3. TypeOK'
  BY <1>1, <1>2 DEF Shape, TypeOK, PCs
<1>4. InHand'
  BY <1>1, <1>2 DEF Shape, InHand
<1>. QED
  BY <1>3, <1>4 DEF Shape

LEMMA ReserveShape ==
  ASSUME Shape, NEW t \in Threads, Reserve(t)
  PROVE  Shape'
<1>1. PICK y \in TimerItems :
           /\ pc[t] = "reserve" /\ item[t] # None /\ y.job = item[t].job
           /\ y.late \/ y.executeTick > lastNow
           /\ items' = items \cup {y}
           /\ item' \in [Threads -> TimerItems \cup {None}] /\ item'[t] = None
           /\ \A u \in Threads \ {t} : item'[u] = item[u]
           /\ Goto(t, "idle")
           /\ UNCHANGED <<clock, distributing, alive, delivered, freed, now, tempItems,
                          reserved, lastNow>>
  BY ReserveEffect
<1>2. /\ pc' \in [Threads -> PCs] /\ pc'[t] = "idle"
      /\ \A u \in Threads \ {t} : pc'[u] = pc[u]
  BY <1>1, GotoLands DEF PCs
<1>3. inScope' \in [Threads -> BOOLEAN]
  BY ScopeTyped DEF Reserve
<1>4. IsFiniteSet(items')
  BY <1>1, FS_AddElement DEF Shape, InHand
<1>5. TypeOK'
  BY <1>1, <1>2, <1>3 DEF Shape, TypeOK, PCs
<1>6. InHand'
  BY <1>1, <1>2, <1>4 DEF Shape, InHand
<1>. QED
  BY <1>5, <1>6 DEF Shape

LEMMA TakeDueShape ==
  ASSUME Shape, NEW t \in Threads, TakeDue(t)
  PROVE  Shape'
<1>1. /\ pc[t] = "take" /\ Goto(t, "deliver") /\ items' \subseteq items
      /\ lastNow' = IF now[t] > lastNow THEN now[t] ELSE lastNow
      /\ UNCHANGED <<clock, distributing, alive, delivered, freed, item, now, reserved>>
      /\ tempItems' \in [Threads -> Seq(TimerItems)]
      /\ \A u \in Threads \ {t} : tempItems'[u] = tempItems[u]
  BY TakeDueEffect
<1>2. /\ pc' \in [Threads -> PCs] /\ pc'[t] = "deliver"
      /\ \A u \in Threads \ {t} : pc'[u] = pc[u]
  BY <1>1, GotoLands DEF PCs
<1>3. inScope' \in [Threads -> BOOLEAN]
  BY ScopeTyped DEF TakeDue
<1>4. IsFiniteSet(items')
  BY <1>1, FS_Subset DEF Shape, InHand
<1>5. lastNow' \in -1 .. MaxTick
  BY <1>1, ConstFacts DEF Shape, TypeOK
<1>6. TypeOK'
  BY <1>1, <1>2, <1>3, <1>5 DEF Shape, TypeOK, PCs
<1>7. InHand'
  BY <1>1, <1>2, <1>4 DEF Shape, InHand
<1>. QED
  BY <1>6, <1>7 DEF Shape

\* A job that is handed over had not been given back.
LEMMA DeliverShape ==
  ASSUME Shape, OnePlace, NEW t \in Threads, Deliver(t)
  PROVE  Shape'
<1>1. PICK x \in TimerItems :
           /\ pc[t] = "deliver" /\ Len(tempItems[t]) \in Nat \ {0} /\ x = tempItems[t][1]
           /\ freed' = [freed EXCEPT ![x.job] = @ + 1]
           /\ tempItems' \in [Threads -> Seq(TimerItems)]
           /\ \A u \in Threads \ {t} : tempItems'[u] = tempItems[u]
           /\ Len(tempItems'[t]) = Len(tempItems[t]) - 1
           /\ \A i \in 1 .. Len(tempItems[t]) - 1 : tempItems'[t][i] = tempItems[t][i + 1]
           /\ \/ delivered' = delivered
              \/ /\ delivered' \in Seq(TimerItems) /\ Len(delivered') = Len(delivered) + 1
                 /\ \A i \in 1 .. Len(delivered) : delivered'[i] = delivered[i]
                 /\ delivered'[Len(delivered) + 1] = x
           /\ UNCHANGED <<clock, items, distributing, alive, pc, item, now, inScope, reserved,
                          lastNow>>
  BY DeliverEffect
<1>2. x.job \in Jobs /\ 1 \in 1 .. Len(tempItems[t])
  BY <1>1, ItemFacts
<1>3. freed[x.job] = 0
  BY <1>1, <1>2 DEF OnePlace, Taken
<1>4. freed' \in [Jobs -> {0, 1}]
  BY <1>1, <1>2, <1>3 DEF Shape, TypeOK
<1>5. delivered' \in Seq(TimerItems)
  BY <1>1 DEF Shape, TypeOK
<1>6. TypeOK'
  BY <1>1, <1>4, <1>5 DEF Shape, TypeOK
<1>7. InHand'
  BY <1>1 DEF Shape, InHand
<1>. QED
  BY <1>6, <1>7 DEF Shape

LEMMA ClearShape ==
  ASSUME Shape, HeldOnce, OnePlace, NEW t \in Threads, Clear(t)
  PROVE  Shape'
<1>1. /\ pc[t] = "clear" /\ items' = {} /\ Goto(t, "idle")
      /\ freed' = [j \in Jobs |-> freed'[j]]
      /\ \A j \in Jobs : freed'[j] = IF Queued(j) THEN freed[j] + 1 ELSE freed[j]
      /\ UNCHANGED <<clock, distributing, alive, delivered, item, now, tempItems, reserved,
                     lastNow>>
  BY ClearEffect
<1>2. /\ pc' \in [Threads -> PCs] /\ pc'[t] = "idle"
      /\ \A u \in Threads \ {t} : pc'[u] = pc[u]
  BY <1>1, GotoLands DEF PCs
<1>3. inScope' \in [Threads -> BOOLEAN]
  BY ScopeTyped DEF Clear
<1>4. ASSUME NEW j \in Jobs PROVE freed'[j] \in {0, 1}
  <2>1. freed[j] \in {0, 1}
    BY DEF Shape, TypeOK
  <2>2. Queued(j) => freed[j] = 0
    BY DEF OnePlace
  <2>3. CASE Queued(j)
    BY <1>1, <2>2, <2>3
  <2>4. CASE ~Queued(j)
    BY <1>1, <2>1, <2>4
  <2>. QED
    BY <2>3, <2>4
<1>5. freed' \in [Jobs -> {0, 1}]
  BY <1>1, <1>4
<1>6. TypeOK'
  BY <1>1, <1>2, <1>3, <1>5 DEF Shape, TypeOK, PCs
<1>7. InHand'
  BY <1>1, <1>2, FS_EmptySet DEF Shape, InHand
<1>. QED
  BY <1>6, <1>7 DEF Shape

\* Every step.
LEMMA ShapeNext ==
  ASSUME Shape, HeldOnce, OnePlace, Next
  PROVE  Shape'
<1>1. ASSUME NEW t \in Threads, EnterScope(t) PROVE Shape'
  <2>1. /\ inScope' \in [Threads -> BOOLEAN]
        /\ UNCHANGED <<clock, items, distributing, alive, delivered, freed, pc, item, now,
                       tempItems, reserved, lastNow>>
    BY <1>1, ScopeTyped DEF EnterScope, poolVars, bounds
  <2>. QED
    BY <2>1 DEF Shape, TypeOK, InHand
<1>2. ASSUME NEW q \in Queues, QueueDies(q) PROVE Shape'
  BY <1>2 DEF QueueDies, Shape, TypeOK, InHand, bounds
<1>3. CASE Tick
  <2>1. clock' \in 0 .. MaxTick
    BY <1>3, ConstFacts DEF Tick, Shape, TypeOK
  <2>. QED
    BY <1>3, <2>1 DEF Tick, Shape, TypeOK, InHand, poolVars, bounds
<1>. QED
  BY <1>1, <1>2, <1>3, WorkerShape, ReserveCallShape, ReserveShape, TakeDueShape, DeliverShape,
     ClearShape DEF Next, Run

-----------------------------------------------------------------------------
(* One worker distributes.                                                  *)

LEMMA OneDistributorNext ==
  ASSUME Shape, OneDistributor, Next
  PROVE  OneDistributor'
<1>1. CASE UNCHANGED <<pc, distributing>>
  BY <1>1 DEF OneDistributor
<1>2. ASSUME NEW t \in Threads, Exchange(t) PROVE OneDistributor'
  <2>1. /\ Goto(t, IF distributing THEN "idle" ELSE "take") /\ distributing' = TRUE
    BY <1>2 DEF Exchange
  <2>2. CASE distributing
    <3>1. pc'[t] = "idle" /\ \A u \in Threads \ {t} : pc'[u] = pc[u]
      BY <2>1, <2>2, GotoLands DEF PCs
    <3>. QED
      BY <2>1, <3>1 DEF OneDistributor
  <2>3. CASE ~distributing
    <3>1. pc'[t] = "take" /\ \A u \in Threads \ {t} : pc'[u] = pc[u]
      BY <2>1, <2>3, GotoLands DEF PCs
    <3>2. \A u \in Threads : pc[u] \notin {"take", "deliver"}
      BY <2>3 DEF OneDistributor
    <3>. QED
      BY <2>1, <3>1, <3>2 DEF OneDistributor
  <2>. QED
    BY <2>2, <2>3
<1>3. ASSUME NEW t \in Threads, TakeDue(t) PROVE OneDistributor'
  <2>1. pc[t] = "take" /\ Goto(t, "deliver") /\ distributing' = distributing
    BY <1>3, TakeDueEffect
  <2>2. pc'[t] = "deliver" /\ \A u \in Threads \ {t} : pc'[u] = pc[u]
    BY <2>1, GotoLands DEF PCs
  <2>. QED
    BY <2>1, <2>2 DEF OneDistributor
<1>4. ASSUME NEW t \in Threads, Finish(t) PROVE OneDistributor'
  <2>1. pc[t] = "deliver" /\ Goto(t, "idle")
    BY <1>4 DEF Finish
  <2>2. pc'[t] = "idle" /\ \A u \in Threads \ {t} : pc'[u] = pc[u]
    BY <2>1, GotoLands DEF PCs
  <2>3. \A u \in Threads : pc'[u] \notin {"take", "deliver"}
    BY <2>1, <2>2 DEF OneDistributor
  <2>. QED
    BY <2>3 DEF OneDistributor
<1>5. ASSUME NEW t \in Threads, NEW l \in {"idle", "reserve", "exchange", "clear"}, Goto(t, l),
             distributing' = distributing
      PROVE  OneDistributor'
  <2>1. pc'[t] = l /\ \A u \in Threads \ {t} : pc'[u] = pc[u]
    BY <1>5, GotoLands DEF PCs
  <2>. QED
    BY <1>5, <2>1 DEF OneDistributor
<1>6. ASSUME NEW t \in Threads,
             \/ DistributeReservedJobs(t) \/ ClearCall(t) \/ Reserve(t) \/ Clear(t)
             \/ \E q \in alive, d \in Delays : ReserveCall(t, q, d)
      PROVE  OneDistributor'
  <2>1. /\ \E l \in {"idle", "reserve", "exchange", "clear"} : Goto(t, l)
        /\ distributing' = distributing
    BY <1>6 DEF DistributeReservedJobs, ClearCall, Reserve, Clear, ReserveCall
  <2>. QED
    BY <1>5, <2>1
<1>7. ASSUME NEW t \in Threads, EnterScope(t) \/ Deliver(t) PROVE OneDistributor'
  BY <1>1, <1>7 DEF EnterScope, Deliver
<1>8. ASSUME NEW q \in Queues, QueueDies(q) PROVE OneDistributor'
  BY <1>1, <1>8 DEF QueueDies
<1>9. CASE Tick
  BY <1>1, <1>9 DEF Tick
<1>. QED
  BY <1>2, <1>3, <1>4, <1>6, <1>7, <1>8, <1>9 DEF Next, Run

-----------------------------------------------------------------------------
(* One place.                                                               *)

\* Steps that move no JobData.
LEMMA PlacesFrame ==
  ASSUME HeldOnce, OnePlace, UNCHANGED <<items, item, tempItems, freed, reserved>>
  PROVE  HeldOnce' /\ OnePlace'
<1>1. HeldOnce'
  BY DEF HeldOnce
<1>2. \A j : (Reserving(j)' <=> Reserving(j)) /\ (Queued(j)' <=> Queued(j)) /\ (Taken(j)' <=> Taken(j))
  BY DEF Reserving, Queued, Taken
<1>3. OnePlace'
  BY <1>2 DEF OnePlace
<1>. QED
  BY <1>1, <1>3

\* The number of the new job is new.
LEMMA ReserveCallPlaces ==
  ASSUME Shape, HeldOnce, OnePlace, NEW t \in Threads, NEW q \in alive, NEW d \in Delays,
         ReserveCall(t, q, d)
  PROVE  HeldOnce' /\ OnePlace'
<1>1. PICK y \in TimerItems :
           /\ pc[t] = "idle" /\ item[t] = None /\ reserved' = reserved + 1
           /\ y.job = reserved + 1 /\ y # None
           /\ item' \in [Threads -> TimerItems \cup {None}] /\ item'[t] = y
           /\ \A u \in Threads \ {t} : item'[u] = item[u]
           /\ Goto(t, "reserve") /\ reserved' \in 0 .. MaxJobs
           /\ UNCHANGED <<clock, items, distributing, alive, delivered, freed, now, tempItems,
                          inScope, lastNow>>
  BY ReserveCallEffect
<1>2. PICK n \in Nat : n = reserved + 1 /\ reserved = n - 1
  BY DEF Shape, InHand
<1>3. n \in Jobs
  BY <1>1, <1>2, ItemFacts
<1>4. ~Reserving(n) /\ ~Queued(n) /\ ~Taken(n) /\ freed[n] # 1
  BY <1>2, <1>3 DEF OnePlace
<1>5. freed[n] = 0
  BY <1>3, <1>4 DEF Shape, TypeOK
<1>6. /\ \A j : Reserving(j)' <=> Reserving(j) \/ j = n
      /\ \A j : (Queued(j)' <=> Queued(j)) /\ (Taken(j)' <=> Taken(j))
  <2>1. \A j : Reserving(j)' <=> Reserving(j) \/ j = n
    BY <1>1, <1>2 DEF Reserving
  <2>2. \A j : (Queued(j)' <=> Queued(j)) /\ (Taken(j)' <=> Taken(j))
    BY <1>1 DEF Queued, Taken
  <2>. QED
    BY <2>1, <2>2
<1>7. HeldOnce'
  <2>1. \A u \in Threads : item[u] # None => item[u].job # n
    BY <1>4 DEF Reserving
  <2>2. \A u, v \in Threads :
          item'[u] # None /\ item'[v] # None /\ item'[u].job = item'[v].job => u = v
    BY <1>1, <1>2, <2>1 DEF HeldOnce
  <2>. QED
    BY <1>1, <2>2 DEF HeldOnce
<1>8. OnePlace'
  <2>1. ASSUME NEW j \in Jobs
        PROVE  /\ (j <= reserved)' <=> (Reserving(j) \/ Queued(j) \/ Taken(j) \/ freed[j] = 1)'
               /\ Reserving(j)' => ~Queued(j)' /\ ~Taken(j)' /\ freed'[j] = 0
               /\ Queued(j)' => ~Taken(j)' /\ freed'[j] = 0
               /\ Taken(j)' => freed'[j] = 0
    <3>1. j \in Nat
      BY ConstFacts
    <3>2. j <= reserved' <=> j <= reserved \/ j = n
      BY <1>1, <1>2, <3>1
    <3>3. freed'[j] = freed[j]
      BY <1>1
    <3>4. CASE j = n
      BY <1>4, <1>5, <1>6, <3>2, <3>3, <3>4
    <3>5. CASE j # n
      BY <1>6, <3>2, <3>3, <3>5 DEF OnePlace
    <3>. QED
      BY <3>4, <3>5
  <2>. QED
    BY <2>1 DEF OnePlace
<1>. QED
  BY <1>7, <1>8

\* From the caller to the queue.
LEMMA ReservePlaces ==
  ASSUME Shape, HeldOnce, OnePlace, NEW t \in Threads, Reserve(t)
  PROVE  HeldOnce' /\ OnePlace'
<1>1. PICK y \in TimerItems :
           /\ pc[t] = "reserve" /\ item[t] # None /\ y.job = item[t].job
           /\ y.late \/ y.executeTick > lastNow
           /\ items' = items \cup {y}
           /\ item' \in [Threads -> TimerItems \cup {None}] /\ item'[t] = None
           /\ \A u \in Threads \ {t} : item'[u] = item[u]
           /\ Goto(t, "idle")
           /\ UNCHANGED <<clock, distributing, alive, delivered, freed, now, tempItems,
                          reserved, lastNow>>
  BY ReserveEffect
<1>2. PICK n : n = y.job
  OBVIOUS
<1>3. n \in Jobs
  BY <1>2, ItemFacts
<1>4. Reserving(n) /\ ~Queued(n) /\ ~Taken(n) /\ freed[n] = 0
  <2>1. Reserving(n)
    BY <1>1, <1>2 DEF Reserving
  <2>. QED
    BY <1>3, <2>1 DEF OnePlace
<1>5. \A j : Reserving(j)' <=> Reserving(j) /\ j # n
  BY <1>1, <1>2 DEF Reserving, HeldOnce
<1>6. \A j : Queued(j)' <=> Queued(j) \/ j = n
  BY <1>1, <1>2 DEF Queued
<1>7. \A j : Taken(j)' <=> Taken(j)
  BY <1>1 DEF Taken
<1>8. HeldOnce'
  <2>1. \A u, v \in Threads :
          item'[u] # None /\ item'[v] # None /\ item'[u].job = item'[v].job => u = v
    BY <1>1 DEF HeldOnce
  <2>2. \A x \in items : x.job # n
    BY <1>4 DEF Queued
  <2>3. \A x, z \in items' : x.job = z.job => x = z
    BY <1>1, <1>2, <2>2 DEF HeldOnce
  <2>. QED
    BY <1>1, <2>1, <2>3 DEF HeldOnce
<1>9. OnePlace'
  <2>1. ASSUME NEW j \in Jobs
        PROVE  /\ (j <= reserved)' <=> (Reserving(j) \/ Queued(j) \/ Taken(j) \/ freed[j] = 1)'
               /\ Reserving(j)' => ~Queued(j)' /\ ~Taken(j)' /\ freed'[j] = 0
               /\ Queued(j)' => ~Taken(j)' /\ freed'[j] = 0
               /\ Taken(j)' => freed'[j] = 0
    <3>1. freed'[j] = freed[j] /\ reserved' = reserved
      BY <1>1
    <3>2. CASE j = n
      BY <1>3, <1>4, <1>5, <1>6, <1>7, <3>1, <3>2 DEF OnePlace
    <3>3. CASE j # n
      BY <1>5, <1>6, <1>7, <3>1, <3>3 DEF OnePlace
    <3>. QED
      BY <3>2, <3>3
  <2>. QED
    BY <2>1 DEF OnePlace
<1>. QED
  BY <1>8, <1>9

\* From the queue to the worker, every item that is due.
LEMMA TakeDuePlaces ==
  ASSUME Shape, HeldOnce, OnePlace, NEW t \in Threads, TakeDue(t)
  PROVE  HeldOnce' /\ OnePlace'
<1>1. PICK D, s : D = Due(t) /\ s = tempItems'[t]
  OBVIOUS
<1>2. /\ Len(tempItems[t]) = 0 /\ items' = items \ D /\ D \subseteq items
      /\ UNCHANGED <<freed, item, reserved>>
      /\ \A u \in Threads \ {t} : tempItems'[u] = tempItems[u]
      /\ \A i \in 1 .. Len(s) : s[i] \in D
      /\ \A x \in D : \E i \in 1 .. Len(s) : s[i] = x
      /\ \A i, k \in 1 .. Len(s) : s[i] = s[k] => i = k
  BY <1>1, TakeDueEffect, SMTT(30)
<1>3. \A j : Reserving(j)' <=> Reserving(j)
  BY <1>2 DEF Reserving
<1>4. \A j : Queued(j)' <=> Queued(j) /\ ~\E x \in D : x.job = j
  BY <1>2 DEF Queued, HeldOnce
<1>5. ASSUME NEW j PROVE Taken(j)' <=> Taken(j) \/ \E x \in D : x.job = j
  <2>1. \A i \in 1 .. Len(tempItems[t]) : FALSE
    BY <1>2
  <2>2. (\E i \in 1 .. Len(s) : s[i].job = j) <=> \E x \in D : x.job = j
    BY <1>2
  <2>3. Taken(j) <=> \E u \in Threads \ {t} :
                       \E i \in 1 .. Len(tempItems[u]) : tempItems[u][i].job = j
    BY <2>1 DEF Taken
  <2>4. Taken(j)' <=> \/ \E u \in Threads \ {t} :
                            \E i \in 1 .. Len(tempItems'[u]) : tempItems'[u][i].job = j
                      \/ \E i \in 1 .. Len(s) : s[i].job = j
    BY <1>1 DEF Taken
  <2>. QED
    BY <1>2, <2>2, <2>3, <2>4
<1>6. \A j : (\E x \in D : x.job = j) => Queued(j)
  BY <1>2 DEF Queued
<1>7. HeldOnce'
  <2>1. \A i, k \in 1 .. Len(s) : s[i].job = s[k].job => i = k
    BY <1>2 DEF HeldOnce
  <2>2. \A u \in Threads : \A i, k \in 1 .. Len(tempItems'[u]) :
          tempItems'[u][i].job = tempItems'[u][k].job => i = k
    BY <1>1, <1>2, <2>1 DEF HeldOnce
  <2>3. \A x, y \in items' : x.job = y.job => x = y
    BY <1>2 DEF HeldOnce
  <2>. QED
    BY <1>2, <2>2, <2>3 DEF HeldOnce
<1>8. OnePlace'
  <2>1. ASSUME NEW j \in Jobs
        PROVE  /\ (j <= reserved)' <=> (Reserving(j) \/ Queued(j) \/ Taken(j) \/ freed[j] = 1)'
               /\ Reserving(j)' => ~Queued(j)' /\ ~Taken(j)' /\ freed'[j] = 0
               /\ Queued(j)' => ~Taken(j)' /\ freed'[j] = 0
               /\ Taken(j)' => freed'[j] = 0
    <3>1. freed'[j] = freed[j] /\ reserved' = reserved
      BY <1>2
    <3>2. CASE \E x \in D : x.job = j
      BY <1>3, <1>4, <1>5, <1>6, <3>1, <3>2 DEF OnePlace
    <3>3. CASE ~\E x \in D : x.job = j
      BY <1>3, <1>4, <1>5, <3>1, <3>3 DEF OnePlace
    <3>. QED
      BY <3>2, <3>3
  <2>. QED
    BY <2>1 DEF OnePlace
<1>. QED
  BY <1>7, <1>8

\* From the worker to the pool.
LEMMA DeliverPlaces ==
  ASSUME Shape, OneDistributor, HeldOnce, OnePlace, NEW t \in Threads, Deliver(t)
  PROVE  HeldOnce' /\ OnePlace'
<1>1. PICK x \in TimerItems :
           /\ pc[t] = "deliver" /\ Len(tempItems[t]) \in Nat \ {0} /\ x = tempItems[t][1]
           /\ freed' = [freed EXCEPT ![x.job] = @ + 1]
           /\ tempItems' \in [Threads -> Seq(TimerItems)]
           /\ \A u \in Threads \ {t} : tempItems'[u] = tempItems[u]
           /\ Len(tempItems'[t]) = Len(tempItems[t]) - 1
           /\ \A i \in 1 .. Len(tempItems[t]) - 1 : tempItems'[t][i] = tempItems[t][i + 1]
           /\ \/ delivered' = delivered
              \/ /\ delivered' \in Seq(TimerItems) /\ Len(delivered') = Len(delivered) + 1
                 /\ \A i \in 1 .. Len(delivered) : delivered'[i] = delivered[i]
                 /\ delivered'[Len(delivered) + 1] = x
           /\ UNCHANGED <<clock, items, distributing, alive, pc, item, now, inScope, reserved,
                          lastNow>>
  BY DeliverEffect
<1>2. PICK n, q, r, m : n = x.job /\ q = tempItems[t] /\ r = tempItems'[t] /\ m = Len(tempItems[t])
  OBVIOUS
<1>3. /\ n \in Jobs /\ m \in Nat \ {0} /\ Len(q) = m /\ q[1].job = n /\ Len(r) = m - 1
      /\ \A i \in 1 .. m - 1 : r[i] = q[i + 1] /\ i + 1 \in 1 .. m /\ i + 1 # 1
      /\ \A k \in 1 .. m : k # 1 => k - 1 \in 1 .. m - 1 /\ q[k] = r[k - 1]
      /\ 1 \in 1 .. m
  BY <1>1, <1>2, ItemFacts
<1>4. \A u \in Threads \ {t} : Len(tempItems[u]) = 0 /\ Len(tempItems'[u]) = 0
  <2>1. \A u \in Threads \ {t} : pc[u] # "deliver"
    BY <1>1 DEF OneDistributor
  <2>. QED
    BY <1>1, <2>1 DEF Shape, InHand
<1>5. \A j : Taken(j) <=> \E i \in 1 .. m : q[i].job = j
  BY <1>2, <1>3, <1>4 DEF Taken
<1>6. \A j : Taken(j)' <=> \E i \in 1 .. m - 1 : r[i].job = j
  BY <1>2, <1>3, <1>4 DEF Taken
<1>7. \A i, k \in 1 .. m : q[i].job = q[k].job => i = k
  BY <1>2 DEF HeldOnce
<1>8. \A j : Taken(j)' <=> Taken(j) /\ j # n
  BY <1>3, <1>5, <1>6, <1>7
<1>9. /\ \A j : Reserving(j)' <=> Reserving(j)
      /\ \A j : Queued(j)' <=> Queued(j)
  BY <1>1 DEF Reserving, Queued
<1>10. Taken(n) /\ freed[n] = 0
  BY <1>3, <1>5 DEF OnePlace
<1>11. freed'[n] = 1 /\ \A j \in Jobs : j # n => freed'[j] = freed[j]
  BY <1>1, <1>2, <1>3, <1>10 DEF Shape, TypeOK
<1>12. HeldOnce'
  <2>1. \A i, k \in 1 .. m - 1 : r[i].job = r[k].job => i = k
    BY <1>3, <1>7
  <2>2. ASSUME NEW u \in Threads
        PROVE  \A i, k \in 1 .. Len(tempItems'[u]) :
                 tempItems'[u][i].job = tempItems'[u][k].job => i = k
    <3>1. CASE u = t
      BY <1>2, <1>3, <2>1, <3>1
    <3>2. CASE u # t
      BY <1>4, <3>2
    <3>. QED
      BY <3>1, <3>2
  <2>. QED
    BY <1>1, <2>2 DEF HeldOnce
<1>13. OnePlace'
  <2>1. ASSUME NEW j \in Jobs
        PROVE  /\ (j <= reserved)' <=> (Reserving(j) \/ Queued(j) \/ Taken(j) \/ freed[j] = 1)'
               /\ Reserving(j)' => ~Queued(j)' /\ ~Taken(j)' /\ freed'[j] = 0
               /\ Queued(j)' => ~Taken(j)' /\ freed'[j] = 0
               /\ Taken(j)' => freed'[j] = 0
    <3>1. reserved' = reserved
      BY <1>1
    <3>2. CASE j = n
      BY <1>8, <1>9, <1>10, <1>11, <3>1, <3>2 DEF OnePlace
    <3>3. CASE j # n
      BY <1>8, <1>9, <1>11, <3>1, <3>3 DEF OnePlace
    <3>. QED
      BY <3>2, <3>3
  <2>. QED
    BY <2>1 DEF OnePlace
<1>. QED
  BY <1>12, <1>13

\* From the queue to the pool.
LEMMA ClearPlaces ==
  ASSUME Shape, HeldOnce, OnePlace, NEW t \in Threads, Clear(t)
  PROVE  HeldOnce' /\ OnePlace'
<1>1. /\ items' = {} /\ UNCHANGED <<item, tempItems, reserved>>
      /\ \A j \in Jobs : freed'[j] = IF Queued(j) THEN freed[j] + 1 ELSE freed[j]
  BY ClearEffect
<1>2. /\ \A j : Reserving(j)' <=> Reserving(j)
      /\ \A j : Taken(j)' <=> Taken(j)
      /\ \A j : ~Queued(j)'
  BY <1>1 DEF Reserving, Taken, Queued
<1>3. HeldOnce'
  BY <1>1 DEF HeldOnce
<1>4. OnePlace'
  <2>1. ASSUME NEW j \in Jobs
        PROVE  /\ (j <= reserved)' <=> (Reserving(j) \/ Queued(j) \/ Taken(j) \/ freed[j] = 1)'
               /\ Reserving(j)' => ~Queued(j)' /\ ~Taken(j)' /\ freed'[j] = 0
               /\ Queued(j)' => ~Taken(j)' /\ freed'[j] = 0
               /\ Taken(j)' => freed'[j] = 0
    <3>1. CASE Queued(j)
      <4>1. freed[j] = 0 /\ freed'[j] = 1
        BY <1>1, <3>1 DEF OnePlace
      <4>. QED
        BY <1>1, <1>2, <3>1, <4>1 DEF OnePlace
    <3>2. CASE ~Queued(j)
      <4>1. freed'[j] = freed[j]
        BY <1>1, <3>2
      <4>. QED
        BY <1>1, <1>2, <3>2, <4>1 DEF OnePlace
    <3>. QED
      BY <3>1, <3>2
  <2>. QED
    BY <2>1 DEF OnePlace
<1>. QED
  BY <1>3, <1>4

\* Every step.
LEMMA PlacesNext ==
  ASSUME Shape, OneDistributor, HeldOnce, OnePlace, Next
  PROVE  HeldOnce' /\ OnePlace'
<1>1. ASSUME NEW t \in Threads,
             \/ EnterScope(t) \/ DistributeReservedJobs(t) \/ Exchange(t) \/ Finish(t)
             \/ ClearCall(t)
      PROVE  HeldOnce' /\ OnePlace'
  <2>1. UNCHANGED <<items, item, tempItems, freed, reserved>>
    BY <1>1 DEF EnterScope, DistributeReservedJobs, Exchange, Finish, ClearCall, poolVars, bounds
  <2>. QED
    BY <2>1, PlacesFrame
<1>2. ASSUME NEW q \in Queues, QueueDies(q) PROVE HeldOnce' /\ OnePlace'
  BY <1>2, PlacesFrame DEF QueueDies, bounds
<1>3. CASE Tick
  BY <1>3, PlacesFrame DEF Tick, poolVars, bounds
<1>. QED
  BY <1>1, <1>2, <1>3, ReserveCallPlaces, ReservePlaces, TakeDuePlaces, DeliverPlaces,
     ClearPlaces DEF Next, Run

-----------------------------------------------------------------------------
(* The order of delivery.                                                   *)

\* DeliveredInOrder by the places of the sequence.
LEMMA InOrderFacts ==
  ASSUME Shape
  PROVE  DeliveredInOrder <=>
           \A i, k \in 1 .. Len(delivered) :
             i < k => delivered[i].executeTick <= delivered[k].executeTick \/ delivered[k].late
  BY DeliveredTyped DEF DeliveredInOrder

\* Steps that leave queue, worker's items and deliveries alone.
LEMMA OrderedFrame ==
  ASSUME Ordered, UNCHANGED <<items, tempItems, delivered, lastNow>>
  PROVE  Ordered'
  BY DEF Ordered, DeliveredInOrder

LEMMA ReserveOrdered ==
  ASSUME Shape, Ordered, NEW t \in Threads, Reserve(t)
  PROVE  Ordered'
<1>1. \E y : (y.late \/ y.executeTick > lastNow) /\ items' = items \cup {y}
  BY ReserveEffect
<1>2. UNCHANGED <<tempItems, delivered, lastNow>>
  BY ReserveEffect
<1>3. \A x \in items' : x.late \/ x.executeTick > lastNow'
  BY <1>1, <1>2 DEF Ordered
<1>. QED
  BY <1>2, <1>3 DEF Ordered, DeliveredInOrder

\* What is taken out now was due later than all that was delivered, or late.
LEMMA TakeDueOrdered ==
  ASSUME Shape, OneDistributor, Ordered, NEW t \in Threads, TakeDue(t)
  PROVE  Ordered'
<1>1. PICK D, s : D = Due(t) /\ s = tempItems'[t]
  OBVIOUS
<1>2. /\ pc[t] = "take" /\ items' = items \ D /\ D \subseteq items
      /\ lastNow' = IF now[t] > lastNow THEN now[t] ELSE lastNow
      /\ delivered' = delivered
      /\ \A u \in Threads \ {t} : tempItems'[u] = tempItems[u]
      /\ \A i \in 1 .. Len(s) : s[i] \in D
      /\ \A i, k \in 1 .. Len(s) : i < k => s[i].executeTick <= s[k].executeTick
  BY <1>1, TakeDueEffect
<1>3. /\ lastNow \in Int /\ now[t] \in Int /\ lastNow' \in Int
      /\ lastNow <= lastNow' /\ now[t] <= lastNow'
      /\ lastNow' = lastNow \/ lastNow' = now[t]
  BY <1>2, ConstFacts DEF Shape, TypeOK
<1>4. \A x \in items : x \in TimerItems /\ x.executeTick \in Nat /\ (x \in D <=> x.executeTick <= now[t])
  BY <1>1, ItemFacts DEF Due, Shape, TypeOK
<1>5. \A x \in items' : x.late \/ x.executeTick > lastNow'
  BY <1>2, <1>3, <1>4 DEF Ordered
<1>6. \A i \in 1 .. Len(delivered) : delivered[i].executeTick \in Nat
  BY DeliveredTyped, ItemFacts
<1>7. \A i \in 1 .. Len(delivered) : delivered[i].executeTick <= lastNow'
  BY <1>3, <1>6 DEF Ordered
<1>8. ASSUME NEW u \in Threads, NEW k \in 1 .. Len(tempItems'[u])
      PROVE  /\ tempItems'[u][k].executeTick <= lastNow'
             /\ \A i \in 1 .. Len(tempItems'[u]) :
                  i < k => tempItems'[u][i].executeTick <= tempItems'[u][k].executeTick
             /\ \A i \in 1 .. Len(delivered) :
                  delivered[i].executeTick <= tempItems'[u][k].executeTick \/ tempItems'[u][k].late
  <2>1. u = t
    <3>1. u # t => Len(tempItems[u]) = 0
      BY <1>2 DEF OneDistributor, Shape, InHand
    <3>. QED
      BY <1>2, <1>8, <3>1
  <2>2. k \in 1 .. Len(s) /\ s[k] \in D /\ s[k] \in items
    BY <1>1, <1>2, <1>8, <2>1
  <2>3. s[k].executeTick <= lastNow' /\ s[k].executeTick \in Nat
    BY <1>3, <1>4, <2>2
  <2>4. \A i \in 1 .. Len(delivered) : delivered[i].executeTick <= s[k].executeTick \/ s[k].late
    <3>1. s[k].late \/ s[k].executeTick > lastNow
      BY <2>2 DEF Ordered
    <3>. QED
      BY <1>3, <1>6, <2>3, <3>1 DEF Ordered
  <2>. QED
    BY <1>1, <1>2, <2>1, <2>2, <2>3, <2>4
<1>9. DeliveredInOrder'
  BY <1>2 DEF Ordered, DeliveredInOrder
<1>. QED
  BY <1>2, <1>5, <1>7, <1>8, <1>9 DEF Ordered

\* The first of the worker's items is delivered; the rest come after it.
LEMMA DeliverOrdered ==
  ASSUME Shape, OneDistributor, HeldOnce, OnePlace, Ordered, NEW t \in Threads, Deliver(t)
  PROVE  Ordered'
<1>1. PICK x \in TimerItems :
           /\ pc[t] = "deliver" /\ Len(tempItems[t]) \in Nat \ {0} /\ x = tempItems[t][1]
           /\ freed' = [freed EXCEPT ![x.job] = @ + 1]
           /\ tempItems' \in [Threads -> Seq(TimerItems)]
           /\ \A u \in Threads \ {t} : tempItems'[u] = tempItems[u]
           /\ Len(tempItems'[t]) = Len(tempItems[t]) - 1
           /\ \A i \in 1 .. Len(tempItems[t]) - 1 : tempItems'[t][i] = tempItems[t][i + 1]
           /\ \/ delivered' = delivered
              \/ /\ delivered' \in Seq(TimerItems) /\ Len(delivered') = Len(delivered) + 1
                 /\ \A i \in 1 .. Len(delivered) : delivered'[i] = delivered[i]
                 /\ delivered'[Len(delivered) + 1] = x
           /\ UNCHANGED <<clock, items, distributing, alive, pc, item, now, inScope, reserved,
                          lastNow>>
  BY DeliverEffect
<1>2. PICK q, r, m, d, n : /\ q = tempItems[t] /\ r = tempItems'[t] /\ m = Len(tempItems[t])
                           /\ d = delivered /\ n = Len(delivered)
  OBVIOUS
<1>3. /\ m \in Nat \ {0} /\ n \in Nat /\ x = q[1] /\ 1 \in 1 .. m /\ Len(r) = m - 1
      /\ \A i \in 1 .. m - 1 : r[i] = q[i + 1] /\ i + 1 \in 1 .. m /\ 1 < i + 1
  BY <1>1, <1>2, DeliveredTyped
<1>4. /\ \A k \in 1 .. m : q[k].executeTick <= lastNow
      /\ \A i, k \in 1 .. m : i < k => q[i].executeTick <= q[k].executeTick
      /\ \A i \in 1 .. n, k \in 1 .. m : d[i].executeTick <= q[k].executeTick \/ q[k].late
      /\ \A i \in 1 .. n : d[i].executeTick <= lastNow
  BY <1>2 DEF Ordered
<1>5. \A i, k \in 1 .. n : i < k => d[i].executeTick <= d[k].executeTick \/ d[k].late
  BY <1>2, InOrderFacts DEF Ordered
\* the deliveries of afterwards: those of before, and perhaps x after them
<1>6. /\ Len(delivered') \in {n, n + 1}
      /\ \A i \in 1 .. Len(delivered') :
           \/ i \in 1 .. n /\ delivered'[i] = d[i]
           \/ i = n + 1 /\ delivered'[i] = x
  <2>1. CASE delivered' = delivered
    BY <1>2, <2>1
  <2>2. CASE /\ Len(delivered') = Len(delivered) + 1
             /\ \A i \in 1 .. Len(delivered) : delivered'[i] = delivered[i]
             /\ delivered'[Len(delivered) + 1] = x
    <3>1. \A i \in 1 .. n + 1 : i \in 1 .. n \/ i = n + 1
      BY <1>3
    <3>. QED
      BY <1>2, <2>2, <3>1
  <2>. QED
    BY <1>1, <2>1, <2>2
<1>7. \A i \in 1 .. Len(delivered') : delivered'[i].executeTick <= lastNow
  BY <1>3, <1>4, <1>6
<1>8. \A i, k \in 1 .. Len(delivered') :
        i < k => delivered'[i].executeTick <= delivered'[k].executeTick \/ delivered'[k].late
  <2>1. ASSUME NEW i \in 1 .. Len(delivered'), NEW k \in 1 .. Len(delivered'), i < k
        PROVE  delivered'[i].executeTick <= delivered'[k].executeTick \/ delivered'[k].late
    <3>1. i \in 1 .. n /\ delivered'[i] = d[i]
      BY <1>3, <1>6, <2>1
    <3>2. CASE k \in 1 .. n /\ delivered'[k] = d[k]
      BY <1>5, <2>1, <3>1, <3>2
    <3>3. CASE k = n + 1 /\ delivered'[k] = x
      BY <1>3, <1>4, <3>1, <3>3
    <3>. QED
      BY <1>6, <3>2, <3>3
  <2>. QED
    BY <2>1
<1>9. DeliveredInOrder'
  <2>1. Shape'
    BY DeliverShape
  <2>2. DOMAIN delivered' = 1 .. Len(delivered')
    BY <2>1 DEF Shape, TypeOK
  <2>. QED
    BY <1>8, <2>2 DEF DeliveredInOrder
<1>10. ASSUME NEW u \in Threads, NEW k \in 1 .. Len(tempItems'[u])
       PROVE  /\ tempItems'[u][k].executeTick <= lastNow
              /\ \A i \in 1 .. Len(tempItems'[u]) :
                   i < k => tempItems'[u][i].executeTick <= tempItems'[u][k].executeTick
              /\ \A i \in 1 .. Len(delivered') :
                   \/ delivered'[i].executeTick <= tempItems'[u][k].executeTick
                   \/ tempItems'[u][k].late
  <2>1. u = t
    <3>1. u # t => Len(tempItems[u]) = 0
      BY <1>1 DEF OneDistributor, Shape, InHand
    <3>. QED
      BY <1>1, <1>10, <3>1
  <2>2. k \in 1 .. m - 1 /\ r[k] = q[k + 1] /\ k + 1 \in 1 .. m /\ 1 < k + 1
    BY <1>2, <1>3, <1>10, <2>1
  <2>3. r[k].executeTick <= lastNow
    BY <1>4, <2>2
  <2>4. \A i \in 1 .. m - 1 : i < k => r[i].executeTick <= r[k].executeTick
    BY <1>3, <1>4, <2>2, SMTT(30)
  <2>5. ASSUME NEW i \in 1 .. Len(delivered')
        PROVE  delivered'[i].executeTick <= r[k].executeTick \/ r[k].late
    <3>1. CASE i \in 1 .. n /\ delivered'[i] = d[i]
      BY <1>4, <2>2, <3>1
    <3>2. CASE delivered'[i] = x
      BY <1>3, <1>4, <2>2, <3>2
    <3>. QED
      BY <1>6, <3>1, <3>2
  <2>. QED
    BY <1>2, <1>3, <2>1, <2>3, <2>4, <2>5
<1>11. \A y \in items' : y.late \/ y.executeTick > lastNow'
  BY <1>1 DEF Ordered
<1>. QED
  BY <1>1, <1>7, <1>9, <1>10, <1>11 DEF Ordered

\* Every step.
LEMMA OrderedNext ==
  ASSUME Shape, OneDistributor, HeldOnce, OnePlace, Ordered, Next
  PROVE  Ordered'
<1>1. ASSUME NEW t \in Threads,
             \/ EnterScope(t) \/ DistributeReservedJobs(t) \/ Exchange(t) \/ Finish(t)
             \/ ClearCall(t) \/ \E q \in alive, d \in Delays : ReserveCall(t, q, d)
      PROVE  Ordered'
  <2>1. UNCHANGED <<items, tempItems, delivered, lastNow>>
    BY <1>1 DEF EnterScope, DistributeReservedJobs, Exchange, Finish, ClearCall, ReserveCall,
                poolVars
  <2>. QED
    BY <2>1, OrderedFrame
<1>2. ASSUME NEW q \in Queues, QueueDies(q) PROVE Ordered'
  BY <1>2, OrderedFrame DEF QueueDies
<1>3. CASE Tick
  BY <1>3, OrderedFrame DEF Tick, poolVars
<1>4. ASSUME NEW t \in Threads, Clear(t) PROVE Ordered'
  <2>1. items' = {} /\ UNCHANGED <<tempItems, delivered, lastNow>>
    BY <1>4, ClearEffect
  <2>. QED
    BY <2>1 DEF Ordered, DeliveredInOrder
<1>. QED
  BY <1>1, <1>2, <1>3, <1>4, ReserveOrdered, TakeDueOrdered, DeliverOrdered DEF Next, Run

-----------------------------------------------------------------------------
(* The invariant holds.                                                     *)

LEMMA InitIInv == Init => IInv
<1>. SUFFICES ASSUME Init PROVE IInv
  OBVIOUS
<1>1. << >> \in Seq(TimerItems) /\ Len(<< >>) = 0
  OBVIOUS
<1>2. delivered \in Seq(TimerItems) /\ Len(delivered) = 0 /\ DOMAIN delivered = {}
  BY DEF Init
<1>3. tempItems \in [Threads -> Seq(TimerItems)] /\ \A t \in Threads : Len(tempItems[t]) = 0
  BY <1>1 DEF Init
<1>4. MaxTick \in Nat /\ MaxJobs \in Nat
  BY ConstFacts
<1>5. TypeOK
  <2>1. clock \in 0 .. MaxTick /\ lastNow \in -1 .. MaxTick
    BY <1>4 DEF Init
  <2>2. freed \in [Jobs -> {0, 1}] /\ now \in [Threads -> 0 .. MaxTick]
    BY <1>4 DEF Init
  <2>. QED
    BY <1>2, <1>3, <2>1, <2>2 DEF Init, TypeOK
<1>6. InHand
  BY <1>3, <1>4, FS_EmptySet DEF Init, InHand
<1>7. OneDistributor
  BY DEF Init, OneDistributor
<1>8. HeldOnce
  BY <1>3 DEF Init, HeldOnce
<1>9. OnePlace
  <2>1. \A j : ~Reserving(j) /\ ~Queued(j) /\ ~Taken(j)
    BY <1>3 DEF Init, Reserving, Queued, Taken
  <2>2. \A j \in Jobs : freed[j] = 0 /\ ~(j <= reserved)
    BY <1>4 DEF Init, Jobs
  <2>. QED
    BY <2>1, <2>2 DEF OnePlace
<1>10. Ordered
  BY <1>2, <1>3 DEF Init, Ordered, DeliveredInOrder
<1>. QED
  BY <1>5, <1>6, <1>7, <1>8, <1>9, <1>10 DEF IInv, Shape

LEMMA NextIInv == IInv /\ [Next]_vars => IInv'
<1>. SUFFICES ASSUME IInv, [Next]_vars PROVE IInv'
  OBVIOUS
<1>1. CASE Next
  BY <1>1, ShapeNext, OneDistributorNext, PlacesNext, OrderedNext DEF IInv
<1>2. CASE UNCHANGED vars
  <2>. USE <1>2 DEF vars, poolVars, bounds
  <2>1. Shape'
    BY DEF IInv, Shape, TypeOK, InHand
  <2>2. OneDistributor'
    BY DEF IInv, OneDistributor
  <2>3. HeldOnce' /\ OnePlace'
    BY PlacesFrame DEF IInv
  <2>4. Ordered'
    BY OrderedFrame DEF IInv
  <2>. QED
    BY <2>1, <2>2, <2>3, <2>4 DEF IInv
<1>. QED
  BY <1>1, <1>2

\* The inductive invariant holds in every reachable state.
THEOREM InvariantHolds == Spec => []IInv
<1>. QED
  BY InitIInv, NextIInv, PTL DEF Spec

-----------------------------------------------------------------------------
(* What it gives.                                                           *)

\* The state of the timer has its type; no JobData is given back twice.
THEOREM TypeCorrect == Spec => []TypeOK
<1>1. IInv => TypeOK
  BY DEF IInv, Shape
<1>. QED
  BY <1>1, InvariantHolds, PTL

\* However Reserve, Distribute and Clear interleave and whichever queue dies,
\* jobs reach their queues in the order they are due, but for those reserved when
\* a later one had been taken out.
THEOREM InOrderTheorem == Spec => []DeliveredInOrder
<1>1. IInv => DeliveredInOrder
  BY DEF IInv, Ordered
<1>. QED
  BY <1>1, InvariantHolds, PTL

\* A worker never has more items at hand than jobs were reserved.
LEMMA TakenFit ==
  ASSUME Shape, HeldOnce, NEW t \in Threads
  PROVE  1 .. Len(tempItems[t]) \subseteq Jobs
<1>1. PICK n \in Nat : n = Len(tempItems[t])
  BY TempTyped
<1>. DEFINE f == [i \in 1 .. n |-> tempItems[t][i].job]
<1>2. \A i \in 1 .. n : tempItems[t][i].job \in Jobs
  BY <1>1, TempTyped, ItemFacts
<1>3. f \in [1 .. n -> Jobs] /\ \A i, k \in 1 .. n : f[i] = f[k] => i = k
  BY <1>1, <1>2 DEF HeldOnce
<1>4. f \in Injection(1 .. n, Jobs)
  BY <1>3 DEF Injection, IsInjective
<1>. HIDE DEF f
<1>5. PICK m \in Nat : m = MaxJobs
  BY ConstFacts
<1>6. /\ IsFiniteSet(1 .. m) /\ Cardinality(1 .. m) = m /\ Cardinality(1 .. n) = n
  <2>1. 1 \in Int /\ n \in Int /\ m \in Int
    OBVIOUS
  <2>2. /\ IsFiniteSet(1 .. m) /\ Cardinality(1 .. m) = IF 1 > m THEN 0 ELSE m - 1 + 1
        /\ Cardinality(1 .. n) = IF 1 > n THEN 0 ELSE n - 1 + 1
    BY <2>1, FS_Interval
  <2>. QED
    BY <2>2
<1>7. Jobs = 1 .. m
  BY <1>5 DEF Jobs
<1>8. Cardinality(1 .. n) <= Cardinality(1 .. m)
  BY <1>4, <1>6, <1>7, FS_Injection
<1>9. n <= m
  BY <1>6, <1>8
<1>. QED
  BY <1>1, <1>7, <1>9

\* What the homes of a job are.
LEMMA HomesMember ==
  ASSUME NEW j, NEW h
  PROVE  h \in Homes(j) <=>
            \/ \E t \in Threads : item[t] # None /\ item[t].job = j /\ h = <<"reserving", t>>
            \/ \E x \in items : x.job = j /\ h = <<"queued", x>>
            \/ \E t \in Threads : \E i \in Jobs :
                  i \in DOMAIN tempItems[t] /\ tempItems[t][i].job = j /\ h = <<"taken", <<t, i>>>>
            \/ \E k \in 1 .. freed[j] : h = <<"pool", k>>
<1>1. h \in {<<"taken", p>> : p \in {q \in Threads \X Jobs :
             q[2] \in DOMAIN tempItems[q[1]] /\ tempItems[q[1]][q[2]].job = j}}
        <=> \E t \in Threads : \E i \in Jobs :
              i \in DOMAIN tempItems[t] /\ tempItems[t][i].job = j /\ h = <<"taken", <<t, i>>>>
  OBVIOUS
<1>2. h \in {<<"reserving", t>> : t \in {u \in Threads : item[u] # None /\ item[u].job = j}}
        <=> \E t \in Threads : item[t] # None /\ item[t].job = j /\ h = <<"reserving", t>>
  OBVIOUS
<1>3. h \in {<<"queued", x>> : x \in {y \in items : y.job = j}}
        <=> \E x \in items : x.job = j /\ h = <<"queued", x>>
  OBVIOUS
<1>4. h \in {<<"pool", k>> : k \in 1 .. freed[j]} <=> \E k \in 1 .. freed[j] : h = <<"pool", k>>
  OBVIOUS
<1>. QED
  BY <1>1, <1>2, <1>3, <1>4 DEF Homes

\* h is the home of j, the only one.
OnlyHome(j, h) == \A k : k \in Homes(j) <=> k = h

\* With either guard the JobData of a reserved job is pointed at from exactly one
\* place, Reserve, the queue, the worker that distributes or, once given back, the
\* pool: it is neither leaked nor used after it was given back nor given back
\* twice.
THEOREM OneHomeTheorem == Spec => []JobDataHasOneHome
<1>1. ASSUME IInv, NEW j \in 1 .. reserved PROVE \E h : OnlyHome(j, h)
  <2>1. j \in Jobs /\ j <= reserved
    BY <1>1, ConstFacts DEF IInv, Shape, InHand, Jobs
  <2>2. /\ Reserving(j) \/ Queued(j) \/ Taken(j) \/ freed[j] = 1
        /\ Reserving(j) => ~Queued(j) /\ ~Taken(j) /\ freed[j] = 0
        /\ Queued(j) => ~Taken(j) /\ freed[j] = 0
        /\ Taken(j) => freed[j] = 0
    BY <1>1, <2>1 DEF IInv, OnePlace
  <2>3. HeldOnce /\ OneDistributor
    BY <1>1 DEF IInv
  <2>4. \A t \in Threads : DOMAIN tempItems[t] = 1 .. Len(tempItems[t])
                           /\ 1 .. Len(tempItems[t]) \subseteq Jobs
    BY <1>1, TempTyped, TakenFit DEF IInv
  <2>5. /\ freed[j] = 0 => \A k \in 1 .. freed[j] : FALSE
        /\ freed[j] = 1 => \A k : k \in 1 .. freed[j] <=> k = 1
    OBVIOUS
  <2>6. /\ Reserving(j) <=> \E t \in Threads : item[t] # None /\ item[t].job = j
        /\ Queued(j) <=> \E x \in items : x.job = j
        /\ Taken(j) <=> \E t \in Threads : \E i \in Jobs :
                          i \in DOMAIN tempItems[t] /\ tempItems[t][i].job = j
    BY <2>4 DEF Reserving, Queued, Taken
  <2>7. ASSUME NEW t \in Threads, item[t] # None, item[t].job = j
        PROVE  OnlyHome(j, <<"reserving", t>>)
    <3>1. \A u \in Threads : item[u] # None /\ item[u].job = j => u = t
      BY <2>3, <2>7 DEF HeldOnce
    <3>2. ~Queued(j) /\ ~Taken(j) /\ freed[j] = 0
      BY <2>2, <2>6, <2>7
    <3>3. /\ \A y \in items : y.job # j
          /\ \A u \in Threads, k \in Jobs : ~(k \in DOMAIN tempItems[u] /\ tempItems[u][k].job = j)
          /\ \A k \in 1 .. freed[j] : FALSE
      BY <2>5, <2>6, <3>2
    <3>4. ASSUME NEW h PROVE h \in Homes(j) <=> h = <<"reserving", t>>
      <4>1. h \in Homes(j) <=>
              \/ \E u \in Threads : item[u] # None /\ item[u].job = j /\ h = <<"reserving", u>>
              \/ \E y \in items : y.job = j /\ h = <<"queued", y>>
              \/ \E u \in Threads : \E k \in Jobs :
                   /\ k \in DOMAIN tempItems[u] /\ tempItems[u][k].job = j
                   /\ h = <<"taken", <<u, k>>>>
              \/ \E k \in 1 .. freed[j] : h = <<"pool", k>>
        BY HomesMember
      <4>. QED
        BY <2>5, <2>7, <3>1, <3>3, <4>1, Zenon
    <3>. QED
      BY <3>4 DEF OnlyHome
  <2>8. ASSUME NEW x \in items, x.job = j
        PROVE  OnlyHome(j, <<"queued", x>>)
    <3>1. \A y \in items : y.job = j => y = x
      BY <2>3, <2>8 DEF HeldOnce
    <3>2. ~Reserving(j) /\ ~Taken(j) /\ freed[j] = 0
      BY <2>2, <2>6, <2>8
    <3>3. /\ \A u \in Threads : ~(item[u] # None /\ item[u].job = j)
          /\ \A u \in Threads, k \in Jobs : ~(k \in DOMAIN tempItems[u] /\ tempItems[u][k].job = j)
          /\ \A k \in 1 .. freed[j] : FALSE
      BY <2>5, <2>6, <3>2
    <3>4. ASSUME NEW h PROVE h \in Homes(j) <=> h = <<"queued", x>>
      <4>1. h \in Homes(j) <=>
              \/ \E u \in Threads : item[u] # None /\ item[u].job = j /\ h = <<"reserving", u>>
              \/ \E y \in items : y.job = j /\ h = <<"queued", y>>
              \/ \E u \in Threads : \E k \in Jobs :
                   /\ k \in DOMAIN tempItems[u] /\ tempItems[u][k].job = j
                   /\ h = <<"taken", <<u, k>>>>
              \/ \E k \in 1 .. freed[j] : h = <<"pool", k>>
        BY HomesMember
      <4>. QED
        BY <2>5, <2>8, <3>1, <3>3, <4>1, Zenon
    <3>. QED
      BY <3>4 DEF OnlyHome
  <2>9. ASSUME NEW t \in Threads, NEW i \in Jobs, i \in DOMAIN tempItems[t],
               tempItems[t][i].job = j
        PROVE  OnlyHome(j, <<"taken", <<t, i>>>>)
    <3>1. ASSUME NEW u \in Threads, NEW k \in Jobs, k \in DOMAIN tempItems[u],
                 tempItems[u][k].job = j
          PROVE  u = t /\ k = i
      <4>1. Len(tempItems[t]) # 0 /\ Len(tempItems[u]) # 0
        BY <2>4, <2>9, <3>1
      <4>2. u = t
        BY <1>1, <2>3, <4>1 DEF IInv, Shape, InHand, OneDistributor
      <4>. QED
        BY <2>3, <2>4, <2>9, <3>1, <4>2 DEF HeldOnce
    <3>2. ~Reserving(j) /\ ~Queued(j) /\ freed[j] = 0
      BY <2>2, <2>6, <2>9
    <3>3. /\ \A u \in Threads : ~(item[u] # None /\ item[u].job = j)
          /\ \A y \in items : y.job # j
          /\ \A k \in 1 .. freed[j] : FALSE
      BY <2>5, <2>6, <3>2
    <3>4. ASSUME NEW h PROVE h \in Homes(j) <=> h = <<"taken", <<t, i>>>>
      <4>1. h \in Homes(j) <=>
              \/ \E u \in Threads : item[u] # None /\ item[u].job = j /\ h = <<"reserving", u>>
              \/ \E y \in items : y.job = j /\ h = <<"queued", y>>
              \/ \E u \in Threads : \E k \in Jobs :
                   /\ k \in DOMAIN tempItems[u] /\ tempItems[u][k].job = j
                   /\ h = <<"taken", <<u, k>>>>
              \/ \E k \in 1 .. freed[j] : h = <<"pool", k>>
        BY HomesMember
      <4>. QED
        BY <2>5, <2>9, <3>1, <3>3, <4>1, Zenon
    <3>. QED
      BY <3>4 DEF OnlyHome
  <2>10. ASSUME freed[j] = 1
         PROVE  OnlyHome(j, <<"pool", 1>>)
    <3>1. ~Reserving(j) /\ ~Queued(j) /\ ~Taken(j)
      BY <2>2, <2>10
    <3>3. /\ \A u \in Threads : ~(item[u] # None /\ item[u].job = j)
          /\ \A y \in items : y.job # j
          /\ \A u \in Threads, k \in Jobs : ~(k \in DOMAIN tempItems[u] /\ tempItems[u][k].job = j)
      BY <2>5, <2>6, <3>1
    <3>4. ASSUME NEW h PROVE h \in Homes(j) <=> h = <<"pool", 1>>
      <4>1. h \in Homes(j) <=>
              \/ \E u \in Threads : item[u] # None /\ item[u].job = j /\ h = <<"reserving", u>>
              \/ \E y \in items : y.job = j /\ h = <<"queued", y>>
              \/ \E u \in Threads : \E k \in Jobs :
                   /\ k \in DOMAIN tempItems[u] /\ tempItems[u][k].job = j
                   /\ h = <<"taken", <<u, k>>>>
              \/ \E k \in 1 .. freed[j] : h = <<"pool", k>>
        BY HomesMember
      <4>. QED
        BY <2>5, <2>10, <3>3, <4>1, Zenon
    <3>. QED
      BY <3>4 DEF OnlyHome
  <2>. QED
    BY <2>2, <2>6, <2>7, <2>8, <2>9, <2>10, Zenon
<1>2. ASSUME IInv, NEW j \in 1 .. reserved PROVE Cardinality(Homes(j)) = 1
  <2>1. PICK h : OnlyHome(j, h)
    BY <1>1, <1>2
  <2>2. Homes(j) = {h}
    BY <2>1 DEF OnlyHome
  <2>. QED
    BY <2>2, FS_Singleton
<1>3. IInv => JobDataHasOneHome
  BY <1>2 DEF JobDataHasOneHome
<1>. QED
  BY <1>3, InvariantHolds, PTL

=============================================================================
