--------------------------- MODULE JobQueueProofs ---------------------------
(***************************************************************************)
(* Proofs about JobQueue, for any number of threads, queues and jobs and   *)
(* any jobs posted from the bodies of jobs.                                *)
(***************************************************************************)
EXTENDS JobQueue, FiniteSetTheorems, SequenceTheorems, TLAPS

-----------------------------------------------------------------------------
(* Where threads are, and what each has in hand there.                      *)

\* Only a thread inside Execute, or in a Push its job makes, has a current
\* queue; it has a batch from PopAll until it lowers jobCount.
InHand ==
    \A t \in Threads :
        /\ pc[t] \in {"idle", "clear", "work", "global_pop"} => cur[t] = None
        /\ pc[t] \in {"exec_popall", "exec_time"} \/ cur[t] = None =>
              taken[t] = << >> /\ ran[t] = 0 /\ todo[t] = << >>
        /\ ran[t] <= Len(taken[t])

Shape == TypeOK /\ InHand

LEMMA InitShape == Init => Shape
<1>. SUFFICES ASSUME Init PROVE Shape
  OBVIOUS
<1>. USE JobConstants DEF Init
<1>1. TypeOK
  <2>1. jobs \in [Queues -> Seq(Jobs)] /\ global \in Seq(Queues) /\ jobCount \in [Queues -> Nat]
    OBVIOUS
  <2>2. taken \in [Threads -> Seq(Jobs)] /\ todo \in [Threads -> Seq(Jobs)]
    OBVIOUS
  <2>. QED
    BY <2>1, <2>2 DEF TypeOK, PCs
<1>2. InHand
  BY DEF InHand
<1>. QED
  BY <1>1, <1>2 DEF Shape

LEMMA EnterScopeShape ==
  ASSUME Shape, NEW t \in Threads, EnterScope(t) PROVE Shape'
<1>. USE DEF Shape
<1>1. UNCHANGED <<shared, clocks, cur, pc, locals, hist>>
  BY DEF EnterScope
<1>2. Container(t) \in {None, Global} \cup {JobsOf(q) : q \in Queues}
  BY DEF EnterScope, InLockQueue, Container, TypeOK
<1>3. inScope' \in [Threads -> {None, Global} \cup {JobsOf(q) : q \in Queues}]
  BY <1>2 DEF EnterScope, TypeOK
<1>4. raced' \in BOOLEAN
  BY DEF EnterScope
<1>5. TypeOK'
  BY <1>1, <1>3, <1>4 DEF TypeOK, shared, clocks, locals, hist
<1>6. InHand'
  BY <1>1 DEF InHand, shared, clocks, locals, hist
<1>. QED
  BY <1>5, <1>6

\* The type of inScope after a scope is left.
LEMMA LeaveScopeType ==
  ASSUME Shape, NEW t \in Threads, LeaveScope(t)
  PROVE  /\ inScope' \in [Threads -> {None, Global} \cup {JobsOf(q) : q \in Queues}]
         /\ raced' \in BOOLEAN
BY DEF LeaveScope, Shape, TypeOK

LEMMA PushCallShape ==
  ASSUME Shape, NEW t \in Threads, NEW j \in Jobs, NEW only \in BOOLEAN, PushCall(t, j, only),
         pc[t] \in {"idle", "exec_run"}, todo' \in [Threads -> Seq(Jobs)],
         \A u \in Threads : u # t => todo'[u] = todo[u],
         pc[t] = "exec_run" \/ todo'[t] = todo[t]
  PROVE  Shape'
<1>. USE DEF Shape
<1>1. Owner[j] \in Queues
  BY JobConstants
<1>2. jobCount' \in [Queues -> Nat]
  BY <1>1 DEF PushCall, TypeOK
<1>3. won' \in [Threads -> BOOLEAN] /\ pushOnly' \in [Threads -> BOOLEAN]
  BY DEF PushCall, TypeOK
<1>4. /\ item' \in [Threads -> Jobs \cup {None}] /\ to' \in [Threads -> Queues \cup {None}]
      /\ pc' \in [Threads -> PCs] /\ posted' \subseteq Jobs
  BY <1>1 DEF PushCall, TypeOK, Goto, PCs
<1>5. UNCHANGED <<jobs, global, clocks, cur, inScope, taken, ran, working, raced, cleared>>
  BY DEF PushCall
<1>6. \A u \in Threads : u # t => pc'[u] = pc[u] /\ item'[u] = item[u] /\ to'[u] = to[u]
  BY DEF PushCall, TypeOK, Goto
<1>7. pc'[t] = "push" /\ item'[t] = j /\ to'[t] = Owner[j]
  BY DEF PushCall, TypeOK, Goto
<1>8. TypeOK'
  BY <1>1, <1>2, <1>3, <1>4, <1>5, <1>6, <1>7 DEF TypeOK, clocks
<1>9. InHand'
  <2>1. pc[t] = "exec_run" => cur[t] # None
    BY JobConstants DEF TypeOK
  <2>. QED
    BY <1>5, <1>6, <1>7, <2>1 DEF InHand
<1>. QED
  BY <1>8, <1>9

LEMMA DoAsyncShape ==
  ASSUME Shape, NEW t \in Threads, NEW j \in Jobs, DoAsync(t, j) \/ DistributePush(t, j)
  PROVE  Shape'
<1>1. PICK only \in BOOLEAN : PushCall(t, j, only)
  BY DEF DoAsync, DistributePush
<1>2. pc[t] = "idle" /\ todo' = todo
  BY DEF DoAsync, DistributePush
<1>3. todo' \in [Threads -> Seq(Jobs)]
  BY <1>2 DEF Shape, TypeOK
<1>. QED
  BY <1>1, <1>2, <1>3, PushCallShape

LEMMA BodyDoAsyncShape ==
  ASSUME Shape, NEW t \in Threads, BodyDoAsync(t)
  PROVE  Shape'
<1>1. pc[t] = "exec_run" /\ todo[t] # << >> /\ todo[t] \in Seq(Jobs)
  BY DEF BodyDoAsync, Shape, TypeOK
<1>2. Head(todo[t]) \in Jobs /\ Tail(todo[t]) \in Seq(Jobs)
  BY <1>1, HeadTailProperties
<1>3. todo' \in [Threads -> Seq(Jobs)] /\ \A u \in Threads : u # t => todo'[u] = todo[u]
  BY <1>2 DEF BodyDoAsync, Shape, TypeOK
<1>4. PushCall(t, Head(todo[t]), FALSE)
  BY DEF BodyDoAsync
<1>. QED
  BY <1>1, <1>2, <1>3, <1>4, PushCallShape, Zenon

LEMMA PushShape ==
  ASSUME Shape, NEW t \in Threads, Push(t)
  PROVE  Shape'
<1>. USE DEF Shape
<1>1. to[t] \in Queues /\ item[t] \in Jobs /\ pc[t] = "push"
  BY DEF Push, TypeOK
<1>2. /\ jobs' = [jobs EXCEPT ![to[t]] = Append(@, item[t])]
      /\ UNCHANGED <<jobCount, global, clocks, taken, ran, todo, working, hist>>
      /\ LeaveScope(t) /\ ForgetPush(t)
  BY DEF Push
<1>3. jobs' \in [Queues -> Seq(Jobs)]
  BY <1>1, <1>2 DEF TypeOK
<1>4. /\ item' \in [Threads -> Jobs \cup {None}]
      /\ won' \in [Threads -> BOOLEAN] /\ pushOnly' \in [Threads -> BOOLEAN]
  BY <1>2 DEF ForgetPush, TypeOK
<1>5. \A u \in Threads : u # t => item'[u] = item[u]
  BY <1>2 DEF ForgetPush, TypeOK
<1>6. \/ /\ cur[t] = None /\ cur' = [cur EXCEPT ![t] = to[t]]
         /\ to' = [to EXCEPT ![t] = None] /\ pc' = [pc EXCEPT ![t] = "exec_popall"]
      \/ /\ cur' = cur /\ to' = to /\ pc' = [pc EXCEPT ![t] = "global_push"]
      \/ /\ cur' = cur /\ to' = [to EXCEPT ![t] = None]
         /\ pc' = [pc EXCEPT ![t] = ReturnTo(t)]
  BY DEF Push, Goto
<1>7. ReturnTo(t) \in {"exec_run", "work", "idle"} /\ (cur'[t] = None <=> ReturnTo(t) # "exec_run")
  BY DEF ReturnTo
<1>8. /\ cur' \in [Threads -> Queues \cup {None}] /\ to' \in [Threads -> Queues \cup {None}]
      /\ pc' \in [Threads -> PCs]
  <2>1. CASE cur' = [cur EXCEPT ![t] = to[t]] /\ to' = [to EXCEPT ![t] = None]
             /\ pc' = [pc EXCEPT ![t] = "exec_popall"]
    BY <1>1, <2>1 DEF TypeOK, PCs
  <2>2. CASE cur' = cur /\ to' = to /\ pc' = [pc EXCEPT ![t] = "global_push"]
    BY <2>2 DEF TypeOK, PCs
  <2>3. CASE cur' = cur /\ to' = [to EXCEPT ![t] = None]
             /\ pc' = [pc EXCEPT ![t] = ReturnTo(t)]
    BY <1>7, <2>3 DEF TypeOK, PCs
  <2>. QED
    BY <1>6, <2>1, <2>2, <2>3
<1>9. \A u \in Threads : u # t => cur'[u] = cur[u] /\ to'[u] = to[u] /\ pc'[u] = pc[u]
  BY <1>6 DEF TypeOK
<1>10. \/ pc'[t] = "exec_popall" /\ cur'[t] \in Queues /\ cur[t] = None
       \/ pc'[t] = "global_push" /\ to'[t] \in Queues /\ cur'[t] = cur[t]
       \/ pc'[t] = "exec_run" /\ cur'[t] \in Queues /\ cur'[t] = cur[t]
       \/ pc'[t] \in {"work", "idle"} /\ cur'[t] = None /\ cur[t] = None
  BY <1>1, <1>6, <1>7, JobConstants DEF TypeOK
<1>11. TypeOK'
  BY <1>2, <1>3, <1>4, <1>5, <1>8, <1>9, <1>10, LeaveScopeType DEF TypeOK, clocks, hist
<1>12. InHand'
  BY <1>1, <1>2, <1>9, <1>10 DEF InHand
<1>. QED
  BY <1>11, <1>12

LEMMA GlobalPushShape ==
  ASSUME Shape, NEW t \in Threads, GlobalPush(t)
  PROVE  Shape'
<1>. USE DEF Shape
<1>1. to[t] \in Queues /\ pc[t] = "global_push"
  BY DEF GlobalPush, TypeOK
<1>2. /\ global' = Append(global, to[t]) /\ to' = [to EXCEPT ![t] = None]
      /\ pc' = [pc EXCEPT ![t] = ReturnTo(t)] /\ LeaveScope(t)
      /\ UNCHANGED <<cur, jobs, jobCount, clocks, item, won, pushOnly, taken, ran, todo, working,
                     hist>>
  BY DEF GlobalPush, Goto
<1>3. ReturnTo(t) \in {"exec_run", "work", "idle"} /\ (cur[t] = None <=> ReturnTo(t) # "exec_run")
  BY <1>2 DEF ReturnTo
<1>4. /\ global' \in Seq(Queues) /\ to' \in [Threads -> Queues \cup {None}]
      /\ pc' \in [Threads -> PCs]
  BY <1>1, <1>2, <1>3 DEF TypeOK, PCs
<1>5. /\ pc'[t] = ReturnTo(t)
      /\ \A u \in Threads : u # t => to'[u] = to[u] /\ pc'[u] = pc[u]
  BY <1>2 DEF TypeOK
<1>6. pc'[t] = "exec_run" => cur[t] \in Queues
  BY <1>3, <1>5 DEF TypeOK
<1>7. TypeOK'
  BY <1>2, <1>3, <1>4, <1>5, <1>6, LeaveScopeType DEF TypeOK, clocks, hist
<1>8. InHand'
  BY <1>1, <1>2, <1>3, <1>5 DEF InHand
<1>. QED
  BY <1>7, <1>8

LEMMA ExecutePopAllShape ==
  ASSUME Shape, NEW t \in Threads, ExecutePopAll(t)
  PROVE  Shape'
<1>. USE DEF Shape
<1>1. cur[t] \in Queues /\ pc[t] = "exec_popall" /\ jobs[cur[t]] \in Seq(Jobs)
  BY DEF ExecutePopAll, TypeOK
<1>2. /\ taken' = [taken EXCEPT ![t] = jobs[cur[t]]] /\ jobs' = [jobs EXCEPT ![cur[t]] = << >>]
      /\ ran' = [ran EXCEPT ![t] = 0] /\ pc' = [pc EXCEPT ![t] = "exec_run"] /\ LeaveScope(t)
      /\ UNCHANGED <<jobCount, global, clocks, cur, item, to, won, pushOnly, todo, working, hist>>
  BY DEF ExecutePopAll, Goto
<1>3. << >> \in Seq(Jobs)
  OBVIOUS
<1>4. /\ taken' \in [Threads -> Seq(Jobs)] /\ jobs' \in [Queues -> Seq(Jobs)]
      /\ ran' \in [Threads -> Nat] /\ pc' \in [Threads -> PCs]
  BY <1>1, <1>2, <1>3 DEF TypeOK, PCs
<1>5. /\ pc'[t] = "exec_run" /\ ran'[t] = 0 /\ taken'[t] = jobs[cur[t]]
      /\ \A u \in Threads : u # t => pc'[u] = pc[u] /\ ran'[u] = ran[u] /\ taken'[u] = taken[u]
  BY <1>2 DEF TypeOK
<1>6. TypeOK'
  BY <1>1, <1>2, <1>4, <1>5, LeaveScopeType DEF TypeOK, clocks, hist
<1>7. ran'[t] <= Len(taken'[t])
  BY <1>1, <1>5
<1>8. InHand'
  BY <1>1, <1>2, <1>5, <1>7, JobConstants DEF InHand
<1>. QED
  BY <1>6, <1>8

LEMMA ExecuteJobShape ==
  ASSUME Shape, NEW t \in Threads, ExecuteJob(t)
  PROVE  /\ Shape'
         /\ taken[t][ran[t] + 1] \in Jobs /\ ran[t] + 1 \in DOMAIN taken[t]
<1>. USE DEF Shape
<1>1. pc[t] = "exec_run" /\ ran[t] \in Nat /\ ran[t] < Len(taken[t]) /\ taken[t] \in Seq(Jobs)
  BY DEF ExecuteJob, TypeOK
<1>2. taken[t][ran[t] + 1] \in Jobs /\ ran[t] + 1 \in DOMAIN taken[t]
  BY <1>1
<1>3. Spawns[taken[t][ran[t] + 1]] \in Seq(Jobs)
  BY <1>2, JobConstants
<1>4. /\ todo' = [todo EXCEPT ![t] = Spawns[taken[t][ran[t] + 1]]]
      /\ ran' = [ran EXCEPT ![t] = @ + 1]
      /\ UNCHANGED <<shared, clocks, cur, pc, inScope, item, to, won, pushOnly, taken,
                     working, raced, hist>>
  BY DEF ExecuteJob
<1>5. todo' \in [Threads -> Seq(Jobs)] /\ ran' \in [Threads -> Nat]
  BY <1>1, <1>3, <1>4 DEF TypeOK
<1>6. /\ ran'[t] = ran[t] + 1
      /\ \A u \in Threads : u # t => ran'[u] = ran[u] /\ todo'[u] = todo[u]
  BY <1>4 DEF TypeOK
<1>7. TypeOK'
  BY <1>4, <1>5 DEF TypeOK, shared, clocks, hist
<1>8. ran'[t] <= Len(taken[t])
  BY <1>1, <1>6
<1>9. cur[t] \in Queues
  BY <1>1 DEF TypeOK
<1>10. InHand'
  BY <1>1, <1>4, <1>6, <1>8, <1>9, JobConstants DEF InHand
<1>. QED
  BY <1>2, <1>7, <1>10

\* jobCount covers the batch (CountInv below).
LEMMA ExecuteSubShape ==
  ASSUME Shape, NEW t \in Threads, ExecuteSub(t), Len(taken[t]) <= jobCount[cur[t]]
  PROVE  Shape'
<1>. USE DEF Shape
<1>1. /\ cur[t] \in Queues /\ pc[t] = "exec_run" /\ todo[t] = << >>
      /\ jobCount[cur[t]] \in Nat /\ Len(taken[t]) \in Nat
  BY DEF ExecuteSub, TypeOK
<1>2. /\ jobCount' = [jobCount EXCEPT ![cur[t]] = @ - Len(taken[t])]
      /\ taken' = [taken EXCEPT ![t] = << >>] /\ ran' = [ran EXCEPT ![t] = 0]
      /\ UNCHANGED <<jobs, global, clocks, inScope, item, to, won, pushOnly, todo,
                     working, raced, hist>>
  BY DEF ExecuteSub
<1>3. \/ cur' = [cur EXCEPT ![t] = None] /\ pc' = [pc EXCEPT ![t] = ReturnTo(t)]
      \/ cur' = cur /\ pc' = [pc EXCEPT ![t] = "exec_time"]
  BY DEF ExecuteSub, Goto
<1>4. cur'[t] = None => ReturnTo(t) \in {"work", "idle"}
  BY DEF ReturnTo
<1>5. jobCount[cur[t]] - Len(taken[t]) \in Nat
  BY <1>1
<1>6. << >> \in Seq(Jobs)
  OBVIOUS
<1>7. /\ jobCount' \in [Queues -> Nat] /\ taken' \in [Threads -> Seq(Jobs)]
      /\ ran' \in [Threads -> Nat]
  BY <1>2, <1>5, <1>6 DEF TypeOK
<1>8. /\ taken'[t] = << >> /\ ran'[t] = 0
      /\ \A u \in Threads : u # t => taken'[u] = taken[u] /\ ran'[u] = ran[u]
  BY <1>2 DEF TypeOK
<1>9. \/ cur'[t] = None /\ pc'[t] \in {"work", "idle"}
      \/ cur'[t] = cur[t] /\ pc'[t] = "exec_time"
  BY <1>3, <1>4 DEF TypeOK
<1>10. \A u \in Threads : u # t => cur'[u] = cur[u] /\ pc'[u] = pc[u]
  BY <1>3 DEF TypeOK
<1>11. cur' \in [Threads -> Queues \cup {None}] /\ pc' \in [Threads -> PCs]
  <2>1. CASE cur' = [cur EXCEPT ![t] = None] /\ pc' = [pc EXCEPT ![t] = ReturnTo(t)]
    <3>1. ReturnTo(t) \in PCs
      BY <1>4, <2>1 DEF TypeOK, PCs
    <3>. QED
      BY <2>1, <3>1 DEF TypeOK
  <2>2. CASE cur' = cur /\ pc' = [pc EXCEPT ![t] = "exec_time"]
    BY <2>2 DEF TypeOK, PCs
  <2>. QED
    BY <1>3, <2>1, <2>2
<1>12. TypeOK'
  BY <1>1, <1>2, <1>7, <1>9, <1>10, <1>11 DEF TypeOK, clocks, hist
<1>13. InHand'
  BY <1>1, <1>2, <1>8, <1>9, <1>10 DEF InHand
<1>. QED
  BY <1>12, <1>13

LEMMA ExecuteTimeShape ==
  ASSUME Shape, NEW t \in Threads, ExecuteTime(t)
  PROVE  Shape'
<1>. USE DEF Shape
<1>1. cur[t] \in Queues /\ pc[t] = "exec_time"
  BY DEF ExecuteTime, TypeOK
<1>2. UNCHANGED <<shared, clocks, inScope, item, won, pushOnly, taken, ran, todo,
                  working, raced, hist>>
  BY DEF ExecuteTime
<1>3. \/ /\ to' = [to EXCEPT ![t] = cur[t]] /\ cur' = [cur EXCEPT ![t] = None]
         /\ pc' = [pc EXCEPT ![t] = "global_push"]
      \/ to' = to /\ cur' = cur /\ pc' = [pc EXCEPT ![t] = "exec_popall"]
  BY DEF ExecuteTime, Goto
<1>4. TypeOK'
  <2>1. /\ cur' \in [Threads -> Queues \cup {None}] /\ to' \in [Threads -> Queues \cup {None}]
        /\ pc' \in [Threads -> PCs]
    <3>1. CASE to' = [to EXCEPT ![t] = cur[t]] /\ cur' = [cur EXCEPT ![t] = None]
               /\ pc' = [pc EXCEPT ![t] = "global_push"]
      BY <1>1, <3>1 DEF TypeOK, PCs
    <3>2. CASE to' = to /\ cur' = cur /\ pc' = [pc EXCEPT ![t] = "exec_popall"]
      BY <3>2 DEF TypeOK, PCs
    <3>. QED
      BY <1>3, <3>1, <3>2
  <2>2. \/ pc'[t] = "global_push" /\ to'[t] \in Queues
        \/ pc'[t] = "exec_popall" /\ cur'[t] \in Queues
    BY <1>1, <1>3 DEF TypeOK
  <2>3. \A u \in Threads : u # t => cur'[u] = cur[u] /\ to'[u] = to[u] /\ pc'[u] = pc[u]
    BY <1>3 DEF TypeOK
  <2>. QED
    BY <1>2, <2>1, <2>2, <2>3 DEF TypeOK, shared, clocks, hist
<1>5. InHand'
  <2>1. \A u \in Threads : u # t => cur'[u] = cur[u] /\ pc'[u] = pc[u]
    BY <1>3 DEF TypeOK
  <2>2. pc'[t] \in {"global_push", "exec_popall"}
    BY <1>3 DEF TypeOK
  <2>. QED
    BY <1>1, <1>2, <2>1, <2>2 DEF InHand
<1>. QED
  BY <1>4, <1>5

LEMMA ClearCallShape ==
  ASSUME Shape, NEW t \in Threads, NEW q \in Queues, ClearCall(t, q)
  PROVE  Shape'
<1>1. TypeOK'
  BY DEF ClearCall, Goto, Shape, TypeOK, PCs, shared, clocks, hist
<1>2. InHand'
  BY DEF ClearCall, Goto, Shape, TypeOK, InHand
<1>. QED
  BY <1>1, <1>2 DEF Shape

LEMMA ClearJobShape ==
  ASSUME Shape, NEW t \in Threads, ClearJob(t)
  PROVE  Shape'
<1>. USE DEF Shape
<1>1. to[t] \in Queues /\ pc[t] = "clear" /\ jobs[to[t]] \in Seq(Jobs)
  BY DEF ClearJob, TypeOK
<1>2. /\ jobs' = [jobs EXCEPT ![to[t]] = << >>]
      /\ cleared' = cleared \cup {jobs[to[t]][i] : i \in DOMAIN jobs[to[t]]}
      /\ to' = [to EXCEPT ![t] = None] /\ pc' = [pc EXCEPT ![t] = "idle"] /\ LeaveScope(t)
      /\ UNCHANGED <<jobCount, global, clocks, cur, item, won, pushOnly, taken, ran, todo,
                     working, posted>>
  BY DEF ClearJob, Goto
<1>3. << >> \in Seq(Jobs)
  OBVIOUS
<1>4. cleared' \subseteq Jobs
  BY <1>1, <1>2 DEF TypeOK
<1>5. /\ jobs' \in [Queues -> Seq(Jobs)] /\ to' \in [Threads -> Queues \cup {None}]
      /\ pc' \in [Threads -> PCs]
  BY <1>2, <1>3 DEF TypeOK, PCs
<1>6. pc'[t] = "idle" /\ \A u \in Threads : u # t => to'[u] = to[u] /\ pc'[u] = pc[u]
  BY <1>2 DEF TypeOK
<1>7. TypeOK'
  BY <1>2, <1>4, <1>5, <1>6, LeaveScopeType DEF TypeOK, clocks
<1>8. InHand'
  BY <1>1, <1>2, <1>6 DEF InHand
<1>. QED
  BY <1>7, <1>8

LEMMA StartWorkShape ==
  ASSUME Shape, NEW t \in Threads, StartWork(t)
  PROVE  Shape'
<1>1. now + Slice \in Nat
  BY JobConstants DEF Shape, TypeOK
<1>2. TypeOK'
  BY <1>1 DEF StartWork, Goto, Shape, TypeOK, PCs, shared, hist
<1>3. InHand'
  BY DEF StartWork, Goto, Shape, TypeOK, InHand
<1>. QED
  BY <1>2, <1>3 DEF Shape

LEMMA WorkTimeShape ==
  ASSUME Shape, NEW t \in Threads, WorkTime(t)
  PROVE  Shape'
<1>1. TypeOK'
  BY DEF WorkTime, Goto, Shape, TypeOK, PCs, shared, clocks, hist
<1>2. InHand'
  BY DEF WorkTime, Goto, Shape, TypeOK, InHand
<1>. QED
  BY <1>1, <1>2 DEF Shape

LEMMA GlobalPopShape ==
  ASSUME Shape, NEW t \in Threads, GlobalPop(t)
  PROVE  Shape'
<1>. USE DEF Shape
<1>1. /\ pc[t] = "global_pop" /\ LeaveScope(t)
      /\ UNCHANGED <<jobs, jobCount, clocks, item, to, won, pushOnly, taken, ran, todo, hist>>
  BY DEF GlobalPop
<1>2. CASE global = << >>
  <2>1. /\ working' = [working EXCEPT ![t] = FALSE] /\ pc' = [pc EXCEPT ![t] = "idle"]
        /\ UNCHANGED <<global, cur>>
    BY <1>2 DEF GlobalPop, Goto
  <2>2. TypeOK'
    BY <1>1, <2>1, LeaveScopeType DEF TypeOK, PCs, clocks, hist
  <2>3. InHand'
    BY <1>1, <2>1 DEF TypeOK, InHand
  <2>. QED
    BY <2>2, <2>3
<1>3. CASE global # << >>
  <2>1. /\ cur' = [cur EXCEPT ![t] = Head(global)] /\ global' = Tail(global)
        /\ pc' = [pc EXCEPT ![t] = "exec_popall"] /\ working' = working
    BY <1>3 DEF GlobalPop, Goto
  <2>2. Head(global) \in Queues /\ global' \in Seq(Queues)
    BY <1>3, <2>1 DEF TypeOK
  <2>3. /\ cur' \in [Threads -> Queues \cup {None}] /\ pc' \in [Threads -> PCs]
        /\ cur'[t] \in Queues /\ pc'[t] = "exec_popall"
        /\ \A u \in Threads : u # t => cur'[u] = cur[u] /\ pc'[u] = pc[u]
    BY <2>1, <2>2 DEF TypeOK, PCs
  <2>4. TypeOK'
    BY <1>1, <2>1, <2>2, <2>3, LeaveScopeType DEF TypeOK, clocks, hist
  <2>5. InHand'
    BY <1>1, <2>3 DEF InHand
  <2>. QED
    BY <2>4, <2>5
<1>. QED
  BY <1>2, <1>3

LEMMA TickShape == ASSUME Shape, Tick PROVE Shape'
BY DEF Tick, Shape, TypeOK, InHand, shared, locals, hist

-----------------------------------------------------------------------------
(* Every job posted is in one place.                                        *)

Pushing == {t \in Threads : pc[t] = "push"}

\* A job that waits in its queue waits there once.
QueuedOnce ==
    \A q \in Queues : \A i \in 1 .. Len(jobs[q]) :
        /\ jobs[q][i] \in posted \ cleared
        /\ Owner[jobs[q][i]] = q
        /\ \A k \in 1 .. Len(jobs[q]) : jobs[q][i] = jobs[q][k] => i = k

\* A job in a batch is in one batch of its queue, once, and waits nowhere.
TakenOnce ==
    \A t \in Threads : \A i \in 1 .. Len(taken[t]) :
        /\ taken[t][i] \in posted \ cleared
        /\ Owner[taken[t][i]] = cur[t]
        /\ \A q \in Queues : \A k \in 1 .. Len(jobs[q]) : jobs[q][k] # taken[t][i]
        /\ \A u \in Threads : \A k \in 1 .. Len(taken[u]) :
              taken[t][i] = taken[u][k] => t = u /\ i = k

\* A job on its way into its queue is pushed by one thread and is nowhere else.
PushedOnce ==
    \A t \in Pushing :
        /\ item[t] \in posted \ cleared
        /\ Owner[item[t]] = to[t]
        /\ \A u \in Pushing : item[t] = item[u] => t = u
        /\ \A q \in Queues : \A k \in 1 .. Len(jobs[q]) : jobs[q][k] # item[t]
        /\ \A u \in Threads : \A k \in 1 .. Len(taken[u]) : taken[u][k] # item[t]

OnePlace == QueuedOnce /\ TakenOnce /\ PushedOnce /\ cleared \subseteq posted

LEMMA InitOnePlace == Init => OnePlace
BY DEF Init, OnePlace, QueuedOnce, TakenOnce, PushedOnce, Pushing

\* A step that moves no job.
LEMMA FrameOnePlace ==
  ASSUME OnePlace, UNCHANGED <<jobs, taken, item, posted, cleared>>,
         Pushing' = Pushing,
         \A t \in Threads : /\ pc[t] = "push" => to'[t] = to[t]
                            /\ Len(taken[t]) = 0 \/ cur'[t] = cur[t]
  PROVE  OnePlace'
<1>. USE DEF OnePlace
<1>1. QueuedOnce'
  BY DEF QueuedOnce
<1>2. TakenOnce'
  BY DEF TakenOnce
<1>3. PushedOnce'
  <2>1. \A t \in Pushing : to'[t] = to[t]
    BY DEF Pushing
  <2>. QED
    BY <2>1 DEF PushedOnce
<1>. QED
  BY <1>1, <1>2, <1>3

\* A new job is in the hand of the thread that posts it.
LEMMA PushCallOnePlace ==
  ASSUME Shape, OnePlace, NEW t \in Threads, NEW j \in Jobs, j \notin posted, NEW only,
         PushCall(t, j, only), pc[t] # "push"
  PROVE  OnePlace'
<1>. USE DEF OnePlace
<1>1. /\ UNCHANGED <<jobs, taken, cleared, cur>> /\ posted' = posted \cup {j}
      /\ item'[t] = j /\ to'[t] = Owner[j]
      /\ \A u \in Threads : u # t => item'[u] = item[u] /\ to'[u] = to[u]
  BY DEF PushCall, Shape, TypeOK
<1>2. Pushing' = Pushing \cup {t} /\ t \notin Pushing
  BY DEF PushCall, Goto, Pushing, Shape, TypeOK
<1>3. j \notin cleared
  OBVIOUS
<1>4. QueuedOnce'
  BY <1>1 DEF QueuedOnce
<1>5. TakenOnce'
  BY <1>1 DEF TakenOnce
<1>6. PushedOnce'
  <2>1. ASSUME NEW u \in Pushing
        PROVE  /\ u # t /\ u \in Threads
               /\ item'[u] = item[u] /\ to'[u] = to[u] /\ item[u] # j
               /\ item[u] \in posted \ cleared
    BY <1>1, <1>2 DEF PushedOnce, Pushing
  <2>2. \A q \in Queues : \A k \in 1 .. Len(jobs[q]) : jobs[q][k] # j
    BY DEF QueuedOnce
  <2>3. \A u \in Threads : \A k \in 1 .. Len(taken[u]) : taken[u][k] # j
    BY DEF TakenOnce
  <2>4. ASSUME NEW u \in Pushing'
        PROVE  /\ item'[u] \in posted' \ cleared'
               /\ Owner[item'[u]] = to'[u]
               /\ \A v \in Pushing' : item'[u] = item'[v] => u = v
               /\ \A q \in Queues : \A k \in 1 .. Len(jobs'[q]) : jobs'[q][k] # item'[u]
               /\ \A v \in Threads : \A k \in 1 .. Len(taken'[v]) : taken'[v][k] # item'[u]
    <3>1. CASE u = t
      BY <1>1, <1>2, <1>3, <2>1, <2>2, <2>3, <3>1
    <3>2. CASE u # t
      <4>1. u \in Pushing
        BY <1>2, <3>2
      <4>2. \A v \in Pushing' : item'[u] = item'[v] => u = v
        BY <1>1, <1>2, <2>1, <4>1 DEF PushedOnce
      <4>. QED
        BY <1>1, <2>1, <4>1, <4>2 DEF PushedOnce
    <3>. QED
      BY <3>1, <3>2
  <2>. QED
    BY <2>4 DEF PushedOnce
<1>. QED
  BY <1>1, <1>4, <1>5, <1>6

\* The job goes from the hand of the thread to the end of the queue.
LEMMA PushOnePlace ==
  ASSUME Shape, OnePlace, NEW t \in Threads, Push(t)
  PROVE  OnePlace'
<1>. USE DEF OnePlace
<1>. DEFINE q == to[t]
<1>. DEFINE n == Len(jobs[q])
<1>1. q \in Queues /\ item[t] \in Jobs /\ t \in Pushing /\ jobs[q] \in Seq(Jobs) /\ n \in Nat
  BY DEF Push, Shape, TypeOK, Pushing
<1>2. /\ UNCHANGED <<taken, posted, cleared>>
      /\ \A u \in Threads : u # t => item'[u] = item[u] /\ to'[u] = to[u] /\ cur'[u] = cur[u]
  BY DEF Push, ForgetPush, Shape, TypeOK, hist
<1>3. jobs'[q] = Append(jobs[q], item[t]) /\ \A r \in Queues : r # q => jobs'[r] = jobs[r]
  BY <1>1 DEF Push, Shape, TypeOK
<1>4. /\ Len(jobs'[q]) = n + 1 /\ jobs'[q][n + 1] = item[t]
      /\ \A i \in 1 .. n : jobs'[q][i] = jobs[q][i]
  BY <1>1, <1>3
<1>5. Pushing' = Pushing \ {t}
  <2>1. pc' = [pc EXCEPT ![t] = pc'[t]] /\ pc'[t] # "push"
    BY DEF Push, Goto, ReturnTo, Shape, TypeOK
  <2>. QED
    BY <2>1 DEF Pushing, Shape, TypeOK
<1>6. Len(taken[t]) = 0 \/ cur'[t] = cur[t]
  BY DEF Push, Shape, TypeOK, InHand
<1>7. /\ item[t] \in posted \ cleared /\ Owner[item[t]] = q
      /\ \A r \in Queues : \A k \in 1 .. Len(jobs[r]) : jobs[r][k] # item[t]
      /\ \A u \in Threads : \A k \in 1 .. Len(taken[u]) : taken[u][k] # item[t]
      /\ \A u \in Pushing : item[t] = item[u] => t = u
  BY <1>1 DEF PushedOnce
<1>. HIDE DEF q, n
<1>8. \A r \in Queues : \A i \in 1 .. Len(jobs'[r]) :
         \/ i \in 1 .. Len(jobs[r]) /\ jobs'[r][i] = jobs[r][i]
         \/ r = q /\ i = n + 1 /\ jobs'[r][i] = item[t]
  <2>1. n = Len(jobs[q])
    BY DEF n
  <2>. QED
    BY <1>1, <1>3, <1>4, <2>1, SMTT(30)
<1>9. QueuedOnce'
  <2>1. ASSUME NEW r \in Queues, NEW i \in 1 .. Len(jobs'[r])
        PROVE  /\ jobs'[r][i] \in posted' \ cleared'
               /\ Owner[jobs'[r][i]] = r
               /\ \A k \in 1 .. Len(jobs'[r]) : jobs'[r][i] = jobs'[r][k] => i = k
    <3>1. CASE i \in 1 .. Len(jobs[r]) /\ jobs'[r][i] = jobs[r][i]
      BY <1>2, <1>7, <1>8, <3>1 DEF QueuedOnce
    <3>2. CASE r = q /\ i = n + 1 /\ jobs'[r][i] = item[t]
      BY <1>2, <1>7, <1>8, <3>2
    <3>. QED
      BY <1>8, <3>1, <3>2
  <2>. QED
    BY <2>1 DEF QueuedOnce
<1>10. TakenOnce'
  <2>1. \A u \in Threads : \A i \in 1 .. Len(taken[u]) : cur'[u] = cur[u]
    BY <1>2, <1>6
  <2>. QED
    BY <1>2, <1>7, <1>8, <2>1 DEF TakenOnce
<1>11. PushedOnce'
  BY <1>2, <1>5, <1>7, <1>8 DEF PushedOnce, Pushing
<1>. QED
  BY <1>2, <1>9, <1>10, <1>11

\* The whole queue becomes the batch of its runner.
LEMMA ExecutePopAllOnePlace ==
  ASSUME Shape, OnePlace, NEW t \in Threads, ExecutePopAll(t)
  PROVE  OnePlace'
<1>. USE DEF OnePlace
<1>. DEFINE q == cur[t]
<1>1. q \in Queues /\ taken[t] = << >> /\ Len(taken[t]) = 0
  BY DEF ExecutePopAll, Shape, TypeOK, InHand
<1>2. /\ UNCHANGED <<cur, item, to, posted, cleared>> /\ Pushing' = Pushing
  BY DEF ExecutePopAll, Goto, Pushing, Shape, TypeOK, hist
<1>3. /\ taken'[t] = jobs[q] /\ jobs'[q] = << >> /\ Len(jobs'[q]) = 0
      /\ \A u \in Threads : u # t => taken'[u] = taken[u]
      /\ \A r \in Queues : r # q => jobs'[r] = jobs[r]
  BY <1>1 DEF ExecutePopAll, Shape, TypeOK
<1>. HIDE DEF q
<1>4. q = cur[t]
  BY DEF q
<1>5. QueuedOnce'
  BY <1>2, <1>3 DEF QueuedOnce
<1>6. TakenOnce'
  <2>1. ASSUME NEW u \in Threads, NEW i \in 1 .. Len(taken'[u])
        PROVE  /\ taken'[u][i] \in posted' \ cleared'
               /\ Owner[taken'[u][i]] = cur'[u]
               /\ \A r \in Queues : \A k \in 1 .. Len(jobs'[r]) : jobs'[r][k] # taken'[u][i]
               /\ \A v \in Threads : \A k \in 1 .. Len(taken'[v]) :
                     taken'[u][i] = taken'[v][k] => u = v /\ i = k
    <3>1. CASE u = t
      <4>1. i \in 1 .. Len(jobs[q]) /\ taken'[u][i] = jobs[q][i]
        BY <1>3, <3>1
      <4>2. \A r \in Queues : \A k \in 1 .. Len(jobs'[r]) : jobs'[r][k] # jobs[q][i]
        BY <1>1, <1>3, <4>1 DEF QueuedOnce
      <4>3. \A v \in Threads : \A k \in 1 .. Len(taken'[v]) :
               jobs[q][i] = taken'[v][k] => t = v /\ i = k
        BY <1>1, <1>3, <4>1 DEF QueuedOnce, TakenOnce
      <4>4. jobs[q][i] \in posted \ cleared /\ Owner[jobs[q][i]] = q
        BY <1>1, <4>1 DEF QueuedOnce
      <4>. QED
        BY <1>2, <1>4, <3>1, <4>1, <4>2, <4>3, <4>4
    <3>2. CASE u # t
      <4>1. i \in 1 .. Len(taken[u]) /\ taken'[u][i] = taken[u][i]
        BY <1>3, <3>2
      <4>2. \A v \in Threads : \A k \in 1 .. Len(taken'[v]) :
               taken[u][i] = taken'[v][k] => u = v /\ i = k
        BY <1>1, <1>3, <3>2, <4>1 DEF TakenOnce
      <4>3. \A r \in Queues : \A k \in 1 .. Len(jobs'[r]) : jobs'[r][k] # taken[u][i]
        BY <1>3, <4>1 DEF TakenOnce
      <4>. QED
        BY <1>2, <4>1, <4>2, <4>3 DEF TakenOnce
    <3>. QED
      BY <3>1, <3>2
  <2>. QED
    BY <2>1 DEF TakenOnce
<1>7. PushedOnce'
  <2>1. \A r \in Queues : \A k \in 1 .. Len(jobs'[r]) :
           k \in 1 .. Len(jobs[r]) /\ jobs'[r][k] = jobs[r][k]
    BY <1>3
  <2>2. \A u \in Threads : \A k \in 1 .. Len(taken'[u]) :
           \/ k \in 1 .. Len(taken[u]) /\ taken'[u][k] = taken[u][k]
           \/ k \in 1 .. Len(jobs[q]) /\ taken'[u][k] = jobs[q][k]
    BY <1>3
  <2>. QED
    BY <1>1, <1>2, <2>1, <2>2 DEF PushedOnce
<1>. QED
  BY <1>2, <1>5, <1>6, <1>7

\* The batch is over.
LEMMA ExecuteSubOnePlace ==
  ASSUME Shape, OnePlace, NEW t \in Threads, ExecuteSub(t)
  PROVE  OnePlace'
<1>. USE DEF OnePlace
<1>1. UNCHANGED <<jobs, item, to, posted, cleared>>
  BY DEF ExecuteSub, hist
<1>2. /\ taken'[t] = << >> /\ Len(taken'[t]) = 0
      /\ \A u \in Threads : u # t => taken'[u] = taken[u] /\ cur'[u] = cur[u]
  BY DEF ExecuteSub, Shape, TypeOK
<1>3. Pushing' = Pushing
  <2>1. pc' = [pc EXCEPT ![t] = pc'[t]] /\ pc'[t] # "push" /\ pc[t] # "push"
    BY DEF ExecuteSub, Goto, ReturnTo, Shape, TypeOK
  <2>. QED
    BY <2>1 DEF Pushing, Shape, TypeOK
<1>4. QueuedOnce'
  BY <1>1 DEF QueuedOnce
<1>5. \A u \in Threads : \A i \in 1 .. Len(taken'[u]) :
         u # t /\ taken'[u] = taken[u] /\ cur'[u] = cur[u] /\ i \in 1 .. Len(taken[u])
  BY <1>2
<1>6. TakenOnce'
  BY <1>1, <1>5 DEF TakenOnce
<1>7. PushedOnce'
  BY <1>1, <1>3, <1>5 DEF PushedOnce
<1>. QED
  BY <1>1, <1>4, <1>6, <1>7

\* The jobs of one queue are dropped.
LEMMA ClearJobOnePlace ==
  ASSUME Shape, OnePlace, NEW t \in Threads, ClearJob(t)
  PROVE  OnePlace'
<1>. USE DEF OnePlace
<1>. DEFINE q == to[t]
<1>1. q \in Queues /\ jobs[q] \in Seq(Jobs) /\ DOMAIN jobs[q] = 1 .. Len(jobs[q])
  BY DEF ClearJob, Shape, TypeOK
<1>2. /\ UNCHANGED <<cur, taken, item, posted>>
      /\ cleared' = cleared \cup {jobs[q][i] : i \in 1 .. Len(jobs[q])}
  BY <1>1 DEF ClearJob
<1>3. /\ jobs'[q] = << >> /\ Len(jobs'[q]) = 0
      /\ \A r \in Queues : r # q => jobs'[r] = jobs[r]
  BY <1>1 DEF ClearJob, Shape, TypeOK
<1>4. Pushing' = Pushing /\ \A u \in Pushing : u \in Threads /\ to'[u] = to[u]
  BY DEF ClearJob, Goto, Pushing, Shape, TypeOK
<1>. HIDE DEF q
<1>5. \A r \in Queues : \A k \in 1 .. Len(jobs'[r]) :
         r # q /\ jobs'[r] = jobs[r] /\ k \in 1 .. Len(jobs[r])
  BY <1>3
<1>6. QueuedOnce'
  BY <1>1, <1>2, <1>5 DEF QueuedOnce
<1>7. TakenOnce'
  BY <1>1, <1>2, <1>5, SMTT(30) DEF TakenOnce
<1>8. PushedOnce'
  BY <1>1, <1>2, <1>4, <1>5 DEF PushedOnce
<1>9. cleared' \subseteq posted'
  BY <1>1, <1>2 DEF QueuedOnce
<1>. QED
  BY <1>6, <1>7, <1>8, <1>9

-----------------------------------------------------------------------------
(* A job posts from its body when it runs, and each post once.              *)

\* Job p has been started, or cleared.
Started(p) ==
    /\ p \in posted
    /\ \A t \in Pushing : item[t] # p
    /\ \A q \in Queues : \A i \in 1 .. Len(jobs[q]) : jobs[q][i] # p
    /\ \A t \in Threads : \A i \in 1 .. Len(taken[t]) : taken[t][i] = p => i <= ran[t]

\* What thread t's job has still to post: a part of what its body posts.
BodyOf(t) ==
    \A i \in 1 .. Len(todo[t]) :
        /\ todo[t][i] \notin posted
        /\ ran[t] \in 1 .. Len(taken[t])
        /\ \E k \in DOMAIN Spawns[taken[t][ran[t]]] :
              todo[t][i] = Spawns[taken[t][ran[t]]][k]
        /\ \A k \in 1 .. Len(todo[t]) : todo[t][i] = todo[t][k] => i = k

BodiesPost ==
    /\ \A t \in Threads : BodyOf(t)
    /\ \A p \in Jobs : \A i \in DOMAIN Spawns[p] : Spawns[p][i] \in posted => Started(p)

LEMMA InitBodiesPost == Init => BodiesPost
BY DEF Init, BodiesPost, BodyOf

\* A step that moves, starts and posts no job.
LEMMA FrameBodiesPost ==
  ASSUME BodiesPost, UNCHANGED <<jobs, taken, ran, todo, item, posted>>, Pushing' = Pushing
  PROVE  BodiesPost'
BY DEF BodiesPost, BodyOf, Started

\* A job leaves the queue or the batch: what was started stays so.
LEMMA StartedStays ==
  ASSUME BodiesPost, UNCHANGED <<posted, todo>>, \A t \in Threads : BodyOf(t) => BodyOf(t)',
         \A p \in Jobs : Started(p) => Started(p)'
  PROVE  BodiesPost'
BY DEF BodiesPost

\* A job that is being posted was not started, and nothing else changes.
LEMMA PushCallStarted ==
  ASSUME Shape, NEW t \in Threads, NEW j \in Jobs, j \notin posted, NEW only,
         PushCall(t, j, only), NEW p \in Jobs, Started(p)
  PROVE  Started(p)'
<1>1. UNCHANGED <<jobs, taken, ran>> /\ posted' = posted \cup {j} /\ item'[t] = j
      /\ \A u \in Threads : u # t => item'[u] = item[u]
  BY DEF PushCall, Shape, TypeOK
<1>2. Pushing' \subseteq Pushing \cup {t} /\ Pushing \subseteq Threads
  BY DEF PushCall, Goto, Pushing, Shape, TypeOK
<1>3. \A u \in Pushing' : item'[u] # p
  BY <1>1, <1>2 DEF Started
<1>. QED
  BY <1>1, <1>3 DEF Started

LEMMA DoAsyncBodiesPost ==
  ASSUME Shape, OnePlace, BodiesPost, NEW t \in Threads, NEW j \in Jobs,
         DoAsync(t, j) \/ DistributePush(t, j)
  PROVE  BodiesPost'
<1>1. PICK only \in BOOLEAN : PushCall(t, j, only)
  BY DEF DoAsync, DistributePush
<1>2. todo' = todo /\ j \notin posted /\ j \notin Children
  BY DEF DoAsync, DistributePush
<1>3. \A p \in Jobs : \A i \in DOMAIN Spawns[p] : Spawns[p][i] # j
  BY <1>2 DEF Children
<1>4. posted' = posted \cup {j} /\ UNCHANGED <<taken, ran>>
  BY <1>1 DEF PushCall
<1>5. ASSUME NEW u \in Threads PROVE BodyOf(u)'
  <2>1. taken[u] \in Seq(Jobs)
    BY DEF Shape, TypeOK
  <2>2. ran[u] \in 1 .. Len(taken[u]) => taken[u][ran[u]] \in Jobs
    BY <2>1
  <2>3. BodyOf(u)
    BY DEF BodiesPost
  <2>4. \A i \in 1 .. Len(todo[u]) : todo[u][i] # j
    BY <1>3, <2>2, <2>3 DEF BodyOf
  <2>. QED
    BY <1>2, <1>4, <2>3, <2>4 DEF BodyOf
<1>6. ASSUME NEW p \in Jobs, NEW i \in DOMAIN Spawns[p], Spawns[p][i] \in posted'
      PROVE  Started(p)'
  <2>1. Started(p)
    BY <1>3, <1>4, <1>6 DEF BodiesPost
  <2>. QED
    BY <1>1, <1>2, <2>1, PushCallStarted
<1>. QED
  BY <1>5, <1>6 DEF BodiesPost

\* The job that posts is started, and no other job, nor this one a second time,
\* posts the same.
LEMMA BodyDoAsyncFacts ==
  ASSUME Shape, OnePlace, BodiesPost, NEW t \in Threads, BodyDoAsync(t)
  PROVE  /\ Head(todo[t]) \in Jobs /\ Head(todo[t]) \notin posted
         /\ PushCall(t, Head(todo[t]), FALSE)
         /\ BodiesPost'
<1>1. /\ todo[t] # << >> /\ todo[t] \in Seq(Jobs) /\ PushCall(t, Head(todo[t]), FALSE)
      /\ todo'[t] = Tail(todo[t])
      /\ \A u \in Threads : u # t => todo'[u] = todo[u]
  BY DEF BodyDoAsync, Shape, TypeOK
<1>2. PICK j \in Jobs : j = Head(todo[t])
  BY <1>1
<1>3. /\ j = todo[t][1] /\ 1 \in 1 .. Len(todo[t]) /\ PushCall(t, j, FALSE)
      /\ Len(todo[t]) \in Nat /\ Len(Tail(todo[t])) = Len(todo[t]) - 1
      /\ \A i \in 1 .. Len(Tail(todo[t])) : Tail(todo[t])[i] = todo[t][i + 1]
  <2>1. PushCall(t, j, FALSE)
    BY <1>1, <1>2, Zenon
  <2>2. j = todo[t][1] /\ 1 \in 1 .. Len(todo[t]) /\ Len(todo[t]) \in Nat
    BY <1>1, <1>2
  <2>. QED
    BY <1>1, <2>1, <2>2, HeadTailProperties
<1>4. j \notin posted /\ ran[t] \in 1 .. Len(taken[t])
  BY <1>3 DEF BodiesPost, BodyOf
<1>5. \A u \in Threads : ran[u] \in 1 .. Len(taken[u]) => taken[u][ran[u]] \in Jobs
  <2>1. \A u \in Threads : taken[u] \in Seq(Jobs)
    BY DEF Shape, TypeOK
  <2>. QED
    BY <2>1, ElementOfSeq
<1>6. PICK p0 \in Jobs : p0 = taken[t][ran[t]]
  BY <1>4, <1>5
<1>7. PICK k0 \in DOMAIN Spawns[p0] : j = Spawns[p0][k0]
  BY <1>3, <1>6 DEF BodiesPost, BodyOf
<1>8. posted' = posted \cup {j} /\ UNCHANGED <<taken, ran, jobs>>
  BY <1>3 DEF PushCall
<1>9. ASSUME NEW u \in Threads PROVE BodyOf(u)'
  <2>1. BodyOf(u)
    BY DEF BodiesPost
  <2>2. CASE u # t
    <3>1. ASSUME NEW i \in 1 .. Len(todo[u]), todo[u][i] = j PROVE FALSE
      <4>1. /\ ran[u] \in 1 .. Len(taken[u])
            /\ \E k \in DOMAIN Spawns[taken[u][ran[u]]] : j = Spawns[taken[u][ran[u]]][k]
        BY <2>1, <3>1 DEF BodyOf
      <4>2. taken[u][ran[u]] = p0
        BY <1>5, <1>6, <1>7, <4>1, EachPostedOnce
      <4>. QED
        BY <1>4, <1>6, <2>2, <4>1, <4>2 DEF OnePlace, TakenOnce
    <3>. QED
      BY <1>1, <1>8, <2>1, <2>2, <3>1 DEF BodyOf
  <2>3. CASE u = t
    <3>1. \A i \in 1 .. Len(todo'[t]) :
             /\ i + 1 \in 1 .. Len(todo[t]) /\ i + 1 # 1 /\ todo'[t][i] = todo[t][i + 1]
             /\ i \in Int
      BY <1>1, <1>3
    <3>2. \A i \in 1 .. Len(todo'[t]) : todo'[t][i] # j /\ todo'[t][i] \notin posted
      BY <1>3, <2>1, <2>3, <3>1 DEF BodyOf
    <3>3. \A i, k \in 1 .. Len(todo'[t]) : todo'[t][i] = todo'[t][k] => i = k
      <4>1. \A i, k \in 1 .. Len(todo'[t]) : todo'[t][i] = todo'[t][k] => i + 1 = k + 1
        BY <2>1, <2>3, <3>1 DEF BodyOf
      <4>. QED
        BY <3>1, <4>1
    <3>4. \A i \in 1 .. Len(todo'[t]) :
             \E k \in DOMAIN Spawns[taken[t][ran[t]]] :
                todo'[t][i] = Spawns[taken[t][ran[t]]][k]
      BY <2>1, <2>3, <3>1 DEF BodyOf
    <3>. QED
      BY <1>4, <1>8, <2>3, <3>2, <3>3, <3>4 DEF BodyOf
  <2>. QED
    BY <2>2, <2>3
<1>10. Started(p0)'
  <2>1. p0 \in posted /\ p0 # j
    BY <1>4, <1>6 DEF OnePlace, TakenOnce
  <2>2. Started(p0)
    <3>1. \A u \in Pushing : item[u] # p0
      BY <1>4, <1>6 DEF OnePlace, PushedOnce
    <3>2. \A q \in Queues : \A i \in 1 .. Len(jobs[q]) : jobs[q][i] # p0
      BY <1>4, <1>6 DEF OnePlace, TakenOnce
    <3>3. \A u \in Threads : \A i \in 1 .. Len(taken[u]) : taken[u][i] = p0 => i <= ran[u]
      <4>1. \A u \in Threads : \A i \in 1 .. Len(taken[u]) :
               taken[u][i] = p0 => u = t /\ i = ran[t]
        BY <1>4, <1>6 DEF OnePlace, TakenOnce
      <4>2. ran[t] <= ran[t]
        BY <1>4
      <4>. QED
        BY <4>1, <4>2
    <3>. QED
      BY <2>1, <3>1, <3>2, <3>3 DEF Started
  <2>. QED
    BY <1>3, <1>4, <2>2, PushCallStarted
<1>11. ASSUME NEW p \in Jobs, NEW i \in DOMAIN Spawns[p], Spawns[p][i] \in posted'
       PROVE  Started(p)'
  <2>1. CASE Spawns[p][i] \in posted
    <3>1. Started(p)
      BY <2>1 DEF BodiesPost
    <3>. QED
      BY <1>3, <1>4, <3>1, PushCallStarted
  <2>2. CASE Spawns[p][i] = j
    <3>1. p = p0
      BY <1>7, <2>2, EachPostedOnce
    <3>. QED
      BY <1>10, <3>1
  <2>. QED
    BY <1>8, <1>11, <2>1, <2>2
<1>12. BodiesPost'
  BY <1>9, <1>11 DEF BodiesPost
<1>. QED
  BY <1>2, <1>3, <1>4, <1>12

LEMMA PushBodiesPost ==
  ASSUME Shape, OnePlace, BodiesPost, NEW t \in Threads, Push(t)
  PROVE  BodiesPost'
<1>. DEFINE q == to[t]
<1>1. q \in Queues /\ t \in Pushing /\ jobs[q] \in Seq(Jobs) /\ item[t] \in Jobs
  BY DEF Push, Shape, TypeOK, Pushing
<1>2. UNCHANGED <<taken, ran, todo, posted>>
      /\ \A u \in Threads : u # t => item'[u] = item[u]
  BY DEF Push, ForgetPush, Shape, TypeOK, hist
<1>3. jobs'[q] = Append(jobs[q], item[t]) /\ \A r \in Queues : r # q => jobs'[r] = jobs[r]
  BY <1>1 DEF Push, Shape, TypeOK
<1>4. \A i \in 1 .. Len(jobs'[q]) :
         \/ jobs'[q][i] = item[t]
         \/ i \in 1 .. Len(jobs[q]) /\ jobs'[q][i] = jobs[q][i]
  <2>1. /\ Len(jobs'[q]) = Len(jobs[q]) + 1 /\ jobs'[q][Len(jobs[q]) + 1] = item[t]
        /\ \A i \in 1 .. Len(jobs[q]) : jobs'[q][i] = jobs[q][i]
        /\ Len(jobs[q]) \in Nat
    BY <1>1, <1>3, AppendProperties
  <2>2. ASSUME NEW i \in 1 .. Len(jobs'[q]), i # Len(jobs[q]) + 1
        PROVE  i \in 1 .. Len(jobs[q])
    BY <2>1, <2>2
  <2>. QED
    BY <2>1, <2>2
<1>5. Pushing' = Pushing \ {t} /\ Pushing \subseteq Threads
  <2>1. pc' = [pc EXCEPT ![t] = pc'[t]] /\ pc'[t] # "push"
    BY DEF Push, Goto, ReturnTo, Shape, TypeOK
  <2>. QED
    BY <2>1 DEF Pushing, Shape, TypeOK
<1>. HIDE DEF q
<1>6. ASSUME NEW p \in Jobs, Started(p) PROVE Started(p)'
  <2>1. item[t] # p
    BY <1>1, <1>6 DEF Started
  <2>2. \A r \in Queues : \A i \in 1 .. Len(jobs'[r]) : jobs'[r][i] # p
    BY <1>3, <1>4, <1>6, <2>1 DEF Started
  <2>3. \A u \in Pushing' : item'[u] # p
    BY <1>2, <1>5, <1>6 DEF Started
  <2>. QED
    BY <1>2, <1>6, <2>2, <2>3 DEF Started
<1>7. \A u \in Threads : BodyOf(u) => BodyOf(u)'
  BY <1>2 DEF BodyOf
<1>. QED
  BY <1>2, <1>6, <1>7, StartedStays

LEMMA ExecutePopAllBodiesPost ==
  ASSUME Shape, OnePlace, BodiesPost, NEW t \in Threads, ExecutePopAll(t)
  PROVE  BodiesPost'
<1>. DEFINE q == cur[t]
<1>1. /\ q \in Queues /\ todo[t] = << >> /\ Len(todo[t]) = 0
  BY DEF ExecutePopAll, Shape, TypeOK, InHand
<1>2. UNCHANGED <<item, posted, todo>> /\ Pushing' = Pushing
  BY DEF ExecutePopAll, Goto, Pushing, Shape, TypeOK, hist
<1>3. /\ taken'[t] = jobs[q] /\ jobs'[q] = << >> /\ Len(jobs'[q]) = 0
      /\ \A u \in Threads : u # t => taken'[u] = taken[u] /\ ran'[u] = ran[u]
      /\ \A r \in Queues : r # q => jobs'[r] = jobs[r]
  BY <1>1 DEF ExecutePopAll, Shape, TypeOK
<1>. HIDE DEF q
<1>4. ASSUME NEW p \in Jobs, Started(p) PROVE Started(p)'
  <2>1. \A r \in Queues : \A i \in 1 .. Len(jobs'[r]) : jobs'[r][i] # p
    BY <1>3, <1>4 DEF Started
  <2>2. \A u \in Threads : \A i \in 1 .. Len(taken'[u]) : taken'[u][i] = p => i <= ran'[u]
    BY <1>1, <1>3, <1>4 DEF Started
  <2>. QED
    BY <1>2, <1>4, <2>1, <2>2 DEF Started
<1>5. \A u \in Threads : BodyOf(u) => BodyOf(u)'
  BY <1>1, <1>2, <1>3, SMTT(30) DEF BodyOf
<1>. QED
  BY <1>2, <1>4, <1>5, StartedStays

\* The job that starts has posted nothing yet.
LEMMA ExecuteJobBodiesPost ==
  ASSUME Shape, OnePlace, BodiesPost, NEW t \in Threads, ExecuteJob(t)
  PROVE  BodiesPost'
<1>1. /\ ran[t] \in Nat /\ Len(taken[t]) \in Nat /\ ran[t] + 1 \in 1 .. Len(taken[t])
      /\ taken[t][ran[t] + 1] \in Jobs
  BY DEF ExecuteJob, Shape, TypeOK
<1>2. PICK p0 \in Jobs : p0 = taken[t][ran[t] + 1]
  BY <1>1
<1>3. /\ UNCHANGED <<jobs, pc, item, taken, posted>>
      /\ todo'[t] = Spawns[p0] /\ ran'[t] = ran[t] + 1
      /\ \A u \in Threads : u # t => todo'[u] = todo[u] /\ ran'[u] = ran[u]
  BY <1>2 DEF ExecuteJob, Shape, TypeOK, shared, hist
<1>4. ~Started(p0)
  BY <1>1, <1>2 DEF Started
<1>5. Spawns[p0] \in Seq(Jobs) /\ DOMAIN Spawns[p0] = 1 .. Len(Spawns[p0])
  BY JobConstants
<1>6. BodyOf(t)'
  <2>1. ran'[t] \in 1 .. Len(taken'[t]) /\ taken'[t][ran'[t]] = p0
    BY <1>1, <1>2, <1>3
  <2>2. \A i \in 1 .. Len(Spawns[p0]) : Spawns[p0][i] \notin posted
    BY <1>4, <1>5 DEF BodiesPost
  <2>3. \A i, k \in 1 .. Len(Spawns[p0]) : Spawns[p0][i] = Spawns[p0][k] => i = k
    BY <1>5, EachPostedOnce
  <2>. QED
    BY <1>3, <1>5, <2>1, <2>2, <2>3 DEF BodyOf
<1>7. ASSUME NEW u \in Threads, u # t PROVE BodyOf(u)'
  <2>1. BodyOf(u)
    BY DEF BodiesPost
  <2>2. todo'[u] = todo[u] /\ ran'[u] = ran[u] /\ taken'[u] = taken[u] /\ posted' = posted
    BY <1>3, <1>7
  <2>. QED
    BY <2>1, <2>2 DEF BodyOf
<1>8. ASSUME NEW p \in Jobs, Started(p) PROVE Started(p)'
  <2>1. \A u \in Threads : \A i \in 1 .. Len(taken[u]) : taken[u][i] = p => i <= ran'[u]
    BY <1>1, <1>3, <1>8 DEF Started
  <2>. QED
    BY <1>3, <1>8, <2>1 DEF Started, Pushing
<1>. QED
  BY <1>3, <1>6, <1>7, <1>8 DEF BodiesPost

LEMMA ExecuteSubBodiesPost ==
  ASSUME Shape, OnePlace, BodiesPost, NEW t \in Threads, ExecuteSub(t)
  PROVE  BodiesPost'
<1>1. UNCHANGED <<jobs, item, posted, todo>> /\ Len(todo[t]) = 0
  BY DEF ExecuteSub, hist
<1>2. /\ Len(taken'[t]) = 0
      /\ \A u \in Threads : u # t => taken'[u] = taken[u] /\ ran'[u] = ran[u]
  BY DEF ExecuteSub, Shape, TypeOK
<1>3. Pushing' = Pushing
  <2>1. pc' = [pc EXCEPT ![t] = pc'[t]] /\ pc'[t] # "push" /\ pc[t] # "push"
    BY DEF ExecuteSub, Goto, ReturnTo, Shape, TypeOK
  <2>. QED
    BY <2>1 DEF Pushing, Shape, TypeOK
<1>4. ASSUME NEW p \in Jobs, Started(p) PROVE Started(p)'
  <2>1. \A u \in Threads : \A i \in 1 .. Len(taken'[u]) : taken'[u][i] = p => i <= ran'[u]
    BY <1>2, <1>4 DEF Started
  <2>. QED
    BY <1>1, <1>3, <1>4, <2>1 DEF Started
<1>5. ASSUME NEW u \in Threads, BodyOf(u) PROVE BodyOf(u)'
  <2>1. CASE u = t
    BY <1>1, <2>1 DEF BodyOf
  <2>2. CASE u # t
    <3>1. todo'[u] = todo[u] /\ ran'[u] = ran[u] /\ taken'[u] = taken[u] /\ posted' = posted
      BY <1>1, <1>2, <2>2
    <3>. QED
      BY <1>5, <3>1 DEF BodyOf
  <2>. QED
    BY <2>1, <2>2
<1>. QED
  BY <1>1, <1>4, <1>5, StartedStays

LEMMA ClearJobBodiesPost ==
  ASSUME Shape, OnePlace, BodiesPost, NEW t \in Threads, ClearJob(t)
  PROVE  BodiesPost'
<1>1. UNCHANGED <<item, posted, taken, ran, todo>> /\ Pushing' = Pushing
  BY DEF ClearJob, Goto, Pushing, Shape, TypeOK
<1>2. \A r \in Queues : Len(jobs'[r]) = 0 \/ jobs'[r] = jobs[r]
  BY DEF ClearJob, Shape, TypeOK
<1>3. ASSUME NEW p \in Jobs, Started(p) PROVE Started(p)'
  BY <1>1, <1>2, <1>3 DEF Started
<1>4. \A u \in Threads : BodyOf(u) => BodyOf(u)'
  BY <1>1 DEF BodyOf
<1>. QED
  BY <1>1, <1>3, <1>4, StartedStays

-----------------------------------------------------------------------------
(* Who runs a queue.                                                        *)

\* Thread t has raised jobCount of q from 0, or left Execute, and has not come
\* to an end of Push or Execute with it.
Decides(t, q) == to[t] = q /\ ((pc[t] = "push" /\ won[t]) \/ pc[t] = "global_push")

Holds(t, q) == cur[t] = q \/ Decides(t, q)

InGlobal(q) == \E i \in 1 .. Len(global) : global[i] = q

\* A queue with work is with one thread, in one way, or in one place of the
\* GlobalQueue; a queue without is nowhere.
OneHolder ==
    \A q \in Queues :
        /\ \A t, u \in Threads : Holds(t, q) /\ Holds(u, q) => t = u
        /\ \A t \in Threads : ~(cur[t] = q /\ Decides(t, q))
        /\ \A i, k \in 1 .. Len(global) : global[i] = q /\ global[k] = q => i = k
        /\ \A t \in Threads : ~(Holds(t, q) /\ InGlobal(q))
        /\ jobCount[q] > 0 <=> ((\E t \in Threads : Holds(t, q)) \/ InGlobal(q))

LEMMA InitOneHolder == Init => OneHolder
BY JobConstants DEF Init, OneHolder, Holds, Decides, InGlobal

\* A queue stays with whom it is with.
LEMMA FrameOneHolder ==
  ASSUME OneHolder, global' = global,
         \A q \in Queues : jobCount'[q] > 0 <=> jobCount[q] > 0,
         \A q \in Queues : \A t \in Threads : Holds(t, q)' <=> Holds(t, q),
         \A q \in Queues : \A t \in Threads : ~(cur'[t] = q /\ Decides(t, q)')
  PROVE  OneHolder'
BY DEF OneHolder, InGlobal

\* ... for a step that changes neither tls_CurrentJobQueue nor who decides.
LEMMA FrameHolds ==
  ASSUME OneHolder, global' = global, cur' = cur,
         \A q \in Queues : jobCount'[q] > 0 <=> jobCount[q] > 0,
         \A q \in Queues : \A t \in Threads : Decides(t, q)' <=> Decides(t, q)
  PROVE  OneHolder'
<1>1. \A q \in Queues : \A t \in Threads : Holds(t, q)' <=> Holds(t, q)
  BY DEF Holds
<1>2. \A q \in Queues : \A t \in Threads : ~(cur'[t] = q /\ Decides(t, q)')
  BY DEF OneHolder
<1>. QED
  BY <1>1, <1>2, FrameOneHolder

\* fetch_add: the thread that raises the count from 0 gets the queue.
LEMMA PushCallOneHolder ==
  ASSUME Shape, OneHolder, NEW t \in Threads, NEW j \in Jobs, NEW only,
         PushCall(t, j, only), pc[t] \in {"idle", "exec_run"}
  PROVE  OneHolder'
<1>1. PICK r \in Queues : r = Owner[j]
  BY JobConstants
<1>2. /\ UNCHANGED <<global, cur>>
      /\ jobCount'[r] = jobCount[r] + 1 /\ jobCount[r] \in Nat
      /\ \A q \in Queues : q # r => jobCount'[q] = jobCount[q]
      /\ to'[t] = r /\ pc'[t] = "push" /\ won'[t] = (jobCount[r] = 0)
      /\ \A u \in Threads : u # t => to'[u] = to[u] /\ pc'[u] = pc[u] /\ won'[u] = won[u]
  BY <1>1 DEF PushCall, Goto, Shape, TypeOK
<1>3. \A q \in Queues : \A u \in Threads : u # t => (Decides(u, q)' <=> Decides(u, q))
  BY <1>2 DEF Decides
<1>4. \A q \in Queues : ~Decides(t, q) /\ (Decides(t, q)' <=> q = r /\ jobCount[r] = 0)
  BY <1>2 DEF Decides
<1>5. CASE jobCount[r] # 0
  <2>1. \A q \in Queues : jobCount'[q] > 0 <=> jobCount[q] > 0
    BY <1>2, <1>5
  <2>2. \A q \in Queues : \A u \in Threads : Decides(u, q)' <=> Decides(u, q)
    BY <1>3, <1>4, <1>5
  <2>. QED
    BY <1>2, <2>1, <2>2, FrameHolds
<1>6. CASE jobCount[r] = 0
  <2>1. \A u \in Threads : ~Holds(u, r) /\ ~InGlobal(r)
    BY <1>2, <1>6 DEF OneHolder
  <2>2. \A q \in Queues : InGlobal(q)' <=> InGlobal(q)
    BY <1>2 DEF InGlobal
  <2>3. \A q \in Queues : \A u \in Threads :
           Holds(u, q)' <=> (Holds(u, q) \/ (u = t /\ q = r))
    BY <1>2, <1>3, <1>4, <1>6 DEF Holds
  <2>4. ASSUME NEW q \in Queues, q # r
        PROVE  /\ \A u, v \in Threads : Holds(u, q)' /\ Holds(v, q)' => u = v
               /\ \A u \in Threads : ~(cur'[u] = q /\ Decides(u, q)')
               /\ \A i, k \in 1 .. Len(global') : global'[i] = q /\ global'[k] = q => i = k
               /\ \A u \in Threads : ~(Holds(u, q)' /\ InGlobal(q)')
               /\ jobCount'[q] > 0 <=> ((\E u \in Threads : Holds(u, q)') \/ InGlobal(q)')
    BY <1>2, <1>3, <1>4, <2>2, <2>3, <2>4 DEF OneHolder
  <2>5. /\ \A u, v \in Threads : Holds(u, r)' /\ Holds(v, r)' => u = v
        /\ \A u \in Threads : ~(cur'[u] = r /\ Decides(u, r)')
        /\ \A i, k \in 1 .. Len(global') : global'[i] = r /\ global'[k] = r => i = k
        /\ \A u \in Threads : ~(Holds(u, r)' /\ InGlobal(r)')
        /\ jobCount'[r] > 0 <=> ((\E u \in Threads : Holds(u, r)') \/ InGlobal(r)')
    <3>1. \A u \in Threads : cur'[u] # r
      BY <1>2, <2>1 DEF Holds
    <3>. QED
      BY <1>2, <2>1, <2>2, <2>3, <3>1 DEF InGlobal
  <2>. QED
    BY <2>4, <2>5 DEF OneHolder
<1>. QED
  BY <1>5, <1>6

\* The thread that pushed runs the queue, hands it over, or never had it.
LEMMA PushOneHolder ==
  ASSUME Shape, OneHolder, NEW t \in Threads, Push(t)
  PROVE  OneHolder'
<1>1. /\ to[t] \in Queues /\ pc[t] = "push" /\ won'[t] = FALSE
      /\ UNCHANGED <<jobCount, global>>
      /\ \A u \in Threads : u # t => /\ to'[u] = to[u] /\ pc'[u] = pc[u] /\ won'[u] = won[u]
                                     /\ cur'[u] = cur[u]
  BY DEF Push, ForgetPush, Goto, Shape, TypeOK
<1>2. \/ won[t] /\ cur[t] = None /\ cur'[t] = to[t] /\ to'[t] = None
      \/ won[t] /\ cur'[t] = cur[t] /\ to'[t] = to[t] /\ pc'[t] = "global_push"
      \/ /\ ~won[t] /\ cur'[t] = cur[t] /\ to'[t] = None
         /\ pc'[t] \notin {"push", "global_push"}
  BY DEF Push, Goto, ReturnTo, Shape, TypeOK
<1>3. \A q \in Queues : q # None
  BY JobConstants
<1>4. \A q \in Queues : \A u \in Threads : u # t => (Holds(u, q)' <=> Holds(u, q))
  BY <1>1 DEF Holds, Decides
<1>5. \A q \in Queues : Holds(t, q)' <=> Holds(t, q)
  BY <1>1, <1>2, <1>3 DEF Holds, Decides
<1>6. \A q \in Queues : \A u \in Threads : u # t => ~(cur'[u] = q /\ Decides(u, q)')
  BY <1>1 DEF OneHolder, Decides
<1>7. \A q \in Queues : ~(cur'[t] = q /\ Decides(t, q)')
  BY <1>1, <1>2, <1>3 DEF OneHolder, Decides
<1>. QED
  BY <1>1, <1>4, <1>5, <1>6, <1>7, FrameOneHolder

\* From the thread's hand into the GlobalQueue.
LEMMA GlobalPushOneHolder ==
  ASSUME Shape, OneHolder, NEW t \in Threads, GlobalPush(t)
  PROVE  OneHolder'
<1>1. PICK r \in Queues : r = to[t]
  BY DEF GlobalPush, Shape, TypeOK
<1>2. /\ pc[t] = "global_push" /\ to'[t] = None /\ global' = Append(global, r)
      /\ UNCHANGED <<jobCount, cur, won>>
      /\ \A u \in Threads : u # t => to'[u] = to[u] /\ pc'[u] = pc[u]
  BY <1>1 DEF GlobalPush, Goto, Shape, TypeOK
<1>3. /\ Len(global') = Len(global) + 1 /\ global'[Len(global) + 1] = r /\ Len(global) \in Nat
      /\ \A i \in 1 .. Len(global) : global'[i] = global[i]
  BY <1>2, AppendProperties DEF Shape, TypeOK
<1>4. \A q \in Queues : q # None
  BY JobConstants
<1>5. Decides(t, r) /\ cur[t] # r
  BY <1>1, <1>2 DEF OneHolder, Decides
<1>6. ~InGlobal(r) /\ \A u \in Threads : Holds(u, r) => u = t
  BY <1>5 DEF OneHolder, Holds
<1>7. \A q \in Queues : \A u \in Threads : Holds(u, q)' <=> (Holds(u, q) /\ ~(u = t /\ q = r))
  BY <1>1, <1>2, <1>4, <1>5 DEF Holds, Decides
<1>8. \A q \in Queues : \A i \in 1 .. Len(global') :
         global'[i] = q <=> ((i \in 1 .. Len(global) /\ global[i] = q)
                             \/ (i = Len(global) + 1 /\ q = r))
  BY <1>3
<1>9. \A q \in Queues : InGlobal(q)' <=> (InGlobal(q) \/ q = r)
  <2>1. ASSUME NEW q \in Queues PROVE InGlobal(q)' => InGlobal(q) \/ q = r
    BY <1>8 DEF InGlobal
  <2>2. ASSUME NEW q \in Queues, InGlobal(q) PROVE InGlobal(q)'
    BY <1>3, <2>2 DEF InGlobal
  <2>3. InGlobal(r)'
    BY <1>3 DEF InGlobal
  <2>. QED
    BY <2>1, <2>2, <2>3
<1>10. ASSUME NEW q \in Queues
       PROVE  /\ \A u, v \in Threads : Holds(u, q)' /\ Holds(v, q)' => u = v
              /\ \A u \in Threads : ~(cur'[u] = q /\ Decides(u, q)')
              /\ \A i, k \in 1 .. Len(global') : global'[i] = q /\ global'[k] = q => i = k
              /\ \A u \in Threads : ~(Holds(u, q)' /\ InGlobal(q)')
              /\ jobCount'[q] > 0 <=> ((\E u \in Threads : Holds(u, q)') \/ InGlobal(q)')
  <2>1. \A u, v \in Threads : Holds(u, q)' /\ Holds(v, q)' => u = v
    BY <1>7 DEF OneHolder
  <2>2. \A u \in Threads : ~(cur'[u] = q /\ Decides(u, q)')
    BY <1>2, <1>4 DEF OneHolder, Decides
  <2>3. \A i, k \in 1 .. Len(global') : global'[i] = q /\ global'[k] = q => i = k
    <3>1. CASE q = r
      <4>1. \A i \in 1 .. Len(global) : global[i] # r
        BY <1>6 DEF InGlobal
      <4>. QED
        BY <1>8, <3>1, <4>1
    <3>2. CASE q # r
      BY <1>8, <3>2 DEF OneHolder
    <3>. QED
      BY <3>1, <3>2
  <2>4. \A u \in Threads : ~(Holds(u, q)' /\ InGlobal(q)')
    BY <1>6, <1>7, <1>9 DEF OneHolder
  <2>5. jobCount'[q] > 0 <=> ((\E u \in Threads : Holds(u, q)') \/ InGlobal(q)')
    <3>1. CASE q = r
      BY <1>2, <1>5, <1>9, <3>1 DEF OneHolder, Holds
    <3>2. CASE q # r
      BY <1>2, <1>7, <1>9, <3>2 DEF OneHolder
    <3>. QED
      BY <3>1, <3>2
  <2>. QED
    BY <2>1, <2>2, <2>3, <2>4, <2>5
<1>. QED
  BY <1>10 DEF OneHolder

\* fetch_sub: who brings the count to 0 lets go of the queue.
LEMMA ExecuteSubOneHolder ==
  ASSUME Shape, OneHolder, NEW t \in Threads, ExecuteSub(t), Len(taken[t]) <= jobCount[cur[t]]
  PROVE  OneHolder'
<1>1. PICK r \in Queues : r = cur[t]
  BY DEF ExecuteSub, Shape, TypeOK
<1>2. /\ pc[t] = "exec_run" /\ jobCount[r] \in Nat /\ Len(taken[t]) \in Nat
      /\ UNCHANGED <<global, to, won>>
      /\ jobCount'[r] = jobCount[r] - Len(taken[t])
      /\ \A q \in Queues : q # r => jobCount'[q] = jobCount[q]
      /\ \A u \in Threads : u # t => cur'[u] = cur[u] /\ pc'[u] = pc[u]
  BY <1>1 DEF ExecuteSub, Goto, Shape, TypeOK
<1>3. \/ jobCount[r] = Len(taken[t]) /\ cur'[t] = None
      \/ jobCount[r] # Len(taken[t]) /\ cur'[t] = cur[t]
  BY <1>1 DEF ExecuteSub, Shape, TypeOK
<1>4. pc'[t] \notin {"push", "global_push"}
  BY DEF ExecuteSub, Goto, ReturnTo, Shape, TypeOK
<1>5. \A q \in Queues : q # None
  BY JobConstants
<1>6. \A q \in Queues : \A u \in Threads : Decides(u, q)' <=> Decides(u, q)
  BY <1>2, <1>4 DEF Decides
<1>7. Holds(t, r) /\ jobCount[r] > 0
  BY <1>1 DEF OneHolder, Holds
<1>8. \A q \in Queues : InGlobal(q)' <=> InGlobal(q)
  BY <1>2 DEF InGlobal
<1>9. CASE jobCount[r] # Len(taken[t])
  <2>1. cur' = cur
    <3>1. cur' \in [Threads -> Queues \cup {None}]
      BY ExecuteSubShape DEF Shape, TypeOK
    <3>. QED
      BY <1>2, <1>3, <1>9, <3>1 DEF Shape, TypeOK
  <2>2. \A q \in Queues : jobCount'[q] > 0 <=> jobCount[q] > 0
    <3>1. jobCount'[r] > 0
      BY <1>1, <1>2, <1>9
    <3>. QED
      BY <1>2, <1>7, <3>1
  <2>. QED
    BY <1>2, <1>6, <2>1, <2>2, FrameHolds
<1>10. CASE jobCount[r] = Len(taken[t])
  <2>1. \A q \in Queues : \A u \in Threads : Holds(u, q)' <=> (Holds(u, q) /\ ~(u = t /\ q = r))
    <3>1. \A q \in Queues : ~(cur'[t] = q)
      BY <1>3, <1>5, <1>10
    <3>2. ~Decides(t, r) /\ \A q \in Queues : cur[t] = q => q = r
      BY <1>1 DEF OneHolder
    <3>. QED
      BY <1>2, <1>6, <3>1, <3>2 DEF Holds
  <2>2. \A u \in Threads : ~Holds(u, r)'
    BY <1>7, <2>1 DEF OneHolder
  <2>3. ~InGlobal(r)
    BY <1>7 DEF OneHolder
  <2>4. jobCount'[r] = 0
    BY <1>2, <1>10
  <2>5. ASSUME NEW q \in Queues, q # r
        PROVE  /\ \A u, v \in Threads : Holds(u, q)' /\ Holds(v, q)' => u = v
               /\ \A u \in Threads : ~(cur'[u] = q /\ Decides(u, q)')
               /\ \A i, k \in 1 .. Len(global') : global'[i] = q /\ global'[k] = q => i = k
               /\ \A u \in Threads : ~(Holds(u, q)' /\ InGlobal(q)')
               /\ jobCount'[q] > 0 <=> ((\E u \in Threads : Holds(u, q)') \/ InGlobal(q)')
    <3>1. \A u \in Threads : ~(cur'[u] = q /\ Decides(u, q)')
      BY <1>2, <1>3, <1>5, <1>6, <1>10 DEF OneHolder
    <3>. QED
      BY <1>2, <1>8, <2>1, <2>5, <3>1 DEF OneHolder
  <2>6. /\ \A u, v \in Threads : Holds(u, r)' /\ Holds(v, r)' => u = v
        /\ \A u \in Threads : ~(cur'[u] = r /\ Decides(u, r)')
        /\ \A i, k \in 1 .. Len(global') : global'[i] = r /\ global'[k] = r => i = k
        /\ \A u \in Threads : ~(Holds(u, r)' /\ InGlobal(r)')
        /\ jobCount'[r] > 0 <=> ((\E u \in Threads : Holds(u, r)') \/ InGlobal(r)')
    <3>1. \A u \in Threads : ~(cur'[u] = r)
      BY <2>2 DEF Holds
    <3>. QED
      BY <1>2, <1>8, <2>2, <2>3, <2>4, <3>1 DEF InGlobal
  <2>. QED
    BY <2>5, <2>6 DEF OneHolder
<1>. QED
  BY <1>9, <1>10

\* The slice is over: the queue goes from tls_CurrentJobQueue into the hand that
\* gives it to the GlobalQueue.
LEMMA ExecuteTimeOneHolder ==
  ASSUME Shape, OneHolder, NEW t \in Threads, ExecuteTime(t)
  PROVE  OneHolder'
<1>1. /\ cur[t] \in Queues /\ pc[t] = "exec_time"
      /\ UNCHANGED <<jobCount, global, won>>
      /\ \A u \in Threads : u # t => cur'[u] = cur[u] /\ pc'[u] = pc[u] /\ to'[u] = to[u]
  BY DEF ExecuteTime, Goto, Shape, TypeOK, shared
<1>2. \/ cur'[t] = None /\ to'[t] = cur[t] /\ pc'[t] = "global_push"
      \/ cur'[t] = cur[t] /\ pc'[t] = "exec_popall"
  BY DEF ExecuteTime, Goto, Shape, TypeOK
<1>3. \A q \in Queues : q # None
  BY JobConstants
<1>4. \A q \in Queues : \A u \in Threads : Holds(u, q)' <=> Holds(u, q)
  BY <1>1, <1>2, <1>3 DEF Holds, Decides
<1>5. \A q \in Queues : \A u \in Threads : ~(cur'[u] = q /\ Decides(u, q)')
  BY <1>1, <1>2, <1>3 DEF OneHolder, Decides
<1>. QED
  BY <1>1, <1>4, <1>5, FrameOneHolder

\* From the head of the GlobalQueue to the worker.
LEMMA GlobalPopOneHolder ==
  ASSUME Shape, OneHolder, NEW t \in Threads, GlobalPop(t)
  PROVE  OneHolder'
<1>1. /\ pc[t] = "global_pop" /\ cur[t] = None
      /\ UNCHANGED <<jobCount, to, won>>
      /\ \A u \in Threads : u # t => cur'[u] = cur[u] /\ pc'[u] = pc[u]
  BY DEF GlobalPop, Goto, Shape, TypeOK, InHand
<1>2. pc'[t] \in {"idle", "exec_popall"}
  BY DEF GlobalPop, Goto, Shape, TypeOK
<1>3. \A q \in Queues : \A u \in Threads : Decides(u, q)' <=> Decides(u, q)
  BY <1>1, <1>2 DEF Decides
<1>4. CASE global = << >>
  BY <1>1, <1>3, <1>4, FrameHolds DEF GlobalPop
<1>5. CASE global # << >>
  <2>1. PICK r \in Queues : r = Head(global)
    BY <1>5 DEF Shape, TypeOK
  <2>2. /\ cur'[t] = r /\ global' = Tail(global) /\ r = global[1] /\ Len(global) \in Nat \ {0}
        /\ Len(global') = Len(global) - 1
        /\ \A i \in 1 .. Len(global') : global'[i] = global[i + 1]
    <3>1. cur'[t] = r /\ global' = Tail(global)
      BY <1>5, <2>1 DEF GlobalPop, Shape, TypeOK
    <3>2. global \in Seq(Queues)
      BY DEF Shape, TypeOK
    <3>3. r = global[1] /\ Len(global) \in Nat \ {0}
      BY <1>5, <2>1, <3>2
    <3>. QED
      BY <1>5, <3>1, <3>2, <3>3, HeadTailProperties
  <2>3. InGlobal(r) /\ 1 \in 1 .. Len(global)
    BY <2>2 DEF InGlobal
  <2>4. \A u \in Threads : ~Holds(u, r)
    BY <2>3 DEF OneHolder
  <2>5. \A i \in 1 .. Len(global) : global[i] = r => i = 1
    BY <2>2, <2>3 DEF OneHolder
  <2>6. \A q \in Queues : q # None
    BY JobConstants
  <2>7. \A q \in Queues : \A u \in Threads : Holds(u, q)' <=> (Holds(u, q) \/ (u = t /\ q = r))
    BY <1>1, <1>3, <2>2, <2>6 DEF Holds
  <2>8. \A q \in Queues : InGlobal(q)' <=> (InGlobal(q) /\ q # r)
    <3>1. ~InGlobal(r)'
      <4>1. \A i \in 1 .. Len(global') : i + 1 \in 1 .. Len(global) /\ i + 1 # 1
        BY <2>2
      <4>. QED
        BY <2>2, <2>5, <4>1 DEF InGlobal
    <3>2. ASSUME NEW q \in Queues, InGlobal(q)' PROVE InGlobal(q)
      <4>1. \A i \in 1 .. Len(global') : i + 1 \in 1 .. Len(global)
        BY <2>2
      <4>. QED
        BY <2>2, <3>2, <4>1 DEF InGlobal
    <3>3. ASSUME NEW q \in Queues, InGlobal(q), q # r PROVE InGlobal(q)'
      <4>1. PICK i \in 1 .. Len(global) : global[i] = q
        BY <3>3 DEF InGlobal
      <4>2. i - 1 \in 1 .. Len(global') /\ i - 1 + 1 = i
        BY <2>2, <3>3, <4>1
      <4>. QED
        BY <2>2, <4>1, <4>2 DEF InGlobal
    <3>. QED
      BY <3>1, <3>2, <3>3
  <2>9. ASSUME NEW q \in Queues
        PROVE  /\ \A u, v \in Threads : Holds(u, q)' /\ Holds(v, q)' => u = v
               /\ \A u \in Threads : ~(cur'[u] = q /\ Decides(u, q)')
               /\ \A i, k \in 1 .. Len(global') : global'[i] = q /\ global'[k] = q => i = k
               /\ \A u \in Threads : ~(Holds(u, q)' /\ InGlobal(q)')
               /\ jobCount'[q] > 0 <=> ((\E u \in Threads : Holds(u, q)') \/ InGlobal(q)')
    <3>1. \A u, v \in Threads : Holds(u, q)' /\ Holds(v, q)' => u = v
      BY <2>4, <2>7 DEF OneHolder
    <3>2. \A u \in Threads : ~(cur'[u] = q /\ Decides(u, q)')
      BY <1>1, <1>3, <2>2, <2>4 DEF OneHolder, Holds
    <3>3. \A i, k \in 1 .. Len(global') : global'[i] = q /\ global'[k] = q => i = k
      <4>1. ASSUME NEW i \in 1 .. Len(global'), NEW k \in 1 .. Len(global'),
                   global'[i] = q, global'[k] = q
            PROVE  i = k
        <5>1. i + 1 \in 1 .. Len(global) /\ k + 1 \in 1 .. Len(global)
          BY <2>2
        <5>2. global[i + 1] = q /\ global[k + 1] = q
          BY <2>2, <4>1
        <5>3. i + 1 = k + 1
          BY <5>1, <5>2 DEF OneHolder
        <5>. QED
          BY <5>3
      <4>. QED
        BY <4>1
    <3>4. \A u \in Threads : ~(Holds(u, q)' /\ InGlobal(q)')
      BY <2>7, <2>8 DEF OneHolder
    <3>5. jobCount'[q] > 0 <=> ((\E u \in Threads : Holds(u, q)') \/ InGlobal(q)')
      BY <1>1, <2>3, <2>7, <2>8 DEF OneHolder
    <3>. QED
      BY <3>1, <3>2, <3>3, <3>4, <3>5
  <2>. QED
    BY <2>9 DEF OneHolder
<1>. QED
  BY <1>4, <1>5

-----------------------------------------------------------------------------
(* What jobCount counts.                                                    *)

PushersOf(q) == {t \in Threads : pc[t] = "push" /\ to[t] = q}

ClearedOf(q) == {j \in cleared : Owner[j] = q}

\* The length of the batch taken from q.
BatchLen(q) ==
    IF \E t \in Threads : cur[t] = q
    THEN Len(taken[CHOOSE t \in Threads : cur[t] = q])
    ELSE 0

CountInv ==
    \A q \in Queues :
        jobCount[q] = Len(jobs[q]) + Cardinality(PushersOf(q)) + BatchLen(q)
                      + Cardinality(ClearedOf(q))

\* There is one batch at most.
LEMMA BatchLenFacts ==
  ASSUME Shape, OneHolder, NEW q \in Queues
  PROVE  /\ \A t \in Threads : cur[t] = q => BatchLen(q) = Len(taken[t])
         /\ (\A t \in Threads : cur[t] # q) => BatchLen(q) = 0
         /\ BatchLen(q) \in Nat
<1>1. ASSUME NEW t \in Threads, cur[t] = q
      PROVE  BatchLen(q) = Len(taken[t]) /\ BatchLen(q) \in Nat
  <2>1. \A u \in Threads : cur[u] = q => u = t
    BY <1>1 DEF OneHolder, Holds
  <2>2. (CHOOSE u \in Threads : cur[u] = q) = t
    BY <1>1, <2>1
  <2>3. Len(taken[t]) \in Nat
    BY DEF Shape, TypeOK
  <2>. QED
    BY <1>1, <2>2, <2>3 DEF BatchLen
<1>2. (\A t \in Threads : cur[t] # q) => BatchLen(q) = 0
  BY DEF BatchLen
<1>. QED
  BY <1>1, <1>2

LEMMA BatchLenNext ==
  ASSUME NEW q, NEW t \in Threads, cur'[t] = q, \A u \in Threads : cur'[u] = q => u = t
  PROVE  BatchLen(q)' = Len(taken'[t])
<1>1. (CHOOSE u \in Threads : cur'[u] = q) = t
  OBVIOUS
<1>. QED
  BY <1>1 DEF BatchLen

LEMMA SummandTypes ==
  ASSUME Shape, NEW q \in Queues
  PROVE  /\ IsFiniteSet(PushersOf(q)) /\ Cardinality(PushersOf(q)) \in Nat
         /\ IsFiniteSet(ClearedOf(q)) /\ Cardinality(ClearedOf(q)) \in Nat
         /\ Len(jobs[q]) \in Nat /\ jobCount[q] \in Nat
<1>1. IsFiniteSet(PushersOf(q))
  BY JobConstants, FS_Subset DEF PushersOf
<1>2. IsFiniteSet(ClearedOf(q))
  <2>1. ClearedOf(q) \subseteq Jobs
    BY DEF ClearedOf, Shape, TypeOK
  <2>. QED
    BY <2>1, JobConstants, FS_Subset
<1>3. Len(jobs[q]) \in Nat /\ jobCount[q] \in Nat
  BY DEF Shape, TypeOK
<1>. QED
  BY <1>1, <1>2, <1>3, FS_CardinalityType

LEMMA InitCountInv == Init => CountInv
<1>. SUFFICES ASSUME Init, NEW q \in Queues
     PROVE  jobCount[q] = Len(jobs[q]) + Cardinality(PushersOf(q)) + BatchLen(q)
                          + Cardinality(ClearedOf(q))
  BY DEF CountInv
<1>1. PushersOf(q) = {} /\ ClearedOf(q) = {}
  BY DEF Init, PushersOf, ClearedOf
<1>2. BatchLen(q) = 0
  BY JobConstants DEF Init, BatchLen
<1>3. jobCount[q] = 0 /\ Len(jobs[q]) = 0
  BY DEF Init
<1>. QED
  BY <1>1, <1>2, <1>3, FS_EmptySet

\* The count covers the batch.
LEMMA CountCoversBatch ==
  ASSUME Shape, OneHolder, CountInv, NEW t \in Threads, cur[t] \in Queues
  PROVE  Len(taken[t]) <= jobCount[cur[t]]
<1>1. BatchLen(cur[t]) = Len(taken[t]) /\ BatchLen(cur[t]) \in Nat
  BY BatchLenFacts
<1>. QED
  BY <1>1, SummandTypes, SMTT(30) DEF CountInv

LEMMA FrameCountInv ==
  ASSUME CountInv, UNCHANGED <<jobs, jobCount, cleared>>,
         \A q \in Queues : PushersOf(q)' = PushersOf(q) /\ BatchLen(q)' = BatchLen(q)
  PROVE  CountInv'
BY DEF CountInv, ClearedOf

LEMMA PushCallCountInv ==
  ASSUME Shape, OneHolder, CountInv, NEW t \in Threads, NEW j \in Jobs, NEW only,
         PushCall(t, j, only), pc[t] # "push"
  PROVE  CountInv'
<1>1. PICK r \in Queues : r = Owner[j]
  BY JobConstants
<1>2. /\ UNCHANGED <<jobs, cleared, cur, taken>>
      /\ jobCount'[r] = jobCount[r] + 1
      /\ \A q \in Queues : q # r => jobCount'[q] = jobCount[q]
      /\ to'[t] = r /\ pc'[t] = "push"
      /\ \A u \in Threads : u # t => to'[u] = to[u] /\ pc'[u] = pc[u]
  BY <1>1 DEF PushCall, Goto, Shape, TypeOK
<1>3. \A q \in Queues : BatchLen(q)' = BatchLen(q) /\ ClearedOf(q)' = ClearedOf(q)
  BY <1>2 DEF BatchLen, ClearedOf
<1>4. \A q \in Queues : q # r => PushersOf(q)' = PushersOf(q)
  BY <1>2 DEF PushersOf
<1>5. PushersOf(r)' = PushersOf(r) \cup {t} /\ t \notin PushersOf(r)
  BY <1>2 DEF PushersOf
<1>6. Cardinality(PushersOf(r)') = Cardinality(PushersOf(r)) + 1
  BY <1>5, SummandTypes, FS_AddElement
<1>7. jobCount'[r] = Len(jobs'[r]) + Cardinality(PushersOf(r)') + BatchLen(r)'
                     + Cardinality(ClearedOf(r)')
  <2>1. /\ jobCount[r] = Len(jobs[r]) + Cardinality(PushersOf(r)) + BatchLen(r)
                          + Cardinality(ClearedOf(r))
        /\ Len(jobs[r]) \in Nat /\ Cardinality(PushersOf(r)) \in Nat /\ BatchLen(r) \in Nat
        /\ Cardinality(ClearedOf(r)) \in Nat
    BY SummandTypes, BatchLenFacts DEF CountInv
  <2>. QED
    BY <1>2, <1>3, <1>6, <2>1, SMTT(30)
<1>. QED
  BY <1>2, <1>3, <1>4, <1>7 DEF CountInv

LEMMA PushCountInv ==
  ASSUME Shape, OneHolder, CountInv, NEW t \in Threads, Push(t)
  PROVE  CountInv'
<1>1. PICK r \in Queues : r = to[t]
  BY DEF Push, Shape, TypeOK
<1>2. /\ UNCHANGED <<jobCount, cleared, taken>> /\ pc[t] = "push"
      /\ jobs'[r] = Append(jobs[r], item[t]) /\ jobs[r] \in Seq(Jobs) /\ item[t] \in Jobs
      /\ \A q \in Queues : q # r => jobs'[q] = jobs[q]
      /\ \A u \in Threads : u # t => to'[u] = to[u] /\ pc'[u] = pc[u] /\ cur'[u] = cur[u]
  BY <1>1 DEF Push, Goto, Shape, TypeOK, hist
<1>3. /\ cur'[t] = cur[t] \/ (cur[t] = None /\ cur'[t] = r /\ Len(taken[t]) = 0 /\ won[t])
      /\ pc'[t] # "push"
  BY <1>1 DEF Push, Goto, ReturnTo, Shape, TypeOK, InHand
<1>4. Len(jobs'[r]) = Len(jobs[r]) + 1
  BY <1>2
<1>5. \A q \in Queues : q # r => PushersOf(q)' = PushersOf(q)
  BY <1>1, <1>2, <1>3 DEF PushersOf
<1>6. PushersOf(r)' = PushersOf(r) \ {t} /\ t \in PushersOf(r)
  BY <1>1, <1>2, <1>3 DEF PushersOf
<1>7. Cardinality(PushersOf(r)') = Cardinality(PushersOf(r)) - 1
  BY <1>6, SummandTypes, FS_RemoveElement
<1>8. \A q \in Queues : BatchLen(q)' = BatchLen(q)
  <2>1. CASE cur'[t] = cur[t]
    <3>1. \A u \in Threads : cur'[u] = cur[u]
      BY <1>2, <2>1
    <3>. QED
      BY <1>2, <3>1 DEF BatchLen
  <2>2. CASE cur[t] = None /\ cur'[t] = r /\ Len(taken[t]) = 0 /\ won[t]
    <3>1. Decides(t, r) /\ Holds(t, r)
      BY <1>1, <1>2, <2>2 DEF Decides, Holds
    <3>2. \A u \in Threads : cur[u] # r
      BY <3>1 DEF OneHolder, Holds
    <3>3. BatchLen(r) = 0
      BY <3>2, BatchLenFacts
    <3>4. BatchLen(r)' = 0
      <4>1. BatchLen(r)' = Len(taken'[t])
        BY <1>2, <2>2, <3>2, BatchLenNext
      <4>. QED
        BY <1>2, <2>2, <4>1
    <3>5. \A q \in Queues : q # r => \A u \in Threads : cur'[u] = q <=> cur[u] = q
      BY <1>2, <2>2, JobConstants
    <3>6. \A q \in Queues : q # r => BatchLen(q)' = BatchLen(q)
      BY <1>2, <3>5 DEF BatchLen
    <3>. QED
      BY <3>3, <3>4, <3>6
  <2>. QED
    BY <1>3, <2>1, <2>2
<1>9. \A q \in Queues : ClearedOf(q)' = ClearedOf(q)
  BY <1>2 DEF ClearedOf
<1>10. jobCount'[r] = Len(jobs'[r]) + Cardinality(PushersOf(r)') + BatchLen(r)'
                      + Cardinality(ClearedOf(r)')
  BY <1>2, <1>4, <1>7, <1>8, <1>9, SummandTypes, BatchLenFacts DEF CountInv
<1>. QED
  BY <1>2, <1>5, <1>8, <1>9, <1>10 DEF CountInv

LEMMA ExecutePopAllCountInv ==
  ASSUME Shape, OneHolder, CountInv, NEW t \in Threads, ExecutePopAll(t)
  PROVE  CountInv'
<1>1. PICK r \in Queues : r = cur[t]
  BY DEF ExecutePopAll, Shape, TypeOK
<1>2. /\ UNCHANGED <<jobCount, cleared, cur, to>>
      /\ Len(taken[t]) = 0 /\ taken'[t] = jobs[r] /\ Len(jobs'[r]) = 0
      /\ \A q \in Queues : q # r => jobs'[q] = jobs[q]
      /\ \A u \in Threads : u # t => taken'[u] = taken[u]
  BY <1>1 DEF ExecutePopAll, Shape, TypeOK, InHand, hist
<1>3. \A q \in Queues : PushersOf(q)' = PushersOf(q) /\ ClearedOf(q)' = ClearedOf(q)
  BY <1>2 DEF PushersOf, ClearedOf, ExecutePopAll, Goto, Shape, TypeOK
<1>4. \A u \in Threads : cur[u] = r => u = t
  BY <1>1 DEF OneHolder, Holds
<1>5. BatchLen(r) = 0 /\ BatchLen(r)' = Len(jobs[r])
  BY <1>1, <1>2, <1>4, BatchLenFacts, BatchLenNext
<1>6. ASSUME NEW q \in Queues, q # r PROVE BatchLen(q)' = BatchLen(q)
  <2>1. CASE \E u \in Threads : cur[u] = q
    <3>1. (CHOOSE u \in Threads : cur[u] = q) # t
      BY <1>1, <1>6, <2>1
    <3>. QED
      BY <1>2, <2>1, <3>1 DEF BatchLen
  <2>2. CASE ~\E u \in Threads : cur[u] = q
    BY <1>2, <2>2 DEF BatchLen
  <2>. QED
    BY <2>1, <2>2
<1>7. jobCount'[r] = Len(jobs'[r]) + Cardinality(PushersOf(r)') + BatchLen(r)'
                     + Cardinality(ClearedOf(r)')
  <2>1. /\ jobCount[r] = Len(jobs[r]) + Cardinality(PushersOf(r)) + BatchLen(r)
                          + Cardinality(ClearedOf(r))
        /\ Len(jobs[r]) \in Nat /\ Cardinality(PushersOf(r)) \in Nat
        /\ Cardinality(ClearedOf(r)) \in Nat
    BY SummandTypes DEF CountInv
  <2>. QED
    BY <1>2, <1>3, <1>5, <2>1
<1>. QED
  BY <1>2, <1>3, <1>6, <1>7 DEF CountInv

LEMMA ExecuteSubCountInv ==
  ASSUME Shape, OneHolder, CountInv, NEW t \in Threads, ExecuteSub(t)
  PROVE  CountInv'
<1>1. PICK r \in Queues : r = cur[t]
  BY DEF ExecuteSub, Shape, TypeOK
<1>2. /\ UNCHANGED <<jobs, cleared, to>>
      /\ jobCount'[r] = jobCount[r] - Len(taken[t]) /\ Len(taken'[t]) = 0
      /\ \A q \in Queues : q # r => jobCount'[q] = jobCount[q]
      /\ \A u \in Threads : u # t => taken'[u] = taken[u] /\ cur'[u] = cur[u]
      /\ cur'[t] = cur[t] \/ cur'[t] = None
  BY <1>1 DEF ExecuteSub, Shape, TypeOK, hist
<1>3. \A q \in Queues : PushersOf(q)' = PushersOf(q) /\ ClearedOf(q)' = ClearedOf(q)
  <2>1. pc' = [pc EXCEPT ![t] = pc'[t]] /\ pc'[t] # "push" /\ pc[t] # "push"
    BY DEF ExecuteSub, Goto, ReturnTo, Shape, TypeOK
  <2>. QED
    BY <1>2, <2>1 DEF PushersOf, ClearedOf, Shape, TypeOK
<1>4. \A u \in Threads : cur[u] = r => u = t
  BY <1>1 DEF OneHolder, Holds
<1>5. BatchLen(r) = Len(taken[t])
  BY <1>1, BatchLenFacts
<1>6. BatchLen(r)' = 0
  <2>1. CASE cur'[t] = cur[t]
    BY <1>1, <1>2, <1>4, <2>1, BatchLenNext
  <2>2. CASE cur'[t] = None
    <3>1. \A u \in Threads : cur'[u] # r
      BY <1>2, <1>4, <2>2, JobConstants
    <3>. QED
      BY <3>1 DEF BatchLen
  <2>. QED
    BY <1>2, <2>1, <2>2
<1>7. ASSUME NEW q \in Queues, q # r PROVE BatchLen(q)' = BatchLen(q)
  <2>1. \A u \in Threads : /\ cur'[u] = q <=> cur[u] = q
                           /\ cur[u] = q => u # t
    BY <1>1, <1>2, <1>7, JobConstants
  <2>2. (CHOOSE u \in Threads : cur'[u] = q) = (CHOOSE u \in Threads : cur[u] = q)
    BY <2>1
  <2>3. CASE \E u \in Threads : cur[u] = q
    <3>1. (CHOOSE u \in Threads : cur[u] = q) # t
          /\ (CHOOSE u \in Threads : cur[u] = q) \in Threads
      BY <2>1, <2>3
    <3>. QED
      BY <1>2, <2>1, <2>2, <2>3, <3>1 DEF BatchLen
  <2>4. CASE ~\E u \in Threads : cur[u] = q
    BY <2>1, <2>4 DEF BatchLen
  <2>. QED
    BY <2>3, <2>4
<1>8. jobCount'[r] = Len(jobs'[r]) + Cardinality(PushersOf(r)') + BatchLen(r)'
                     + Cardinality(ClearedOf(r)')
  <2>1. /\ jobCount[r] = Len(jobs[r]) + Cardinality(PushersOf(r)) + BatchLen(r)
                          + Cardinality(ClearedOf(r))
        /\ Len(jobs[r]) \in Nat /\ Cardinality(PushersOf(r)) \in Nat
        /\ Cardinality(ClearedOf(r)) \in Nat /\ Len(taken[t]) \in Nat
    BY SummandTypes DEF CountInv, Shape, TypeOK
  <2>. QED
    BY <1>2, <1>3, <1>5, <1>6, <2>1
<1>. QED
  BY <1>2, <1>3, <1>7, <1>8 DEF CountInv

\* A thread with no batch takes a queue nobody executes, or lets one go.
LEMMA EmptyBatchMoves ==
  ASSUME Shape, OneHolder, NEW t \in Threads, Len(taken[t]) = 0, taken' = taken,
         \A u \in Threads : u # t => cur'[u] = cur[u],
         \A q \in Queues : cur'[t] = q /\ cur[t] # q => \A u \in Threads : cur[u] # q
  PROVE  \A q \in Queues : BatchLen(q)' = BatchLen(q)
<1>. SUFFICES ASSUME NEW q \in Queues PROVE BatchLen(q)' = BatchLen(q)
  OBVIOUS
<1>1. CASE cur'[t] = cur[t]
  <2>1. \A u \in Threads : cur'[u] = cur[u]
    BY <1>1
  <2>. QED
    BY <2>1 DEF BatchLen
<1>2. CASE cur'[t] = q /\ cur[t] # q
  <2>1. \A u \in Threads : cur[u] # q
    BY <1>2
  <2>2. BatchLen(q)' = Len(taken'[t])
    BY <1>2, <2>1, BatchLenNext
  <2>. QED
    BY <2>1, <2>2 DEF BatchLen
<1>3. CASE cur'[t] # q /\ cur[t] = q
  <2>1. BatchLen(q) = 0
    BY <1>3, BatchLenFacts
  <2>2. \A u \in Threads : cur'[u] # q
    BY <1>3 DEF OneHolder, Holds
  <2>. QED
    BY <2>1, <2>2 DEF BatchLen
<1>4. CASE cur'[t] # q /\ cur[t] # q
  <2>1. \A u \in Threads : cur'[u] = q <=> cur[u] = q
    BY <1>4
  <2>. QED
    BY <2>1 DEF BatchLen
<1>. QED
  BY <1>1, <1>2, <1>3, <1>4

LEMMA ExecuteTimeCountInv ==
  ASSUME Shape, OneHolder, CountInv, NEW t \in Threads, ExecuteTime(t)
  PROVE  CountInv'
<1>1. /\ UNCHANGED <<jobs, jobCount, cleared, taken>> /\ Len(taken[t]) = 0
      /\ \A u \in Threads : u # t => cur'[u] = cur[u] /\ to'[u] = to[u] /\ pc'[u] = pc[u]
      /\ cur'[t] = cur[t] \/ cur'[t] = None
      /\ pc[t] # "push" /\ pc'[t] # "push"
  BY DEF ExecuteTime, Goto, Shape, TypeOK, InHand, shared, hist
<1>2. \A q \in Queues : BatchLen(q)' = BatchLen(q)
  BY <1>1, JobConstants, EmptyBatchMoves
<1>3. \A q \in Queues : PushersOf(q)' = PushersOf(q)
  BY <1>1 DEF PushersOf
<1>. QED
  BY <1>1, <1>2, <1>3, FrameCountInv

LEMMA GlobalPopCountInv ==
  ASSUME Shape, OneHolder, CountInv, NEW t \in Threads, GlobalPop(t)
  PROVE  CountInv'
<1>1. /\ UNCHANGED <<jobs, jobCount, cleared, taken, to>> /\ Len(taken[t]) = 0 /\ cur[t] = None
      /\ \A u \in Threads : u # t => cur'[u] = cur[u] /\ pc'[u] = pc[u]
      /\ pc[t] # "push" /\ pc'[t] # "push"
  BY DEF GlobalPop, Goto, Shape, TypeOK, InHand, hist
<1>2. \A q \in Queues : cur'[t] = q => InGlobal(q)
  <2>1. CASE global = << >>
    BY <1>1, <2>1, JobConstants DEF GlobalPop
  <2>2. CASE global # << >>
    <3>1. cur'[t] = global[1] /\ 1 \in 1 .. Len(global)
      BY <2>2 DEF GlobalPop, Shape, TypeOK
    <3>. QED
      BY <3>1 DEF InGlobal
  <2>. QED
    BY <2>1, <2>2
<1>3. \A q \in Queues : cur'[t] = q => \A u \in Threads : cur[u] # q
  BY <1>2 DEF OneHolder, Holds
<1>4. \A q \in Queues : BatchLen(q)' = BatchLen(q)
  BY <1>1, <1>3, EmptyBatchMoves
<1>5. \A q \in Queues : PushersOf(q)' = PushersOf(q)
  BY <1>1 DEF PushersOf
<1>. QED
  BY <1>1, <1>4, <1>5, FrameCountInv

\* The positions of a sequence without repetitions are as many as its elements.
LEMMA ElementsOfInjective ==
  ASSUME NEW S, NEW s \in Seq(S),
         \A i, k \in 1 .. Len(s) : s[i] = s[k] => i = k
  PROVE  /\ IsFiniteSet({s[i] : i \in 1 .. Len(s)})
         /\ Cardinality({s[i] : i \in 1 .. Len(s)}) = Len(s)
<1>. DEFINE T == {s[i] : i \in 1 .. Len(s)}
<1>. DEFINE f == [i \in 1 .. Len(s) |-> s[i]]
<1>1. Len(s) \in Nat
  OBVIOUS
<1>2. f \in Bijection(1 .. Len(s), T)
  BY DEF Bijection, Injection, Surjection, IsInjective
<1>3. ExistsBijection(1 .. Len(s), T)
  BY <1>2 DEF ExistsBijection
<1>4. IsFiniteSet(1 .. Len(s)) /\ Cardinality(1 .. Len(s)) = Len(s)
  <2>1. 1 \in Int /\ Len(s) \in Int
    BY <1>1
  <2>2. /\ IsFiniteSet(1 .. Len(s))
        /\ Cardinality(1 .. Len(s)) = IF 1 > Len(s) THEN 0 ELSE Len(s) - 1 + 1
    BY <2>1, FS_Interval
  <2>. QED
    BY <1>1, <2>2
<1>. QED
  BY <1>3, <1>4, FS_Bijection

\* The jobs dropped were not dropped before, and are of this queue.
LEMMA ClearJobCountInv ==
  ASSUME Shape, OnePlace, OneHolder, CountInv, NEW t \in Threads, ClearJob(t)
  PROVE  CountInv'
<1>1. PICK r \in Queues : r = to[t]
  BY DEF ClearJob, Shape, TypeOK
<1>2. /\ UNCHANGED <<jobCount, cur, taken>> /\ Len(jobs'[r]) = 0
      /\ \A q \in Queues : q # r => jobs'[q] = jobs[q]
      /\ \A u \in Threads : u # t => to'[u] = to[u] /\ pc'[u] = pc[u]
      /\ pc[t] # "push" /\ pc'[t] # "push"
      /\ jobs[r] \in Seq(Jobs) /\ DOMAIN jobs[r] = 1 .. Len(jobs[r])
  BY <1>1 DEF ClearJob, Goto, Shape, TypeOK
<1>3. \A q \in Queues : PushersOf(q)' = PushersOf(q) /\ BatchLen(q)' = BatchLen(q)
  BY <1>2 DEF PushersOf, BatchLen
<1>. DEFINE D == {jobs[r][i] : i \in 1 .. Len(jobs[r])}
<1>4. cleared' = cleared \cup D
  BY <1>1, <1>2 DEF ClearJob
<1>5. \A j \in D : Owner[j] = r /\ j \notin cleared
  BY DEF OnePlace, QueuedOnce
<1>6. IsFiniteSet(D) /\ Cardinality(D) = Len(jobs[r])
  <2>1. \A i, k \in 1 .. Len(jobs[r]) : jobs[r][i] = jobs[r][k] => i = k
    BY DEF OnePlace, QueuedOnce
  <2>. QED
    BY <1>2, <2>1, ElementsOfInjective
<1>. HIDE DEF D
<1>7. ClearedOf(r)' = ClearedOf(r) \cup D /\ ClearedOf(r) \cap D = {}
  BY <1>4, <1>5 DEF ClearedOf
<1>8. \A q \in Queues : q # r => ClearedOf(q)' = ClearedOf(q)
  BY <1>4, <1>5 DEF ClearedOf
<1>9. Cardinality(ClearedOf(r)') = Cardinality(ClearedOf(r)) + Len(jobs[r])
  <2>1. Cardinality(ClearedOf(r) \cup D)
          = Cardinality(ClearedOf(r)) + Cardinality(D) - Cardinality(ClearedOf(r) \cap D)
    BY <1>6, SummandTypes, FS_Union
  <2>2. Cardinality(ClearedOf(r) \cap D) = 0
    BY <1>7, FS_EmptySet
  <2>. QED
    BY <1>6, <1>7, <2>1, <2>2, SummandTypes
<1>10. jobCount'[r] = Len(jobs'[r]) + Cardinality(PushersOf(r)') + BatchLen(r)'
                      + Cardinality(ClearedOf(r)')
  <2>1. /\ jobCount[r] = Len(jobs[r]) + Cardinality(PushersOf(r)) + BatchLen(r)
                          + Cardinality(ClearedOf(r))
        /\ Len(jobs[r]) \in Nat /\ Cardinality(PushersOf(r)) \in Nat /\ BatchLen(r) \in Nat
        /\ Cardinality(ClearedOf(r)) \in Nat
    BY SummandTypes, BatchLenFacts DEF CountInv
  <2>. QED
    BY <1>2, <1>3, <1>9, <2>1
<1>. QED
  BY <1>2, <1>3, <1>8, <1>10 DEF CountInv

-----------------------------------------------------------------------------
(* The inductive invariant.                                                 *)

IInv == Shape /\ OnePlace /\ BodiesPost /\ OneHolder /\ CountInv

LEMMA InitIInv == Init => IInv
BY InitShape, InitOnePlace, InitBodiesPost, InitOneHolder, InitCountInv DEF IInv

LEMMA PushCallPreserves ==
  ASSUME IInv, NEW t \in Threads, NEW j \in Jobs, DoAsync(t, j) \/ DistributePush(t, j)
  PROVE  IInv'
<1>. USE DEF IInv
<1>1. PICK only \in BOOLEAN : PushCall(t, j, only)
  BY DEF DoAsync, DistributePush
<1>2. pc[t] = "idle" /\ j \notin posted
  BY DEF DoAsync, DistributePush
<1>3. Shape' /\ BodiesPost'
  BY DoAsyncShape, DoAsyncBodiesPost
<1>4. OnePlace'
  BY <1>1, <1>2, PushCallOnePlace
<1>5. OneHolder' /\ CountInv'
  BY <1>1, <1>2, PushCallOneHolder, PushCallCountInv
<1>. QED
  BY <1>3, <1>4, <1>5

LEMMA BodyDoAsyncPreserves ==
  ASSUME IInv, NEW t \in Threads, BodyDoAsync(t)
  PROVE  IInv'
<1>. USE DEF IInv
<1>1. PICK j \in Jobs : j \notin posted /\ PushCall(t, j, FALSE)
  BY BodyDoAsyncFacts
<1>2. pc[t] = "exec_run"
  BY DEF BodyDoAsync
<1>3. Shape' /\ BodiesPost'
  BY BodyDoAsyncShape, BodyDoAsyncFacts
<1>4. OnePlace'
  BY <1>1, <1>2, PushCallOnePlace
<1>5. OneHolder' /\ CountInv'
  BY <1>1, <1>2, PushCallOneHolder, PushCallCountInv
<1>. QED
  BY <1>3, <1>4, <1>5

LEMMA ExecuteSubPreserves ==
  ASSUME IInv, NEW t \in Threads, ExecuteSub(t)
  PROVE  IInv'
<1>. USE DEF IInv
<1>1. cur[t] \in Queues
  BY DEF ExecuteSub, Shape, TypeOK
<1>2. Len(taken[t]) <= jobCount[cur[t]]
  BY <1>1, CountCoversBatch
<1>. QED
  BY <1>2, ExecuteSubShape, ExecuteSubOnePlace, ExecuteSubBodiesPost, ExecuteSubOneHolder,
     ExecuteSubCountInv

\* A step that touches neither jobs nor counts nor who holds a queue.
LEMMA QuietPreserves ==
  ASSUME IInv, Shape', UNCHANGED <<jobs, jobCount, global, cur, taken, ran, todo, item, won,
                                   posted, cleared>>,
         NEW t, \A u \in Threads : u # t => pc'[u] = pc[u] /\ to'[u] = to[u],
         \/ pc'[t] = pc[t] /\ to'[t] = to[t]
         \/ pc[t] \notin {"push", "global_push"} /\ pc'[t] \notin {"push", "global_push"}
  PROVE  IInv'
<1>. USE DEF IInv
<1>1. Pushing' = Pushing
  BY DEF Pushing
<1>2. OnePlace'
  BY <1>1, FrameOnePlace
<1>3. BodiesPost'
  BY <1>1, FrameBodiesPost
<1>4. \A q \in Queues : \A u \in Threads : Decides(u, q)' <=> Decides(u, q)
  BY DEF Decides
<1>5. OneHolder'
  BY <1>4, FrameHolds
<1>6. \A q \in Queues : PushersOf(q)' = PushersOf(q) /\ BatchLen(q)' = BatchLen(q)
  BY DEF PushersOf, BatchLen
<1>7. CountInv'
  BY <1>6, FrameCountInv
<1>. QED
  BY <1>2, <1>3, <1>5, <1>7

LEMMA QuietSteps ==
  ASSUME IInv, NEW t \in Threads,
         \/ EnterScope(t) \/ StartWork(t) \/ WorkTime(t)
         \/ \E q \in Queues : ClearCall(t, q)
  PROVE  IInv'
<1>. USE DEF IInv
<1>1. CASE EnterScope(t)
  <2>1. UNCHANGED <<shared, cur, pc, locals, hist>>
    BY <1>1 DEF EnterScope
  <2>. QED
    BY <1>1, <2>1, EnterScopeShape, QuietPreserves DEF shared, locals, hist
<1>2. CASE StartWork(t)
  <2>1. /\ UNCHANGED <<shared, cur, item, to, won, taken, ran, todo, hist>>
        /\ pc[t] = "idle" /\ pc'[t] = "work" /\ \A u \in Threads : u # t => pc'[u] = pc[u]
    BY <1>2 DEF StartWork, Goto, Shape, TypeOK
  <2>. QED
    BY <1>2, <2>1, StartWorkShape, QuietPreserves DEF shared, hist
<1>3. CASE WorkTime(t)
  <2>1. /\ UNCHANGED <<shared, cur, item, to, won, taken, ran, todo, hist>>
        /\ pc[t] = "work" /\ pc'[t] \in {"idle", "global_pop"}
        /\ \A u \in Threads : u # t => pc'[u] = pc[u]
    BY <1>3 DEF WorkTime, Goto, Shape, TypeOK
  <2>. QED
    BY <1>3, <2>1, WorkTimeShape, QuietPreserves DEF shared, hist
<1>4. ASSUME NEW q \in Queues, ClearCall(t, q) PROVE IInv'
  <2>1. /\ UNCHANGED <<shared, cur, item, won, taken, ran, todo, hist>>
        /\ pc[t] = "idle" /\ pc'[t] = "clear"
        /\ \A u \in Threads : u # t => pc'[u] = pc[u] /\ to'[u] = to[u]
    BY <1>4 DEF ClearCall, Goto, Shape, TypeOK
  <2>. QED
    BY <1>4, <2>1, ClearCallShape, QuietPreserves DEF shared, hist
<1>. QED
  BY <1>1, <1>2, <1>3, <1>4

LEMMA PushPreserves ==
  ASSUME IInv, NEW t \in Threads, Push(t)
  PROVE  IInv'
BY PushShape, PushOnePlace, PushBodiesPost, PushOneHolder, PushCountInv DEF IInv

LEMMA GlobalPushPreserves ==
  ASSUME IInv, NEW t \in Threads, GlobalPush(t)
  PROVE  IInv'
<1>. USE DEF IInv
<1>1. /\ UNCHANGED <<jobs, jobCount, cur, taken, ran, todo, item, posted, cleared>>
      /\ pc[t] = "global_push" /\ pc'[t] # "push"
      /\ \A u \in Threads : u # t => pc'[u] = pc[u] /\ to'[u] = to[u]
  BY DEF GlobalPush, Goto, ReturnTo, Shape, TypeOK, hist
<1>2. Pushing' = Pushing
  BY <1>1 DEF Pushing
<1>3. OnePlace'
  BY <1>1, <1>2, FrameOnePlace
<1>4. BodiesPost'
  BY <1>1, <1>2, FrameBodiesPost
<1>5. \A q \in Queues : PushersOf(q)' = PushersOf(q) /\ BatchLen(q)' = BatchLen(q)
  BY <1>1 DEF PushersOf, BatchLen
<1>6. CountInv'
  BY <1>1, <1>5, FrameCountInv
<1>. QED
  BY <1>3, <1>4, <1>6, GlobalPushShape, GlobalPushOneHolder

LEMMA ExecutePopAllPreserves ==
  ASSUME IInv, NEW t \in Threads, ExecutePopAll(t)
  PROVE  IInv'
<1>. USE DEF IInv
<1>1. /\ UNCHANGED <<jobCount, global, cur, to, won>>
      /\ pc[t] = "exec_popall" /\ pc'[t] = "exec_run"
      /\ \A u \in Threads : u # t => pc'[u] = pc[u]
  BY DEF ExecutePopAll, Goto, Shape, TypeOK
<1>2. \A q \in Queues : \A u \in Threads : Decides(u, q)' <=> Decides(u, q)
  BY <1>1 DEF Decides
<1>3. OneHolder'
  BY <1>1, <1>2, FrameHolds
<1>. QED
  BY <1>3, ExecutePopAllShape, ExecutePopAllOnePlace, ExecutePopAllBodiesPost,
     ExecutePopAllCountInv

LEMMA ExecuteJobPreserves ==
  ASSUME IInv, NEW t \in Threads, ExecuteJob(t)
  PROVE  IInv'
<1>. USE DEF IInv
<1>1. UNCHANGED <<jobs, jobCount, global, cur, to, won, pc, taken, item, posted, cleared>>
  BY DEF ExecuteJob, shared, hist
<1>2. OnePlace'
  BY <1>1, FrameOnePlace DEF Pushing
<1>3. \A q \in Queues : \A u \in Threads : Decides(u, q)' <=> Decides(u, q)
  BY <1>1 DEF Decides
<1>4. OneHolder'
  BY <1>1, <1>3, FrameHolds
<1>5. CountInv'
  BY <1>1, FrameCountInv DEF PushersOf, BatchLen
<1>. QED
  BY <1>2, <1>4, <1>5, ExecuteJobShape, ExecuteJobBodiesPost

LEMMA ExecuteTimePreserves ==
  ASSUME IInv, NEW t \in Threads, ExecuteTime(t)
  PROVE  IInv'
<1>. USE DEF IInv
<1>1. /\ UNCHANGED <<jobs, taken, ran, todo, item, posted, cleared>>
      /\ Len(taken[t]) = 0 /\ pc[t] = "exec_time" /\ pc'[t] # "push"
      /\ \A u \in Threads : u # t => pc'[u] = pc[u] /\ to'[u] = to[u] /\ cur'[u] = cur[u]
  BY DEF ExecuteTime, Goto, Shape, TypeOK, InHand, shared, hist
<1>2. Pushing' = Pushing
  BY <1>1 DEF Pushing
<1>3. OnePlace'
  BY <1>1, <1>2, FrameOnePlace
<1>4. BodiesPost'
  BY <1>1, <1>2, FrameBodiesPost
<1>. QED
  BY <1>3, <1>4, ExecuteTimeShape, ExecuteTimeOneHolder, ExecuteTimeCountInv

LEMMA ClearJobPreserves ==
  ASSUME IInv, NEW t \in Threads, ClearJob(t)
  PROVE  IInv'
<1>. USE DEF IInv
<1>1. /\ UNCHANGED <<jobCount, global, cur, won>>
      /\ pc[t] = "clear" /\ pc'[t] = "idle"
      /\ \A u \in Threads : u # t => pc'[u] = pc[u] /\ to'[u] = to[u]
  BY DEF ClearJob, Goto, Shape, TypeOK
<1>2. \A q \in Queues : \A u \in Threads : Decides(u, q)' <=> Decides(u, q)
  BY <1>1 DEF Decides
<1>3. OneHolder'
  BY <1>1, <1>2, FrameHolds
<1>. QED
  BY <1>3, ClearJobShape, ClearJobOnePlace, ClearJobBodiesPost, ClearJobCountInv

LEMMA GlobalPopPreserves ==
  ASSUME IInv, NEW t \in Threads, GlobalPop(t)
  PROVE  IInv'
<1>. USE DEF IInv
<1>1. /\ UNCHANGED <<jobs, taken, ran, todo, item, to, posted, cleared>>
      /\ Len(taken[t]) = 0 /\ pc[t] = "global_pop" /\ pc'[t] # "push"
      /\ \A u \in Threads : u # t => pc'[u] = pc[u] /\ cur'[u] = cur[u]
  BY DEF GlobalPop, Goto, Shape, TypeOK, InHand, hist
<1>2. Pushing' = Pushing
  BY <1>1 DEF Pushing
<1>3. OnePlace'
  BY <1>1, <1>2, FrameOnePlace
<1>4. BodiesPost'
  BY <1>1, <1>2, FrameBodiesPost
<1>. QED
  BY <1>3, <1>4, GlobalPopShape, GlobalPopOneHolder, GlobalPopCountInv

LEMMA ClockOrStutterPreserves == IInv /\ (Tick \/ UNCHANGED vars) => IInv'
<1>. SUFFICES ASSUME IInv, Tick \/ UNCHANGED vars PROVE IInv'
  OBVIOUS
<1>1. UNCHANGED <<shared, cur, pc, inScope, locals, raced, hist>>
  BY DEF Tick, vars
<1>2. Shape'
  <2>1. CASE Tick
    BY <2>1, TickShape DEF IInv
  <2>2. CASE UNCHANGED vars
    BY <2>2 DEF vars, shared, clocks, locals, hist, IInv, Shape, TypeOK, InHand
  <2>. QED
    BY <2>1, <2>2
<1>3. \A u : pc'[u] = pc[u] /\ to'[u] = to[u]
  BY <1>1 DEF locals
<1>. QED
  BY <1>1, <1>2, <1>3, QuietPreserves DEF shared, locals, hist

LEMMA NextPreserves == IInv /\ [Next]_vars => IInv'
<1>. SUFFICES ASSUME IInv, [Next]_vars PROVE IInv'
  OBVIOUS
<1>1. CASE Tick \/ UNCHANGED vars
  BY <1>1, ClockOrStutterPreserves
<1>2. ASSUME NEW t \in Threads, Call(t) PROVE IInv'
  BY <1>2, PushCallPreserves, QuietSteps DEF Call
<1>3. ASSUME NEW t \in Threads, Run(t) \/ StartWork(t) PROVE IInv'
  BY <1>3, BodyDoAsyncPreserves, PushPreserves, GlobalPushPreserves, ExecutePopAllPreserves,
     ExecuteJobPreserves, ExecuteSubPreserves, ExecuteTimePreserves, ClearJobPreserves,
     GlobalPopPreserves, QuietSteps
  DEF Run
<1>. QED
  BY <1>1, <1>2, <1>3 DEF Next

LEMMA InvariantHolds == Spec => []IInv
BY InitIInv, NextPreserves, PTL DEF Spec

-----------------------------------------------------------------------------
(* What follows.                                                            *)

\* The job system keeps its type: no jobCount goes below 0, and a thread that
\* pushes, hands over or executes has a queue to do it with.
THEOREM TypeCorrect == Spec => []TypeOK
<1>1. IInv => TypeOK
  BY DEF IInv, Shape
<1>. QED
  BY <1>1, InvariantHolds, PTL

\* Runners, in the terms of the invariant.
LEMMA RunnersMember ==
  ASSUME NEW q \in Queues, NEW r
  PROVE  r \in Runners(q) <=>
            \/ \E t \in Threads : r = <<"execute", t>> /\ cur[t] = q
            \/ \E t \in Threads : r = <<"won", t>> /\ pc[t] = "push" /\ to[t] = q /\ won[t]
            \/ \E t \in Threads : r = <<"hand", t>> /\ pc[t] = "global_push" /\ to[t] = q
            \/ \E i \in DOMAIN global : r = <<"global", i>> /\ global[i] = q
BY Zenon DEF Runners

\* A queue with work has one runner and a queue without has none, whatever
\* threads post, execute, hand over and clear, and whichever lock WriteLockGuard
\* acquires: jobCount alone decides.
THEOREM OneRunnerTheorem == Spec => []OneRunner
<1>1. ASSUME IInv, NEW q \in Queues
      PROVE  Cardinality(Runners(q)) = (IF jobCount[q] > 0 THEN 1 ELSE 0)
  <2>. USE DEF IInv
  <2>1. DOMAIN global = 1 .. Len(global)
    BY <1>1 DEF Shape, TypeOK
  <2>2. ASSUME NEW r \in Runners(q), NEW x \in Runners(q) PROVE r = x
    <3>1. \A t, u \in Threads : Holds(t, q) /\ Holds(u, q) => t = u
      BY <1>1 DEF OneHolder
    <3>2. \A t \in Threads : (Holds(t, q) => ~InGlobal(q)) /\ ~(cur[t] = q /\ Decides(t, q))
      BY <1>1 DEF OneHolder
    <3>3. \A i, k \in DOMAIN global : global[i] = q /\ global[k] = q => i = k
      BY <1>1, <2>1 DEF OneHolder
    <3>4. CASE \E i \in DOMAIN global : r = <<"global", i>> /\ global[i] = q
      <4>1. InGlobal(q)
        BY <2>1, <3>4 DEF InGlobal
      <4>2. \A t \in Threads : ~Holds(t, q)
        BY <3>2, <4>1
      <4>3. \E i \in DOMAIN global : x = <<"global", i>> /\ global[i] = q
        BY <4>2, RunnersMember, Zenon DEF Holds, Decides
      <4>. QED
        BY <3>3, <3>4, <4>3
    <3>5. CASE ~\E i \in DOMAIN global : r = <<"global", i>> /\ global[i] = q
      <4>1. PICK t \in Threads :
               \/ r = <<"execute", t>> /\ cur[t] = q
               \/ r = <<"won", t>> /\ pc[t] = "push" /\ to[t] = q /\ won[t]
               \/ r = <<"hand", t>> /\ pc[t] = "global_push" /\ to[t] = q
        BY <3>5, RunnersMember, Zenon
      <4>2. Holds(t, q) /\ ~InGlobal(q)
        BY <3>2, <4>1 DEF Holds, Decides
      <4>3. PICK u \in Threads :
               \/ x = <<"execute", u>> /\ cur[u] = q
               \/ x = <<"won", u>> /\ pc[u] = "push" /\ to[u] = q /\ won[u]
               \/ x = <<"hand", u>> /\ pc[u] = "global_push" /\ to[u] = q
        BY <2>1, <4>2, RunnersMember, Zenon DEF InGlobal
      <4>4. u = t
        BY <3>1, <4>2, <4>3 DEF Holds, Decides
      <4>. QED
        BY <3>2, <4>1, <4>3, <4>4 DEF Decides
    <3>. QED
      BY <3>4, <3>5
  <2>3. jobCount[q] > 0 <=> Runners(q) # {}
    <3>1. ((\E t \in Threads : Holds(t, q)) \/ InGlobal(q)) <=> \E r : r \in Runners(q)
      <4>1. ASSUME NEW t \in Threads, Holds(t, q) PROVE \E r : r \in Runners(q)
        <5>1. \E w \in {"execute", "won", "hand"} : <<w, t>> \in Runners(q)
          BY <4>1, RunnersMember DEF Holds, Decides
        <5>. QED
          BY <5>1
      <4>2. ASSUME InGlobal(q) PROVE \E r : r \in Runners(q)
        <5>1. PICK i \in DOMAIN global : global[i] = q
          BY <2>1, <4>2 DEF InGlobal
        <5>2. <<"global", i>> \in Runners(q)
          BY <5>1, RunnersMember
        <5>. QED
          BY <5>2
      <4>3. ASSUME NEW r \in Runners(q)
            PROVE  (\E t \in Threads : Holds(t, q)) \/ InGlobal(q)
        BY <2>1, RunnersMember, Zenon DEF Holds, Decides, InGlobal
      <4>. QED
        BY <4>1, <4>2, <4>3
    <3>. QED
      BY <1>1, <3>1 DEF OneHolder
  <2>4. CASE jobCount[q] > 0
    <3>1. PICK r : Runners(q) = {r}
      BY <2>2, <2>3, <2>4
    <3>. QED
      BY <2>4, <3>1, FS_Singleton
  <2>5. CASE ~(jobCount[q] > 0)
    BY <2>3, <2>5, FS_EmptySet
  <2>. QED
    BY <2>4, <2>5
<1>2. IInv => OneRunner
  BY <1>1 DEF OneRunner
<1>. QED
  BY <1>2, InvariantHolds, PTL

\* The batch as the set of its positions, with the thread that has it.
LEMMA BatchPositions ==
  ASSUME IInv, NEW q \in Queues
  PROVE  Cardinality({k \in Threads \X (1 .. Cardinality(Jobs)) :
                        cur[k[1]] = q /\ k[2] <= Len(taken[k[1]])}) = BatchLen(q)
<1>. DEFINE B == {k \in Threads \X (1 .. Cardinality(Jobs)) :
                     cur[k[1]] = q /\ k[2] <= Len(taken[k[1]])}
<1>. USE DEF IInv
<1>1. CASE \A t \in Threads : cur[t] # q
  <2>1. B = {}
    BY <1>1
  <2>2. BatchLen(q) = 0
    BY <1>1, BatchLenFacts
  <2>. QED
    BY <2>1, <2>2, FS_EmptySet
<1>2. ASSUME NEW t \in Threads, cur[t] = q PROVE Cardinality(B) = BatchLen(q)
  <2>. DEFINE n == Len(taken[t])
  <2>1. taken[t] \in Seq(Jobs) /\ n \in Nat
    BY DEF Shape, TypeOK
  <2>2. BatchLen(q) = n
    BY <1>2, BatchLenFacts
  <2>3. \A u \in Threads : cur[u] = q => u = t
    BY <1>2 DEF OneHolder, Holds
  <2>4. n <= Cardinality(Jobs) /\ Cardinality(Jobs) \in Nat
    <3>1. \A i, k \in 1 .. n : taken[t][i] = taken[t][k] => i = k
      BY DEF OnePlace, TakenOnce
    <3>2. Cardinality({taken[t][i] : i \in 1 .. n}) = n
      BY <2>1, <3>1, ElementsOfInjective
    <3>3. {taken[t][i] : i \in 1 .. n} \in SUBSET Jobs
      BY <2>1
    <3>. QED
      BY <3>2, <3>3, JobConstants, FS_Subset, FS_CardinalityType
  <2>. HIDE DEF n
  <2>5. n = Len(taken[t])
    BY DEF n
  <2>6. B = {<<t, i>> : i \in 1 .. n}
    BY <1>2, <2>1, <2>3, <2>4, <2>5
  <2>. DEFINE f == [i \in 1 .. n |-> <<t, i>>]
  <2>7. f \in Bijection(1 .. n, B)
    BY <2>6 DEF Bijection, Injection, Surjection, IsInjective
  <2>8. ExistsBijection(1 .. n, B)
    BY <2>7 DEF ExistsBijection
  <2>9. IsFiniteSet(1 .. n) /\ Cardinality(1 .. n) = n
    <3>1. /\ IsFiniteSet(1 .. n)
          /\ Cardinality(1 .. n) = IF 1 > n THEN 0 ELSE n - 1 + 1
      BY <2>1, FS_Interval
    <3>. QED
      BY <2>1, <3>1
  <2>. QED
    BY <2>2, <2>8, <2>9, FS_Bijection
<1>. QED
  BY <1>1, <1>2

\* jobCount is the number of jobs pushed, or about to be, whose batch is not
\* finished, and those ClearJob dropped.
THEOREM CountTheorem == Spec => []CountMatchesJobs
<1>1. ASSUME IInv PROVE CountMatchesJobs
  BY <1>1, BatchPositions DEF IInv, CountInv, CountMatchesJobs, PushersOf, ClearedOf
<1>. QED
  BY <1>1, InvariantHolds, PTL

-----------------------------------------------------------------------------
(* The job system implements the serial executor.                           *)

\* A job joined to the front or the end of a sequence of sequences of jobs.
LEMMA JobsConcat ==
  ASSUME NEW s \in Seq(Jobs), NEW u \in Seq(Jobs), NEW v \in Seq(Jobs)
  PROVE  (s \o u) \o v = s \o (u \o v)
BY ConcatAssociative

\* What is left of the batch of the one thread that executes q, now and after a
\* step; and when there is none.
LEMMA BatchOf ==
  ASSUME NEW q, NEW t \in Threads, cur[t] = q, \A u \in Threads : cur[u] = q => u = t
  PROVE  Batch(q) = SubSeq(taken[t], ran[t] + 1, Len(taken[t]))
<1>1. (CHOOSE u \in Threads : cur[u] = q) = t
  OBVIOUS
<1>. QED
  BY <1>1 DEF Batch

LEMMA BatchOfNext ==
  ASSUME NEW q, NEW t \in Threads, cur'[t] = q, \A u \in Threads : cur'[u] = q => u = t
  PROVE  Batch(q)' = SubSeq(taken'[t], ran'[t] + 1, Len(taken'[t]))
<1>1. (CHOOSE u \in Threads : cur'[u] = q) = t
  OBVIOUS
<1>. QED
  BY <1>1 DEF Batch

LEMMA NothingTaken ==
  ASSUME NEW n \in Nat
  PROVE  SubSeq(<< >>, n + 1, Len(<< >>)) = << >>
<1>1. Len(<< >>) = 0 /\ n + 1 \in Int /\ 0 \in Int /\ 0 < n + 1
  OBVIOUS
<1>. QED
  BY <1>1, SubSeqEmpty

\* The part of a batch that is left is a sequence of jobs.
LEMMA BatchType ==
  ASSUME IInv, NEW q \in Queues
  PROVE  Batch(q) \in Seq(Jobs) /\ jobs[q] \in Seq(Jobs)
<1>. USE DEF IInv
<1>1. ASSUME NEW t \in Threads, cur[t] = q PROVE Batch(q) \in Seq(Jobs)
  <2>1. taken[t] \in Seq(Jobs) /\ ran[t] \in Nat /\ Len(taken[t]) \in Nat
    BY DEF Shape, TypeOK
  <2>2. \A i \in ran[t] + 1 .. Len(taken[t]) : taken[t][i] \in Jobs
    BY <2>1
  <2>3. SubSeq(taken[t], ran[t] + 1, Len(taken[t])) \in Seq(Jobs)
    <3>1. ran[t] + 1 \in Int /\ Len(taken[t]) \in Int
      BY <2>1
    <3>. QED
      BY <2>2, <3>1, SubSeqProperties
  <2>4. \A u \in Threads : cur[u] = q => u = t
    BY <1>1 DEF OneHolder, Holds
  <2>. QED
    BY <1>1, <2>3, <2>4, BatchOf
<1>2. CASE \A t \in Threads : cur[t] # q
  <2>1. Batch(q) = << >>
    BY <1>2 DEF Batch
  <2>2. << >> \in Seq(Jobs)
    OBVIOUS
  <2>. QED
    BY <2>1, <2>2 DEF Shape, TypeOK
<1>. QED
  BY <1>1, <1>2 DEF Shape, TypeOK

\* A thread with no batch takes a queue nobody executes, or lets one go: nothing
\* waits or runs differently.
LEMMA EmptyBatchExecutor ==
  ASSUME IInv, NEW t \in Threads, taken[t] = << >>, ran[t] = 0,
         UNCHANGED <<taken, ran>>,
         \A u \in Threads : u # t => cur'[u] = cur[u],
         \A q \in Queues : cur'[t] = q /\ cur[t] # q => \A u \in Threads : cur[u] # q
  PROVE  (\A q \in Queues : Batch(q)' = Batch(q)) /\ Running' = Running
<1>. USE DEF IInv
<1>1. SubSeq(taken[t], ran[t] + 1, Len(taken[t])) = << >>
  BY NothingTaken
<1>2. ASSUME NEW q \in Queues PROVE Batch(q)' = Batch(q)
  <2>1. CASE cur'[t] = cur[t]
    <3>1. \A u \in Threads : cur'[u] = cur[u]
      BY <2>1
    <3>. QED
      BY <3>1 DEF Batch
  <2>2. CASE cur'[t] = q /\ cur[t] # q
    <3>1. \A u \in Threads : cur[u] # q
      BY <2>2
    <3>2. Batch(q) = << >>
      BY <3>1 DEF Batch
    <3>3. \A u \in Threads : cur'[u] = q => u = t
      BY <3>1
    <3>4. Batch(q)' = << >>
      BY <1>1, <2>2, <3>3, BatchOfNext
    <3>. QED
      BY <3>2, <3>4
  <2>3. CASE cur'[t] # q /\ cur[t] = q
    <3>1. \A u \in Threads : cur[u] = q => u = t
      BY <2>3 DEF OneHolder, Holds
    <3>2. Batch(q) = << >>
      BY <1>1, <2>3, <3>1, BatchOf
    <3>3. \A u \in Threads : cur'[u] # q
      BY <2>3, <3>1
    <3>. QED
      BY <3>2, <3>3 DEF Batch
  <2>4. CASE cur'[t] # q /\ cur[t] # q
    <3>1. \A u \in Threads : cur'[u] = q <=> cur[u] = q
      BY <2>4
    <3>. QED
      BY <3>1 DEF Batch
  <2>. QED
    BY <2>1, <2>2, <2>3, <2>4
<1>3. Running' = Running
  <2>1. ASSUME NEW q \in Queues
        PROVE  {u \in Threads : cur'[u] = q /\ ran'[u] > 0}
                 = {u \in Threads : cur[u] = q /\ ran[u] > 0}
    OBVIOUS
  <2>. QED
    BY <2>1 DEF Running
<1>. QED
  BY <1>2, <1>3

\* A step that enters, starts, ends and drops nothing stutters.
LEMMA ExecutorStutters ==
  ASSUME UNCHANGED <<jobs, posted, item, cleared>>, Pushing' = Pushing,
         \A q \in Queues : Batch(q)' = Batch(q), Running' = Running
  PROVE  UNCHANGED Executor!exec
<1>1. Entered' = Entered
  BY DEF Entered, Pushing
<1>2. Waiting' = Waiting
  BY DEF Waiting
<1>. QED
  BY <1>1, <1>2 DEF Executor!exec

LEMMA SameBatchAndRunning ==
  ASSUME UNCHANGED <<cur, taken, ran>>
  PROVE  (\A q \in Queues : Batch(q)' = Batch(q)) /\ Running' = Running
BY DEF Batch, Running

\* A posted job waits from the moment it is in its queue.
LEMMA PushCallExecutor ==
  ASSUME IInv, NEW t \in Threads, NEW j \in Jobs, j \notin posted, NEW only,
         PushCall(t, j, only), pc[t] # "push"
  PROVE  UNCHANGED Executor!exec
<1>. USE DEF IInv
<1>1. /\ UNCHANGED <<jobs, cur, taken, ran, cleared>> /\ posted' = posted \cup {j}
      /\ item'[t] = j /\ \A u \in Threads : u # t => item'[u] = item[u]
  BY DEF PushCall, Shape, TypeOK
<1>2. Pushing' = Pushing \cup {t} /\ t \notin Pushing /\ Pushing \subseteq Threads
  BY DEF PushCall, Goto, Pushing, Shape, TypeOK
<1>3. {item'[u] : u \in Pushing'} = {item[u] : u \in Pushing} \cup {j}
  BY <1>1, <1>2
<1>4. Entered' = Entered
  <2>1. Entered' = posted' \ {item'[u] : u \in Pushing'}
        /\ Entered = posted \ {item[u] : u \in Pushing}
    BY DEF Entered, Pushing
  <2>. QED
    BY <1>1, <1>3, <2>1
<1>5. Waiting' = Waiting /\ Running' = Running
  BY <1>1, SameBatchAndRunning DEF Waiting
<1>. QED
  BY <1>1, <1>4, <1>5 DEF Executor!exec

LEMMA PushExecutor ==
  ASSUME IInv, NEW t \in Threads, Push(t)
  PROVE  \E j \in Jobs : Executor!Submit(j)
<1>. USE DEF IInv
<1>1. PICK r \in Queues : r = to[t]
  BY DEF Push, Shape, TypeOK
<1>2. PICK j \in Jobs : j = item[t]
  BY DEF Push, Shape, TypeOK
<1>3. /\ UNCHANGED <<taken, ran, posted, cleared>> /\ pc[t] = "push" /\ t \in Pushing
      /\ jobs'[r] = Append(jobs[r], j) /\ jobs[r] \in Seq(Jobs)
      /\ \A q \in Queues : q # r => jobs'[q] = jobs[q]
      /\ \A u \in Threads : u # t => item'[u] = item[u] /\ cur'[u] = cur[u]
  BY <1>1, <1>2 DEF Push, ForgetPush, Goto, Shape, TypeOK, hist, Pushing
<1>4. \/ cur'[t] = cur[t]
      \/ cur[t] = None /\ cur'[t] = r /\ taken[t] = << >> /\ ran[t] = 0 /\ won[t]
  BY <1>1 DEF Push, Goto, ReturnTo, Shape, TypeOK, InHand
<1>5. Pushing' = Pushing \ {t} /\ Pushing \subseteq Threads
  <2>1. pc' = [pc EXCEPT ![t] = pc'[t]] /\ pc'[t] # "push"
    BY DEF Push, Goto, ReturnTo, Shape, TypeOK
  <2>. QED
    BY <2>1 DEF Pushing, Shape, TypeOK
<1>6. j \in posted /\ Owner[j] = r /\ \A u \in Pushing : item[u] = j => u = t
  BY <1>1, <1>2, <1>3 DEF OnePlace, PushedOnce
<1>7. /\ Entered = posted \ {item[u] : u \in Pushing}
      /\ Entered' = posted' \ {item'[u] : u \in Pushing'}
  BY DEF Entered, Pushing
<1>8. j \notin Entered /\ Entered' = Entered \cup {j}
  <2>1. {item[u] : u \in Pushing} = {item'[u] : u \in Pushing'} \cup {j}
    BY <1>2, <1>3, <1>5
  <2>2. j \notin {item'[u] : u \in Pushing'}
    BY <1>3, <1>5, <1>6
  <2>. QED
    BY <1>3, <1>6, <1>7, <2>1, <2>2
<1>9. (\A q \in Queues : Batch(q)' = Batch(q)) /\ Running' = Running
  <2>1. CASE cur'[t] = cur[t]
    <3>1. cur' = cur
      <4>1. cur' \in [Threads -> Queues \cup {None}] /\ cur \in [Threads -> Queues \cup {None}]
        BY PushShape DEF Shape, TypeOK
      <4>. QED
        BY <1>3, <2>1, <4>1
    <3>. QED
      BY <1>3, <3>1, SameBatchAndRunning
  <2>2. CASE cur[t] = None /\ cur'[t] = r /\ taken[t] = << >> /\ ran[t] = 0 /\ won[t]
    <3>1. Holds(t, r)
      BY <1>1, <1>3, <2>2 DEF Holds, Decides
    <3>2. \A u \in Threads : cur[u] # r
      BY <2>2, <3>1, JobConstants DEF OneHolder, Holds
    <3>. QED
      BY <1>3, <2>2, <3>2, EmptyBatchExecutor
  <2>. QED
    BY <1>4, <2>1, <2>2
<1>10. Waiting' = [Waiting EXCEPT ![Owner[j]] = Append(@, j)]
  <2>1. Batch(r) \o Append(jobs[r], j) = Append(Batch(r) \o jobs[r], j)
    <3>1. Batch(r) \in Seq(Jobs) /\ <<j>> \in Seq(Jobs) /\ jobs[r] \in Seq(Jobs)
          /\ Batch(r) \o jobs[r] \in Seq(Jobs)
      BY BatchType, ConcatProperties
    <3>2. Append(jobs[r], j) = jobs[r] \o <<j>>
          /\ Append(Batch(r) \o jobs[r], j) = (Batch(r) \o jobs[r]) \o <<j>>
      BY <3>1, AppendIsConcat
    <3>3. (Batch(r) \o jobs[r]) \o <<j>> = Batch(r) \o (jobs[r] \o <<j>>)
      BY <3>1, JobsConcat
    <3>. QED
      BY <3>2, <3>3
  <2>2. Waiting'[r] = Append(Waiting[r], j)
    BY <1>3, <1>9, <2>1 DEF Waiting
  <2>3. \A q \in Queues : q # r => Waiting'[q] = Waiting[q]
    BY <1>3, <1>9 DEF Waiting
  <2>. QED
    BY <1>6, <2>2, <2>3 DEF Waiting
<1>11. Executor!Submit(j)
  BY <1>3, <1>8, <1>9, <1>10 DEF Executor!Submit
<1>. QED
  BY <1>11

\* Taking the batch from the queue starts nothing.
LEMMA ExecutePopAllExecutor ==
  ASSUME IInv, NEW t \in Threads, ExecutePopAll(t)
  PROVE  UNCHANGED Executor!exec
<1>. USE DEF IInv
<1>1. PICK r \in Queues : r = cur[t]
  BY DEF ExecutePopAll, Shape, TypeOK
<1>2. /\ UNCHANGED <<posted, item, cleared, cur>>
      /\ taken[t] = << >> /\ ran[t] = 0 /\ taken'[t] = jobs[r] /\ ran'[t] = 0
      /\ jobs'[r] = << >> /\ jobs[r] \in Seq(Jobs)
      /\ \A q \in Queues : q # r => jobs'[q] = jobs[q]
      /\ \A u \in Threads : u # t => taken'[u] = taken[u] /\ ran'[u] = ran[u]
  BY <1>1 DEF ExecutePopAll, Shape, TypeOK, InHand, hist
<1>3. Pushing' = Pushing
  BY DEF ExecutePopAll, Goto, Pushing, Shape, TypeOK
<1>4. Entered' = Entered
  BY <1>2, <1>3 DEF Entered, Pushing
<1>5. \A u \in Threads : cur[u] = r => u = t
  BY <1>1 DEF OneHolder, Holds
<1>6. Batch(r) = << >>
  <2>1. Batch(r) = SubSeq(taken[t], ran[t] + 1, Len(taken[t])) /\ ran[t] \in Nat
    BY <1>1, <1>2, <1>5, BatchOf
  <2>. QED
    BY <1>2, <2>1, NothingTaken
<1>7. Batch(r)' = jobs[r]
  <2>1. cur'[t] = r /\ \A u \in Threads : cur'[u] = r => u = t
    BY <1>1, <1>2, <1>5
  <2>2. Batch(r)' = SubSeq(taken'[t], ran'[t] + 1, Len(taken'[t]))
    BY <2>1, BatchOfNext, Zenon
  <2>3. ran'[t] + 1 = 1
    BY <1>2
  <2>4. Batch(r)' = SubSeq(jobs[r], 1, Len(jobs[r]))
    BY <1>2, <2>2, <2>3, Zenon
  <2>. QED
    BY <1>2, <2>4, SubSeqFull
<1>8. Waiting'[r] = Waiting[r]
  <2>1. Waiting'[r] = jobs[r] \o << >> /\ Waiting[r] = << >> \o jobs[r]
    BY <1>2, <1>6, <1>7 DEF Waiting
  <2>. QED
    BY <1>2, <2>1, ConcatEmptySeq
<1>9. ASSUME NEW q \in Queues, q # r PROVE Waiting'[q] = Waiting[q]
  <2>1. Batch(q)' = Batch(q)
    <3>1. CASE \E u \in Threads : cur[u] = q
      <4>1. (CHOOSE u \in Threads : cur[u] = q) # t
            /\ (CHOOSE u \in Threads : cur[u] = q) \in Threads
        BY <1>1, <1>9, <3>1
      <4>. QED
        BY <1>2, <3>1, <4>1 DEF Batch
    <3>2. CASE ~\E u \in Threads : cur[u] = q
      BY <1>2, <3>2 DEF Batch
    <3>. QED
      BY <3>1, <3>2
  <2>. QED
    BY <1>2, <1>9, <2>1 DEF Waiting
<1>10. Waiting' = Waiting
  BY <1>8, <1>9 DEF Waiting
<1>11. Running' = Running
  <2>1. ASSUME NEW q \in Queues PROVE Running'[q] = Running[q]
    <3>1. {u \in Threads : cur'[u] = q /\ ran'[u] > 0}
            = {u \in Threads : cur[u] = q /\ ran[u] > 0}
      BY <1>2
    <3>2. \A u \in {v \in Threads : cur[v] = q /\ ran[v] > 0} :
             taken'[u] = taken[u] /\ ran'[u] = ran[u]
      BY <1>2
    <3>. QED
      BY <3>1, <3>2 DEF Running
  <2>. QED
    BY <2>1 DEF Running
<1>. QED
  BY <1>2, <1>4, <1>10, <1>11 DEF Executor!exec

\* The next job of the batch is the one that has waited longest, and the one
\* before it is over.
LEMMA ExecuteJobExecutor ==
  ASSUME IInv, NEW t \in Threads, ExecuteJob(t)
  PROVE  \E q \in Queues : Executor!Start(q)
<1>. USE DEF IInv
<1>1. PICK r \in Queues : r = cur[t]
  BY DEF ExecuteJob, Shape, TypeOK
<1>2. /\ taken[t] \in Seq(Jobs) /\ ran[t] \in Nat /\ Len(taken[t]) \in Nat
      /\ ran[t] + 1 \in 1 .. Len(taken[t])
  BY DEF ExecuteJob, Shape, TypeOK
<1>3. /\ UNCHANGED <<jobs, posted, item, pc, cleared, cur, taken>>
      /\ ran'[t] = ran[t] + 1
      /\ \A u \in Threads : u # t => ran'[u] = ran[u]
  BY DEF ExecuteJob, Shape, TypeOK, shared, hist
<1>4. PICK p \in Jobs : p = taken[t][ran[t] + 1]
  BY <1>2
<1>5. \A u \in Threads : cur[u] = r => u = t
  BY <1>1 DEF OneHolder, Holds
<1>. DEFINE b == SubSeq(taken[t], ran[t] + 1, Len(taken[t]))
<1>. DEFINE c == SubSeq(taken[t], ran[t] + 1 + 1, Len(taken[t]))
<1>6. Batch(r) = b /\ Batch(r)' = c
  BY <1>1, <1>3, <1>5, BatchOf, BatchOfNext
<1>7. b \in Seq(Jobs) /\ c \in Seq(Jobs) /\ b = <<p>> \o c
  <2>1. b = <<taken[t][ran[t] + 1]>> \o c
    <3>1. Len(taken[t]) \in ran[t] + 1 .. Len(taken[t])
      BY <1>2
    <3>. QED
      BY <1>2, <3>1, SubSeqRecursiveFirst
  <2>2. \A m \in Nat : SubSeq(taken[t], m + 1, Len(taken[t])) \in Seq(Jobs)
    <3>. SUFFICES ASSUME NEW m \in Nat
         PROVE  SubSeq(taken[t], m + 1, Len(taken[t])) \in Seq(Jobs)
      OBVIOUS
    <3>1. m + 1 \in Int /\ Len(taken[t]) \in Int
          /\ \A i \in m + 1 .. Len(taken[t]) : taken[t][i] \in Jobs
      BY <1>2
    <3>. QED
      BY <3>1, SubSeqProperties
  <2>3. ran[t] + 1 \in Nat
    BY <1>2
  <2>. QED
    BY <1>2, <1>4, <2>1, <2>2, <2>3
<1>. HIDE DEF b, c
<1>8. /\ Waiting[r] # << >> /\ Head(Waiting[r]) = p /\ Tail(Waiting[r]) = Waiting'[r]
  <2>1. jobs[r] \in Seq(Jobs) /\ <<p>> \in Seq(Jobs)
    BY DEF Shape, TypeOK
  <2>2. Waiting[r] = (<<p>> \o c) \o jobs[r] /\ Waiting'[r] = c \o jobs[r]
    BY <1>3, <1>6, <1>7 DEF Waiting
  <2>3. (<<p>> \o c) \o jobs[r] = <<p>> \o (c \o jobs[r])
    BY <1>7, <2>1, JobsConcat, ZenonT(60)
  <2>4. c \o jobs[r] \in Seq(Jobs)
    BY <1>7, <2>1, ConcatProperties
  <2>5. \A s \in Seq(Jobs) : /\ <<p>> \o s # << >>
                             /\ Head(<<p>> \o s) = p
                             /\ Tail(<<p>> \o s) = s
    OBVIOUS
  <2>. QED
    BY <2>2, <2>3, <2>4, <2>5
<1>9. ASSUME NEW q \in Queues, q # r
      PROVE  Waiting'[q] = Waiting[q] /\ Running'[q] = Running[q]
  <2>1. \A u \in Threads : cur[u] = q => ran'[u] = ran[u]
    BY <1>1, <1>3, <1>9
  <2>2. Batch(q)' = Batch(q)
    <3>1. CASE \E u \in Threads : cur[u] = q
      <4>1. (CHOOSE u \in Threads : cur[u] = q) \in Threads
            /\ ran'[CHOOSE u \in Threads : cur[u] = q] = ran[CHOOSE u \in Threads : cur[u] = q]
        BY <2>1, <3>1
      <4>. QED
        BY <1>3, <3>1, <4>1 DEF Batch
    <3>2. CASE ~\E u \in Threads : cur[u] = q
      BY <1>3, <3>2 DEF Batch
    <3>. QED
      BY <3>1, <3>2
  <2>3. {u \in Threads : cur'[u] = q /\ ran'[u] > 0}
          = {u \in Threads : cur[u] = q /\ ran[u] > 0}
    BY <1>3, <2>1
  <2>4. \A u \in {v \in Threads : cur[v] = q /\ ran[v] > 0} :
           taken'[u] = taken[u] /\ ran'[u] = ran[u]
    BY <1>3, <2>1
  <2>. QED
    BY <1>3, <2>2, <2>3, <2>4 DEF Waiting, Running
<1>10. Running'[r] = {p}
  <2>1. {u \in Threads : cur'[u] = r /\ ran'[u] > 0} = {t}
    BY <1>1, <1>2, <1>3, <1>5
  <2>2. Running'[r] = {taken'[u][ran'[u]] : u \in {v \in Threads : cur'[v] = r /\ ran'[v] > 0}}
    BY DEF Running
  <2>. QED
    BY <1>3, <1>4, <2>1, <2>2
<1>11. Entered' = Entered
  BY <1>3 DEF Entered
<1>12. /\ Running' = [Running EXCEPT ![r] = {Head(Waiting[r])}]
       /\ Waiting' = [Waiting EXCEPT ![r] = Tail(@)]
  BY <1>8, <1>9, <1>10 DEF Running, Waiting
<1>13. Executor!Start(r)
  BY <1>3, <1>8, <1>11, <1>12 DEF Executor!Start
<1>. QED
  BY <1>13

\* The job started last is over with the batch.
LEMMA ExecuteSubExecutor ==
  ASSUME IInv, NEW t \in Threads, ExecuteSub(t)
  PROVE  (\E q \in Queues : Executor!Finish(q)) \/ UNCHANGED Executor!exec
<1>. USE DEF IInv
<1>1. PICK r \in Queues : r = cur[t]
  BY DEF ExecuteSub, Shape, TypeOK
<1>2. /\ UNCHANGED <<jobs, posted, item, cleared>>
      /\ ran[t] = Len(taken[t]) /\ taken'[t] = << >> /\ ran'[t] = 0
      /\ \A u \in Threads : u # t => taken'[u] = taken[u] /\ ran'[u] = ran[u] /\ cur'[u] = cur[u]
      /\ cur'[t] = cur[t] \/ cur'[t] = None
      /\ ran[t] \in Nat
  BY DEF ExecuteSub, Shape, TypeOK, hist
<1>3. Pushing' = Pushing
  <2>1. pc' = [pc EXCEPT ![t] = pc'[t]] /\ pc'[t] # "push" /\ pc[t] # "push"
    BY DEF ExecuteSub, Goto, ReturnTo, Shape, TypeOK
  <2>. QED
    BY <2>1 DEF Pushing, Shape, TypeOK
<1>4. Entered' = Entered
  BY <1>2, <1>3 DEF Entered, Pushing
<1>5. \A u \in Threads : cur[u] = r => u = t
  BY <1>1 DEF OneHolder, Holds
<1>6. Batch(r) = << >> /\ Batch(r)' = << >>
  <2>1. Batch(r) = SubSeq(taken[t], ran[t] + 1, Len(taken[t]))
    BY <1>1, <1>5, BatchOf
  <2>2. SubSeq(taken[t], ran[t] + 1, Len(taken[t])) = << >>
    <3>1. ran[t] + 1 \in Int /\ Len(taken[t]) \in Int /\ Len(taken[t]) < ran[t] + 1
      BY <1>2
    <3>. QED
      BY <3>1, SubSeqEmpty
  <2>3. CASE cur'[t] = r
    <3>1. \A u \in Threads : cur'[u] = r => u = t
      BY <1>2, <1>5
    <3>2. Batch(r)' = SubSeq(taken'[t], ran'[t] + 1, Len(taken'[t])) /\ ran'[t] \in Nat
      BY <1>2, <2>3, <3>1, BatchOfNext
    <3>. QED
      BY <1>2, <2>1, <2>2, <3>2, NothingTaken
  <2>4. CASE cur'[t] # r
    <3>1. \A u \in Threads : cur'[u] # r
      BY <1>2, <1>5, <2>4
    <3>. QED
      BY <2>1, <2>2, <3>1 DEF Batch
  <2>. QED
    BY <2>3, <2>4
<1>7. ASSUME NEW q \in Queues, q # r
      PROVE  Batch(q)' = Batch(q) /\ Running'[q] = Running[q]
  <2>1. \A u \in Threads : /\ cur'[u] = q <=> cur[u] = q
                           /\ cur[u] = q => u # t
    BY <1>1, <1>2, <1>7, JobConstants
  <2>2. (CHOOSE u \in Threads : cur'[u] = q) = (CHOOSE u \in Threads : cur[u] = q)
    BY <2>1
  <2>3. Batch(q)' = Batch(q)
    <3>1. CASE \E u \in Threads : cur[u] = q
      <4>1. (CHOOSE u \in Threads : cur[u] = q) # t
            /\ (CHOOSE u \in Threads : cur[u] = q) \in Threads
        BY <2>1, <3>1
      <4>. QED
        BY <1>2, <2>1, <2>2, <3>1, <4>1 DEF Batch
    <3>2. CASE ~\E u \in Threads : cur[u] = q
      BY <2>1, <3>2 DEF Batch
    <3>. QED
      BY <3>1, <3>2
  <2>4. {u \in Threads : cur'[u] = q /\ ran'[u] > 0}
          = {u \in Threads : cur[u] = q /\ ran[u] > 0}
    BY <1>2, <2>1
  <2>5. \A u \in {v \in Threads : cur[v] = q /\ ran[v] > 0} :
           taken'[u] = taken[u] /\ ran'[u] = ran[u]
    BY <1>2, <2>1
  <2>. QED
    BY <2>3, <2>4, <2>5 DEF Running
<1>8. Waiting' = Waiting
  <2>1. \A q \in Queues : Batch(q)' = Batch(q)
    BY <1>6, <1>7
  <2>. QED
    BY <1>2, <2>1 DEF Waiting
<1>9. Running'[r] = {}
  <2>1. {u \in Threads : cur'[u] = r /\ ran'[u] > 0} = {}
    BY <1>2, <1>5
  <2>. QED
    BY <2>1 DEF Running
<1>10. Running' = [Running EXCEPT ![r] = {}]
  BY <1>7, <1>9 DEF Running
<1>11. CASE Running[r] # {}
  <2>1. Executor!Finish(r)
    BY <1>2, <1>4, <1>8, <1>10, <1>11 DEF Executor!Finish
  <2>. QED
    BY <2>1
<1>12. CASE Running[r] = {}
  <2>1. Running' = Running
    BY <1>10, <1>12 DEF Running
  <2>. QED
    BY <1>2, <1>4, <1>8, <2>1 DEF Executor!exec
<1>. QED
  BY <1>11, <1>12

\* ClearJob empties the queue behind the batch that is being executed.
LEMMA ClearJobExecutor ==
  ASSUME IInv, NEW t \in Threads, ClearJob(t)
  PROVE  \E q \in Queues : \E n \in 0 .. Len(Waiting[q]) : Executor!Clear(q, n)
<1>. USE DEF IInv
<1>1. PICK r \in Queues : r = to[t]
  BY DEF ClearJob, Shape, TypeOK
<1>2. /\ UNCHANGED <<posted, item, cur, taken, ran>>
      /\ jobs'[r] = << >> /\ \A q \in Queues : q # r => jobs'[q] = jobs[q]
      /\ cleared' = cleared \cup {jobs[r][i] : i \in DOMAIN jobs[r]}
  BY <1>1 DEF ClearJob, Shape, TypeOK
<1>3. Pushing' = Pushing
  BY DEF ClearJob, Goto, Pushing, Shape, TypeOK
<1>4. Entered' = Entered
  BY <1>2, <1>3 DEF Entered, Pushing
<1>5. (\A q \in Queues : Batch(q)' = Batch(q)) /\ Running' = Running
  BY <1>2, SameBatchAndRunning
<1>6. PICK b \in Seq(Jobs) : b = Batch(r)
  BY BatchType
<1>7. PICK w \in Seq(Jobs) : w = jobs[r]
  BY BatchType
<1>8. /\ Waiting[r] = b \o w /\ Waiting'[r] = b
      /\ \A q \in Queues : q # r => Waiting'[q] = Waiting[q]
  <2>1. b \o << >> = b
    BY <1>6, ConcatEmptySeq
  <2>. QED
    BY <1>2, <1>5, <1>6, <1>7, <2>1 DEF Waiting
<1>9. SubSeq(b \o w, 1, Len(b)) = b
  <2>1. CASE Len(b) = 0
    <3>1. b = << >>
      BY <2>1
    <3>2. 1 \in Int /\ Len(b) \in Int /\ Len(b) < 1
      BY <2>1
    <3>. QED
      BY <3>1, <3>2, SubSeqEmpty
  <2>2. CASE Len(b) # 0
    <3>1. 1 \in 1 .. Len(b) /\ Len(b) \in 1 .. Len(b)
      BY <1>6, <2>2
    <3>2. SubSeq(b \o w, 1, Len(b)) = SubSeq(b, 1, Len(b))
      BY <1>6, <1>7, <3>1, SubSeqOfConcat1
    <3>. QED
      BY <1>6, <3>2, SubSeqFull
  <2>. QED
    BY <2>1, <2>2
<1>10. {(b \o w)[i] : i \in Len(b) + 1 .. Len(b \o w)} = {w[i] : i \in DOMAIN w}
  <2>1. /\ Len(b) \in Nat /\ Len(w) \in Nat /\ Len(b \o w) = Len(b) + Len(w)
        /\ DOMAIN w = 1 .. Len(w)
    BY <1>6, <1>7
  <2>2. \A i \in 1 .. Len(w) : (b \o w)[Len(b) + i] = w[i]
    BY <1>6, <1>7
  <2>3. \A i \in Len(b) + 1 .. Len(b \o w) :
           i - Len(b) \in 1 .. Len(w) /\ (b \o w)[i] = w[i - Len(b)]
    BY <1>6, <1>7, <2>1
  <2>4. \A i \in 1 .. Len(w) : Len(b) + i \in Len(b) + 1 .. Len(b \o w)
    BY <2>1
  <2>5. ASSUME NEW x \in {(b \o w)[i] : i \in Len(b) + 1 .. Len(b \o w)}
        PROVE  x \in {w[i] : i \in 1 .. Len(w)}
    BY <2>3
  <2>6. ASSUME NEW x \in {w[i] : i \in 1 .. Len(w)}
        PROVE  x \in {(b \o w)[i] : i \in Len(b) + 1 .. Len(b \o w)}
    <3>1. PICK i \in 1 .. Len(w) : x = w[i]
      OBVIOUS
    <3>2. Len(b) + i \in Len(b) + 1 .. Len(b \o w) /\ (b \o w)[Len(b) + i] = x
      BY <2>2, <2>4, <3>1
    <3>. QED
      BY <3>2, Zenon
  <2>. QED
    BY <2>1, <2>5, <2>6
<1>11. Len(b) \in 0 .. Len(Waiting[r])
  BY <1>6, <1>7, <1>8
<1>12. Executor!Clear(r, Len(b))
  <2>1. Waiting' = [Waiting EXCEPT ![r] = SubSeq(@, 1, Len(b))]
    BY <1>8, <1>9 DEF Waiting
  <2>2. cleared' = cleared \cup {Waiting[r][i] : i \in Len(b) + 1 .. Len(Waiting[r])}
    <3>1. {Waiting[r][i] : i \in Len(b) + 1 .. Len(Waiting[r])} = {w[i] : i \in DOMAIN w}
      BY <1>8, <1>10, Zenon
    <3>. QED
      BY <1>2, <1>7, <3>1, Zenon
  <2>. QED
    BY <1>4, <1>5, <2>1, <2>2 DEF Executor!Clear
<1>. QED
  BY <1>11, <1>12

\* A queue is let go for the GlobalQueue, or taken from it, with no batch in hand.
LEMMA ExecuteTimeExecutor ==
  ASSUME IInv, NEW t \in Threads, ExecuteTime(t)
  PROVE  UNCHANGED Executor!exec
<1>. USE DEF IInv
<1>1. /\ UNCHANGED <<jobs, posted, item, cleared, taken, ran>>
      /\ taken[t] = << >> /\ ran[t] = 0
      /\ pc[t] = "exec_time" /\ pc'[t] # "push" /\ cur'[t] \in {cur[t], None}
      /\ \A u \in Threads : u # t => pc'[u] = pc[u] /\ cur'[u] = cur[u]
  BY DEF ExecuteTime, Goto, Shape, TypeOK, InHand, shared, hist
<1>2. \A q \in Queues : ~(cur'[t] = q /\ cur[t] # q)
  BY <1>1, JobConstants
<1>3. (\A q \in Queues : Batch(q)' = Batch(q)) /\ Running' = Running
  BY <1>1, <1>2, EmptyBatchExecutor
<1>4. Pushing' = Pushing
  BY <1>1 DEF Pushing
<1>. QED
  BY <1>1, <1>3, <1>4, ExecutorStutters

LEMMA GlobalPopExecutor ==
  ASSUME IInv, NEW t \in Threads, GlobalPop(t)
  PROVE  UNCHANGED Executor!exec
<1>. USE DEF IInv
<1>1. /\ UNCHANGED <<jobs, posted, item, cleared, taken, ran>>
      /\ cur[t] = None /\ taken[t] = << >> /\ ran[t] = 0
      /\ pc[t] = "global_pop" /\ pc'[t] # "push"
      /\ \A u \in Threads : u # t => pc'[u] = pc[u] /\ cur'[u] = cur[u]
  BY DEF GlobalPop, Goto, Shape, TypeOK, InHand, hist
<1>2. \/ cur'[t] = None
      \/ global # << >> /\ cur'[t] = Head(global)
  BY <1>1 DEF GlobalPop, Shape, TypeOK
<1>3. ASSUME NEW q \in Queues, cur'[t] = q, cur[t] # q
      PROVE  \A u \in Threads : cur[u] # q
  <2>1. global # << >> /\ Head(global) = q /\ global \in Seq(Queues)
    BY <1>2, <1>3, JobConstants DEF Shape, TypeOK
  <2>2. 1 \in 1 .. Len(global) /\ global[1] = q
    BY <2>1
  <2>3. InGlobal(q)
    BY <2>2 DEF InGlobal
  <2>. QED
    BY <2>3 DEF OneHolder, Holds
<1>4. (\A q \in Queues : Batch(q)' = Batch(q)) /\ Running' = Running
  BY <1>1, <1>3, EmptyBatchExecutor
<1>5. Pushing' = Pushing
  BY <1>1 DEF Pushing
<1>. QED
  BY <1>1, <1>4, <1>5, ExecutorStutters

\* The steps between the operations.
LEMMA QuietExecutor ==
  ASSUME IInv, UNCHANGED <<jobs, cur, item, taken, ran, posted, cleared>>, Pushing' = Pushing
  PROVE  UNCHANGED Executor!exec
BY SameBatchAndRunning, ExecutorStutters

LEMMA RunExecutor ==
  ASSUME IInv, NEW t \in Threads, Run(t)
  PROVE  Executor!Next \/ UNCHANGED Executor!exec
<1>. USE DEF IInv
<1>1. CASE EnterScope(t)
  <2>1. UNCHANGED <<jobs, cur, pc, item, taken, ran, posted, cleared>>
    BY <1>1 DEF EnterScope, shared, locals, hist
  <2>2. Pushing' = Pushing
    BY <2>1 DEF Pushing
  <2>. QED
    BY <2>1, <2>2, QuietExecutor
<1>2. CASE BodyDoAsync(t)
  <2>1. /\ Head(todo[t]) \in Jobs /\ Head(todo[t]) \notin posted
        /\ PushCall(t, Head(todo[t]), FALSE)
    BY <1>2, BodyDoAsyncFacts
  <2>2. pc[t] # "push"
    BY <1>2 DEF BodyDoAsync
  <2>. QED
    BY <2>1, <2>2, PushCallExecutor
<1>3. CASE Push(t)
  BY <1>3, PushExecutor DEF Executor!Next
<1>4. CASE GlobalPush(t)
  <2>1. /\ UNCHANGED <<jobs, cur, item, taken, ran, posted, cleared>>
        /\ pc[t] = "global_push" /\ pc'[t] # "push"
        /\ \A u \in Threads : u # t => pc'[u] = pc[u]
    BY <1>4 DEF GlobalPush, Goto, ReturnTo, Shape, TypeOK, hist
  <2>2. Pushing' = Pushing
    BY <2>1 DEF Pushing
  <2>. QED
    BY <2>1, <2>2, QuietExecutor
<1>5. CASE ExecutePopAll(t)
  BY <1>5, ExecutePopAllExecutor
<1>6. CASE ExecuteJob(t)
  BY <1>6, ExecuteJobExecutor DEF Executor!Next
<1>7. CASE ExecuteSub(t)
  BY <1>7, ExecuteSubExecutor DEF Executor!Next
<1>8. CASE ExecuteTime(t)
  BY <1>8, ExecuteTimeExecutor
<1>9. CASE ClearJob(t)
  BY <1>9, ClearJobExecutor DEF Executor!Next
<1>10. CASE WorkTime(t)
  <2>1. /\ UNCHANGED <<jobs, cur, item, taken, ran, posted, cleared>>
        /\ pc[t] = "work" /\ pc'[t] # "push"
        /\ \A u \in Threads : u # t => pc'[u] = pc[u]
    BY <1>10 DEF WorkTime, Goto, Shape, TypeOK, shared, hist
  <2>2. Pushing' = Pushing
    BY <2>1 DEF Pushing
  <2>. QED
    BY <2>1, <2>2, QuietExecutor
<1>11. CASE GlobalPop(t)
  BY <1>11, GlobalPopExecutor
<1>. QED
  BY <1>1, <1>2, <1>3, <1>4, <1>5, <1>6, <1>7, <1>8, <1>9, <1>10, <1>11 DEF Run

LEMMA CallExecutor ==
  ASSUME IInv, NEW t \in Threads, Call(t) \/ StartWork(t)
  PROVE  UNCHANGED Executor!exec
<1>. USE DEF IInv
<1>1. ASSUME NEW j \in Jobs, DoAsync(t, j) \/ DistributePush(t, j)
      PROVE  UNCHANGED Executor!exec
  <2>1. PICK only \in BOOLEAN : PushCall(t, j, only)
    BY <1>1 DEF DoAsync, DistributePush
  <2>2. j \notin posted /\ pc[t] # "push"
    BY <1>1 DEF DoAsync, DistributePush
  <2>. QED
    BY <2>1, <2>2, PushCallExecutor
<1>2. ASSUME NEW q \in Queues, ClearCall(t, q)
      PROVE  UNCHANGED Executor!exec
  <2>1. /\ UNCHANGED <<jobs, cur, item, taken, ran, posted, cleared>>
        /\ pc[t] = "idle" /\ pc'[t] # "push"
        /\ \A u \in Threads : u # t => pc'[u] = pc[u]
    BY <1>2 DEF ClearCall, Goto, Shape, TypeOK, shared, hist
  <2>2. Pushing' = Pushing
    BY <2>1 DEF Pushing
  <2>. QED
    BY <2>1, <2>2, QuietExecutor
<1>3. CASE StartWork(t)
  <2>1. /\ UNCHANGED <<jobs, cur, item, taken, ran, posted, cleared>>
        /\ pc[t] = "idle" /\ pc'[t] # "push"
        /\ \A u \in Threads : u # t => pc'[u] = pc[u]
    BY <1>3 DEF StartWork, Goto, Shape, TypeOK, shared, hist
  <2>2. Pushing' = Pushing
    BY <2>1 DEF Pushing
  <2>. QED
    BY <2>1, <2>2, QuietExecutor
<1>. QED
  BY <1>1, <1>2, <1>3 DEF Call

LEMMA InitExecutor == Init => Executor!Init
<1>. SUFFICES ASSUME Init PROVE Executor!Init
  OBVIOUS
<1>. USE JobConstants DEF Init
<1>1. Entered = {}
  BY DEF Entered
<1>2. \A q \in Queues : Batch(q) = << >> /\ jobs[q] = << >>
  BY DEF Batch
<1>3. Waiting = [q \in Queues |-> << >>]
  <2>1. << >> \o << >> = << >>
    OBVIOUS
  <2>. QED
    BY <1>2, <2>1 DEF Waiting
<1>4. \A q \in Queues : Running[q] = {}
  <2>1. \A q \in Queues : {u \in Threads : cur[u] = q /\ ran[u] > 0} = {}
    OBVIOUS
  <2>. QED
    BY <2>1 DEF Running
<1>5. Running = [q \in Queues |-> {}]
  BY <1>4 DEF Running
<1>. QED
  BY <1>1, <1>3, <1>5 DEF Executor!Init

\* Whatever threads post, execute, hand over and clear a queue, it behaves as a
\* serial executor: its jobs start one at a time, in the order they were pushed,
\* and none is lost or started twice.
THEOREM ImplementsExecutorTheorem == Spec => ImplementsExecutor
<1>1. IInv /\ [Next]_vars => [Executor!Next]_(Executor!exec)
  <2>. SUFFICES ASSUME IInv, [Next]_vars PROVE Executor!Next \/ UNCHANGED Executor!exec
    OBVIOUS
  <2>1. CASE Tick \/ UNCHANGED vars
    <3>1. UNCHANGED <<jobs, cur, pc, item, taken, ran, posted, cleared>>
      BY <2>1 DEF Tick, vars, shared, locals, hist
    <3>2. Pushing' = Pushing
      BY <3>1 DEF Pushing
    <3>. QED
      BY <3>1, <3>2, QuietExecutor
  <2>2. CASE \E t \in Threads : Call(t) \/ Run(t) \/ StartWork(t)
    BY <2>2, RunExecutor, CallExecutor
  <2>. QED
    BY <2>1, <2>2 DEF Next
<1>. QED
  BY <1>1, InitExecutor, InvariantHolds, PTL DEF Spec, ImplementsExecutor, Executor!Spec

=============================================================================
