------------------------------ MODULE JobQueue ------------------------------
(***************************************************************************)
(* The job system: class JobQueue (JobQueue.h/.cpp), the GlobalQueue that  *)
(* spreads job queues over the workers (GlobalQueue.cpp), the LockQueue    *)
(* both are made of (LockQueue.h) and ThreadManager::DoGlobalQueueWork.    *)
(*                                                                         *)
(* A JobQueue runs its jobs one at a time without a lock held: whoever     *)
(* raises jobCount from 0 either runs the queue itself or hands it to the  *)
(* GlobalQueue, and the queue stays with that one runner until jobCount is *)
(* 0 again.                                                                *)
(*                                                                         *)
(* A LockQueue operation is two steps: the scope of WRITE_LOCK is entered, *)
(* then the body runs and the scope is left.  WriteGuard says what         *)
(* WriteLockGuard acquires: "R" in ServerCore/Lock.h, whose constructor    *)
(* calls ReadLock, "W" in ServerCore_Module/Lock.ixx, whose constructor    *)
(* calls WriteLock.  Under "R" two threads can be in the scope of one      *)
(* container; that is a data race on a std::queue, raced records it, and   *)
(* since nothing is defined from there on the model stops.                 *)
(*                                                                         *)
(* The application is external: it posts jobs from any thread, and its     *)
(* workers set tls_EndTickCount and call DoGlobalQueueWork over and over.  *)
(* JobTimer::Distribute appears as a post with _pushOnly.                  *)
(***************************************************************************)
EXTENDS Integers, Sequences, FiniteSets

CONSTANTS
    Threads,     \* the threads of the process
    Queues,      \* the JobQueue objects
    Jobs,        \* the jobs; each is posted at most once
    Owner,       \* the JobQueue each job is posted to
    Spawns,      \* the jobs the body of each job posts, in order
    WriteGuard,  \* "R" or "W", what WriteLockGuard acquires
    Slice,       \* tls_EndTickCount - now when a worker starts a turn
    MaxTick,     \* bound on the clock
    MaxClears,   \* ClearJob is not called once this many jobs were cleared
    None         \* nullptr

Children == {j \in Jobs : \E p \in Jobs : \E i \in DOMAIN Spawns[p] : Spawns[p][i] = j}

ASSUME JobConstants ==
    /\ Owner \in [Jobs -> Queues]
    /\ Spawns \in [Jobs -> Seq(Jobs)]
    /\ WriteGuard \in {"R", "W"}
    /\ {Slice, MaxTick, MaxClears} \subseteq Nat
    /\ None \notin Queues \cup Jobs
    /\ IsFiniteSet(Threads) /\ IsFiniteSet(Jobs)

\* DoAsync makes a Job object for each call: no job is posted from two places.
ASSUME EachPostedOnce ==
    \A p, r \in Jobs : \A i \in DOMAIN Spawns[p], k \in DOMAIN Spawns[r] :
        Spawns[p][i] = Spawns[r][k] => p = r /\ i = k

VARIABLES
    jobs,        \* JobQueue::jobs, a LockQueue
    jobCount,    \* JobQueue::jobCount
    global,      \* the LockQueue inside G_GlobalQueue
    now,         \* GetTickCount64()
    endTick,     \* tls_EndTickCount
    cur,         \* tls_CurrentJobQueue
    pc,          \* where each thread is
    inScope,     \* the container whose WRITE_LOCK scope a thread is in
    item,        \* Push: _job
    to,          \* Push, GlobalQueue::Push: the queue pushed to or handed over
    won,         \* Push: prevCount == 0
    pushOnly,    \* Push: _pushOnly
    taken,       \* Execute: tempJobs
    ran,         \* Execute: how many of tempJobs have been started
    todo,        \* the posts the running job's body has still to make
    working,     \* inside DoGlobalQueueWork
    raced,       \* a data race has happened
    posted,      \* the jobs posted so far
    cleared      \* the jobs ClearJob removed so far

shared == <<jobs, jobCount, global>>
locals == <<item, to, won, pushOnly, taken, ran, todo, working>>
hist   == <<posted, cleared>>
clocks == <<now, endTick>>
vars   == <<shared, clocks, cur, pc, inScope, locals, raced, hist>>

\* The LockQueue inside JobQueue q, and the one inside GlobalQueue.
JobsOf(q) == <<"jobs", q>>
Global    == <<"global">>

Init ==
    /\ jobs = [q \in Queues |-> << >>]
    /\ jobCount = [q \in Queues |-> 0]
    /\ global = << >>
    /\ now = 1
    /\ endTick = [t \in Threads |-> 0]
    /\ cur = [t \in Threads |-> None]
    /\ pc = [t \in Threads |-> "idle"]
    /\ inScope = [t \in Threads |-> None]
    /\ item = [t \in Threads |-> None]
    /\ to = [t \in Threads |-> None]
    /\ won = [t \in Threads |-> FALSE]
    /\ pushOnly = [t \in Threads |-> FALSE]
    /\ taken = [t \in Threads |-> << >>]
    /\ ran = [t \in Threads |-> 0]
    /\ todo = [t \in Threads |-> << >>]
    /\ working = [t \in Threads |-> FALSE]
    /\ raced = FALSE
    /\ posted = {}
    /\ cleared = {}

Goto(t, l) == pc' = [pc EXCEPT ![t] = l]

\* Where control goes when Push, or Execute, returns: to the body of the job
\* being executed, to the loop of DoGlobalQueueWork, or to the application.
ReturnTo(t) ==
    IF cur'[t] # None THEN "exec_run"
    ELSE IF working[t] THEN "work" ELSE "idle"

\* Push needs its argument and prevCount no more.
ForgetPush(t) ==
    /\ item' = [item EXCEPT ![t] = None]
    /\ won' = [won EXCEPT ![t] = FALSE]
    /\ pushOnly' = [pushOnly EXCEPT ![t] = FALSE]

-----------------------------------------------------------------------------
\* WRITE_LOCK

\* The container the LockQueue method thread t has been called in works on.
Container(t) ==
    CASE pc[t] \in {"push", "clear"}         -> JobsOf(to[t])
      [] pc[t] = "exec_popall"               -> JobsOf(cur[t])
      [] pc[t] \in {"global_push", "global_pop"} -> Global

InLockQueue(t) ==
    pc[t] \in {"push", "clear", "exec_popall", "global_push", "global_pop"}

\* The guard's constructor returns.
EnterScope(t) ==
    /\ InLockQueue(t) /\ inScope[t] = None
    /\ LET others == {u \in Threads \ {t} : inScope[u] = Container(t)}
       IN  /\ WriteGuard = "W" => others = {}
           /\ raced' = (others # {})
    /\ inScope' = [inScope EXCEPT ![t] = Container(t)]
    /\ UNCHANGED <<shared, clocks, cur, pc, locals, hist>>

\* The guard's destructor runs, after the body.
LeaveScope(t) ==
    /\ inScope[t] # None
    /\ inScope' = [inScope EXCEPT ![t] = None]
    /\ UNCHANGED raced

-----------------------------------------------------------------------------
\* JobQueue::Push

\* Mutant: the queue's emptiness is tested in place of jobCount.
PushCallTestsQueue(t, j, only) ==
    /\ won' = [won EXCEPT ![t] = (jobs[Owner[j]] = << >>)]
    /\ jobCount' = [jobCount EXCEPT ![Owner[j]] = @ + 1]
    /\ item' = [item EXCEPT ![t] = j]
    /\ to' = [to EXCEPT ![t] = Owner[j]]
    /\ pushOnly' = [pushOnly EXCEPT ![t] = only]
    /\ posted' = posted \cup {j}
    /\ Goto(t, "push")
    /\ UNCHANGED <<jobs, global, clocks, cur, inScope, taken, ran, working,
                   raced, cleared>>

\* The call up to jobCount.fetch_add(1).
PushCall(t, j, only) ==
    /\ won' = [won EXCEPT ![t] = (jobCount[Owner[j]] = 0)]
    /\ jobCount' = [jobCount EXCEPT ![Owner[j]] = @ + 1]
    /\ item' = [item EXCEPT ![t] = j]
    /\ to' = [to EXCEPT ![t] = Owner[j]]
    /\ pushOnly' = [pushOnly EXCEPT ![t] = only]
    /\ posted' = posted \cup {j}
    /\ Goto(t, "push")
    /\ UNCHANGED <<jobs, global, clocks, cur, inScope, taken, ran, working,
                   raced, cleared>>

\* DoAsync called by the application.
DoAsync(t, j) ==
    /\ pc[t] = "idle" /\ j \in Jobs \ (posted \cup Children)
    /\ PushCall(t, j, FALSE)
    /\ UNCHANGED todo

\* JobTimer::Distribute gives an expired job back to its queue.
DistributePush(t, j) ==
    /\ pc[t] = "idle" /\ j \in Jobs \ (posted \cup Children)
    /\ PushCall(t, j, TRUE)
    /\ UNCHANGED todo

\* DoAsync called by the body of the running job.
BodyDoAsync(t) ==
    /\ pc[t] = "exec_run" /\ todo[t] # << >>
    /\ PushCall(t, Head(todo[t]), FALSE)
    /\ todo' = [todo EXCEPT ![t] = Tail(@)]

\* Mutant: inside a job the queue is left for someone else to notice.
PushNoHandOver(t) ==
    /\ pc[t] = "push" /\ LeaveScope(t)
    /\ jobs' = [jobs EXCEPT ![to[t]] = Append(@, item[t])]
    /\ LET execute == won[t] /\ cur[t] = None
       IN  /\ cur' = IF execute THEN [cur EXCEPT ![t] = to[t]] ELSE cur
           /\ to' = [to EXCEPT ![t] = None]
           /\ Goto(t, IF execute THEN "exec_popall" ELSE ReturnTo(t))
    /\ ForgetPush(t)
    /\ UNCHANGED <<jobCount, global, clocks, taken, ran, todo, working, hist>>

\* jobs.Push, and the choice between running the queue and handing it over.
Push(t) ==
    /\ pc[t] = "push" /\ LeaveScope(t)
    /\ jobs' = [jobs EXCEPT ![to[t]] = Append(@, item[t])]
    /\ LET execute == won[t] /\ cur[t] = None /\ ~pushOnly[t]
           handOver == won[t] /\ ~execute
       IN  /\ cur' = IF execute THEN [cur EXCEPT ![t] = to[t]] ELSE cur
           /\ to' = IF handOver THEN to ELSE [to EXCEPT ![t] = None]
           /\ Goto(t, IF execute THEN "exec_popall"
                      ELSE IF handOver THEN "global_push" ELSE ReturnTo(t))
    /\ ForgetPush(t)
    /\ UNCHANGED <<jobCount, global, clocks, taken, ran, todo, working, hist>>

\* G_GlobalQueue->Push(shared_from_this()), the last thing Push and Execute do.
GlobalPush(t) ==
    /\ pc[t] = "global_push" /\ LeaveScope(t)
    /\ global' = Append(global, to[t])
    /\ to' = [to EXCEPT ![t] = None]
    /\ UNCHANGED cur
    /\ Goto(t, ReturnTo(t))
    /\ UNCHANGED <<jobs, jobCount, clocks, item, won, pushOnly, taken, ran, todo, working,
                   hist>>

-----------------------------------------------------------------------------
\* JobQueue::Execute

ExecutePopAll(t) ==
    /\ pc[t] = "exec_popall" /\ LeaveScope(t)
    /\ taken' = [taken EXCEPT ![t] = jobs[cur[t]]]
    /\ jobs' = [jobs EXCEPT ![cur[t]] = << >>]
    /\ ran' = [ran EXCEPT ![t] = 0]
    /\ Goto(t, "exec_run")
    /\ UNCHANGED <<jobCount, global, clocks, cur, item, to, won, pushOnly, todo,
                   working, hist>>

\* tempJobs[i]->Execute() starts; BodyDoAsync is the rest of the job.
ExecuteJob(t) ==
    /\ pc[t] = "exec_run" /\ todo[t] = << >> /\ ran[t] < Len(taken[t])
    /\ todo' = [todo EXCEPT ![t] = Spawns[taken[t][ran[t] + 1]]]
    /\ ran' = [ran EXCEPT ![t] = @ + 1]
    /\ UNCHANGED <<shared, clocks, cur, pc, inScope, item, to, won, pushOnly, taken,
                   working, raced, hist>>

\* Mutant: the loop over tempJobs stops one job early.
ExecuteSubSkipsLast(t) ==
    /\ pc[t] = "exec_run" /\ todo[t] = << >> /\ ran[t] + 1 >= Len(taken[t])
    /\ jobCount' = [jobCount EXCEPT ![cur[t]] = @ - Len(taken[t])]
    /\ taken' = [taken EXCEPT ![t] = << >>]
    /\ ran' = [ran EXCEPT ![t] = 0]
    /\ IF jobCount[cur[t]] = Len(taken[t])
       THEN cur' = [cur EXCEPT ![t] = None] /\ Goto(t, ReturnTo(t))
       ELSE cur' = cur /\ Goto(t, "exec_time")
    /\ UNCHANGED <<jobs, global, clocks, inScope, item, to, won, pushOnly, todo,
                   working, raced, hist>>

\* Mutant: jobCount is lowered by one for the whole batch.
ExecuteSubOne(t) ==
    /\ pc[t] = "exec_run" /\ todo[t] = << >> /\ ran[t] = Len(taken[t])
    /\ jobCount' = [jobCount EXCEPT ![cur[t]] = @ - 1]
    /\ taken' = [taken EXCEPT ![t] = << >>]
    /\ ran' = [ran EXCEPT ![t] = 0]
    /\ IF jobCount[cur[t]] = 1
       THEN cur' = [cur EXCEPT ![t] = None] /\ Goto(t, ReturnTo(t))
       ELSE cur' = cur /\ Goto(t, "exec_time")
    /\ UNCHANGED <<jobs, global, clocks, inScope, item, to, won, pushOnly, todo,
                   working, raced, hist>>

\* jobCount.fetch_sub(tempJobCount), and the return when nothing is left.
ExecuteSub(t) ==
    /\ pc[t] = "exec_run" /\ todo[t] = << >> /\ ran[t] = Len(taken[t])
    /\ jobCount' = [jobCount EXCEPT ![cur[t]] = @ - Len(taken[t])]
    /\ taken' = [taken EXCEPT ![t] = << >>]
    /\ ran' = [ran EXCEPT ![t] = 0]
    /\ IF jobCount[cur[t]] = Len(taken[t])
       THEN cur' = [cur EXCEPT ![t] = None] /\ Goto(t, ReturnTo(t))
       ELSE cur' = cur /\ Goto(t, "exec_time")
    /\ UNCHANGED <<jobs, global, clocks, inScope, item, to, won, pushOnly, todo,
                   working, raced, hist>>

\* Mutant: tls_CurrentJobQueue is cleared before it is handed over.
ExecuteTimeClearsFirst(t) ==
    /\ pc[t] = "exec_time"
    /\ IF now >= endTick[t]
       THEN /\ cur' = [cur EXCEPT ![t] = None]
            /\ to' = [to EXCEPT ![t] = None]
            /\ Goto(t, "global_push")
       ELSE Goto(t, "exec_popall") /\ UNCHANGED <<to, cur>>
    /\ UNCHANGED <<shared, clocks, inScope, item, won, pushOnly, taken, ran, todo,
                   working, raced, hist>>

\* The time check: on with the next batch, or over to the GlobalQueue.
ExecuteTime(t) ==
    /\ pc[t] = "exec_time"
    /\ IF now >= endTick[t]
       THEN /\ to' = [to EXCEPT ![t] = cur[t]]
            /\ cur' = [cur EXCEPT ![t] = None]
            /\ Goto(t, "global_push")
       ELSE Goto(t, "exec_popall") /\ UNCHANGED <<to, cur>>
    /\ UNCHANGED <<shared, clocks, inScope, item, won, pushOnly, taken, ran, todo,
                   working, raced, hist>>

-----------------------------------------------------------------------------
\* JobQueue::ClearJob, called by the application.

ClearCall(t, q) ==
    /\ pc[t] = "idle" /\ Cardinality(cleared) < MaxClears
    /\ to' = [to EXCEPT ![t] = q]
    /\ Goto(t, "clear")
    /\ UNCHANGED <<shared, clocks, cur, inScope, item, won, pushOnly, taken, ran,
                   todo, working, raced, hist>>

ClearJob(t) ==
    /\ pc[t] = "clear" /\ LeaveScope(t)
    /\ jobs' = [jobs EXCEPT ![to[t]] = << >>]
    /\ cleared' = cleared \cup {jobs[to[t]][i] : i \in DOMAIN jobs[to[t]]}
    /\ to' = [to EXCEPT ![t] = None]
    /\ Goto(t, "idle")
    /\ UNCHANGED <<jobCount, global, clocks, cur, item, won, pushOnly, taken, ran, todo,
                   working, posted>>

-----------------------------------------------------------------------------
\* ThreadManager::DoGlobalQueueWork

\* The application's worker sets tls_EndTickCount and calls it.
StartWork(t) ==
    /\ pc[t] = "idle"
    /\ endTick' = [endTick EXCEPT ![t] = now + Slice]
    /\ working' = [working EXCEPT ![t] = TRUE]
    /\ Goto(t, "work")
    /\ UNCHANGED <<shared, now, cur, inScope, item, to, won, pushOnly, taken, ran,
                   todo, raced, hist>>

\* The time check at the head of the loop.
WorkTime(t) ==
    /\ pc[t] = "work"
    /\ working' = [working EXCEPT ![t] = now <= endTick[t]]
    /\ Goto(t, IF now > endTick[t] THEN "idle" ELSE "global_pop")
    /\ UNCHANGED <<shared, clocks, cur, inScope, item, to, won, pushOnly, taken, ran,
                   todo, raced, hist>>

\* G_GlobalQueue->Pop(), and Execute on what it returns.
GlobalPop(t) ==
    /\ pc[t] = "global_pop" /\ LeaveScope(t)
    /\ IF global = << >>
       THEN /\ working' = [working EXCEPT ![t] = FALSE]
            /\ Goto(t, "idle")
            /\ UNCHANGED <<global, cur>>
       ELSE /\ cur' = [cur EXCEPT ![t] = Head(global)]
            /\ global' = Tail(global)
            /\ Goto(t, "exec_popall")
            /\ UNCHANGED working
    /\ UNCHANGED <<jobs, jobCount, clocks, item, to, won, pushOnly, taken, ran, todo,
                   hist>>

Tick ==
    /\ now < MaxTick
    /\ now' = now + 1
    /\ UNCHANGED <<shared, endTick, cur, pc, inScope, locals, raced, hist>>

-----------------------------------------------------------------------------

\* The calls the application makes when it likes.
Call(t) ==
    \/ \E j \in Jobs : DoAsync(t, j) \/ DistributePush(t, j)
    \/ \E q \in Queues : ClearCall(t, q)

\* The steps of a call in progress.
Run(t) ==
    \/ EnterScope(t)
    \/ BodyDoAsync(t) \/ Push(t) \/ GlobalPush(t)
    \/ ExecutePopAll(t) \/ ExecuteJob(t) \/ ExecuteSub(t) \/ ExecuteTime(t)
    \/ ClearJob(t)
    \/ WorkTime(t) \/ GlobalPop(t)

Next ==
    /\ ~raced
    /\ \/ \E t \in Threads : Call(t) \/ Run(t) \/ StartWork(t)
       \/ Tick

Spec == Init /\ [][Next]_vars

\* The operating system keeps scheduling the threads, the application's
\* workers come back to DoGlobalQueueWork for ever, whatever else they do in
\* between, and a thread that spins for a lock which is free again and again
\* gets it in the end (a spin is thousands of attempts between two looks at the
\* clock).
Fairness ==
    \A t \in Threads : /\ WF_vars(~raced /\ Run(t))
                       /\ SF_vars(~raced /\ StartWork(t))
                       /\ SF_vars(~raced /\ EnterScope(t))

FairSpec == Spec /\ Fairness

-----------------------------------------------------------------------------
(* Properties.                                                              *)

PCs == {"idle", "push", "global_push", "exec_popall", "exec_run", "exec_time",
        "clear", "work", "global_pop"}

\* The state of the job system has its type: no jobCount goes below 0, and a
\* thread that pushes, hands over or executes has a queue to do it with.
TypeOK ==
    /\ jobs \in [Queues -> Seq(Jobs)]
    /\ jobCount \in [Queues -> Nat]
    /\ global \in Seq(Queues)
    /\ now \in Nat /\ endTick \in [Threads -> Nat]
    /\ cur \in [Threads -> Queues \cup {None}]
    /\ pc \in [Threads -> PCs]
    /\ inScope \in [Threads -> {None, Global} \cup {JobsOf(q) : q \in Queues}]
    /\ item \in [Threads -> Jobs \cup {None}]
    /\ to \in [Threads -> Queues \cup {None}]
    /\ won \in [Threads -> BOOLEAN]
    /\ pushOnly \in [Threads -> BOOLEAN]
    /\ taken \in [Threads -> Seq(Jobs)]
    /\ ran \in [Threads -> Nat]
    /\ todo \in [Threads -> Seq(Jobs)]
    /\ working \in [Threads -> BOOLEAN]
    /\ raced \in BOOLEAN
    /\ posted \subseteq Jobs /\ cleared \subseteq Jobs
    /\ \A t \in Threads :
         /\ pc[t] \in {"push", "global_push", "clear"} => to[t] \in Queues
         /\ pc[t] = "push" => item[t] \in Jobs
         /\ pc[t] \in {"exec_popall", "exec_run", "exec_time"} => cur[t] \in Queues

\* Who is responsible for running queue q: a thread inside Execute, a thread
\* that saw prevCount == 0 and has not decided yet, a thread about to hand it
\* to the GlobalQueue, or a place in the GlobalQueue.
Runners(q) ==
         {<<"execute", t>> : t \in {u \in Threads : cur[u] = q}}
    \cup {<<"won", t>> : t \in {u \in Threads : pc[u] = "push" /\ to[u] = q /\ won[u]}}
    \cup {<<"hand", t>> : t \in {u \in Threads : pc[u] = "global_push" /\ to[u] = q}}
    \cup {<<"global", i>> : i \in {k \in DOMAIN global : global[k] = q}}

\* A queue with work has exactly one runner and a queue without has none: the
\* jobs of a queue never run on two threads at once, and a queue is never
\* forgotten while jobs wait in it.
OneRunner ==
    \A q \in Queues : Cardinality(Runners(q)) = (IF jobCount[q] > 0 THEN 1 ELSE 0)

\* jobCount is the number of jobs pushed, or about to be, whose batch is not
\* finished; ClearJob leaves the jobs it drops in the count.
CountMatchesJobs ==
    \A q \in Queues :
        jobCount[q] =
            Len(jobs[q])
            + Cardinality({t \in Threads : pc[t] = "push" /\ to[t] = q})
            + Cardinality({k \in Threads \X (1 .. Cardinality(Jobs)) :
                              cur[k[1]] = q /\ k[2] <= Len(taken[k[1]])})
            + Cardinality({j \in cleared : Owner[j] = q})

\* Two threads are never in a WRITE_LOCK scope of the same container, as the
\* "WRITE_LOCK" remarks beside jobs.Push and jobs.PopAll (JobQueue.cpp:7, 24)
\* have it.
NoDataRace == ~raced

-----------------------------------------------------------------------------
\* The serial executor the job system implements.

\* The jobs that have entered their queue.
Entered == posted \ {item[t] : t \in {u \in Threads : pc[u] = "push"}}

\* The jobs the thread executing q has taken and not started yet.
Batch(q) ==
    IF \E t \in Threads : cur[t] = q
    THEN LET t == CHOOSE u \in Threads : cur[u] = q
         IN  SubSeq(taken[t], ran[t] + 1, Len(taken[t]))
    ELSE << >>

Waiting == [q \in Queues |-> Batch(q) \o jobs[q]]

\* The job each thread executing q has started last.
Running ==
    [q \in Queues |-> {taken[t][ran[t]] : t \in {u \in Threads : cur[u] = q /\ ran[u] > 0}}]

Executor == INSTANCE SerialExecutor
            WITH submitted <- Entered, waiting <- Waiting, running <- Running,
                 dropped <- cleared

\* Whatever threads post, execute, hand over and clear a queue, it behaves as a
\* serial executor: its jobs start one at a time and in the order they were
\* pushed, and none is lost or started twice.
ImplementsExecutor == Executor!Spec

\* Posted, and not started yet.
Unstarted(j) ==
    \/ j \in posted \ Entered
    \/ \E i \in DOMAIN Waiting[Owner[j]] : Waiting[Owner[j]][i] = j

\* Every job posted is started in the end, or cleared, whichever thread posted
\* it, and also when its queue was handed to the GlobalQueue.
EveryJobRuns ==
    \A j \in Jobs : Unstarted(j) ~> j \in Running[Owner[j]] \/ j \in cleared \/ raced

=============================================================================
