------------------------------ MODULE JobTimer ------------------------------
(***************************************************************************)
(* Timed jobs (JobTimer.h/.cpp): Reserve puts a job with the tick it is    *)
(* due at into a priority queue; the workers call Distribute, through      *)
(* ThreadManager::DistributeReservedJobs, to move the jobs that are due to *)
(* the JobQueue they belong to, if that still exists.                      *)
(*                                                                         *)
(* A JobData comes from an ObjectPool by raw pointer, so the timer itself  *)
(* has to give it back, once.  WRITE_LOCK scopes are as in JobQueue.  Jobs *)
(* that are due at the same tick leave the priority queue in any order.    *)
(***************************************************************************)
EXTENDS Integers, Sequences, FiniteSets

CONSTANTS
    Threads,      \* the threads of the process
    Queues,       \* the job queues that own timed jobs
    Delays,       \* the values of _tickAfter
    WriteGuard,   \* "R" or "W", what WriteLockGuard acquires
    MaxJobs,      \* bound on the calls of Reserve
    MaxTick,      \* bound on the clock
    MaxRounds,    \* bound on the calls of Distribute; 0 means unbounded
    None

ASSUME JobTimerConstants ==
    /\ {MaxJobs, MaxTick, MaxRounds} \subseteq Nat
    /\ Delays \subseteq Nat
    /\ WriteGuard \in {"R", "W"}
    /\ None \notin [job : Nat, owner : Queues, executeTick : Nat, late : BOOLEAN]

VARIABLES
    clock,         \* GetTickCount64
    items,         \* JobTimer::items
    distributing,  \* JobTimer::distributing
    alive,         \* the job queues a weak_ptr can still lock
    delivered,     \* the jobs pushed to their queues so far, in order
    freed,         \* per job: how often its JobData was pushed to the pool
    pc,            \* where each thread is
    item,          \* Reserve: the TimerItem
    now,           \* Distribute: _now
    tempItems,     \* Distribute: tempItems
    inScope,       \* the thread is in a WRITE_LOCK scope of the timer
    reserved,      \* calls of Reserve so far
    rounds,        \* calls of Distribute so far
    lastNow,       \* history: the latest _now jobs were taken out for
    raced          \* a data race has happened

poolVars == <<alive, delivered, freed>>
bounds   == <<reserved, rounds>>
vars == <<clock, items, distributing, poolVars, pc, item, now, tempItems, inScope, bounds,
          lastNow, raced>>

Jobs == 1 .. MaxJobs

Init ==
    /\ clock = 0
    /\ items = {}
    /\ distributing = FALSE
    /\ alive = Queues
    /\ delivered = << >>
    /\ freed = [j \in Jobs |-> 0]
    /\ pc = [t \in Threads |-> "idle"]
    /\ item = [t \in Threads |-> None]
    /\ now = [t \in Threads |-> 0]
    /\ tempItems = [t \in Threads |-> << >>]
    /\ inScope = [t \in Threads |-> FALSE]
    /\ reserved = 0
    /\ rounds = 0
    /\ lastNow = -1
    /\ raced = FALSE

Goto(t, l) == pc' = [pc EXCEPT ![t] = l]

EnterScope(t) ==
    /\ pc[t] \in {"reserve", "take", "clear"} /\ ~inScope[t]
    /\ LET others == {u \in Threads \ {t} : inScope[u]}
       IN  /\ WriteGuard = "W" => others = {}
           /\ raced' = (others # {})
    /\ inScope' = [inScope EXCEPT ![t] = TRUE]
    /\ UNCHANGED <<clock, items, distributing, poolVars, pc, item, now, tempItems, bounds,
                   lastNow>>

LeaveScope(t) == inScope[t] /\ inScope' = [inScope EXCEPT ![t] = FALSE]

-----------------------------------------------------------------------------
\* JobTimer::Reserve

\* executeTick is fixed before the lock is taken.
ReserveCall(t, q, tickAfter) ==
    /\ pc[t] = "idle" /\ reserved < MaxJobs
    /\ reserved' = reserved + 1
    /\ item' = [item EXCEPT ![t] = [job |-> reserved + 1, owner |-> q,
                                    executeTick |-> clock + tickAfter, late |-> FALSE]]
    /\ Goto(t, "reserve")
    /\ UNCHANGED <<clock, items, distributing, poolVars, now, tempItems, inScope, rounds,
                   lastNow, raced>>

\* late is history: jobs due after this one may have been delivered already.
Reserve(t) ==
    /\ pc[t] = "reserve" /\ LeaveScope(t)
    /\ items' = items \cup {[item[t] EXCEPT !.late = @ \/ item[t].executeTick <= lastNow]}
    /\ item' = [item EXCEPT ![t] = None]
    /\ Goto(t, "idle")
    /\ UNCHANGED <<clock, distributing, poolVars, now, tempItems, bounds, lastNow, raced>>

-----------------------------------------------------------------------------
\* ThreadManager::DistributeReservedJobs and JobTimer::Distribute

DistributeReservedJobs(t) ==
    /\ pc[t] = "idle"
    /\ \/ MaxRounds = 0 /\ UNCHANGED rounds
       \/ rounds < MaxRounds /\ rounds' = rounds + 1
    /\ now' = [now EXCEPT ![t] = clock]
    /\ Goto(t, "exchange")
    /\ UNCHANGED <<clock, items, distributing, poolVars, item, tempItems, inScope, reserved,
                   lastNow, raced>>

\* Mutant: the answer of the exchange is ignored.
ExchangeIgnored(t) ==
    /\ pc[t] = "exchange"
    /\ distributing' = TRUE
    /\ Goto(t, "take")
    /\ UNCHANGED <<clock, items, poolVars, item, now, tempItems, inScope, bounds, lastNow,
                   raced>>

Exchange(t) ==
    /\ pc[t] = "exchange"
    /\ distributing' = TRUE
    /\ Goto(t, IF distributing THEN "idle" ELSE "take")
    /\ UNCHANGED <<clock, items, poolVars, item, now, tempItems, inScope, bounds, lastNow,
                   raced>>

\* The ways a set of items can leave the priority queue.
ByTick(due) ==
    {s \in [1 .. Cardinality(due) -> due] :
        /\ \A i, j \in DOMAIN s : i < j => s[i] # s[j] /\ s[i].executeTick <= s[j].executeTick}

Due(t) == {x \in items : x.executeTick <= now[t]}

\* Mutant: the items stay in the queue.
TakeDueKeeps(t) ==
    /\ pc[t] = "take" /\ LeaveScope(t)
    /\ \E s \in ByTick(Due(t)) : tempItems' = [tempItems EXCEPT ![t] = s]
    /\ lastNow' = IF now[t] > lastNow THEN now[t] ELSE lastNow
    /\ Goto(t, "deliver")
    /\ UNCHANGED <<clock, items, distributing, poolVars, item, now, bounds, raced>>

TakeDue(t) ==
    /\ pc[t] = "take" /\ LeaveScope(t)
    /\ \E s \in ByTick(Due(t)) : tempItems' = [tempItems EXCEPT ![t] = s]
    /\ items' = items \ Due(t)
    /\ lastNow' = IF now[t] > lastNow THEN now[t] ELSE lastNow
    /\ Goto(t, "deliver")
    /\ UNCHANGED <<clock, distributing, poolVars, item, now, bounds, raced>>

\* One item: its queue gets the job if it still exists (JobQueue models what
\* Push does), its JobData goes back to the pool.
Deliver(t) ==
    /\ pc[t] = "deliver" /\ tempItems[t] # << >>
    /\ LET x == Head(tempItems[t])
       IN  /\ delivered' = IF x.owner \in alive THEN Append(delivered, x) ELSE delivered
           /\ freed' = [freed EXCEPT ![x.job] = @ + 1]
    /\ tempItems' = [tempItems EXCEPT ![t] = Tail(@)]
    /\ UNCHANGED <<clock, items, distributing, alive, pc, item, now, inScope, bounds,
                   lastNow, raced>>

\* Mutant: the flag is not given back.
FinishForgets(t) ==
    /\ pc[t] = "deliver" /\ tempItems[t] = << >>
    /\ Goto(t, "idle")
    /\ UNCHANGED <<clock, items, distributing, poolVars, item, now, tempItems, inScope, bounds, lastNow,
                   raced>>

Finish(t) ==
    /\ pc[t] = "deliver" /\ tempItems[t] = << >>
    /\ distributing' = FALSE
    /\ Goto(t, "idle")
    /\ UNCHANGED <<clock, items, poolVars, item, now, tempItems, inScope, bounds, lastNow,
                   raced>>

-----------------------------------------------------------------------------
\* JobTimer::Clear

ClearCall(t) ==
    /\ pc[t] = "idle" /\ items # {}
    /\ Goto(t, "clear")
    /\ UNCHANGED <<clock, items, distributing, poolVars, item, now, tempItems, inScope,
                   bounds, lastNow, raced>>

Clear(t) ==
    /\ pc[t] = "clear" /\ LeaveScope(t)
    /\ freed' = [j \in Jobs |-> freed[j] + Cardinality({x \in items : x.job = j})]
    /\ items' = {}
    /\ Goto(t, "idle")
    /\ UNCHANGED <<clock, distributing, alive, delivered, item, now, tempItems, bounds,
                   lastNow, raced>>

-----------------------------------------------------------------------------
\* The last shared_ptr to a job queue goes.
QueueDies(q) ==
    /\ q \in alive
    /\ alive' = alive \ {q}
    /\ UNCHANGED <<clock, items, distributing, delivered, freed, pc, item, now, tempItems,
                   inScope, bounds, lastNow, raced>>

Tick ==
    /\ clock < MaxTick
    /\ clock' = clock + 1
    /\ UNCHANGED <<items, distributing, poolVars, pc, item, now, tempItems, inScope, bounds,
                   lastNow, raced>>

Run(t) ==
    \/ EnterScope(t) \/ Reserve(t) \/ Exchange(t) \/ TakeDue(t) \/ Deliver(t) \/ Finish(t)
    \/ Clear(t)

Next ==
    /\ ~raced
    /\ \/ \E t \in Threads : Run(t) \/ DistributeReservedJobs(t) \/ ClearCall(t)
       \/ \E t \in Threads, q \in alive, d \in Delays : ReserveCall(t, q, d)
       \/ \E q \in Queues : QueueDies(q)
       \/ Tick

Spec == Init /\ [][Next]_vars

\* Threads go on once they have begun, every worker keeps calling Distribute,
\* and time passes.  Nothing is assumed of the lock's fairness.
Fairness ==
    /\ \A t \in Threads : WF_vars(~raced /\ Run(t))
    /\ \A t \in Threads : WF_vars(~raced /\ DistributeReservedJobs(t))
    /\ WF_vars(~raced /\ Tick)

FairSpec == Spec /\ Fairness

-----------------------------------------------------------------------------
(* Properties.                                                              *)

TimerItems == [job : Jobs, owner : Queues, executeTick : Nat, late : BOOLEAN]

\* The state of the timer has its type; no JobData is given back twice.
TypeOK ==
    /\ clock \in 0 .. MaxTick
    /\ items \subseteq TimerItems
    /\ distributing \in BOOLEAN
    /\ alive \subseteq Queues
    /\ delivered \in Seq(TimerItems)
    /\ freed \in [Jobs -> {0, 1}]
    /\ pc \in [Threads -> {"idle", "reserve", "exchange", "take", "deliver", "clear"}]
    /\ item \in [Threads -> TimerItems \cup {None}]
    /\ now \in [Threads -> 0 .. MaxTick]
    /\ tempItems \in [Threads -> Seq(TimerItems)]
    /\ inScope \in [Threads -> BOOLEAN]
    /\ lastNow \in -1 .. MaxTick

\* Whatever points at the JobData of job j.
Homes(j) ==
         {<<"reserving", t>> : t \in {u \in Threads : item[u] # None /\ item[u].job = j}}
    \cup {<<"queued", x>> : x \in {y \in items : y.job = j}}
    \cup {<<"taken", p>> : p \in {q \in Threads \X Jobs :
             q[2] \in DOMAIN tempItems[q[1]] /\ tempItems[q[1]][q[2]].job = j}}
    \cup {<<"pool", k>> : k \in 1 .. freed[j]}

\* JobTimer.cpp:45 "the JobData was made as a raw pointer, so it has to be
\* given back by hand": Reserve, Distribute and Clear between them keep exactly
\* one pointer to it, so it is neither leaked nor used after it was given back.
JobDataHasOneHome == \A j \in 1 .. reserved : Cardinality(Homes(j)) = 1

\* Jobs reach their queues in the order they are due, whichever worker
\* distributes them, but for those reserved after a later one was taken out.
DeliveredInOrder ==
    \A i, k \in DOMAIN delivered :
        i < k => delivered[i].executeTick <= delivered[k].executeTick \/ delivered[k].late

\* A reserved job that is due reaches its queue, unless the queue died or the
\* timer was cleared: the flag distributing never locks all workers out.
EveryTimerFires ==
    \A j \in Jobs :
        (\E x \in items : x.job = j /\ x.executeTick <= MaxTick) ~> freed[j] = 1 \/ raced

=============================================================================
