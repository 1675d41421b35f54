--------------------------- MODULE SerialExecutor ---------------------------
(***************************************************************************)
(* What the job system promises to the code that posts jobs, with no word  *)
(* about threads, counters or the GlobalQueue: every JobQueue is a serial  *)
(* executor.                                                               *)
(*                                                                         *)
(*  - a job waits in the queue it belongs to from the moment it is         *)
(*    submitted, and is submitted once;                                    *)
(*  - the jobs of a queue are started one after the other, in the order    *)
(*    they were submitted, each when the one before it is over;            *)
(*  - Clear drops jobs from the end of the queue that nobody has taken     *)
(*    yet; no other job is ever dropped.                                   *)
(***************************************************************************)
EXTENDS Naturals, Sequences

CONSTANTS Queues, Jobs, Owner

VARIABLES
    submitted,   \* the jobs submitted so far
    waiting,     \* per queue: the jobs that wait, oldest first
    running,     \* per queue: the jobs that run, one at most
    dropped      \* the jobs Clear removed

exec == <<submitted, waiting, running, dropped>>

Init ==
    /\ submitted = {}
    /\ waiting = [q \in Queues |-> << >>]
    /\ running = [q \in Queues |-> {}]
    /\ dropped = {}

Submit(j) ==
    /\ j \notin submitted
    /\ submitted' = submitted \cup {j}
    /\ waiting' = [waiting EXCEPT ![Owner[j]] = Append(@, j)]
    /\ UNCHANGED <<running, dropped>>

\* The job that ran before, if any, is over.
Start(q) ==
    /\ waiting[q] # << >>
    /\ running' = [running EXCEPT ![q] = {Head(waiting[q])}]
    /\ waiting' = [waiting EXCEPT ![q] = Tail(@)]
    /\ UNCHANGED <<submitted, dropped>>

Finish(q) ==
    /\ running[q] # {}
    /\ running' = [running EXCEPT ![q] = {}]
    /\ UNCHANGED <<submitted, waiting, dropped>>

\* The first n jobs stay.
Clear(q, n) ==
    /\ waiting' = [waiting EXCEPT ![q] = SubSeq(@, 1, n)]
    /\ dropped' = dropped \cup {waiting[q][i] : i \in n + 1 .. Len(waiting[q])}
    /\ UNCHANGED <<submitted, running>>

Next ==
    \/ \E j \in Jobs : Submit(j)
    \/ \E q \in Queues :
          \/ Start(q) \/ Finish(q)
          \/ \E n \in 0 .. Len(waiting[q]) : Clear(q, n)

Spec == Init /\ [][Next]_exec

=============================================================================
