--------------------------- MODULE ThreadManager ---------------------------
(***************************************************************************)
(* Class ThreadManager (ThreadManager.h/.cpp): Launch starts a thread that *)
(* gives itself an id (InitTLS), runs a callback and ends; Join waits for  *)
(* every thread launched so far and forgets them.  The id is the owner     *)
(* field of every Lock, of which Lock keeps 16 bits.                       *)
(*                                                                         *)
(* Launch holds mtxLock, Join does not: when one is inside while the other *)
(* is, the vector threads is modified while it is walked.  raced records   *)
(* it and the model stops, as nothing is defined from there on.            *)
(*                                                                         *)
(* Any thread may call Launch and Join.  The callback is external: it ends *)
(* when it likes.  DoGlobalQueueWork is in module JobQueue and             *)
(* DistributeReservedJobs in module JobTimer.                              *)
(***************************************************************************)
EXTENDS Integers, Sequences, FiniteSets

CONSTANTS
    Main,      \* the thread that constructs the ThreadManager
    Workers,   \* the threads Launch may start
    Mod16,     \* 2^16: Lock keeps tls_ThreadId modulo this
    None

ASSUME ThreadConstants ==
    /\ Main \notin Workers
    /\ None \notin Workers \cup {Main}
    /\ Mod16 \in Nat \ {0}

Threads == Workers \cup {Main}

VARIABLES
    s_ThreadId,    \* InitTLS: the next id
    tls_ThreadId,  \* per thread: its id, 0 until InitTLS
    mtxLock,       \* the thread that holds ThreadManager::mtxLock
    threads,       \* ThreadManager::threads, the handles
    at,            \* where each thread is
    next,          \* Join: position in threads
    raced,         \* a data race has happened
    terminated     \* an exception nobody catches has ended the process

threadVars == <<s_ThreadId, tls_ThreadId, mtxLock, threads, at, next, raced, terminated>>

\* The constructor has run, in the main thread.
Init ==
    /\ s_ThreadId = 2
    /\ tls_ThreadId = [t \in Threads |-> IF t = Main THEN 1 ELSE 0]
    /\ mtxLock = None
    /\ threads = << >>
    /\ at = [t \in Threads |-> IF t = Main THEN "idle" ELSE "none"]
    /\ next = [t \in Threads |-> 0]
    /\ raced = FALSE
    /\ terminated = FALSE

Goto(t, l) == at' = [at EXCEPT ![t] = l]

-----------------------------------------------------------------------------
\* ThreadManager::Launch

In(places) == {t \in Threads : at[t] \in places}

\* The guard is the bound on the threads launched: a Worker is left for this call.
LaunchCall(t) ==
    /\ at[t] = "idle"
    /\ Cardinality(In({"lock", "launch"})) < Cardinality(In({"none"}))
    /\ Goto(t, "lock")
    /\ UNCHANGED <<s_ThreadId, tls_ThreadId, mtxLock, threads, next, raced, terminated>>

LaunchLock(t) ==
    /\ at[t] = "lock" /\ mtxLock = None
    /\ mtxLock' = t
    /\ raced' = (In({"join"}) # {})
    /\ Goto(t, "launch")
    /\ UNCHANGED <<s_ThreadId, tls_ThreadId, threads, next, terminated>>

\* emplace_back starts the thread; the guard goes out of scope.
Launch(t, u) ==
    /\ at[t] = "launch" /\ at[u] = "none"
    /\ threads' = Append(threads, u)
    /\ at' = [at EXCEPT ![t] = "idle", ![u] = "starting"]
    /\ mtxLock' = None
    /\ UNCHANGED <<s_ThreadId, tls_ThreadId, next, raced, terminated>>

\* Mutant: the id is the number of threads in the vector.
InitTLSFromSize(t) ==
    /\ at[t] = "starting"
    /\ tls_ThreadId' = [tls_ThreadId EXCEPT ![t] = Len(threads) + 1]
    /\ s_ThreadId' = s_ThreadId + 1
    /\ Goto(t, "idle")
    /\ UNCHANGED <<mtxLock, threads, next, raced, terminated>>

\* InitTLS in the new thread: fetch_add on the static counter.
InitTLS(t) ==
    /\ at[t] = "starting"
    /\ tls_ThreadId' = [tls_ThreadId EXCEPT ![t] = s_ThreadId]
    /\ s_ThreadId' = s_ThreadId + 1
    /\ Goto(t, "idle")
    /\ UNCHANGED <<mtxLock, threads, next, raced, terminated>>

\* The callback returns; DestroyTLS is empty.
CallbackReturns(t) ==
    /\ t # Main /\ at[t] = "idle"
    /\ Goto(t, "ended")
    /\ UNCHANGED <<s_ThreadId, tls_ThreadId, mtxLock, threads, next, raced, terminated>>

-----------------------------------------------------------------------------
\* ThreadManager::Join, which the destructor calls too

\* Mutant: Join takes the mutex and keeps it while it waits.
JoinCallLocked(t) ==
    /\ at[t] = "idle" /\ mtxLock = None
    /\ mtxLock' = t
    /\ next' = [next EXCEPT ![t] = 1]
    /\ raced' = (In({"join", "launch"}) # {})
    /\ Goto(t, "join")
    /\ UNCHANGED <<s_ThreadId, tls_ThreadId, threads, terminated>>

JoinCall(t) ==
    /\ at[t] = "idle"
    /\ next' = [next EXCEPT ![t] = 1]
    /\ raced' = (In({"join", "launch"}) # {})
    /\ Goto(t, "join")
    /\ UNCHANGED <<s_ThreadId, tls_ThreadId, mtxLock, threads, terminated>>

\* Mutant: Join passes over a thread that has not come to its callback yet.
JoinThreadSkips(t) ==
    /\ at[t] = "join" /\ next[t] <= Len(threads)
    /\ at[threads[next[t]]] \in {"starting", "ended"}
    /\ next' = [next EXCEPT ![t] = @ + 1]
    /\ UNCHANGED <<s_ThreadId, tls_ThreadId, mtxLock, threads, at, raced, terminated>>

\* One iteration: join returns when the thread has ended, and throws in the
\* thread itself.
JoinThread(t) ==
    /\ at[t] = "join" /\ next[t] <= Len(threads)
    /\ LET u == threads[next[t]]
       IN  \/ /\ at[u] = "ended"
              /\ next' = [next EXCEPT ![t] = @ + 1]
              /\ UNCHANGED terminated
           \/ /\ u = t
              /\ terminated' = TRUE
              /\ UNCHANGED next
    /\ UNCHANGED <<s_ThreadId, tls_ThreadId, mtxLock, threads, at, raced>>

\* threads.clear()
JoinClear(t) ==
    /\ at[t] = "join" /\ next[t] > Len(threads)
    /\ threads' = << >>
    /\ next' = [next EXCEPT ![t] = 0]
    /\ Goto(t, "idle")
    /\ UNCHANGED <<s_ThreadId, tls_ThreadId, mtxLock, raced, terminated>>

-----------------------------------------------------------------------------

\* The steps of a thread that is in a method or in its callback.
Run(t) ==
    \/ LaunchLock(t) \/ \E u \in Workers : Launch(t, u)
    \/ InitTLS(t) \/ CallbackReturns(t)
    \/ JoinThread(t) \/ JoinClear(t)

Step(t) == ~raced /\ ~terminated /\ (LaunchCall(t) \/ JoinCall(t) \/ Run(t))

Next == \E t \in Threads : Step(t)

Spec == Init /\ [][Next]_threadVars

-----------------------------------------------------------------------------
(* Properties.                                                              *)

Places == {"none", "starting", "idle", "lock", "launch", "join", "ended"}

\* The state of the ThreadManager has its type.
TypeOK ==
    /\ s_ThreadId \in Nat
    /\ tls_ThreadId \in [Threads -> Nat]
    /\ mtxLock \in Threads \cup {None}
    /\ threads \in Seq(Workers)
    /\ at \in [Threads -> Places]
    /\ next \in [Threads -> Nat]
    /\ raced \in BOOLEAN /\ terminated \in BOOLEAN

\* The threads that run application code, which may take locks.
Live == {t \in Threads : at[t] \notin {"none", "starting"}}

OwnerField(t) == tls_ThreadId[t] % Mod16

\* What Lock needs of InitTLS (Lock.cpp:12, 61 recognise the owner by the 16
\* bits of its id): as long as fewer than 2^16 threads were ever launched no two
\* threads that run have the same owner field, and none has that of a free lock.
LockOwnersDistinct ==
    s_ThreadId <= Mod16 =>
        \A t, u \in Live : /\ OwnerField(t) # 0
                           /\ OwnerField(t) = OwnerField(u) => t = u

\* A thread's handle stays in threads until the thread has ended: destroying the
\* handle of a thread that runs ends the process, and Join would not wait for it.
NoThreadForgotten ==
    \A t \in Workers :
        at[t] \notin {"none", "ended"} => \E i \in DOMAIN threads : threads[i] = t

=============================================================================
