-------------------------- MODULE DeadLockProfiler --------------------------
(***************************************************************************)
(* The lock order profiler (DeadLockProfiler.h/.cpp).  PushLock and        *)
(* PopLock run under a mutex and keep a stack of lock ids per thread and   *)
(* the history of which lock was taken right after which; whenever the     *)
(* history grows, a depth first search looks for a cycle in it.            *)
(*                                                                         *)
(* A lock is known by its name.  The recursion of DFS is a stack of calls, *)
(* and one step is one turn of a loop of CheckCycle or DFS.  untried has   *)
(* the edges that the loops over nextSet have not come to; the loop of a   *)
(* call has those that leave its lock.  The mutex is held until CheckCycle *)
(* returns, so nothing else happens in between.                            *)
(***************************************************************************)
EXTENDS Process, Integers, Sequences, FiniteSets

CONSTANTS
    Names,      \* the names of the locks
    MaxDepth,   \* bound on the locks a thread holds
    None

ASSUME ProfilerConstants == MaxDepth \in Nat /\ None \notin Threads

VARIABLES
    nameToId,        \* name -> id, for the names seen so far
    lockHistory,     \* the edges <<id, id taken right after it>>
    lockStack,       \* tls_LockStack of every thread
    pusher,          \* the thread that is in CheckCycle, or None
    currentLockId,   \* PushLock's local: the id it will push
    lockId,          \* CheckCycle's loop variable
    calls,           \* _currentLock of the calls of DFS, innermost last
    untried,         \* the edges still to be looked at
    visitedOrder, totalNodeCount, isFinished, parent,
    report           \* the edges printed since a cycle was found

tables       == <<visitedOrder, totalNodeCount, isFinished, parent>>
searchVars   == <<pusher, currentLockId, lockId, calls, untried, tables>>
profilerVars == <<nameToId, lockHistory, lockStack, searchVars, report, crashed>>

Last(s)  == s[Len(s)]
Front(s) == SubSeq(s, 1, Len(s) - 1)

lockCount == Cardinality(DOMAIN nameToId)

ProfilerInit ==
    /\ nameToId = << >>
    /\ lockHistory = {}
    /\ lockStack = [t \in Threads |-> << >>]
    /\ pusher = None /\ currentLockId = 0 /\ lockId = 0
    /\ calls = << >> /\ untried = {}
    /\ visitedOrder = << >> /\ totalNodeCount = 0
    /\ isFinished = << >> /\ parent = << >>
    /\ report = << >>
    /\ crashed = "none"

-----------------------------------------------------------------------------
\* PushLock

\* nameToId with name in it.
Register(name) ==
    IF name \in DOMAIN nameToId THEN nameToId
    ELSE [n \in DOMAIN nameToId \cup {name} |-> IF n = name THEN lockCount ELSE nameToId[n]]

\* Mutant: the order is recorded from the first lock of the thread.
NewEdgesFromBottom(stack, id) ==
    IF stack = << >> \/ id = stack[1] THEN {} ELSE {<<stack[1], id>>}

\* The edge a lock taken on top of stack adds to the history.
NewEdges(stack, id) ==
    IF stack = << >> \/ id = Last(stack) THEN {} ELSE {<<Last(stack), id>>}

\* CheckCycle clears the tables.
ClearTables ==
    LET ids == 0 .. (lockCount' - 1)
    IN  /\ visitedOrder' = [i \in ids |-> -1] /\ totalNodeCount' = 0
        /\ isFinished' = [i \in ids |-> FALSE] /\ parent' = [i \in ids |-> -1]

\* PushLock, until it pushes or calls CheckCycle.
PushLock(t, name) ==
    /\ pusher = None /\ Len(lockStack[t]) < MaxDepth
    /\ nameToId' = Register(name)
    /\ LET id == nameToId'[name]
           edges == NewEdges(lockStack[t], id) \ lockHistory
       IN  /\ lockHistory' = lockHistory \cup edges
           /\ \/ /\ edges = {}
                 /\ lockStack' = [lockStack EXCEPT ![t] = Append(@, id)]
                 /\ UNCHANGED searchVars
              \/ /\ edges # {}
                 /\ pusher' = t /\ currentLockId' = id /\ lockId' = 0
                 /\ untried' = lockHistory'
                 /\ ClearTables
                 /\ UNCHANGED <<lockStack, calls>>
    /\ UNCHANGED <<report, crashed>>

-----------------------------------------------------------------------------
\* CheckCycle and DFS

Searching == pusher # None /\ report = << >>

\* DFS(lock), up to its loop.
Visit(lock) ==
    /\ visitedOrder' = [visitedOrder EXCEPT ![lock] = totalNodeCount]
    /\ totalNodeCount' = totalNodeCount + 1
    /\ calls' = Append(calls, lock)

\* Mutant: DFS does not look whether the lock was visited.
CheckCycleLoopRevisits ==
    /\ Searching /\ calls = << >> /\ lockId < lockCount
    /\ Visit(lockId) /\ UNCHANGED <<isFinished, parent>>
    /\ lockId' = lockId + 1
    /\ UNCHANGED <<nameToId, lockHistory, lockStack, pusher, currentLockId, untried, report, crashed>>

\* A turn of CheckCycle's loop: the call of DFS for the lock.
CheckCycleLoop ==
    /\ Searching /\ calls = << >> /\ lockId < lockCount
    /\ \/ visitedOrder[lockId] # -1 /\ UNCHANGED <<tables, calls>>
       \/ visitedOrder[lockId] = -1 /\ Visit(lockId) /\ UNCHANGED <<isFinished, parent>>
    /\ lockId' = lockId + 1
    /\ UNCHANGED <<nameToId, lockHistory, lockStack, pusher, currentLockId, untried, report, crashed>>

\* What is left of the innermost call's nextSet.
NextSet(current) == {e[2] : e \in {d \in untried : d[1] = current}}

\* Mutant: a lock that was left for good counts as one still being searched.
LookAtIgnoresFinished(current, nextLock) ==
    \/ /\ visitedOrder[nextLock] = -1
       /\ parent' = [parent EXCEPT ![nextLock] = current]
       /\ Visit(nextLock)
       /\ UNCHANGED <<isFinished, report>>
    \/ /\ visitedOrder[current] < visitedOrder[nextLock]
       /\ UNCHANGED <<tables, calls, report>>
    \/ /\ visitedOrder[nextLock] \in 0 .. visitedOrder[current]
       /\ report' = <<<<current, nextLock>>>>
       /\ UNCHANGED <<tables, calls>>

\* Mutant: the lock that leads to another is recorded the wrong way round.
LookAtSwapsParent(current, nextLock) ==
    \/ /\ visitedOrder[nextLock] = -1
       /\ parent' = [parent EXCEPT ![current] = nextLock]
       /\ Visit(nextLock)
       /\ UNCHANGED <<isFinished, report>>
    \/ /\ visitedOrder[current] < visitedOrder[nextLock] \/ isFinished[nextLock]
       /\ UNCHANGED <<tables, calls, report>>
    \/ /\ visitedOrder[nextLock] \in 0 .. visitedOrder[current] /\ ~isFinished[nextLock]
       /\ report' = <<<<current, nextLock>>>>
       /\ UNCHANGED <<tables, calls>>

\* The body of DFS's loop.
LookAt(current, nextLock) ==
    \/ /\ visitedOrder[nextLock] = -1
       /\ parent' = [parent EXCEPT ![nextLock] = current]
       /\ Visit(nextLock)
       /\ UNCHANGED <<isFinished, report>>
    \/ /\ visitedOrder[current] < visitedOrder[nextLock] \/ isFinished[nextLock]
       /\ UNCHANGED <<tables, calls, report>>
    \/ /\ visitedOrder[nextLock] \in 0 .. visitedOrder[current] /\ ~isFinished[nextLock]
       /\ report' = <<<<current, nextLock>>>>
       /\ UNCHANGED <<tables, calls>>

\* A turn of DFS's loop, which goes through nextSet in ascending order.
DFSLoop ==
    /\ Searching /\ calls # << >>
    /\ \E nextLock \in NextSet(Last(calls)) :
          /\ \A other \in NextSet(Last(calls)) : nextLock <= other
          /\ untried' = untried \ {<<Last(calls), nextLock>>}
          /\ LookAt(Last(calls), nextLock)
    /\ UNCHANGED <<nameToId, lockHistory, lockStack, pusher, currentLockId, lockId, crashed>>

\* The end of DFS.
DFSReturns ==
    /\ Searching /\ calls # << >> /\ NextSet(Last(calls)) = {}
    /\ isFinished' = [isFinished EXCEPT ![Last(calls)] = TRUE]
    /\ calls' = Front(calls)
    /\ UNCHANGED <<nameToId, lockHistory, lockStack, pusher, currentLockId, lockId, untried,
                   visitedOrder, totalNodeCount, parent, report, crashed>>

\* A turn of the loop that prints the cycle, from now back along parent.
PrintCycle ==
    /\ report # << >>
    /\ LET now == Last(report)[1]
       IN  /\ report' = Append(report, <<parent[now], now>>)
           /\ crashed' = IF parent[now] \in {-1, report[1][2]} THEN "DeadLock_detected" ELSE crashed
    /\ UNCHANGED <<nameToId, lockHistory, lockStack, searchVars>>

\* CheckCycle has found nothing, and PushLock ends.  The next CheckCycle makes
\* the tables anew; until then they are empty here.
PushLockReturns ==
    /\ Searching /\ calls = << >> /\ lockId = lockCount
    /\ lockStack' = [lockStack EXCEPT ![pusher] = Append(@, currentLockId)]
    /\ pusher' = None /\ currentLockId' = 0 /\ lockId' = 0
    /\ visitedOrder' = << >> /\ totalNodeCount' = 0
    /\ isFinished' = << >> /\ parent' = << >>
    /\ UNCHANGED <<nameToId, lockHistory, calls, untried, report, crashed>>

-----------------------------------------------------------------------------
\* PopLock; nameToId[_name] gives a name that was never seen the id 0.
PopLock(t, name) ==
    /\ pusher = None
    /\ LET id == IF name \in DOMAIN nameToId THEN nameToId[name] ELSE 0
       IN  IF lockStack[t] = << >>
           THEN crashed' = "MULTIPLE_UNLOCK" /\ UNCHANGED <<nameToId, lockStack>>
           ELSE /\ nameToId' = [n \in DOMAIN nameToId \cup {name} |->
                                   IF n = name THEN id ELSE nameToId[n]]
                /\ IF Last(lockStack[t]) # id
                   THEN crashed' = "INVALID_UNLOCK" /\ UNCHANGED lockStack
                   ELSE /\ lockStack' = [lockStack EXCEPT ![t] = Front(@)]
                        /\ UNCHANGED crashed
    /\ UNCHANGED <<lockHistory, searchVars, report>>

ProfilerNext ==
    /\ crashed = "none"
    /\ \/ \E t \in Threads, name \in Names : PushLock(t, name) \/ PopLock(t, name)
       \/ CheckCycleLoop \/ DFSLoop \/ DFSReturns \/ PrintCycle \/ PushLockReturns

ProfilerSpec == ProfilerInit /\ [][ProfilerNext]_profilerVars

-----------------------------------------------------------------------------
(* Properties.                                                              *)

\* Some locks were taken in a circle: from each of them an edge leads to one of
\* them.
Cyclic(edges) ==
    \E S \in SUBSET {e[1] : e \in edges} :
        S # {} /\ \A a \in S : \E b \in S : <<a, b>> \in edges

\* The search, with its visit order, finished marks and early returns, stops the
\* process exactly when the lock order has a cycle: it never does without one,
\* and PushLock does not return with one.
CrashIffCycle ==
    /\ crashed = "DeadLock_detected" => Cyclic(lockHistory)
    /\ Cyclic(lockHistory) => crashed = "DeadLock_detected" \/ pusher # None

\* What is printed is a cycle of the lock order, last edge first: each edge was
\* taken, starts where the next one printed ends, and the first closes the last.
\* The walk along parent always meets the lock it looks for.
ReportIsCycle ==
    crashed = "DeadLock_detected" =>
        /\ \A i \in DOMAIN report : report[i] \in lockHistory
        /\ \A i \in 1 .. (Len(report) - 1) : report[i][1] = report[i + 1][2]
        /\ report[Len(report)][1] = report[1][2]

\* t has taken b while it had a.
Under(t, a, b) ==
    \E i, k \in DOMAIN lockStack[t] : i < k /\ lockStack[t][i] = a /\ lockStack[t][k] = b

\* No set of threads ever has locks in a circle, each of them taken by a thread
\* that had another of them, without the profiler having stopped the process.
NoUnseenDeadlock ==
    crashed = "none" =>
        \A S \in SUBSET {nameToId[n] : n \in DOMAIN nameToId} :
            S # {} => \E a \in S : \A b \in S \ {a}, t \in Threads : ~Under(t, a, b)

\* What the search has still to do: edges to look at, locks to visit, calls to
\* return from, turns of CheckCycle's loop.
Unvisited == {i \in DOMAIN visitedOrder : visitedOrder[i] = -1}

Work == Cardinality(untried) + 2 * Cardinality(Unvisited) + Len(calls) + (lockCount - lockId)

\* CheckCycle, which runs with the mutex held, ends: every step of it leaves less
\* to do, and when it prints, the walk comes to locks that were visited earlier.
SearchShrinks ==
    [][pusher # None /\ pusher' = pusher /\ crashed' = "none" =>
          \/ Work' < Work
          \/ /\ Work' = Work /\ report # << >>
             /\ visitedOrder[Last(report')[1]] < visitedOrder[Last(report)[1]]]_profilerVars

=============================================================================
