# A TLA+ verification of the ServerCore library

ServerCore (`src/ServerPortfolio/ServerCore`) is the core of a Windows game
server: an IOCP network layer, a job system that serialises work without
holding locks, a timer, pooled memory, and the reader-writer spin lock and lock
order profiler all of these rest on. This project models those parts in TLA+,
checks them with TLC on small instances and proves the results that matter most
with TLAPS. `PROJECT.json` holds the details: every definition with the source
lines it models, every run, mutant, finding, hazard and theorem.

## 1. Inventory

| Part | State | Operations | Interacts with | What is hard |
|---|---|---|---|---|
| `Lock` | packed `lockFlag` (owner id, read count), plain `writeCount` | `WriteLock`, `WriteUnlock`, `ReadLock`, `ReadUnlock`, the guards | everything, through `WRITE_LOCK` / `READ_LOCK` | atomics interleaved with a plain counter, recursion, 16 bit fields, timeouts that end the process |
| `JobQueue`, `GlobalQueue`, `LockQueue`, `ThreadManager::DoGlobalQueueWork` | `jobCount`, `jobs`, the global queue, `tls_CurrentJobQueue`, `tls_EndTickCount` | `Push`, `Execute`, `ClearJob`, `Pop` | application, timer | who runs a queue, hand over between workers, jobs that post jobs |
| `JobTimer` | heap of timed jobs, `distributing` | `Reserve`, `Distribute`, `Clear` | job queues by weak pointer, `ObjectPool` | try lock between workers, raw pointers, owners that die |
| `Session`, `IocpService`, `ClientService` | `isConnected`, four events with an owner pointer each, `recvBuffer`, `sendQueue`, `sessions`, `sessionCount` | connect, disconnect, send, receive: register and process; dispatch; `BroadCast` | the kernel's completion port, application callbacks | completion on another worker before the caller has returned, failures, lifetime by owner pointers |
| `Listener`, `ServerService` | accept events, each with an owner pointer | `Start`, `StartAccept`, `RegisterAccept`, `ProcessAccept` | same port, `CreateSession` | an event is reused while an accept may complete, failing accepts |
| `RecvBuffer` | two cursors, bytes | `OnRead`, `OnWrite`, `Clean` | receive chain | boundaries, overlapping copy |
| `SendBuffer`, `SendBufferChunk`, `SendBufferManager` | chunk pool, open chunk of each thread | `Open`, `Close`, recycling deleter | application, `Session::Send` | buffers outlive the thread's interest in the chunk |
| `MemoryManager`, `MemoryPool` | size table, interlocked lists, counters, headers | `Allocate`, `Release`, `Pop`, `Push` | every container | table construction, counters apart from lists |
| `ObjectPool` | a `MemoryPool` per type | `Pop`, `Push` | timer, buffers | as `MemoryPool` |
| `DeadLockProfiler` | lock ids, order history, a stack per thread | `PushLock`, `PopLock`, `CheckCycle`, `DFS` | (intended) `Lock` | a cycle missed or imagined |
| `ThreadManager` | `threads`, `mtxLock`, `s_ThreadId`, `tls_ThreadId` | `Launch`, `Join`, `InitTLS` | `Lock` through the id | `Join` without the mutex, threads that launch and join, ids of which 16 bits are kept |
| `BufferReader/Writer`, `NetAddress`, `SocketHelper`, `Allocators`, `CoreGlobal` | little | conversions, Winsock, start up | | |

What makes each part correct:

* the lock excludes, its flag says exactly who is inside, and nobody who nests
  guards properly is blamed or locked out;
* every job queue with work has one runner, jobs run once, one at a time, in order,
  and in the end;
* timed jobs come out in order, in the end, and their memory has one owner;
* a session has one receive chain and one sender, a completion finds its owner,
  the session count is right, sessions can be released and reused;
* the receive buffer hands the peer's stream on unbroken and always has room;
* two send buffers never share a byte, a chunk is recycled once and not before
  its last user is gone;
* an accept event stands for one accept, into the session its packet will find;
* ids tell the owners of locks apart, no thread is forgotten, `Join` returns;
* a block of memory has one owner, fits the request and returns to its pool;
* the profiler stops the process exactly when the lock order has a cycle, and
  its search always ends.

The list of hazards in `PROJECT.json` puts these at the lines where they bite.

## 2. Modules

| Module | Models | Kind |
|---|---|---|
| `Process` | the threads of the process, `FORCED_CRASH` | shared by `Lock` and `DeadLockProfiler` |
| `RWLock` | what callers may expect of the lock | abstract specification |
| `Lock` | `Lock.h`, `Lock.cpp` | one step per atomic operation; implements `RWLock` |
| `SerialExecutor` | what posters may expect of a job queue | abstract specification |
| `JobQueue` | `JobQueue`, `GlobalQueue`, `LockQueue`, `DoGlobalQueueWork` | composition of the three classes; implements `SerialExecutor` |
| `JobTimer` | `JobTimer`, `DistributeReservedJobs` | component |
| `RecvCursors` | cursor arithmetic of `RecvBuffer` | pure operators, shared by the next two |
| `RecvBuffer` | `RecvBuffer` with its bytes, driven by the receive chain | component |
| `Session` | `Session`, `IocpEvent`, `IocpService`, `ClientService` | composition with an external kernel; uses `RecvCursors` |
| `SendBuffer` | `SendBuffer`, `SendBufferChunk`, `SendBufferManager` | component |
| `Memory` | `MemoryManager`, `MemoryPool`, `MemoryHeader`, `ObjectPool` | component |
| `ThreadManager` | `Launch`, `InitTLS`, `Join` | component |
| `Listener` | `ServerService::Start`, `Listener` | component with an external kernel |
| `Server` | a server process | composition of `ThreadManager` and `Listener` |
| `DeadLockProfiler` | `DeadLockProfiler` with its recursive search, call by call | component |
| `LockProofs`, `JobQueueProofs`, `JobTimerProofs`, `RecvBufferProofs`, `SessionProofs`, `SendBufferProofs`, `MemoryProofs`, `ServerProofs` | | proofs about the module of that name; `LockProofs` is about `DeadLockProfiler` too |
| `MC...` | | instances for TLC: model values, id tables, job graphs, symmetry |

### How state and actions correspond to the code

A variable keeps the name of the member it stands for. A thread's position is
`pc[t]`; the locals that live across a step (`expected` in `ReadLock`, the
batch of `Execute`, `tempItems` in `Distribute`) are functions of the thread.
One action is one atomic step: an atomic operation, an access to a plain shared
variable, or the body of a lock scope.

* **Locks elsewhere.** A `WRITE_LOCK` scope is two steps, entering it and its
  body. What may happen in between depends on the constant `WriteGuard`: the
  `WriteLockGuard` of `ServerCore/Lock.h` calls `ReadLock`, so it is `"R"` and
  two threads can be in the scope of one container. That is a data race on a
  standard container; the flag `raced` records it and the model stops there,
  because nothing is defined afterwards. Invariants of the runs with `"R"` are
  therefore statements about executions up to the first race. `"W"` is the
  guard of the C++20 module port of the same classes. `jobs` uses it: the
  executions under `"R"` that have no race are exactly those under `"W"`, so what
  it shows holds of the shipped guard as long as nothing raced, and the liveness
  it asks about is not hidden behind the first race. `ThreadManager` treats
  `Join`, which takes no lock at all, the same way.
* **Asserts.** `ASSERT_CRASH` is checked in Debug builds and dropped with its
  argument in Release builds: the constant `Debug` of `SendBuffer`. In `Session`
  both builds are in one run: the variable `debug` is one of `Builds` and never
  changes.
* **Session and service.** `AddSession` counts and then stores, `ReleaseSession`
  erases and then uncounts, each in two steps inside the scope, since
  `GetCurrentSessionCount` reads `sessionCount` without the lock. The application
  may call `Disconnect` on any session at any time, connected or not; with the
  constant `Careful` it asks `IsConnected` first, so that the two runs that end in
  a counterexample show what befalls a careful application. A connect is refused by
  `SetReuseAddress` or `BindAnyAddress`, before the event is touched, or by
  `ConnectEx`, after its owner is set.
* **Memory.** Of a block the model keeps its header, the pool that obtained it
  (`origin`) and the bytes malloc was asked for (`bytes`): those of the request
  if it is not pooled, otherwise `PoolAllocSize`, which is 0 since the
  constructor of `MemoryPool` drops its argument.
* **Time** is a bounded clock where the code compares ticks (`JobQueue`,
  `JobTimer`). In `Lock` a timeout may fire at any failed attempt.
* **The kernel** (in `Session`) completes a request at once, later, or refuses
  it; in either of the first two cases it leaves a packet in the port, which
  any worker may dequeue at once.
* **Refinement.** `JobQueue` maps to `SerialExecutor` by: submitted are the jobs
  that have entered their queue; waiting is what is left of the runner's batch,
  then `jobs`; running is the job the runner has started last. Taking a batch,
  handing a queue over and counting are stuttering steps.
* **Recursion.** `DFS` is a stack of calls (`calls`), and a step is one turn of
  a loop of `CheckCycle`, of `DFS` or of the loop that prints the cycle. The
  edges a call has not come to are in `untried`; its iterator is the least of
  those that leave its lock, since `nextSet` is a `std::set`. The profiler's
  mutex is held from `PushLock` to its return, so while `pusher` is a thread no
  other step of the profiler is possible.
* **Data.** A job, a session, a chunk or a block is a model value; a byte of the
  stream is its position; the application's callbacks may return anything.
* **History.** Some variables exist only for the properties and guard nothing:
  `posted`, `cleared` in `JobQueue` (where they also end the bounded instance),
  `given` in `Session`, `releases` in `Session`, `delivered`, `freed`,
  `late` in `JobTimer`, `origin`, `bytes` in `Memory`, `received`, `consumed`,
  `overlapped` in `RecvBuffer`.

## 3. Runs

### Properties that hold

| Run | Shows |
|---|---|
| `lock` | Three threads, nestings up to three scopes deep: mutual exclusion; the flag and `writeCount` say exactly which scopes are open; the unlock checks blame nobody but the thread that re-enters the exclusive mode inside a shared scope; the lock implements `RWLock`; no sequence of scopes leaves the flag in a state that keeps a lone waiter out. |
| `jobs` | One runner per queue with work and none otherwise, `jobCount` exact, the job system implements `SerialExecutor` (jobs start one at a time, in order, none lost or repeated), every job posted is started in the end or cleared; with jobs that post jobs, expiring time slices and `ClearJob`. |
| `timer` | A `JobData` has one home from `Reserve` to the pool; delivery in order of due ticks, but for jobs reserved too late for it; every timed job that is due leaves the timer. |
| `recv_buffer` | The stream is unbroken, writes never overflow, dead space is reclaimed in time, `memcpy` overlaps only under a large backlog. |
| `session` | One receive chain and one sender per session, receives fit, no buffer given to `Send` is lost or repeated, a broadcast reaches every session that is connected, with every outcome of every request and disconnects at any time. The session count, read between any two steps of adds and releases of two sessions: in a Debug build the sessions of the service and those on their way in or out, in a Release build less one for every release. |
| `send_buffer` | Buffers are disjoint, a chunk has one home. |
| `memory` | A block has one home; `Release` finds the pool it came from, never through an entry of the table that was not written, or frees a block that was obtained for that request alone, with the bytes its header says; counters settle, header assertions hold, with `MemoryManager` and an `ObjectPool` side by side. |
| `server` | A main thread and two workers launch, start the service, dispatch and join in any order: the owner fields of `Lock` are distinct as long as fewer than 2^16 threads were launched, a handle stays until its thread has ended, `Join` returns when the callbacks do, an accept event never carries two accepts or the accept of another session. |
| `profiler` | The search reports a deadlock exactly when the lock order has a cycle, prints that cycle, always ends, and lets no circle of held locks go unseen, however many threads take part. `Cyclic`, which the properties use, is compared with `Graphs!HasCycle` on every graph of three nodes. |

### Where the code and what it says disagree

Three runs check one sentence of the code's comments or assertions each and end
in a counterexample; `PROJECT.json` quotes the line.

| Run | Counterexample |
|---|---|
| `jobs_race` | `WriteLockGuard` takes the lock shared: two posts are in the `WRITE_LOCK` scope of one queue at once. |
| `session_owner` | A receive that completes at once has its `ownerSession` cleared by `RegisterRecv`; its packet is dispatched through null. |
| `session_release` | A disconnect between `isConnected` and `AddSession` is completed by another worker: the session is released before it was added. |

Other disagreements that came up while modelling. The models contain the
behaviour; no property is kept for it, since each follows from a line or two:

* a writer that takes the read lock and re-enters the write lock inside it is
  ended by `WriteUnlock` (`Lock.cpp:44`), although `Lock.cpp:62` allows the nesting;
* a thread that `ThreadManager` did not launch has id 0 and is taken for the
  owner of a free lock (`Lock.cpp:61`): the theorems assume ids from 1;
* `ClearJob` (`JobQueue.h:38`) leaves `jobCount` as it was, so the queue never
  settles again and its runner goes round on an empty queue;
* a thread that holds the lock shared and asks for it exclusively waits for
  itself until the timeout ends the process (`Lock.cpp:24`);
* the packet of an accept is dispatched to the session that `RegisterAccept`
  stored as the event's owner (`Listener.cpp:84`), and `Session::DispatchEvent`
  has no case for `ACCEPT` (`Session.cpp:29`): `Listener::DispatchEvent` and
  `ProcessAccept` are never called, no accept is armed again and no accepted
  session is connected, although the comment at `Listener.cpp:98` says accepts
  repeat. Were it called,
  `ProcessAccept` would take a successful `getpeername` for a failure
  (`Listener.cpp:120`);
* `CreateSession` may return null (`Service.cpp:46`), and `RegisterAccept` and
  `ClientService::Start` follow the pointer; `RegisterAccept` calls itself on
  every failure, without bound (`Listener.cpp:102`);
* the listener and its service own each other, so neither is destroyed;
* nothing creates `Session::socket` (`Session.h:53`); the models assume a session
  that has one. `SocketHelper::Init` wraps `WSAStartup` and the lookups in
  `ASSERT_CRASH` with the condition of success (`SocketHelper.cpp:7`), and
  `CoreGlobal` is never instantiated; the models start after that;
* a failed connect is dispatched like a successful one (`IocpService.cpp:48`);
* `RegisterSend` ends without `WSASend` (`Session.cpp:169`): a second `Send`
  leaves its buffer in `sendQueue`;
* `isConnected` is never reset (`Session.cpp:195`), so a session cannot be
  connected again;
* `sessions.erase` is the argument of an assertion (`Service.cpp:62`) and does
  not happen in a Release build;
* the loops of `MemoryManager` share `size` (`MemoryManager.cpp:27`), so no pool
  serves 3873 to 4096 bytes and those entries of the table are never written;
* `MemoryPool`'s constructor drops its argument (`MemoryPool.cpp:4`): malloc is
  asked for 0 bytes;
* re-entering a lock with another one taken in between counts as a deadlock
  (`DeadLockProfiler.cpp:31`), and releasing a name that was never locked passes
  for lock 0 (`DeadLockProfiler.cpp:53`).

### Bounds, and why they are enough

* Two threads suffice for every race in these classes, since no shared step
  involves three parties. The lock has three because readers have to be able to
  come and go while a writer waits.
* `session` has two sessions and two workers, so that adds, releases and
  broadcasts of different sessions interleave and the count goes beyond 1, and
  both builds. `MaxLoad` bounds what goes over them: two receives, or two sends
  or broadcasts, or one of each. That fills the buffer of two bytes, starts a
  chain again after it was processed, and lets a second `Send` meet the first.
  More of either, and a third worker, are left to the theorems of `SessionProofs`,
  which have no such bounds.
* Two queues and three jobs, one of which is posted from inside another queue's
  job, make every arm of `Push` and `Execute` happen, the hand over through the
  `GlobalQueue` included. `MaxTick` lets a slice expire and not expire.
* `Mod16` = 10 stands for 2^16. It is larger than the nine scopes three threads
  can have open, so the carry between the fields is out of reach, as it is in
  the code as long as `HoldsFit` holds.
* The receive buffer has three times two bytes and a stream nearly twice as
  long, so that it wraps, compacts and compacts again.
* `Memory` uses the constructor's real sizes; the requests were chosen to fall
  into two neighbouring pools, past the pooling limit, and on an entry of the
  table that was never written.
* The profiler has three threads and three locks nested three deep: cross
  edges, forward edges and cycles of two and three locks arise, and so do circles
  in which three threads take part. Two threads with four locks were checked once
  too; that takes longer than the other runs together.
* The server has two workers, two slots and three sessions: one accept may fail
  and be retried, on either slot. `Mod16` = 4 is just above the three ids in use,
  the largest case `LockOwnersDistinct` speaks of.
* `MaxRounds`, `MaxJobs`, `MaxSends`, `MaxPackets`, `MaxLoad`, `MaxOpens`, `MaxAllocs`,
  `MaxClears`, `MaxCreated` end otherwise endless repetition of the same calls.

Runs in which the bounds, the application or a crash may bring everything to a
halt do not check for deadlock; `jobs`, where workers go on for ever, does.

### Fairness

* Weak fairness for a thread that is inside a method: the operating system
  keeps scheduling it.
* `jobs`, `timer`: workers keep calling `DoGlobalQueueWork` and
  `DistributeReservedJobs`, which is what a worker's loop does;
  in `jobs` this is strong fairness, because a worker may post and clear in
  between; in `timer` time passes.
* `jobs`: strong fairness for entering a lock scope. The spin lock makes
  thousands of attempts per look at the clock, and a thread that never gets in
  ends the process by timeout, so a starved thread is not a behaviour that goes
  on. `timer` does without.
* `server`: threads are scheduled and every callback returns, which is what
  `Join` is for; nothing is assumed about who calls what.
* `lock`: a critical section ends. Nothing is assumed about who wins.

## 4. Proofs

Eight modules hold proofs that TLAPS checks for every value of the constants:
any number of threads, queues, jobs, sessions, chunks and blocks, any sizes, and
either value of `WriteGuard`. Between them the theorems state every invariant,
refinement and action property of the runs. In each module the theorems about a
component are consequences of one inductive invariant, `IInv`; TLC
checked that invariant on the instances of the runs (and on variants with the
other guard or build) before it was proved. Each has one lemma for `Init`, lemmas
for each action, and one that puts the actions together; where the invariant has
unrelated parts the actions are gone through once per part. The bounds (`MaxJobs`,
`MaxPackets` and so on) are arbitrary natural numbers in the theorems, so they
take nothing away.

What a theorem says of a run with a race is as in section 2: the model stops at
the first data race, so under `"R"` the theorems are about executions up to it.

### `LockProofs`

Assumptions: `LockConstants` (finitely many threads, ids and width are natural
numbers, nestings are stacks of modes), `IdsFromThreadManager` (ids are distinct
and from 1 to 2^16 - 1, as `ThreadManager::InitTLS` hands them out) and
`HoldsFit(d)` (at most d scopes per thread, and threads times d below 2^16). The
last two are hypotheses of the theorems and the instance `MCLock` satisfies them.
The first fails for a thread `ThreadManager` did not launch; for those it did,
`LockOwnersTheorem` of `ServerProofs` proves it as long as fewer than 2^16 threads
were launched.

Proved of `Spec`: `MutualExclusion`, `FlagMatchesScopes`,
`UnlockNeverBlamesCaller`, `TypeOK`, and `RefinementTheorem`: `Lock` implements
`RWLock`.

The invariant `IInv(d)`. Mutual exclusion follows from the flag only if the flag
tells the truth, and it tells the truth only if nobody clears it early, which
depends on `writeCount`, which lags behind the flag for a step. So `IInv` counts:
`Tokens(m)` is the set of open scopes of mode m, one token for each thread and
depth; `rd` is the number of `"R"` tokens, `writeCount` the number of `"W"` tokens
less the number of threads between the two operations (`Lagging`), `wr` the id of
the thread that has a `"W"` token. To these it adds what a thread knows from where
it is: the branches for the owner are taken by the owner (`OwnerBranch`), in
`WriteUnlock` the innermost scope is exclusive and no shared one is open
(`Unlocking`), the store happens at a count of 0 (`Storing`), and who is about to
enter has room (`DepthBound`). Then
* a successful `compare_exchange` on `EMPTY_FLAG` means no tokens at all, and one
  on an owner of 0 means no `"W"` tokens, however stale the count expected;
* what one thread knows survives the others' steps, because only a thread that
  excludes it could change what it knows (`KnowledgeKept`);
* no count reaches 2^16, since tokens are among threads times d places
  (`TokensBound`), so `FetchAdd` and `FetchSub` neither carry nor borrow;
* `writeCount` is 0 after the decrement exactly when the last `"W"` token goes.

### `LockProofs`, second half: `DeadLockProfiler`

Assumptions: `ProfilerConstants` (the bound on the depth is a number, and `None`
is not a thread). Threads, names and depth are arbitrary: no step of this half cites
`LockConstants`.

Proved of `ProfilerSpec`: `CrashIffCycle`, `ReportIsCycle`, `NoUnseenDeadlock` and
the action property `SearchShrinks`. `NoClosedWalkTheorem` says the second half of
`CrashIffCycle` in terms of walks, as sequences of edges of any length, so that the
result does not hang on `Cyclic`, which speaks of sets of locks that cannot be left.

The invariant `ProfilerInv`. That nothing was found means something only if the
marks of the search do, so it says what they mean. `CallPath`: the locks of the
calls are visited and not finished, and only they; each was visited after the one
before it, which is its `parent` and has an edge to it. This makes the comparison of
`visitedOrder` and the test of `isFinished` tell the kinds of edges apart
(`VisitedLock`): what is visited and not finished is the lock of an outer call, so
the edge to it closes a cycle. `Explored`: an edge that was looked at leads to a
finished lock, or is the one by which its call made the next call; edges from
finished locks lead to finished locks; and these have no cycle. The last of them
is kept when `DFS` returns because the lock it finishes has no edge to itself and none
comes to it from a finished lock. When `CheckCycle` ends every lock is finished, so
the history has no cycle (`SearchedIsAcyclic`). `Printed`: what was printed is a
walk back along the calls to an outer one, so the `while (true)` meets the lock it
looks for. `StacksSettled`: neighbours on a stack are the same lock or an edge of the
history that was searched before, and that history has no cycle.

`NoUnseenDeadlock` needs the last part and an argument of its own, since the
profiler only records the lock right below: were locks held in a circle, then the
locks below them on the stacks, with them, would be a circle of recorded edges
(`StackLeaves`, which takes the least position at which a stack leaves a lock).

`SearchShrinks` is the part of termination that is a safety property. `Work` adds
up the edges still to be looked at, twice the locks still to be visited, the calls
to return from and the turns left of `CheckCycle`; every step of the search lowers
it, and every step of the printing loop goes to a lock visited earlier.

### `RecvBufferProofs`

Assumption: `BufferAssumption`, the buffer size and the buffer count are positive.

Proved: `StreamIntact`, `NoWriteOverflow`, `WindowNotStarved`,
`OverlapNeedsBacklog` (an action property) and `TypeOK`.

The invariant adds two facts to these: `WindowIsFree`, the length registered with
the kernel equals the free tail at the moment of completion, because nothing but
the receive chain itself moves the cursors in between; and `CleanLeavesRoom`,
after `Clean` there are `bufferSize` free bytes or the data starts at the front.
Without the first, `OnWrite` could overflow; without the second, a receive could
be registered with no room. The longest part is `CleanUpIInv`, which carries the
stream over a compaction: what `memcpy` does to ranges that do not overlap.

### `JobQueueProofs`

Assumptions: `JobConstants` (finitely many threads and jobs, each job has a queue
and a sequence of jobs its body posts) and `EachPostedOnce` (a job is posted from
one place, since `DoAsync` makes a `Job` object for each call).

Proved: `OneRunner`, `CountMatchesJobs`, `TypeOK`, and
`ImplementsExecutorTheorem`: `JobQueue` implements `SerialExecutor`.

The invariant has five parts. `OneHolder`: a queue with `jobCount` above 0 is held
in exactly one way, by the thread that raised the count from 0 and has not decided
yet, by a thread that executes it or hands it over, or by one entry of the
`GlobalQueue`. It needs `CountInv`: only because the count is exactly what is in
the queue, in the batch, on its way and cleared does `fetch_sub` return the size of
the batch exactly when nothing is left. `CountInv` in turn needs `OnePlace`, a
job is in one queue, one batch or one thread's hand, once. `OnePlace` needs
`BodiesPost`, what a running body has still to post was never posted. `Shape` is
the type and what each thread has in hand. The refinement follows from
`OneHolder`, which makes "the batch of a queue" and "the job that was started last"
well defined, and goes through the actions once: entering the queue submits,
starting a job of the batch runs it, clearing drops what waits, all else stutters.

### `JobTimerProofs`

Assumption: `JobTimerConstants` (natural bounds and delays; `None` is no item).

Proved: `DeliveredInOrder`, `JobDataHasOneHome`, `TypeOK`.

`OneDistributor` says what the exchange on `distributing` achieves. `HeldOnce` and
`OnePlace` follow a `JobData` from `Reserve` through the heap and `tempItems` to the
pool. `Ordered` carries the order: what is still in the heap is due after the
last look at the clock (`lastNow`) or was reserved late, and what a worker has
taken out comes after all that was delivered. Without `OneDistributor` neither
holds: two workers' batches would be delivered interleaved.

### `SessionProofs`

Assumptions: `BufferAssumption` and `SessionConstants` (finitely many sessions;
`None` is neither a session nor a set of sessions).

Proved: `OneReceiver`, `RecvFits`, `OneSender`, `NoSendLost`, `CountMatchesSessions`
and `TypeOK`, for both builds and with and without `Careful`.

* `Receiving`. The chain of a session passes from thread to kernel to port to
  another thread; `OneChain` says it is in one of these places at a time, and
  that needs `StartedFirst` (there is no chain before `Start` makes the connect) and
  `AddedOnce` (a session still connecting is not in the service). `Fits` is the
  reason a receive fits: the free space is what was offered from `WSARecv`
  until `OnWrite`, because the chain is the only one to move the cursors. The
  chain goes on to the kernel or the port when `WSARecv` is called. The worker
  the call returns to is not part of it, and what that worker may still do to
  `recvEvent.ownerSession`, beside the one that dispatches the packet, is not
  covered by `OneReceiver`: the run `session_owner` is about it.
* `Sending`. Each buffer is in `sendQueue` or `sendEvent` exactly if it was given
  to the session and its `Send` is past the lock (`Stored`); `BroadCast` has given
  its buffer to exactly the sessions it has visited (`Visited`); whoever
  prepares `sendEvent` has set `isSendRegistered`, which nobody resets
  (`Registered`).
* `CountRight` needs `Alone`: who is between the two steps of `AddSession` or
  `ReleaseSession` has the scope, and until a race is recorded one thread has it.
  So at most one session is counted and not stored, or erased and not uncounted,
  and `AddedOnce` says that a session is not added twice. In a Release build the
  set does not shrink, and the count is off by `releases`.

### `SendBufferProofs`

Assumption: `SendBufferConstants` (natural sizes; `None` is no chunk).
`DisjointRegionsTheorem` and `TypeCorrect` have the hypothesis `Debug`: a Release
build drops the checks in `Open` and `Close`, and a caller that writes more than it
asked for can then fill a chunk beyond its size.

Proved: `ChunkHasOneHome` in both builds; `DisjointRegions` and `TypeOK` in Debug.

`Homed` follows a chunk through the pool, the thread that cuts from it, the
deleter that gives it back and the buffers that keep it alive: made and kept are
the same (`NoneLost`), a pooled chunk is nobody else's (`PoolRight`), threads and
deleters have chunks of their own (`Apart`). `Cut` adds that closed buffers lie
below `usedSize` and the one that is open begins there. A chunk is reset only when
it comes out of the pool, where by `Homed` it has no buffer: that is why resetting
`usedSize` keeps `Cut`.

### `MemoryProofs`

Assumption: `MemoryConstants` (three loops with positive steps, natural sizes, a type
of an `ObjectPool` is not a size, finitely many threads and blocks).

Proved: `BlockHasOneHome`, `ReturnsToOrigin`, `HeadersConsistent`,
`CountersSettle`.

A block released goes by the size in its header to a pool of the table, and the
table must lead it to where it came from: `HeldRight` ties the header of a block
the application holds to its origin, `ListsRight` says a pool has blocks of its
own, each once and with a cleared header. `Obtained` says with how many bytes a
block was obtained, by a pool or for a request. `ThreadsApart` and `NoneLost` complete
the one home. `CountInv` says by how much each counter is off while threads are
between the step on the list and the step on the counter; with no thread there
it is `CountersSettle`. Nothing about the values in the table is used beyond that it
is a function of the size, so the gap the constructor leaves (section 3) does
not affect these results: a request that falls into it gets no block. Nor is the
value of `PoolAllocSize` used; that it is 0 (section 3) means that the blocks of a
pool are alike, not that they are large enough.

### `ServerProofs`

Assumptions: `ThreadConstants` (the main thread is no worker, `None` no thread, the
width positive) and `ServerConstants` (natural bounds).

Proved: `LockOwnersDistinct`, `NoThreadForgotten`, `OneAcceptPerEvent`.

`ThreadInv`: `IdsDistinct`, ids are given out once and below `s_ThreadId`, which is
all `LockOwnersDistinct` needs while `s_ThreadId` is at most 2^16; `JoinsAlone`,
until a race one thread is in `Join` and then none is in `Launch`'s scope, so
`threads` does not grow under `Join`; `PassedEnded`, the threads `Join` has passed
have ended, so clearing forgets nobody. `ListenerInv`: every accept under way is of
the session its event names, and of an event `StartAccept` is not working on, so
that storing the next session in an event never disturbs an accept.

### Left to TLC

Liveness (`LoneWaiterAcquires`, `EveryJobRuns`, `EveryTimerFires`, `JoinReturns`),
which the prover does not handle. That `Cyclic` is `Graphs!HasCycle` is an assumption
of `MCDeadLockProfiler` which TLC evaluates; no proof uses it.

## 5. What is left out

* Liveness is checked by TLC only.
* `Listener::DispatchEvent`, `ProcessAccept` and the destructor of `Listener` have
  no action, because nothing reaches them (section 3). `ProcessSend` is likewise
  out of reach: `RegisterSend` makes no request.
* `PacketSession` is only named in a comment (`Types.h:30`).
* `BufferReader/Writer`: sequential, used by nothing, and their templates do not
  compile when instantiated (`BufferReader.h:51`, `BufferWriter.h:37`); what is left
  is one addition to a cursor.
* `NetAddress`, `SocketHelper`, `Allocators`, `Container`, `CoreGlobal`, `Job`:
  conversions, wrappers and start up without state that threads share.
* The `Server` and `Client` programs, whose `main` prints a line and whose
  `SimpleIocpServer.h` is a sketch that does not compile; `TestProject`; the C++20
  port `ServerCore_Module`, a second copy of the same classes.
* Generated protobuf code and the vendored protobuf library
  (`ServerPortfolio/Headers/google`). They are more than nine tenths of the lines
  under `src`; the models stand for the code this repository adds to them.
* `JobQueue` lets an idle thread call `ClearJob`, not a job that runs;
  `CheckCycle`, which is public, is called by `PushLock` only, as everywhere in the
  code; the overload of `JobTimer::Reserve` that is given a finished `TimerItem`, which
  nothing calls, has no action of its own. `sendEvent.ownerSession` and the `WSABUF`s `RegisterSend` fills are
  dropped, since no request is made with them.
* The memory model: atomics are sequentially consistent (they are, by default,
  in this code) and plain variables behave so within a scope.

## 6. Plan

Done, in this order: `RWLock` and `Lock` (everything rests on them), `JobQueue`
(the heart of the server), `RecvBuffer` with its proofs, `Session`,
`SendBuffer`, `JobTimer`, `Memory`, `DeadLockProfiler`; then `SerialExecutor` and
the refinement, `BroadCast`, `ThreadManager`, `Listener` and `Server`, `ObjectPool`.

Proofs, in this order: `RecvBufferProofs`, `LockProofs`; then `ServerProofs`,
`JobQueueProofs` with the refinement of `SerialExecutor`, `MemoryProofs`,
`SessionProofs`, `SendBufferProofs`, `JobTimerProofs`; and the profiler, in
`LockProofs`, for which its recursive search became a stack of calls.

What is left: action properties the invariants make easy and no run asks about
yet (a queue changes hands only by way of the `GlobalQueue`, a chunk is reset only
without buffers), each to be checked by a run before it is proved; and shorter
proofs where an action is gone through several times.

The runs cover what of the code can be reached. `JobTimer` hands a due job to its
queue with `_pushOnly`; `JobQueue` has that call as `DistributePush`, and a module
that composes the two would only join the two clocks.
