-------------------------------- MODULE Lock --------------------------------
(***************************************************************************)
(* class Lock (ServerCore/Lock.h, Lock.cpp): the recursive reader-writer   *)
(* spin lock every container of the server is guarded with.                *)
(*                                                                         *)
(* The 32-bit atomic lockFlag packs two 16-bit fields, the owner's thread  *)
(* id and the number of shared holders; here it is the record [wr, rd],    *)
(* and Mod16 stands for 2^16.  writeCount is a plain uint16.  Every atomic *)
(* operation, and every access to writeCount, is a step of its own, so     *)
(* that what a thread loaded may be stale when it acts on it.              *)
(*                                                                         *)
(* Scopes nest as the guards' constructors and destructors make them nest: *)
(* held[t] is the stack of modes thread t has acquired.  Nestings is the   *)
(* set of stacks the calling code may build; it bounds the depth.          *)
(*                                                                         *)
(* Time is not modelled: a thread that spins may reach                     *)
(* ACQUIRE_TIMEOUT_TICK at any moment.  FORCED_CRASH terminates the        *)
(* process: it sets crashed and nothing steps any more.                    *)
(***************************************************************************)
EXTENDS Process, Integers, Sequences, FiniteSets

CONSTANTS
    ThreadId,    \* tls_ThreadId of each of them
    Mod16,       \* 2^16, the width of either half of lockFlag
    Nestings     \* the stacks of scopes the callers build, innermost last

Modes == {"R", "W"}

ASSUME LockConstants ==
    /\ IsFiniteSet(Threads)
    /\ ThreadId \in [Threads -> Nat]
    /\ Mod16 \in Nat \ {0}
    /\ \A s \in Nestings : s \in Seq(Modes)

VARIABLES
    lockFlag,    \* [wr |-> owner's thread id, rd |-> shared holders]
    writeCount,  \* depth of the owner's exclusive recursion
    pc,          \* where each thread is inside Lock's methods
    expected,    \* ReadLock's local: the value its CAS expects
    held         \* the scopes each thread has acquired, innermost last

vars == <<lockFlag, writeCount, pc, expected, held, crashed>>

EMPTY_FLAG == [wr |-> 0, rd |-> 0]

\* lockFlag.fetch_add(1): a full read count carries into the owner field.
FetchAdd(f) ==
    IF f.rd + 1 < Mod16 THEN [f EXCEPT !.rd = @ + 1]
    ELSE [wr |-> (f.wr + 1) % Mod16, rd |-> 0]

\* lockFlag.fetch_sub(1): an empty read count borrows from the owner field.
FetchSub(f) ==
    IF f.rd > 0 THEN [f EXCEPT !.rd = @ - 1]
    ELSE [wr |-> (f.wr + Mod16 - 1) % Mod16, rd |-> Mod16 - 1]

Top(s) == s[Len(s)]
Pop(s) == SubSeq(s, 1, Len(s) - 1)

HoldsWrite(t) == \E i \in DOMAIN held[t] : held[t][i] = "W"

Goto(t, to) == pc' = [pc EXCEPT ![t] = to]
Acquire(t, m) == held' = [held EXCEPT ![t] = Append(@, m)]
Release(t) == held' = [held EXCEPT ![t] = Pop(@)]

MayNest(t, m) == Append(held[t], m) \in Nestings

FORCED_CRASH(why) ==
    /\ crashed' = why
    /\ UNCHANGED <<lockFlag, writeCount, pc, expected, held>>

Init ==
    /\ lockFlag = EMPTY_FLAG
    /\ writeCount = 0
    /\ pc = [t \in Threads |-> "idle"]
    /\ expected = [t \in Threads |-> 0]
    /\ held = [t \in Threads |-> << >>]
    /\ crashed = "none"

-----------------------------------------------------------------------------
\* WriteLock

\* The load that tells recursion from a first acquisition.
WriteLockLoad(t) ==
    /\ pc[t] = "idle" /\ MayNest(t, "W")
    /\ Goto(t, IF lockFlag.wr = ThreadId[t] THEN "write_recurse" ELSE "write_cas")
    /\ UNCHANGED <<lockFlag, writeCount, expected, held, crashed>>

WriteLockRecurse(t) ==
    /\ pc[t] = "write_recurse"
    /\ writeCount' = (writeCount + 1) % Mod16
    /\ Acquire(t, "W")
    /\ Goto(t, "idle")
    /\ UNCHANGED <<lockFlag, expected, crashed>>

\* Mutant: only the owner field is compared, readers are overlooked.
WriteLockCasOwnerOnly(t) ==
    /\ pc[t] = "write_cas"
    /\ lockFlag.wr = 0
    /\ lockFlag' = [lockFlag EXCEPT !.wr = ThreadId[t] % Mod16]
    /\ Acquire(t, "W")
    /\ Goto(t, "write_count")
    /\ UNCHANGED <<writeCount, expected, crashed>>

\* Mutant: the only reader may turn its shared scope into an exclusive one.
WriteLockCasUpgrades(t) ==
    /\ pc[t] = "write_cas"
    /\ lockFlag.wr = 0 /\ lockFlag.rd = (IF held[t] = <<"R">> THEN 1 ELSE 0)
    /\ lockFlag' = [lockFlag EXCEPT !.wr = ThreadId[t] % Mod16]
    /\ Acquire(t, "W")
    /\ Goto(t, "write_count")
    /\ UNCHANGED <<writeCount, expected, crashed>>

\* A failed compare_exchange only spins, so only the successful one is a step.
WriteLockCas(t) ==
    /\ pc[t] = "write_cas"
    /\ lockFlag = EMPTY_FLAG
    /\ lockFlag' = [wr |-> ThreadId[t] % Mod16, rd |-> 0]
    /\ Acquire(t, "W")
    /\ Goto(t, "write_count")
    /\ UNCHANGED <<writeCount, expected, crashed>>

WriteLockCount(t) ==
    /\ pc[t] = "write_count"
    /\ writeCount' = (writeCount + 1) % Mod16
    /\ Goto(t, "idle")
    /\ UNCHANGED <<lockFlag, expected, held, crashed>>

WriteLockTimeout(t) ==
    /\ pc[t] = "write_cas"
    /\ FORCED_CRASH("WriteLock_timeout")

-----------------------------------------------------------------------------
\* WriteUnlock

WriteUnlockCheck(t) ==
    /\ pc[t] = "idle" /\ held[t] # << >> /\ Top(held[t]) = "W"
    /\ IF lockFlag.rd # 0
       THEN FORCED_CRASH("WriteUnlock_order")
       ELSE /\ Goto(t, "write_uncount")
            /\ UNCHANGED <<lockFlag, writeCount, expected, held, crashed>>

\* Mutant: the first unlock frees the lock, whatever the recursion depth.
WriteUnlockCountFlat(t) ==
    /\ pc[t] = "write_uncount"
    /\ writeCount' = (writeCount + Mod16 - 1) % Mod16
    /\ Goto(t, "write_store")
    /\ UNCHANGED <<lockFlag, expected, held, crashed>>

WriteUnlockCount(t) ==
    /\ pc[t] = "write_uncount"
    /\ writeCount' = (writeCount + Mod16 - 1) % Mod16
    /\ IF writeCount' = 0
       THEN Goto(t, "write_store") /\ held' = held
       ELSE Goto(t, "idle") /\ Release(t)
    /\ UNCHANGED <<lockFlag, expected, crashed>>

WriteUnlockStore(t) ==
    /\ pc[t] = "write_store"
    /\ lockFlag' = EMPTY_FLAG
    /\ Release(t)
    /\ Goto(t, "idle")
    /\ UNCHANGED <<writeCount, expected, crashed>>

-----------------------------------------------------------------------------
\* ReadLock

ReadLockLoad(t) ==
    /\ pc[t] = "idle" /\ MayNest(t, "R")
    /\ Goto(t, IF lockFlag.wr = ThreadId[t] THEN "read_add" ELSE "read_load")
    /\ UNCHANGED <<lockFlag, writeCount, expected, held, crashed>>

ReadLockAdd(t) ==
    /\ pc[t] = "read_add"
    /\ lockFlag' = FetchAdd(lockFlag)
    /\ Acquire(t, "R")
    /\ Goto(t, "idle")
    /\ UNCHANGED <<writeCount, expected, crashed>>

\* Mutant: READ_COUNT_MASK is forgotten and the whole word is expected.
ReadLockExpectUnmasked(t) ==
    /\ pc[t] = "read_load"
    /\ expected' = [expected EXCEPT ![t] = lockFlag.wr * Mod16 + lockFlag.rd]
    /\ Goto(t, "read_cas")
    /\ UNCHANGED <<lockFlag, writeCount, held, crashed>>

ReadLockExpect(t) ==
    /\ pc[t] = "read_load"
    /\ expected' = [expected EXCEPT ![t] = lockFlag.rd]
    /\ Goto(t, "read_cas")
    /\ UNCHANGED <<lockFlag, writeCount, held, crashed>>

\* Mutant: the load of expected is hoisted out of the loop.
ReadLockCasKeepsExpected(t) ==
    /\ pc[t] = "read_cas"
    /\ IF lockFlag = [wr |-> 0, rd |-> expected[t]]
       THEN /\ lockFlag' = FetchAdd(lockFlag)
            /\ Acquire(t, "R")
            /\ Goto(t, "idle")
       ELSE UNCHANGED <<lockFlag, held, pc>>
    /\ UNCHANGED <<writeCount, expected, crashed>>

\* The CAS expects an owner field of 0 and the count it loaded.  When the
\* count is 2^16 - 1 the new value carries into the owner field.
ReadLockCas(t) ==
    /\ pc[t] = "read_cas"
    /\ IF lockFlag = [wr |-> 0, rd |-> expected[t]]
       THEN /\ lockFlag' = FetchAdd(lockFlag)
            /\ Acquire(t, "R")
            /\ Goto(t, "idle")
       ELSE /\ Goto(t, "read_load")
            /\ UNCHANGED <<lockFlag, held>>
    /\ UNCHANGED <<writeCount, expected, crashed>>

\* The clock is read after a round of failed compare_exchanges.
ReadLockTimeout(t) ==
    /\ pc[t] = "read_load"
    /\ FORCED_CRASH("ReadLock_timeout")

-----------------------------------------------------------------------------
\* Mutant: the check is made on the value after the subtraction.
ReadUnlockChecksNew(t) ==
    /\ pc[t] = "idle" /\ held[t] # << >> /\ Top(held[t]) = "R"
    /\ lockFlag' = FetchSub(lockFlag)
    /\ crashed' = IF lockFlag'.rd = 0 THEN "ReadUnlock_multiple" ELSE crashed
    /\ Release(t)
    /\ UNCHANGED <<writeCount, pc, expected>>

\* ReadUnlock: the check is made on the value fetch_sub returns.
ReadUnlock(t) ==
    /\ pc[t] = "idle" /\ held[t] # << >> /\ Top(held[t]) = "R"
    /\ lockFlag' = FetchSub(lockFlag)
    /\ crashed' = IF lockFlag.rd = 0 THEN "ReadUnlock_multiple" ELSE crashed
    /\ Release(t)
    /\ UNCHANGED <<writeCount, pc, expected>>

-----------------------------------------------------------------------------

\* One atomic step of a method thread t is executing.
Step(t) ==
    \/ WriteLockRecurse(t) \/ WriteLockCas(t) \/ WriteLockCount(t)
    \/ WriteUnlockCount(t) \/ WriteUnlockStore(t)
    \/ ReadLockAdd(t) \/ ReadLockExpect(t) \/ ReadLockCas(t)

\* A scope begins: a guard, or a caller of its own, calls WriteLock or ReadLock.
\* (WriteLockGuard calls ReadLock; within ServerCore nothing calls WriteLock.)
Enter(t) == WriteLockLoad(t) \/ ReadLockLoad(t)

\* A scope ends.
Exit(t) == WriteUnlockCheck(t) \/ ReadUnlock(t)

Timeout(t) == WriteLockTimeout(t) \/ ReadLockTimeout(t)

Next ==
    /\ crashed = "none"
    /\ \E t \in Threads : Step(t) \/ Enter(t) \/ Exit(t) \/ Timeout(t)

Spec == Init /\ [][Next]_vars

\* The operating system keeps scheduling every thread: one that is inside a
\* method goes on, and a critical section ends.
Fairness ==
    \A t \in Threads : /\ WF_vars(crashed = "none" /\ Step(t))
                       /\ WF_vars(crashed = "none" /\ Exit(t))

FairSpec == Spec /\ Fairness

-----------------------------------------------------------------------------
(* Assumptions on the callers under which the lock is correct.              *)

\* ThreadManager::InitTLS numbers the threads it launches from 1, so ids are
\* distinct and none is 0; they fit the owner field as long as fewer than
\* 2^16 threads have ever been launched.
IdsFromThreadManager ==
    /\ \A t \in Threads : ThreadId[t] \in 1 .. (Mod16 - 1)
    /\ \A t, u \in Threads : ThreadId[t] = ThreadId[u] => t = u

\* No more than 2^16 - 1 scopes are ever open at once.
HoldsFit(maxDepth) ==
    /\ maxDepth \in Nat
    /\ \A s \in Nestings : Len(s) <= maxDepth
    /\ Cardinality(Threads) * maxDepth < Mod16

-----------------------------------------------------------------------------
(* Properties.                                                              *)

PCs == {"idle", "write_recurse", "write_cas", "write_count", "write_uncount",
        "write_store", "read_add", "read_load", "read_cas"}

CrashReasons ==
    {"WriteLock_timeout", "ReadLock_timeout",
     "WriteUnlock_order", "ReadUnlock_multiple"}

\* The state of the lock has its type.
TypeOK ==
    /\ lockFlag \in [wr : 0 .. (Mod16 - 1), rd : 0 .. (Mod16 - 1)]
    /\ writeCount \in 0 .. (Mod16 - 1)
    /\ pc \in [Threads -> PCs]
    /\ expected \in [Threads -> 0 .. (Mod16 - 1)]
    /\ held \in [Threads -> Seq(Modes)]
    /\ crashed \in CrashReasons \cup {"none"}

\* The scopes of mode m that are open, one token <<t, i>> for each.
Tokens(m) == {k \in Threads \X (1 .. Mod16) :
                 k[2] \in DOMAIN held[k[1]] /\ held[k[1]][k[2]] = m}

\* Lock.cpp:73 "while the write lock is occupied the read lock cannot be":
\* as long as a thread is in an exclusive scope no other thread is in any.
MutualExclusion ==
    \A t, u \in Threads : t # u /\ HoldsWrite(t) => held[u] = << >>

\* lockFlag and writeCount tell exactly which scopes are open: the read count
\* is the number of shared scopes, the owner is the thread that is in an
\* exclusive one, and writeCount is the depth of its recursion, but for the
\* two moments between the atomic operation and the plain one.  In particular
\* the lock is EMPTY_FLAG again when everyone has left.
FlagMatchesScopes ==
    /\ lockFlag.rd = Cardinality(Tokens("R"))
    /\ \A t \in Threads : HoldsWrite(t) <=> lockFlag.wr = ThreadId[t]
    /\ (\A t \in Threads : ~HoldsWrite(t)) => lockFlag.wr = 0
    /\ writeCount = Cardinality(Tokens("W"))
                    - Cardinality({t \in Threads : pc[t] \in {"write_count", "write_store"}})

\* Guards that nest correctly never make ReadUnlock report a multiple unlock,
\* and WriteUnlock reports an invalid order only to a thread that re-entered
\* the exclusive mode inside a shared scope of its own.
UnlockNeverBlamesCaller ==
    /\ crashed # "ReadUnlock_multiple"
    /\ crashed = "WriteUnlock_order" =>
         \E t \in Threads : \E i, j \in DOMAIN held[t] :
            i < j /\ held[t][i] = "R" /\ held[t][j] = "W"

Spinning(t) == pc[t] \in {"write_cas", "read_load", "read_cas"}

\* A thread that waits for the lock gets it once it is the only one left: no
\* sequence of scopes of the other threads leaves the flag in a state that
\* locks everybody out for ever.
LoneWaiterAcquires ==
    \A t \in Threads :
        ~ <>[] /\ crashed = "none"
               /\ Spinning(t)
               /\ held[t] = << >>
               /\ \A u \in Threads \ {t} : pc[u] = "idle" /\ held[u] = << >>

\* The lock implements the abstract reader-writer lock.
RW == INSTANCE RWLock WITH Threads <- Threads, held <- held

ImplementsRWLock == RW!Spec

=============================================================================
