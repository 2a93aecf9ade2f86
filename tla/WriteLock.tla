------------------------------- MODULE WriteLock -------------------------------
(***************************************************************************)
(* The single-writer discipline of particles/db.py.  A writer is an asyncio *)
(* task of some process (the engine, or a direct-I/O CLI verb).  write_lock *)
(* takes the process's asyncio.Lock first, which queues its waiters first   *)
(* come first served, then the cross-process file lock beside the database, *)
(* from a pool thread and with a timeout.  write_transaction opens one      *)
(* SQLite transaction inside the lock and commits or rolls it back before   *)
(* the lock is released.  A process may die at any point: the operating     *)
(* system then frees its file lock, and SQLite forgets its open             *)
(* transaction.                                                            *)
(*                                                                         *)
(* A task may be cancelled while it waits.  asyncio.to_thread cannot stop   *)
(* the thread it started, so the file lock's acquire goes on without the    *)
(* task that asked for it: an orphan.                                      *)
(***************************************************************************)
EXTENDS Naturals, Sequences

CONSTANTS
    Proc,        \* operating-system processes that open the store
    Task,        \* asyncio tasks that write
    ProcOf,      \* the process each task runs in
    NoTask,      \* nobody holds an asyncio.Lock
    NoProc,      \* nobody holds the file lock
    MaxCancel    \* bound: cancelled acquires per process

ASSUME WriteLockAssumption ==
    /\ ProcOf \in [Task -> Proc]
    /\ NoTask \notin Task
    /\ NoProc \notin Proc
    /\ MaxCancel \in Nat

VARIABLES
    pc,       \* where each task stands in write_transaction
    alock,    \* per process: the task holding the asyncio.Lock
    aqueue,   \* per process: the tasks waiting for it, first come first
    fowner,   \* the process holding the operating system's file lock
    fcount,   \* per process: FileLock.lock_counter, its re-entrant depth
    orphans,  \* per process: acquire threads whose task was cancelled
    cancels,  \* per process: cancelled acquires so far
    dirty     \* the tasks with an open SQLite transaction

vars == <<pc, alock, aqueue, fowner, fcount, orphans, cancels, dirty>>

PC == {"idle", "waitAsync", "waitFile", "block", "settled", "freed", "dead"}

\* The tasks between taking and giving back the asyncio.Lock.
Inside == {"waitFile", "block", "settled", "freed"}

Init ==
    /\ pc = [t \in Task |-> "idle"]
    /\ alock = [p \in Proc |-> NoTask]
    /\ aqueue = [p \in Proc |-> <<>>]
    /\ fowner = NoProc
    /\ fcount = [p \in Proc |-> 0]
    /\ orphans = [p \in Proc |-> 0]
    /\ cancels = [p \in Proc |-> 0]
    /\ dirty = {}

--------------------------------------------------------------------------------
\* asyncio.Lock.acquire on an unlocked lock nobody waits for.
AsyncAcquire(t) ==
    LET p == ProcOf[t] IN
    /\ pc[t] = "idle" /\ alock[p] = NoTask /\ aqueue[p] = <<>>
    /\ alock' = [alock EXCEPT ![p] = t]
    /\ pc' = [pc EXCEPT ![t] = "waitFile"]
    /\ UNCHANGED <<aqueue, fowner, fcount, orphans, cancels, dirty>>

\* asyncio.Lock.acquire on a locked lock, or behind other waiters.
AsyncEnqueue(t) ==
    LET p == ProcOf[t] IN
    /\ pc[t] = "idle" /\ (alock[p] # NoTask \/ aqueue[p] # <<>>)
    /\ aqueue' = [aqueue EXCEPT ![p] = Append(@, t)]
    /\ pc' = [pc EXCEPT ![t] = "waitAsync"]
    /\ UNCHANGED <<alock, fowner, fcount, orphans, cancels, dirty>>

\* The released lock goes to the first waiter.
AsyncGrant(t) ==
    LET p == ProcOf[t] IN
    /\ pc[t] = "waitAsync" /\ alock[p] = NoTask
    /\ aqueue[p] # <<>> /\ Head(aqueue[p]) = t
    /\ alock' = [alock EXCEPT ![p] = t]
    /\ aqueue' = [aqueue EXCEPT ![p] = Tail(@)]
    /\ pc' = [pc EXCEPT ![t] = "waitFile"]
    /\ UNCHANGED <<fowner, fcount, orphans, cancels, dirty>>

\* FileLock.acquire by a thread of process p: re-entrant in the process, because
\* the lock object is shared (thread_local=False), exclusive across processes.
FileFreeAlways(p) == TRUE                   \* mutant: the file lock excludes nobody

FileFree(p) == fowner \in {NoProc, p}

FileTake(p) ==
    /\ FileFree(p)
    /\ fowner' = p
    /\ fcount' = [fcount EXCEPT ![p] = @ + 1]

\* mutant: released in the block and again in its finally
FileReleaseTwice(p) ==
    /\ fcount' = [fcount EXCEPT ![p] = @ - 2]
    /\ fowner' = NoProc

\* FileLock.release by a thread of process p: the last level frees the lock.
FileRelease(p) ==
    /\ fcount' = [fcount EXCEPT ![p] = @ - 1]
    /\ fowner' = IF fcount[p] = 1 THEN NoProc ELSE fowner

FileAcquire(t) ==
    /\ pc[t] = "waitFile"
    /\ FileTake(ProcOf[t])
    /\ pc' = [pc EXCEPT ![t] = "block"]
    /\ dirty' = dirty \cup {t}          \* BEGIN IMMEDIATE
    /\ UNCHANGED <<alock, aqueue, orphans, cancels>>

\* mutant: no outer finally around the timeout
FileTimeoutKeepsLock(t) ==
    /\ pc[t] = "waitFile" /\ ~FileFree(ProcOf[t])
    /\ pc' = [pc EXCEPT ![t] = "idle"]
    /\ UNCHANGED <<alock, aqueue, fowner, fcount, orphans, cancels, dirty>>

\* timeout_seconds elapse: WriteLockTimeout leaves through the outer finally.
FileTimeout(t) ==
    /\ pc[t] = "waitFile" /\ ~FileFree(ProcOf[t])
    /\ pc' = [pc EXCEPT ![t] = "idle"]
    /\ alock' = [alock EXCEPT ![ProcOf[t]] = NoTask]
    /\ UNCHANGED <<aqueue, fowner, fcount, orphans, cancels, dirty>>

\* mutant: the commit is left to the caller of write_transaction
SettleUncommitted(t) ==
    /\ pc[t] = "block"
    /\ pc' = [pc EXCEPT ![t] = "settled"]
    /\ UNCHANGED <<alock, aqueue, fowner, fcount, orphans, cancels, dirty>>

\* The block ends: write_transaction commits, or rolls back what an exception
\* left, and only then leaves the lock.
Settle(t) ==
    /\ pc[t] = "block"
    /\ pc' = [pc EXCEPT ![t] = "settled"]
    /\ dirty' = dirty \ {t}
    /\ UNCHANGED <<alock, aqueue, fowner, fcount, orphans, cancels>>

ReleaseFile(t) ==
    /\ pc[t] = "settled"
    /\ FileRelease(ProcOf[t])
    /\ pc' = [pc EXCEPT ![t] = "freed"]
    /\ UNCHANGED <<alock, aqueue, orphans, cancels, dirty>>

ReleaseAsync(t) ==
    /\ pc[t] = "freed"
    /\ alock' = [alock EXCEPT ![ProcOf[t]] = NoTask]
    /\ pc' = [pc EXCEPT ![t] = "idle"]
    /\ UNCHANGED <<aqueue, fowner, fcount, orphans, cancels, dirty>>

--------------------------------------------------------------------------------
\* A deadline or a disconnect cancels a task queued for the asyncio.Lock.
CancelQueued(t) ==
    LET p == ProcOf[t] IN
    /\ pc[t] = "waitAsync" /\ cancels[p] < MaxCancel
    /\ \E i \in 1..Len(aqueue[p]) :
          /\ aqueue[p][i] = t
          /\ aqueue' = [aqueue EXCEPT
                ![p] = SubSeq(@, 1, i - 1) \o SubSeq(@, i + 1, Len(@))]
    /\ pc' = [pc EXCEPT ![t] = "idle"]
    /\ cancels' = [cancels EXCEPT ![p] = @ + 1]
    /\ UNCHANGED <<alock, fowner, fcount, orphans, dirty>>

\* It cancels a task awaiting to_thread(flock.acquire): the outer finally
\* releases the asyncio.Lock, and the thread keeps polling.
CancelFile(t) ==
    LET p == ProcOf[t] IN
    /\ pc[t] = "waitFile" /\ cancels[p] < MaxCancel
    /\ alock' = [alock EXCEPT ![p] = NoTask]
    /\ orphans' = [orphans EXCEPT ![p] = @ + 1]
    /\ cancels' = [cancels EXCEPT ![p] = @ + 1]
    /\ pc' = [pc EXCEPT ![t] = "idle"]
    /\ UNCHANGED <<aqueue, fowner, fcount, dirty>>

\* The orphaned thread gets the file lock; no task is left to release it.
OrphanAcquire(p) ==
    /\ orphans[p] > 0
    /\ FileTake(p)
    /\ orphans' = [orphans EXCEPT ![p] = @ - 1]
    /\ UNCHANGED <<pc, alock, aqueue, cancels, dirty>>

OrphanTimeout(p) ==
    /\ orphans[p] > 0 /\ ~FileFree(p)
    /\ orphans' = [orphans EXCEPT ![p] = @ - 1]
    /\ UNCHANGED <<pc, alock, aqueue, fowner, fcount, cancels, dirty>>

--------------------------------------------------------------------------------
\* The process dies: its tasks, threads and asyncio.Lock go with it, the
\* operating system frees its file lock and SQLite its open transaction.
Crash(p) ==
    /\ \E t \in Task : ProcOf[t] = p /\ pc[t] # "dead"
    /\ pc' = [t \in Task |-> IF ProcOf[t] = p THEN "dead" ELSE pc[t]]
    /\ alock' = [alock EXCEPT ![p] = NoTask]
    /\ aqueue' = [aqueue EXCEPT ![p] = <<>>]
    /\ fowner' = IF fowner = p THEN NoProc ELSE fowner
    /\ fcount' = [fcount EXCEPT ![p] = 0]
    /\ orphans' = [orphans EXCEPT ![p] = 0]
    /\ dirty' = {t \in dirty : ProcOf[t] # p}
    /\ UNCHANGED cancels

Restart(p) ==
    /\ \E t \in Task : ProcOf[t] = p /\ pc[t] = "dead"
    /\ pc' = [t \in Task |-> IF ProcOf[t] = p THEN "idle" ELSE pc[t]]
    /\ UNCHANGED <<alock, aqueue, fowner, fcount, orphans, cancels, dirty>>

\* A write pass: the steps a task takes by itself once it has asked to write.
Progress(t) ==
    \/ AsyncGrant(t) \/ FileAcquire(t) \/ FileTimeout(t)
    \/ Settle(t) \/ ReleaseFile(t) \/ ReleaseAsync(t)

Next ==
    \/ \E t \in Task :
          \/ AsyncAcquire(t) \/ AsyncEnqueue(t)
          \/ Progress(t)
          \/ CancelQueued(t) \/ CancelFile(t)
    \/ \E p \in Proc :
          \/ OrphanAcquire(p) \/ OrphanTimeout(p)
          \/ Crash(p) \/ Restart(p)

Spec == Init /\ [][Next]_vars

\* The event loop runs every ready task, a block is short and pure database
\* work, and an acquire ends by success or by its timeout.
FairSpec == Spec /\ \A t \in Task : WF_vars(Progress(t))

--------------------------------------------------------------------------------
TypeOK ==
    /\ pc \in [Task -> PC]
    /\ alock \in [Proc -> Task \cup {NoTask}]
    /\ aqueue \in [Proc -> Seq(Task)]
    /\ fowner \in Proc \cup {NoProc}
    /\ fcount \in [Proc -> Nat]
    /\ orphans \in [Proc -> Nat]
    /\ cancels \in [Proc -> Nat]
    /\ dirty \subseteq Task

\* At most one write block runs over the store, in whatever process, however
\* tasks are cancelled and processes die (db.write_lock).
OneWriter ==
    \A t, u \in Task : pc[t] = "block" /\ pc[u] = "block" => t = u

\* An open SQLite transaction belongs to the process that holds the file lock,
\* so no writer waits out busy_timeout behind a lock that was given back first
\* (db.write_transaction commits inside the lock).
CommitInsideLock ==
    \A t \in dirty : /\ pc[t] = "block"
                     /\ alock[ProcOf[t]] = t
                     /\ fowner = ProcOf[t]

\* What ExclusiveStore calls writing and open.
Writing == {t \in Task : pc[t] = "block"}

Abstract == INSTANCE ExclusiveStore WITH writing <- Writing, open <- dirty

\* Through both locks, timeouts, cancelled acquires and crashes, the write
\* transactions happen one after the other, each from the start of its block to
\* the end of it (db.write_transaction over db.write_lock).
ImplementsExclusiveStore == Abstract!Spec

\* A task that has asked to write gets its block, or the timeout, or dies with
\* its process: it never waits for ever (db.write_lock).
EveryWriterIsAnswered ==
    \A t \in Task : pc[t] \in {"waitAsync", "waitFile"}
                       ~> pc[t] \in {"block", "idle", "dead"}
================================================================================
