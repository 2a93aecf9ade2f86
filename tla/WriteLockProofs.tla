---------------------------- MODULE WriteLockProofs ----------------------------
(***************************************************************************)
(* The single-writer discipline for any number of processes, tasks and      *)
(* cancellations.                                                          *)
(***************************************************************************)
EXTENDS WriteLock, SequenceTheorems, TLAPS

\* A task between taking and giving back the asyncio.Lock is its recorded holder.
HolderRecorded == \A t \in Task : pc[t] \in Inside => alock[ProcOf[t]] = t

\* A task in its block, or past it and not yet released, has a level of the file
\* lock, and its process owns the file lock.
LockHeld ==
    \A t \in Task : pc[t] \in {"block", "settled"} =>
        fowner = ProcOf[t] /\ fcount[ProcOf[t]] > 0

\* A transaction is open exactly during a block.
DirtyInBlock == \A t \in Task : t \in dirty <=> pc[t] = "block"

\* A process dies with all of its tasks.
DeadTogether ==
    \A t, u \in Task : ProcOf[t] = ProcOf[u] /\ pc[t] = "dead" => pc[u] = "dead"

\* The inductive invariant of the discipline.
LockInv == TypeOK /\ HolderRecorded /\ LockHeld /\ DirtyInBlock /\ DeadTogether

\* Two tasks of one process are never both inside write_lock, and two tasks
\* holding the file lock are the same task.
LEMMA InsideUnique ==
    ASSUME LockInv, NEW t \in Task, NEW u \in Task
    PROVE  /\ pc[t] \in Inside /\ pc[u] \in Inside /\ ProcOf[t] = ProcOf[u] => t = u
           /\ pc[t] \in {"block", "settled"} /\ pc[u] \in {"block", "settled"} => t = u
BY DEF LockInv, HolderRecorded, LockHeld, Inside

\* The empty store: nobody holds anything.
LEMMA InitLockInv == Init => LockInv
BY WriteLockAssumption
DEF Init, LockInv, TypeOK, HolderRecorded, LockHeld, DirtyInBlock, DeadTogether, Inside, PC

\* Every step of every action keeps the state well typed (write_lock).
LEMMA TypeStep == LockInv /\ [Next]_vars => TypeOK'
<1> SUFFICES ASSUME LockInv, [Next]_vars PROVE TypeOK'
    OBVIOUS
<1> USE WriteLockAssumption DEF LockInv, TypeOK, PC
<1>1. ASSUME NEW t \in Task, AsyncAcquire(t) PROVE TypeOK'
    BY <1>1 DEF AsyncAcquire
<1>2. ASSUME NEW t \in Task, AsyncEnqueue(t) PROVE TypeOK'
  <2> DEFINE p == ProcOf[t]
  <2>1. Append(aqueue[p], t) \in Seq(Task)
    BY AppendProperties
  <2>2. aqueue' \in [Proc -> Seq(Task)]
    BY <1>2, <2>1 DEF AsyncEnqueue
  <2> QED
    BY <1>2, <2>2 DEF AsyncEnqueue
<1>3. ASSUME NEW t \in Task, AsyncGrant(t) PROVE TypeOK'
    BY <1>3 DEF AsyncGrant
<1>4. ASSUME NEW t \in Task, FileAcquire(t) PROVE TypeOK'
    BY <1>4 DEF FileAcquire, FileTake, FileFree
<1>5. ASSUME NEW t \in Task, FileTimeout(t) PROVE TypeOK'
    BY <1>5 DEF FileTimeout
<1>6. ASSUME NEW t \in Task, Settle(t) PROVE TypeOK'
    BY <1>6 DEF Settle
<1>7. ASSUME NEW t \in Task, ReleaseFile(t) PROVE TypeOK'
    BY <1>7 DEF ReleaseFile, FileRelease, LockHeld
<1>8. ASSUME NEW t \in Task, ReleaseAsync(t) PROVE TypeOK'
    BY <1>8 DEF ReleaseAsync
<1>9. ASSUME NEW t \in Task, CancelQueued(t) PROVE TypeOK'
  <2> DEFINE p == ProcOf[t]
  <2>0. p \in Proc /\ cancels[p] + 1 \in Nat
    OBVIOUS
  <2>1. PICK i \in 1..Len(aqueue[p]) :
          aqueue' = [aqueue EXCEPT ![p] = SubSeq(@, 1, i - 1) \o SubSeq(@, i + 1, Len(@))]
    BY <1>9 DEF CancelQueued
  <2>2. aqueue[p] \in Seq(Task)
    OBVIOUS
  <2>3. \A k \in 1..Len(aqueue[p]) : aqueue[p][k] \in Task
    BY <2>2
  <2>4. SubSeq(aqueue[p], 1, i - 1) \in Seq(Task)
    <3>1. \A k \in 1..(i - 1) : aqueue[p][k] \in Task
      BY <2>2, <2>3
    <3> QED
      BY <3>1, SubSeqProperties
  <2>5. SubSeq(aqueue[p], i + 1, Len(aqueue[p])) \in Seq(Task)
    <3>1. Len(aqueue[p]) \in Int /\ i + 1 \in Int /\ i + 1 >= 1
      BY <2>2
    <3>2. \A k \in (i + 1)..Len(aqueue[p]) : aqueue[p][k] \in Task
      BY <2>3, <3>1
    <3> QED
      BY <3>1, <3>2, SubSeqProperties
  <2>6. SubSeq(aqueue[p], 1, i - 1) \o SubSeq(aqueue[p], i + 1, Len(aqueue[p])) \in Seq(Task)
    BY <2>4, <2>5, ConcatProperties
  <2>7. aqueue' \in [Proc -> Seq(Task)]
    BY <2>1, <2>6
  <2>8. /\ pc' = [pc EXCEPT ![t] = "idle"]
        /\ cancels' = [cancels EXCEPT ![p] = @ + 1]
        /\ UNCHANGED <<alock, fowner, fcount, orphans, dirty>>
    BY <1>9 DEF CancelQueued
  <2>9. pc' \in [Task -> PC]
    BY <2>8
  <2>11. cancels' \in [Proc -> Nat]
    BY <2>8, <2>0
  <2> QED
    BY <2>7, <2>8, <2>9, <2>11
<1>10. ASSUME NEW t \in Task, CancelFile(t) PROVE TypeOK'
    BY <1>10 DEF CancelFile
<1>11. ASSUME NEW p \in Proc, OrphanAcquire(p) PROVE TypeOK'
  <2>1. orphans[p] - 1 \in Nat /\ fcount[p] + 1 \in Nat
    BY <1>11 DEF OrphanAcquire
  <2> QED
    BY <1>11, <2>1 DEF OrphanAcquire, FileTake
<1>12. ASSUME NEW p \in Proc, OrphanTimeout(p) PROVE TypeOK'
  <2>1. orphans[p] - 1 \in Nat
    BY <1>12 DEF OrphanTimeout
  <2> QED
    BY <1>12, <2>1 DEF OrphanTimeout
<1>13. ASSUME NEW p \in Proc, Crash(p) PROVE TypeOK'
    BY <1>13 DEF Crash
<1>14. ASSUME NEW p \in Proc, Restart(p) PROVE TypeOK'
    BY <1>14 DEF Restart
<1>15. CASE UNCHANGED vars
    BY <1>15 DEF vars
<1> QED
    BY <1>1, <1>2, <1>3, <1>4, <1>5, <1>6, <1>7, <1>8, <1>9, <1>10, <1>11, <1>12,
       <1>13, <1>14, <1>15 DEF Next, Progress

\* Every step keeps the lock facts: a lock is taken only when free, and a
\* release, a timeout or a death gives back only what the task itself held.
LEMMA LockStep ==
    LockInv /\ [Next]_vars => HolderRecorded' /\ LockHeld' /\ DirtyInBlock' /\ DeadTogether'
<1> SUFFICES ASSUME LockInv, [Next]_vars
             PROVE  HolderRecorded' /\ LockHeld' /\ DirtyInBlock' /\ DeadTogether'
    OBVIOUS
<1> DEFINE Facts == HolderRecorded /\ LockHeld /\ DirtyInBlock /\ DeadTogether
<1> USE WriteLockAssumption
    DEF LockInv, TypeOK, PC, HolderRecorded, LockHeld, DirtyInBlock, DeadTogether, Inside
<1>1. ASSUME NEW t \in Task, AsyncAcquire(t) PROVE Facts'
    BY <1>1 DEF AsyncAcquire
<1>2. ASSUME NEW t \in Task, AsyncEnqueue(t) PROVE Facts'
    BY <1>2 DEF AsyncEnqueue
<1>3. ASSUME NEW t \in Task, AsyncGrant(t) PROVE Facts'
    BY <1>3 DEF AsyncGrant
<1>4. ASSUME NEW t \in Task, FileAcquire(t) PROVE Facts'
  <2>1. HolderRecorded' /\ DirtyInBlock' /\ DeadTogether'
    BY <1>4 DEF FileAcquire
  <2>2. LockHeld'
    BY <1>4 DEF FileAcquire, FileTake, FileFree
  <2> QED
    BY <2>1, <2>2
<1>5. ASSUME NEW t \in Task, FileTimeout(t) PROVE Facts'
    BY <1>5 DEF FileTimeout
<1>6. ASSUME NEW t \in Task, Settle(t) PROVE Facts'
    BY <1>6 DEF Settle
<1>7. ASSUME NEW t \in Task, ReleaseFile(t) PROVE Facts'
  <2>1. HolderRecorded' /\ DirtyInBlock' /\ DeadTogether'
    BY <1>7 DEF ReleaseFile
  <2>2. \A u \in Task : pc'[u] \notin {"block", "settled"}
    BY <1>7, InsideUnique DEF ReleaseFile
  <2> QED
    BY <2>1, <2>2
<1>8. ASSUME NEW t \in Task, ReleaseAsync(t) PROVE Facts'
    BY <1>8 DEF ReleaseAsync
<1>9. ASSUME NEW t \in Task, CancelQueued(t) PROVE Facts'
  <2>1. pc' = [pc EXCEPT ![t] = "idle"] /\ pc[t] = "waitAsync"
        /\ UNCHANGED <<alock, fowner, fcount, dirty>>
    BY <1>9 DEF CancelQueued
  <2> QED
    BY <2>1
<1>10. ASSUME NEW t \in Task, CancelFile(t) PROVE Facts'
    BY <1>10 DEF CancelFile
<1>11. ASSUME NEW p \in Proc, OrphanAcquire(p) PROVE Facts'
    BY <1>11 DEF OrphanAcquire, FileTake, FileFree
<1>12. ASSUME NEW p \in Proc, OrphanTimeout(p) PROVE Facts'
    BY <1>12 DEF OrphanTimeout
<1>13. ASSUME NEW p \in Proc, Crash(p) PROVE Facts'
    BY <1>13 DEF Crash
<1>14. ASSUME NEW p \in Proc, Restart(p) PROVE Facts'
    BY <1>14 DEF Restart
<1>15. CASE UNCHANGED vars
    BY <1>15 DEF vars
<1> QED
    BY <1>1, <1>2, <1>3, <1>4, <1>5, <1>6, <1>7, <1>8, <1>9, <1>10, <1>11, <1>12,
       <1>13, <1>14, <1>15 DEF Next, Progress

\* The invariant of the discipline holds in every reachable state.
THEOREM LockInvariance == Spec => []LockInv
<1>1. LockInv /\ [Next]_vars => LockInv'
    BY TypeStep, LockStep DEF LockInv
<1> QED
    BY InitLockInv, <1>1, PTL DEF Spec

\* The state of write_lock is well typed for every set of processes and tasks.
THEOREM LockTyped == Spec => []TypeOK
<1>1. LockInv => TypeOK
    BY DEF LockInv
<1> QED
    BY LockInvariance, <1>1, PTL

\* At most one write block runs over the store, however many processes and tasks
\* share it and however many are cancelled or die (db.write_lock).
THEOREM SingleWriter == Spec => []OneWriter
<1>1. LockInv => OneWriter
    BY InsideUnique DEF OneWriter
<1> QED
    BY LockInvariance, <1>1, PTL

\* Every open transaction is inside both locks of its own task
\* (db.write_transaction).
THEOREM TransactionsInsideLock == Spec => []CommitInsideLock
<1>1. LockInv => CommitInsideLock
    BY DEF LockInv, TypeOK, HolderRecorded, LockHeld, DirtyInBlock, Inside, CommitInsideLock
<1> QED
    BY LockInvariance, <1>1, PTL

\* The steps of one task that neither enter nor leave its block.
LEMMA QuietSteps ==
    ASSUME LockInv, NEW t \in Task,
           \/ AsyncAcquire(t) \/ AsyncEnqueue(t) \/ AsyncGrant(t) \/ FileTimeout(t)
           \/ ReleaseFile(t) \/ ReleaseAsync(t) \/ CancelQueued(t) \/ CancelFile(t)
    PROVE  UNCHANGED <<Writing, dirty>>
BY DEF LockInv, TypeOK, Writing, AsyncAcquire, AsyncEnqueue, AsyncGrant, FileTimeout,
       ReleaseFile, ReleaseAsync, CancelQueued, CancelFile

\* Every step of the two locks is a step of the exclusive store, or none of it.
LEMMA ExclusiveStep ==
    LockInv /\ LockInv' /\ [Next]_vars => [Abstract!Next]_<<Writing, dirty>>
<1> SUFFICES ASSUME LockInv, LockInv', [Next]_vars
             PROVE  Abstract!Next \/ UNCHANGED <<Writing, dirty>>
    OBVIOUS
<1>0. dirty = Writing /\ dirty' = Writing'
    BY DEF LockInv, TypeOK, DirtyInBlock, Writing
<1>1. ASSUME NEW t \in Task, FileAcquire(t) PROVE Abstract!Begin(t)
  <2>1. pc' = [pc EXCEPT ![t] = "block"] /\ dirty' = dirty \cup {t}
    BY <1>1 DEF FileAcquire
  <2>2. pc'[t] = "block"
    BY <2>1 DEF LockInv, TypeOK
  <2>3. dirty' = {t}
    <3>1. \A u \in dirty' : u = t
      BY <1>0, <2>2, LockInv' DEF LockInv, HolderRecorded, LockHeld, Inside, Writing
    <3> QED
      BY <2>1, <3>1
  <2>4. dirty = {}
    BY <1>1, <2>1, <2>3, <1>0 DEF FileAcquire, Writing
  <2> QED
    BY <1>0, <2>3, <2>4 DEF Abstract!Begin
<1>2. ASSUME NEW t \in Task, Settle(t) PROVE Abstract!End
  <2>1. t \in Writing /\ dirty' = dirty \ {t}
    BY <1>2 DEF Settle, Writing
  <2>2. \A u \in Writing : u = t
    BY <2>1, InsideUnique DEF Writing
  <2> QED
    BY <1>0, <2>1, <2>2 DEF Abstract!End
<1>3. ASSUME NEW p \in Proc, Crash(p) PROVE Abstract!End \/ UNCHANGED <<Writing, dirty>>
  <2>1. dirty' = {t \in dirty : ProcOf[t] # p}
    BY <1>3 DEF Crash
  <2>2. \A t, u \in dirty : t = u
    BY <1>0, InsideUnique DEF Writing
  <2>3. CASE \E t \in dirty : ProcOf[t] = p
    BY <1>0, <2>1, <2>2, <2>3 DEF Abstract!End
  <2>4. CASE \A t \in dirty : ProcOf[t] # p
    BY <1>0, <2>1, <2>4
  <2> QED
    BY <2>3, <2>4
<1>4. ASSUME NEW p \in Proc, Restart(p) PROVE UNCHANGED <<Writing, dirty>>
    BY <1>0, <1>4 DEF Restart
<1>5. ASSUME NEW p \in Proc, OrphanAcquire(p) \/ OrphanTimeout(p)
      PROVE  UNCHANGED <<Writing, dirty>>
    BY <1>5 DEF OrphanAcquire, OrphanTimeout, Writing
<1>6. CASE UNCHANGED vars
    BY <1>6 DEF vars, Writing
<1> QED
    BY <1>1, <1>2, <1>3, <1>4, <1>5, <1>6, QuietSteps DEF Next, Progress, Abstract!Next

\* The two locks implement the exclusive store: for any processes and tasks, and
\* however they are cancelled and die, write transactions happen one after the
\* other (db.write_lock, db.write_transaction).
THEOREM LocksImplementExclusiveStore == Spec => ImplementsExclusiveStore
<1>1. Init => Abstract!Init
    BY DEF Init, Abstract!Init, Writing
<1>2. LockInv /\ LockInv' /\ [Next]_vars => [Abstract!Next]_<<Writing, dirty>>
    BY ExclusiveStep
<1> QED
    BY <1>1, <1>2, LockInvariance, PTL DEF Spec, ImplementsExclusiveStore, Abstract!Spec
================================================================================
