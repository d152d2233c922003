----------------------- MODULE SynchronizationProofs -----------------------
(***************************************************************************)
(* Proofs about module Synchronization, for any finite number of threads:  *)
(* the waiter counts are exact, no wake-up of the mutex is lost, what is   *)
(* closed is not in use, and the implementation refines module Monitor.    *)
(***************************************************************************)
EXTENDS Synchronization, FiniteSetTheorems, TLAPS

----------------------------------------------------------------------------
(* The inductive invariant.                                                *)

\* The threads that mutex->waiters counts.
MutexWaiters == At("m_sleep") \cup At("m_awake")

\* A call of wait() goes through the steps of wait, then through those of
\* lock, and its snapshot is never ahead of the sequence.  A locked mutex has
\* an owner.
WaitInv ==
  /\ locked => owner \in Threads
  /\ \A t \in Threads : pc[t] \in WaitSteps => t \in inWait
  /\ \A t \in inWait : pc[t] \in WaitSteps \cup LockSteps \cup {"reacquire"}
  /\ \A t \in Threads : observed[t] <= sequence

IInv == /\ TypeOK /\ ReturnsOwning /\ WaitersExact /\ NoLostWakeup
        /\ ConditionFreedIdle /\ WaitInv

\* The sets that the two counters stand for are finite.
LEMMA UsersAreFinite ==
  /\ IsFiniteSet(MutexWaiters) /\ Cardinality(MutexWaiters) \in Nat
  /\ IsFiniteSet(ConditionUsers) /\ Cardinality(ConditionUsers) \in Nat
<1>1. MutexWaiters \in SUBSET Threads /\ ConditionUsers \in SUBSET Threads
  BY DEF MutexWaiters, ConditionUsers, At
<1> QED
  BY <1>1, ThreadsAreFinite, FS_Subset, FS_CardinalityType

\* A count of zero means that nobody is counted.
LEMMA NobodyCounted ==
  ASSUME WaitersExact
  PROVE  /\ waiters = 0 <=> MutexWaiters = {}
         /\ condWaiters = 0 <=> ConditionUsers = {}
  BY UsersAreFinite, FS_EmptySet DEF WaitersExact, MutexWaiters

\* mutex and condition as create() returns them.
LEMMA InitIInv == Init => IInv
<1> SUFFICES ASSUME Init PROVE IInv
  OBVIOUS
<1>1. TypeOK
  <2>1. /\ locked \in BOOLEAN /\ mutexOpen \in BOOLEAN /\ condOpen \in BOOLEAN
    BY Zenon DEF Init
  <2> QED
    BY <2>1 DEF Init, TypeOK, PCs
<1>2. \A t \in Threads : pc[t] = "outside"
  BY DEF Init
<1>3. At("m_sleep") \cup At("m_awake") = {} /\ ConditionUsers = {}
  BY <1>2 DEF At, ConditionUsers, WaitSteps
<1>4. WaitersExact
  BY <1>3, FS_EmptySet DEF Init, WaitersExact
<1>5. NoLostWakeup
  BY <1>3 DEF NoLostWakeup
<1>6. ReturnsOwning /\ WaitInv
  BY <1>2 DEF Init, ReturnsOwning, WaitInv, WaitSteps
<1> QED
  BY <1>1, <1>3, <1>4, <1>5, <1>6 DEF IInv, ConditionFreedIdle

----------------------------------------------------------------------------
(* Each conjunct is preserved.                                             *)

\* Types.
LEMMA StepTypeOK == IInv /\ [Next]_vars => TypeOK'
<1> SUFFICES ASSUME IInv, [Next]_vars PROVE TypeOK'
  OBVIOUS
<1> USE DEF TypeOK, PCs, LockSteps, WaitSteps, Goto, mutexVars, condVars, history
<1>1. TypeOK /\ WaitersExact
  BY DEF IInv
<1>2. ASSUME NEW t \in Threads, Step(t) PROVE TypeOK'
  <2>1. CASE gil_release(t)
    BY <1>1, <2>1 DEF gil_release
  <2>2. CASE gil_acquire(t)
    BY <1>1, <2>2 DEF gil_acquire
  <2>3. CASE mutex_lock_fast(t)
    BY <1>1, <2>3 DEF mutex_lock_fast
  <2>4. CASE mutex_lock_slow(t)
    BY <1>1, <2>4 DEF mutex_lock_slow
  <2>5. CASE mutex_acquire(t)
    <3>1. CASE locked
      BY <1>1, <2>5, <3>1 DEF mutex_acquire
    <3>2. CASE ~locked
      BY <1>1, <2>5, <3>2 DEF mutex_acquire
    <3> QED
      BY <3>1, <3>2
  <2>6. CASE mutex_reacquire(t)
    <3>1. t \in MutexWaiters
      BY <2>6 DEF mutex_reacquire, MutexWaiters, At
    <3>2. waiters > 0
      BY <1>1, <3>1, NobodyCounted
    <3>3. CASE locked
      BY <1>1, <2>6, <3>3 DEF mutex_reacquire
    <3>4. CASE ~locked
      BY <1>1, <2>6, <3>2, <3>4 DEF mutex_reacquire
    <3> QED
      BY <3>3, <3>4
  <2>7. CASE lock_return(t)
    BY <1>1, <2>7 DEF lock_return
  <2>8. CASE mutex_unlock(t)
    BY <1>1, <2>8 DEF mutex_unlock, mutex_release_locked_guard, At
  <2>9. CASE condition_wait(t)
    BY <1>1, <2>9 DEF condition_wait
  <2>10. CASE condition_wait_unlock(t)
    BY <1>1, <2>10 DEF condition_wait_unlock, mutex_release_locked_guard, At
  <2>11. CASE condition_wait_check(t)
    <3>1. t \in ConditionUsers
      BY <2>11 DEF condition_wait_check, ConditionUsers
    <3>2. condWaiters > 0
      BY <1>1, <3>1, NobodyCounted
    <3> QED
      BY <1>1, <2>11, <3>2 DEF condition_wait_check
  <2>12. CASE condition_signal(t)
    BY <1>1, <2>12 DEF condition_signal, At
  <2>13. CASE condition_broadcast(t)
    BY <1>1, <2>13 DEF condition_broadcast
  <2>14. CASE spurious_wakeup(t)
    BY <1>1, <2>14 DEF spurious_wakeup
  <2>15. CASE mutex_close(t)
    BY <1>1, <2>15 DEF mutex_close
  <2>16. CASE condition_close(t)
    BY <1>1, <2>16 DEF condition_close
  <2>17. CASE UNCHANGED vars
    BY <1>1, <2>17 DEF vars
  <2> QED
    BY <1>2, <2>1, <2>2, <2>3, <2>4, <2>5, <2>6, <2>7, <2>8, <2>9, <2>10, <2>11, <2>12,
       <2>13, <2>14, <2>15, <2>16, <2>17
       DEF Step, mutex_lock_refused, mutex_unlock_refused, condition_wait_refused,
           condition_notify_refused, mutex_close_refused, condition_close_refused
<1>3. CASE UNCHANGED vars
  BY <1>1, <1>3 DEF vars
<1> QED
  BY <1>2, <1>3 DEF Next

\* The refused calls change nothing.
LEMMA Refusals ==
  ASSUME NEW t \in Threads,
         \/ mutex_lock_refused(t) \/ mutex_unlock_refused(t) \/ condition_wait_refused(t)
         \/ condition_notify_refused(t) \/ mutex_close_refused(t) \/ condition_close_refused(t)
  PROVE  UNCHANGED vars
  BY DEF mutex_lock_refused, mutex_unlock_refused, condition_wait_refused,
         condition_notify_refused, mutex_close_refused, condition_close_refused

\* Who is about to return, or to unlock inside wait(), owns the mutex: only
\* the owner unlocks and only a free mutex is taken.
LEMMA StepOwning == IInv /\ [Next]_vars => ReturnsOwning' /\ WaitInv'
<1> SUFFICES ASSUME IInv, [Next]_vars PROVE ReturnsOwning' /\ WaitInv'
  OBVIOUS
<1>1. TypeOK /\ ReturnsOwning /\ WaitInv
  BY DEF IInv
<1> USE DEF TypeOK, ReturnsOwning, WaitInv, Owns, PCs, LockSteps, WaitSteps, Goto, mutexVars,
            condVars, history
<1>2. ASSUME NEW t \in Threads, Step(t) PROVE ReturnsOwning' /\ WaitInv'
  <2>1. CASE gil_release(t)
    BY <1>1, <2>1 DEF gil_release
  <2>2. CASE gil_acquire(t)
    BY <1>1, <2>2 DEF gil_acquire
  <2>3. CASE mutex_lock_fast(t)
    BY <1>1, <2>3 DEF mutex_lock_fast
  <2>4. CASE mutex_lock_slow(t)
    BY <1>1, <2>4 DEF mutex_lock_slow
  <2>5. CASE mutex_acquire(t)
    <3>1. CASE locked
      BY <1>1, <2>5, <3>1 DEF mutex_acquire
    <3>2. CASE ~locked
      BY <1>1, <2>5, <3>2 DEF mutex_acquire
    <3> QED
      BY <3>1, <3>2
  <2>6. CASE mutex_reacquire(t)
    <3>1. CASE locked
      BY <1>1, <2>6, <3>1 DEF mutex_reacquire
    <3>2. CASE ~locked
      BY <1>1, <2>6, <3>2 DEF mutex_reacquire
    <3> QED
      BY <3>1, <3>2
  <2>7. CASE lock_return(t)
    BY <1>1, <2>7 DEF lock_return
  <2>8. CASE mutex_unlock(t)
    BY <1>1, <2>8 DEF mutex_unlock, mutex_release_locked_guard, At
  <2>9. CASE condition_wait(t)
    BY <1>1, <2>9 DEF condition_wait
  <2>10. CASE condition_wait_unlock(t)
    BY <1>1, <2>10 DEF condition_wait_unlock, mutex_release_locked_guard, At
  <2>11. CASE condition_wait_check(t)
    BY <1>1, <2>11 DEF condition_wait_check
  <2>12. CASE condition_signal(t)
    BY <1>1, <2>12 DEF condition_signal, At
  <2>13. CASE condition_broadcast(t)
    BY <1>1, <2>13 DEF condition_broadcast
  <2>14. CASE spurious_wakeup(t)
    BY <1>1, <2>14 DEF spurious_wakeup
  <2>15. CASE mutex_close(t)
    BY <1>1, <2>15 DEF mutex_close
  <2>16. CASE condition_close(t)
    BY <1>1, <2>16 DEF condition_close
  <2>17. CASE UNCHANGED vars
    BY <1>1, <2>17 DEF vars
  <2> QED
    BY <1>2, <2>1, <2>2, <2>3, <2>4, <2>5, <2>6, <2>7, <2>8, <2>9, <2>10, <2>11, <2>12,
       <2>13, <2>14, <2>15, <2>16, <2>17, Refusals DEF Step
<1>3. CASE UNCHANGED vars
  BY <1>1, <1>3 DEF vars
<1> QED
  BY <1>2, <1>3 DEF Next

\* The counters follow the threads that will come back.
LEMMA StepWaitersExact == IInv /\ [Next]_vars => WaitersExact'
<1> SUFFICES ASSUME IInv, [Next]_vars PROVE WaitersExact'
  OBVIOUS
<1>1. TypeOK /\ WaitersExact
  BY DEF IInv
<1> DEFINE SameMutex == waiters' = waiters /\ MutexWaiters' = MutexWaiters
           SameCond == condWaiters' = condWaiters /\ ConditionUsers' = ConditionUsers
<1>2. ASSUME SameMutex, SameCond PROVE WaitersExact'
  BY <1>1, <1>2 DEF WaitersExact, MutexWaiters
<1> USE DEF TypeOK, PCs, LockSteps, WaitSteps, Goto, mutexVars, condVars, history, At,
            MutexWaiters, ConditionUsers
<1>3. ASSUME NEW t \in Threads, Step(t) PROVE WaitersExact'
  <2>1. CASE gil_release(t)
    BY <1>1, <1>2, <2>1 DEF gil_release
  <2>2. CASE gil_acquire(t)
    BY <1>1, <1>2, <2>2 DEF gil_acquire
  <2>3. CASE mutex_lock_fast(t)
    BY <1>1, <1>2, <2>3 DEF mutex_lock_fast
  <2>4. CASE mutex_lock_slow(t)
    BY <1>1, <1>2, <2>4 DEF mutex_lock_slow
  <2>5. CASE mutex_acquire(t)
    <3>1. SameCond
      BY <1>1, <2>5 DEF mutex_acquire
    <3>2. CASE locked
      <4>1. MutexWaiters' = MutexWaiters \cup {t} /\ t \notin MutexWaiters
        BY <1>1, <2>5, <3>2 DEF mutex_acquire
      <4>2. waiters' = waiters + 1
        BY <2>5, <3>2 DEF mutex_acquire
      <4> HIDE DEF MutexWaiters, ConditionUsers, At
      <4> QED
        BY <1>1, <3>1, <4>1, <4>2, UsersAreFinite, FS_AddElement DEF WaitersExact, MutexWaiters
    <3>3. CASE ~locked
      BY <1>1, <1>2, <2>5, <3>1, <3>3 DEF mutex_acquire
    <3> QED
      BY <3>2, <3>3
  <2>6. CASE mutex_reacquire(t)
    <3>1. SameCond
      BY <1>1, <2>6 DEF mutex_reacquire
    <3>2. CASE locked
      BY <1>1, <1>2, <2>6, <3>1, <3>2 DEF mutex_reacquire
    <3>3. CASE ~locked
      <4>1. MutexWaiters' = MutexWaiters \ {t} /\ t \in MutexWaiters
        BY <1>1, <2>6, <3>3 DEF mutex_reacquire
      <4>2. waiters' = waiters - 1
        BY <2>6, <3>3 DEF mutex_reacquire
      <4> HIDE DEF MutexWaiters, ConditionUsers, At
      <4>3. Cardinality(MutexWaiters') = Cardinality(MutexWaiters) - 1
        BY <4>1, UsersAreFinite, FS_RemoveElement
      <4> QED
        BY <1>1, <3>1, <4>2, <4>3 DEF WaitersExact, MutexWaiters
    <3> QED
      BY <3>2, <3>3
  <2>7. CASE lock_return(t)
    BY <1>1, <1>2, <2>7 DEF lock_return
  <2>8. CASE mutex_unlock(t)
    BY <1>1, <1>2, <2>8 DEF mutex_unlock, mutex_release_locked_guard
  <2>9. CASE condition_wait(t)
    <3>1. SameMutex
      BY <1>1, <2>9 DEF condition_wait
    <3>2. ConditionUsers' = ConditionUsers \cup {t} /\ t \notin ConditionUsers
      BY <1>1, <2>9 DEF condition_wait
    <3>3. condWaiters' = condWaiters + 1
      BY <2>9 DEF condition_wait
    <3> HIDE DEF MutexWaiters, ConditionUsers, At
    <3> QED
      BY <1>1, <3>1, <3>2, <3>3, UsersAreFinite, FS_AddElement DEF WaitersExact, MutexWaiters
  <2>10. CASE condition_wait_unlock(t)
    BY <1>1, <1>2, <2>10 DEF condition_wait_unlock, mutex_release_locked_guard
  <2>11. CASE condition_wait_check(t)
    <3>1. SameMutex
      BY <1>1, <2>11 DEF condition_wait_check
    <3>2. CASE sequence = observed[t]
      BY <1>1, <1>2, <2>11, <3>1, <3>2 DEF condition_wait_check
    <3>3. CASE sequence # observed[t]
      <4>1. ConditionUsers' = ConditionUsers \ {t} /\ t \in ConditionUsers
        BY <1>1, <2>11, <3>3 DEF condition_wait_check
      <4>2. condWaiters' = condWaiters - 1
        BY <2>11, <3>3 DEF condition_wait_check
      <4> HIDE DEF MutexWaiters, ConditionUsers, At
      <4> QED
        BY <1>1, <3>1, <4>1, <4>2, UsersAreFinite, FS_RemoveElement DEF WaitersExact, MutexWaiters
    <3> QED
      BY <3>2, <3>3
  <2>12. CASE condition_signal(t)
    BY <1>1, <1>2, <2>12 DEF condition_signal
  <2>13. CASE condition_broadcast(t)
    BY <1>1, <1>2, <2>13 DEF condition_broadcast
  <2>14. CASE spurious_wakeup(t)
    BY <1>1, <1>2, <2>14 DEF spurious_wakeup
  <2>15. CASE mutex_close(t)
    BY <1>1, <1>2, <2>15 DEF mutex_close
  <2>16. CASE condition_close(t)
    BY <1>1, <1>2, <2>16 DEF condition_close
  <2>17. CASE UNCHANGED vars
    BY <1>1, <1>2, <2>17 DEF vars
  <2> QED
    BY <1>3, <2>1, <2>2, <2>3, <2>4, <2>5, <2>6, <2>7, <2>8, <2>9, <2>10, <2>11, <2>12,
       <2>13, <2>14, <2>15, <2>16, <2>17, Refusals DEF Step
<1>4. CASE UNCHANGED vars
  BY <1>1, <1>2, <1>4 DEF vars
<1> QED
  BY <1>3, <1>4 DEF Next

\* An unlock wakes a sleeping waiter, and a woken one sleeps again only if the
\* mutex is taken; a condition is freed only when its count is zero.
LEMMA StepWakeup == IInv /\ [Next]_vars => NoLostWakeup' /\ ConditionFreedIdle'
<1> SUFFICES ASSUME IInv, [Next]_vars PROVE NoLostWakeup' /\ ConditionFreedIdle'
  OBVIOUS
<1>1. TypeOK /\ NoLostWakeup /\ ConditionFreedIdle /\ ReturnsOwning
  BY DEF IInv
<1>2. /\ waiters = 0 => At("m_sleep") = {}
      /\ condWaiters = 0 => ConditionUsers = {}
  BY NobodyCounted DEF IInv, MutexWaiters
<1>3. waiters # 0 => waiters > 0
  BY <1>1 DEF TypeOK
<1> USE DEF TypeOK, NoLostWakeup, ConditionFreedIdle, ConditionUsers, At, PCs, LockSteps,
            WaitSteps, Goto, mutexVars, condVars, history
<1>4. ASSUME NEW t \in Threads, Step(t) PROVE NoLostWakeup' /\ ConditionFreedIdle'
  <2>1. CASE gil_release(t)
    BY <1>1, <2>1 DEF gil_release
  <2>2. CASE gil_acquire(t)
    BY <1>1, <2>2 DEF gil_acquire
  <2>3. CASE mutex_lock_fast(t)
    BY <1>1, <2>3 DEF mutex_lock_fast
  <2>4. CASE mutex_lock_slow(t)
    BY <1>1, <2>4 DEF mutex_lock_slow
  <2>5. CASE mutex_acquire(t)
    BY <1>1, <2>5 DEF mutex_acquire
  <2>6. CASE mutex_reacquire(t)
    BY <1>1, <2>6 DEF mutex_reacquire
  <2>7. CASE lock_return(t)
    BY <1>1, <2>7 DEF lock_return
  <2>8. CASE mutex_unlock(t)
    BY <1>1, <1>2, <1>3, <2>8 DEF mutex_unlock, mutex_release_locked_guard
  <2>9. CASE condition_wait(t)
    BY <1>1, <2>9 DEF condition_wait
  <2>10. CASE condition_wait_unlock(t)
    BY <1>1, <1>2, <1>3, <2>10 DEF condition_wait_unlock, mutex_release_locked_guard
  <2>11. CASE condition_wait_check(t)
    BY <1>1, <2>11 DEF condition_wait_check
  <2>12. CASE condition_signal(t)
    BY <1>1, <2>12 DEF condition_signal
  <2>13. CASE condition_broadcast(t)
    BY <1>1, <2>13 DEF condition_broadcast
  <2>14. CASE spurious_wakeup(t)
    BY <1>1, <2>14 DEF spurious_wakeup
  <2>15. CASE mutex_close(t)
    BY <1>1, <2>15 DEF mutex_close
  <2>16. CASE condition_close(t)
    <3>1. ConditionUsers = {}
      BY <1>1, <1>2, <2>16 DEF condition_close, ConditionBusy
    <3> QED
      BY <1>1, <2>16, <3>1 DEF condition_close
  <2>17. CASE UNCHANGED vars
    BY <1>1, <2>17 DEF vars
  <2> QED
    BY <1>4, <2>1, <2>2, <2>3, <2>4, <2>5, <2>6, <2>7, <2>8, <2>9, <2>10, <2>11, <2>12,
       <2>13, <2>14, <2>15, <2>16, <2>17, Refusals DEF Step
<1>5. CASE UNCHANGED vars
  BY <1>1, <1>5 DEF vars
<1> QED
  BY <1>4, <1>5 DEF Next

\* The conjunction of all of them is inductive.
LEMMA Inductive == Spec => []IInv
<1>1. IInv /\ [Next]_vars => IInv'
  BY StepTypeOK, StepOwning, StepWaitersExact, StepWakeup DEF IInv
<1> QED
  BY <1>1, InitIInv, PTL DEF Spec

----------------------------------------------------------------------------
(* What the runs check.                                                    *)

\* An unlocked mutex with sleeping waiters has a woken one, for any number of
\* threads that barge in on the fast path.
THEOREM WakeupIsNeverLost == Spec => []NoLostWakeup
<1>1. IInv => NoLostWakeup
  BY DEF IInv
<1> QED
  BY <1>1, Inductive, PTL

\* If close() of the mutex is called as its documentation asks, neither object
\* is freed while a thread may come back to it, and the counts that close()
\* and the notifications read are exact.
THEOREM ClosingIsSafe == ClosePolicy # "any" => (Spec => []CloseSafe)
<1> SUFFICES ASSUME ClosePolicy # "any" PROVE Spec => []CloseSafe
  OBVIOUS
<1> DEFINE MutexFreedIdle == ~mutexOpen => MutexUsers = {}
<1>1. Init => MutexFreedIdle
  BY Zenon DEF Init
<1>2. IInv /\ MutexFreedIdle /\ [Next]_vars => MutexFreedIdle'
  <2> SUFFICES ASSUME TypeOK, MutexFreedIdle, NEW t \in Threads, Step(t), ~mutexOpen'
               PROVE  MutexUsers' = {}
    BY DEF Next, vars, IInv, MutexUsers
  <2> USE DEF TypeOK, MutexUsers, At, LockSteps, WaitSteps, Goto, mutexVars
  <2>1. CASE mutex_close(t)
    <3>1. MutexUsers = {} /\ UNCHANGED pc
      BY <2>1 DEF mutex_close, MayCloseMutex
    <3> QED
      BY <3>1
  <2>2. CASE ~mutex_close(t)
    <3>1. ~mutexOpen /\ MutexUsers = {}
      BY <2>2 DEF Step, vars, mutex_release_locked_guard,
             gil_release, gil_acquire, mutex_lock_refused, mutex_lock_fast, mutex_lock_slow,
             mutex_acquire, mutex_reacquire, lock_return, mutex_unlock, mutex_unlock_refused,
             condition_wait_refused, condition_wait, condition_wait_unlock,
             condition_wait_check, condition_signal, condition_broadcast,
             condition_notify_refused, spurious_wakeup, mutex_close_refused,
             condition_close, condition_close_refused
    <3>2. \A u \in Threads : pc[u] \notin LockSteps \cup WaitSteps
      BY <3>1
    <3> QED
      BY <2>2, <3>1, <3>2 DEF Step, vars, mutex_release_locked_guard,
             gil_release, gil_acquire, mutex_lock_refused, mutex_lock_fast, mutex_lock_slow,
             mutex_acquire, mutex_reacquire, lock_return, mutex_unlock, mutex_unlock_refused,
             condition_wait_refused, condition_wait, condition_wait_unlock,
             condition_wait_check, condition_signal, condition_broadcast,
             condition_notify_refused, spurious_wakeup, mutex_close_refused,
             condition_close, condition_close_refused
  <2> QED
    BY <2>1, <2>2
<1>3. IInv /\ MutexFreedIdle => CloseSafe
  BY DEF IInv, CloseSafe, ContendedCloseRefused, MutexUsers
<1> QED
  BY <1>1, <1>2, <1>3, Inductive, PTL DEF Spec

----------------------------------------------------------------------------
(* The refinement of Monitor.                                              *)

\* Which threads wait and which were released depends on the calls of wait()
\* only: a step that leaves these alone changes neither set.
LEMMA WaitersKept ==
  ASSUME TypeOK, UNCHANGED <<inWait, observed, sequence>>,
         \A u \in inWait : pc'[u] # pc[u] =>
           /\ pc[u] \in LockSteps /\ pc'[u] \in LockSteps
  PROVE  WaitingThreads' = WaitingThreads /\ ReleasedThreads' = ReleasedThreads
<1>1. \A u \in inWait : u \in WaitingThreads' <=> u \in WaitingThreads
  BY DEF WaitingThreads, LockSteps
<1>2. WaitingThreads' = WaitingThreads
  BY <1>1 DEF WaitingThreads
<1>3. \A u \in inWait : pc'[u] = "reacquire" <=> pc[u] = "reacquire"
  BY DEF LockSteps
<1> QED
  BY <1>2, <1>3 DEF ReleasedThreads

\* The abstract owner stays the same if the mutex does and its owner neither
\* starts nor ends the first step of wait().
LEMMA InsideKept ==
  ASSUME TypeOK, UNCHANGED <<locked, owner>>,
         locked => (pc'[owner] = "wait_unlock" <=> pc[owner] = "wait_unlock")
  PROVE  Inside' = Inside
  BY DEF Inside

\* The initial state of the implementation is one of the monitor.
LEMMA InitRefines == Init => M!MonitorInit
<1> SUFFICES ASSUME Init PROVE M!MonitorInit
  OBVIOUS
<1>1. Inside = NoOwner
  BY Zenon DEF Init, Inside
<1>2. WaitingThreads = {} /\ ReleasedThreads = {}
  BY DEF Init, WaitingThreads, ReleasedThreads
<1> QED
  BY <1>1, <1>2 DEF Init, M!MonitorInit

\* Steps that take the mutex: lock() enters the monitor, wait() enters again.
LEMMA TakeRefines ==
  ASSUME IInv, NEW t \in Threads, ~locked, locked' = TRUE, owner' = t,
         \/ pc[t] = "run" /\ UNCHANGED pc
         \/ pc[t] \in {"lock_slow", "m_awake"} /\ Goto(t, "reacquire"),
         UNCHANGED <<inWait, condVars, history>>
  PROVE  M!Enter(t) \/ M!Reenter(t)
<1>1. TypeOK /\ WaitInv
  BY DEF IInv
<1>2. Inside = NoOwner /\ Inside' = t
  BY <1>1 DEF Inside, Goto, TypeOK
<1>3. WaitingThreads' = WaitingThreads
  BY <1>1 DEF WaitingThreads, Goto, TypeOK, WaitInv, condVars
<1>4. CASE t \in inWait
  <2>1. t \in ReleasedThreads
    BY <1>1, <1>4 DEF ReleasedThreads, WaitingThreads, WaitInv, WaitSteps, LockSteps
  <2>2. ReleasedThreads' = ReleasedThreads \ {t}
    BY <1>1, <1>3, <1>4 DEF ReleasedThreads, Goto, TypeOK, WaitInv, WaitSteps, LockSteps
  <2> QED
    BY <1>2, <1>3, <2>1, <2>2 DEF M!Reenter, history
<1>5. CASE t \notin inWait
  <2>1. ReleasedThreads' = ReleasedThreads
    BY <1>1, <1>3, <1>5 DEF ReleasedThreads, Goto, TypeOK
  <2>2. t \notin WaitingThreads \cup ReleasedThreads
    BY <1>5 DEF WaitingThreads, ReleasedThreads
  <2> QED
    BY <1>2, <1>3, <2>1, <2>2 DEF M!Enter, history
<1> QED
  BY <1>4, <1>5

\* A signal releases the threads on their way to sleep, and the one it wakes.
LEMMA SignalRefines ==
  ASSUME IInv, NEW t \in Threads, condition_signal(t)
  PROVE  \E S \in SUBSET Threads : M!Signal(S)
<1>1. TypeOK /\ WaitInv /\ WaitersExact
  BY DEF IInv
<1>2. condWaiters = 0 => WaitingThreads = {}
  BY <1>1, NobodyCounted DEF WaitingThreads, ConditionUsers, WaitSteps, TypeOK
<1> USE DEF condition_signal, mutexVars
<1>3. Inside' = Inside
  <2>1. \A v \in Threads : pc'[v] = "wait_unlock" <=> pc[v] = "wait_unlock"
    BY <1>1 DEF Goto, At, TypeOK
  <2>2. UNCHANGED <<locked, owner>>
    OBVIOUS
  <2> QED
    BY <1>1, <2>1, <2>2, InsideKept DEF WaitInv
<1>4. CASE condWaiters = 0
  <2>1. UNCHANGED <<pc, sequence>>
    BY <1>4
  <2>2. WaitingThreads' = WaitingThreads /\ ReleasedThreads' = ReleasedThreads
    BY <1>1, <2>1, WaitersKept
  <2>3. WaitingThreads' = WaitingThreads \ {} /\ ReleasedThreads' = ReleasedThreads \cup {}
    BY <2>2
  <2>4. M!Signal({})
    BY <1>2, <1>3, <1>4, <2>3 DEF M!Signal
  <2> QED
    BY <2>4
<1>5. ASSUME sequence' = sequence + 1,
             NEW S \in SUBSET WaitingThreads,
             S # {} \/ WaitingThreads = {},
             \A u \in WaitingThreads : u \in S <=> pc'[u] # "c_sleep",
             \A u \in inWait : pc'[u] # pc[u] => pc[u] = "c_sleep" /\ pc'[u] = "c_awake"
      PROVE  M!Signal(S)
  <2>1. WaitingThreads' = WaitingThreads \ S
    <3>1. \A u \in inWait : observed'[u] # sequence'
      BY <1>1, <1>5 DEF WaitInv, TypeOK
    <3>2. \A u \in inWait : u \in WaitingThreads' <=> pc'[u] = "c_sleep"
      BY <3>1 DEF WaitingThreads
    <3>3. \A u \in inWait : pc'[u] = "c_sleep" => u \in WaitingThreads /\ u \notin S
      BY <1>5 DEF WaitingThreads
    <3> QED
      BY <1>5, <3>2, <3>3 DEF WaitingThreads
  <2>2. ReleasedThreads' = ReleasedThreads \cup S
    <3>1. \A u \in inWait : pc'[u] = "reacquire" <=> pc[u] = "reacquire"
      BY <1>5
    <3>2. \A u \in S : u \in inWait /\ pc[u] # "reacquire"
      BY DEF WaitingThreads
    <3> QED
      BY <2>1, <3>1, <3>2 DEF ReleasedThreads
  <2> QED
    BY <1>3, <1>5, <2>1, <2>2 DEF M!Signal
<1>6. CASE condWaiters > 0 /\ At("c_sleep") = {}
  <2>1. UNCHANGED pc /\ sequence' = sequence + 1
    BY <1>1, <1>6 DEF TypeOK
  <2>2. \A u \in WaitingThreads : pc[u] # "c_sleep"
    BY <1>1, <1>6 DEF WaitingThreads, At, TypeOK
  <2>3. /\ WaitingThreads \in SUBSET WaitingThreads
        /\ \A u \in WaitingThreads : u \in WaitingThreads <=> pc'[u] # "c_sleep"
        /\ \A u \in inWait : pc'[u] # pc[u] => pc[u] = "c_sleep" /\ pc'[u] = "c_awake"
    BY <2>1, <2>2
  <2>4. M!Signal(WaitingThreads)
    BY <1>5, <2>1, <2>3, Zenon
  <2>5. WaitingThreads \in SUBSET Threads
    BY <1>1 DEF WaitingThreads, TypeOK
  <2> QED
    BY <2>4, <2>5, Zenon
<1>7. CASE condWaiters > 0 /\ At("c_sleep") # {}
  <2>1. PICK u \in At("c_sleep") : Goto(u, "c_awake")
    BY <1>1, <1>7 DEF TypeOK
  <2>2. u \in Threads /\ pc[u] = "c_sleep" /\ u \in inWait /\ u \in WaitingThreads
    BY <1>1 DEF At, WaitInv, WaitSteps, WaitingThreads
  <2>3. \A v \in Threads : pc'[v] = IF v = u THEN "c_awake" ELSE pc[v]
    BY <1>1, <2>1 DEF Goto, TypeOK
  <2> DEFINE S == {v \in WaitingThreads : pc'[v] # "c_sleep"}
  <2>4. S \in SUBSET WaitingThreads /\ u \in S
    BY <2>2, <2>3
  <2>5. \A v \in inWait : pc'[v] # pc[v] => pc[v] = "c_sleep" /\ pc'[v] = "c_awake"
    BY <1>1, <2>2, <2>3 DEF TypeOK
  <2>6. sequence' = sequence + 1
    BY <1>1, <1>7 DEF TypeOK
  <2>7. \A v \in WaitingThreads : v \in S <=> pc'[v] # "c_sleep"
    OBVIOUS
  <2>8. M!Signal(S)
    <3> HIDE DEF S
    <3> QED
      BY <1>5, <2>4, <2>5, <2>6, <2>7, Zenon
  <2>9. S \in SUBSET Threads
    BY <1>1 DEF WaitingThreads, TypeOK
  <2> HIDE DEF S
  <2> QED
    BY <2>8, <2>9, Zenon
<1> QED
  BY <1>1, <1>4, <1>6, <1>7 DEF TypeOK

\* A broadcast releases all of them.
LEMMA BroadcastRefines ==
  ASSUME IInv, NEW t \in Threads, condition_broadcast(t)
  PROVE  M!Broadcast
<1>1. TypeOK /\ WaitInv /\ WaitersExact
  BY DEF IInv
<1> USE DEF condition_broadcast, mutexVars
<1>2. Inside' = Inside
  <2>1. \A v \in Threads : pc'[v] = "wait_unlock" <=> pc[v] = "wait_unlock"
    BY <1>1 DEF TypeOK
  <2>2. UNCHANGED <<locked, owner>>
    OBVIOUS
  <2> QED
    BY <1>1, <2>1, <2>2, InsideKept DEF WaitInv
<1>3. CASE condWaiters = 0
  <2>1. WaitingThreads = {}
    BY <1>1, <1>3, NobodyCounted DEF WaitingThreads, ConditionUsers, WaitSteps, TypeOK
  <2>2. UNCHANGED <<pc, sequence>>
    BY <1>3
  <2>3. WaitingThreads' = WaitingThreads /\ ReleasedThreads' = ReleasedThreads
    BY <1>1, <2>2, WaitersKept
  <2> QED
    BY <1>2, <2>1, <2>3 DEF M!Broadcast
<1>4. CASE condWaiters > 0
  <2>1. /\ sequence' = sequence + 1
        /\ \A u \in Threads : pc'[u] = IF pc[u] = "c_sleep" THEN "c_awake" ELSE pc[u]
    BY <1>4
  <2>2. \A u \in inWait : observed'[u] # sequence' /\ pc'[u] # "c_sleep"
    BY <1>1, <2>1 DEF WaitInv, TypeOK
  <2>3. WaitingThreads' = {}
    BY <2>2 DEF WaitingThreads
  <2>4. \A u \in inWait : pc'[u] = "reacquire" <=> pc[u] = "reacquire"
    BY <1>1, <2>1 DEF TypeOK
  <2>5. \A u \in WaitingThreads : u \in inWait /\ pc[u] # "reacquire"
    BY DEF WaitingThreads
  <2>6. ReleasedThreads' = ReleasedThreads \cup WaitingThreads
    BY <2>3, <2>4, <2>5 DEF ReleasedThreads
  <2> QED
    BY <1>2, <2>3, <2>6 DEF M!Broadcast
<1> QED
  BY <1>1, <1>3, <1>4 DEF TypeOK

\* pthread_cond_wait returns by itself: a spurious wake-up of the monitor, or
\* a step it does not see.
LEMMA SpuriousRefines ==
  ASSUME IInv, NEW t \in Threads, spurious_wakeup(t)
  PROVE  M!Spurious(t) \/ UNCHANGED M!monitorVars
<1>1. TypeOK /\ WaitInv
  BY DEF IInv
<1>2. UNCHANGED <<inWait, locked, owner, sequence, observed, signals, broadcasts>>
  BY DEF spurious_wakeup, mutexVars, condVars, history
<1>3. Inside' = Inside
  <2>1. \A v \in Threads : pc'[v] = "wait_unlock" <=> pc[v] = "wait_unlock"
    BY <1>1 DEF TypeOK, spurious_wakeup, Goto
  <2> QED
    BY <1>1, <1>2, <2>1, InsideKept DEF WaitInv
<1>4. CASE pc[t] = "m_sleep"
  <2>1. \A u \in inWait : pc'[u] # pc[u] => pc[u] \in LockSteps /\ pc'[u] \in LockSteps
    BY <1>1, <1>4 DEF TypeOK, spurious_wakeup, Goto, LockSteps
  <2> QED
    BY <1>1, <1>2, <1>3, <2>1, WaitersKept DEF M!monitorVars
<1>5. CASE pc[t] = "c_sleep"
  <2>1. \A u \in Threads : pc'[u] = IF u = t THEN "c_awake" ELSE pc[u]
    BY <1>1, <1>5 DEF TypeOK, spurious_wakeup, Goto
  <2>2. t \in inWait /\ t \in WaitingThreads
    BY <1>1, <1>5 DEF WaitInv, WaitSteps, WaitingThreads
  <2>3. \A u \in inWait : pc'[u] = "reacquire" <=> pc[u] = "reacquire"
    BY <1>1, <1>5, <2>1 DEF TypeOK
  <2>4. \A u \in inWait : u # t => (u \in WaitingThreads' <=> u \in WaitingThreads)
    BY <1>1, <1>2, <2>1 DEF WaitingThreads, TypeOK
  <2>5. t \in WaitingThreads' <=> observed[t] = sequence
    BY <1>1, <1>2, <2>1, <2>2 DEF WaitingThreads, TypeOK
  <2>6. WaitingThreads' \subseteq inWait /\ WaitingThreads \subseteq inWait
    BY <1>2 DEF WaitingThreads
  <2>7. CASE observed[t] = sequence
    <3>1. WaitingThreads' = WaitingThreads
      BY <2>2, <2>4, <2>5, <2>6, <2>7
    <3>2. ReleasedThreads' = ReleasedThreads
      BY <1>2, <2>3, <3>1 DEF ReleasedThreads
    <3> QED
      BY <1>2, <1>3, <3>1, <3>2 DEF M!monitorVars
  <2>8. CASE observed[t] # sequence
    <3>1. WaitingThreads' = WaitingThreads \ {t}
      BY <2>2, <2>4, <2>5, <2>6, <2>8
    <3>2. ReleasedThreads' = ReleasedThreads \cup {t}
      BY <1>2, <1>5, <2>2, <2>3, <3>1 DEF ReleasedThreads
    <3> QED
      BY <1>2, <1>3, <2>2, <3>1, <3>2 DEF M!Spurious
  <2> QED
    BY <2>7, <2>8
<1> QED
  BY <1>4, <1>5 DEF spurious_wakeup

\* wait() registers the caller and gives up the mutex in one abstract step,
\* although it unlocks later: nobody else can be inside in between.
LEMMA WaitRefines ==
  ASSUME IInv, NEW t \in Threads, condition_wait(t)
  PROVE  M!Wait(t)
<1>1. TypeOK /\ WaitInv
  BY DEF IInv
<1> USE DEF condition_wait, mutexVars, history
<1>2. \A u \in Threads : /\ pc'[u] = IF u = t THEN "wait_unlock" ELSE pc[u]
                         /\ observed'[u] = IF u = t THEN sequence ELSE observed[u]
  BY <1>1 DEF TypeOK, Goto
<1>3. Inside = t /\ Inside' = NoOwner
  BY <1>2 DEF Inside, Owns
<1>4. t \notin inWait /\ inWait' = inWait \cup {t}
  BY <1>1 DEF WaitInv, WaitSteps, LockSteps
<1>5. WaitingThreads' = WaitingThreads \cup {t}
  BY <1>1, <1>2, <1>4 DEF WaitingThreads, TypeOK
<1>6. t \notin ReleasedThreads /\ t \notin ReleasedThreads'
  BY <1>4, <1>5 DEF ReleasedThreads
<1>7. ReleasedThreads' = ReleasedThreads
  BY <1>1, <1>2, <1>4, <1>5, <1>6 DEF ReleasedThreads, TypeOK
<1> QED
  BY <1>3, <1>5, <1>7 DEF M!Wait

\* A release of the mutex moves only its owner and a thread that waits for it.
LEMMA ReleaseMoves ==
  ASSUME TypeOK, NEW t \in Threads, NEW label \in PCs, mutex_release_locked_guard(t, label)
  PROVE  /\ ~locked'
         /\ pc'[t] = label \/ pc[t] = "m_sleep"
         /\ \A u \in Threads : u # t /\ pc'[u] # pc[u] =>
              pc[u] = "m_sleep" /\ pc'[u] = "m_awake"
  BY DEF TypeOK, mutex_release_locked_guard, At, Goto

\* unlock() leaves the monitor.
LEMMA UnlockRefines ==
  ASSUME IInv, NEW t \in Threads, mutex_unlock(t)
  PROVE  M!Leave(t)
<1>1. TypeOK /\ WaitInv
  BY DEF IInv
<1>2. /\ pc[t] = "run" /\ Owns(t) /\ mutex_release_locked_guard(t, "run")
      /\ UNCHANGED <<inWait, owner, sequence, observed, signals, broadcasts>>
  BY DEF mutex_unlock, condVars, history
<1>3. /\ ~locked'
      /\ \A u \in Threads : pc'[u] # pc[u] => pc[u] = "m_sleep" /\ pc'[u] = "m_awake"
  BY <1>1, <1>2, ReleaseMoves DEF PCs
<1>4. Inside = t /\ Inside' = NoOwner
  BY <1>2, <1>3 DEF Inside, Owns
<1>5. \A u \in inWait : pc'[u] # pc[u] => pc[u] \in LockSteps /\ pc'[u] \in LockSteps
  BY <1>1, <1>3 DEF TypeOK, LockSteps
<1>6. WaitingThreads' = WaitingThreads /\ ReleasedThreads' = ReleasedThreads
  BY <1>1, <1>2, <1>5, WaitersKept
<1> QED
  BY <1>2, <1>4, <1>6 DEF M!Leave

\* The unlock inside wait() is not seen: the thread had left the monitor.
LEMMA WaitUnlockRefines ==
  ASSUME IInv, NEW t \in Threads, condition_wait_unlock(t)
  PROVE  UNCHANGED M!monitorVars
<1>1. TypeOK /\ WaitInv /\ ReturnsOwning
  BY DEF IInv
<1>2. /\ pc[t] = "wait_unlock" /\ mutex_release_locked_guard(t, "wait_check")
      /\ UNCHANGED <<inWait, owner, sequence, observed, signals, broadcasts>>
  BY DEF condition_wait_unlock, condVars, history
<1>3. /\ ~locked' /\ pc'[t] = "wait_check"
      /\ \A u \in Threads : u # t /\ pc'[u] # pc[u] =>
           pc[u] = "m_sleep" /\ pc'[u] = "m_awake"
  BY <1>1, <1>2, ReleaseMoves DEF PCs, WaitSteps
<1>4. Inside = NoOwner /\ Inside' = NoOwner
  BY <1>1, <1>2, <1>3 DEF Inside, Owns, ReturnsOwning
<1>5. \A u \in inWait : u \in Threads
  BY <1>1 DEF TypeOK
<1>6. \A u \in inWait : /\ u \in WaitingThreads' <=> u \in WaitingThreads
                        /\ pc'[u] = "reacquire" <=> pc[u] = "reacquire"
  BY <1>2, <1>3, <1>5 DEF WaitingThreads
<1>7. WaitingThreads' = WaitingThreads
  BY <1>2, <1>6 DEF WaitingThreads
<1>8. ReleasedThreads' = ReleasedThreads
  BY <1>2, <1>6, <1>7 DEF ReleasedThreads
<1> QED
  BY <1>2, <1>4, <1>7, <1>8 DEF M!monitorVars

\* Nor is the test of the sequence: it finds out what a notification did.
LEMMA WaitCheckRefines ==
  ASSUME IInv, NEW t \in Threads, condition_wait_check(t)
  PROVE  UNCHANGED M!monitorVars
<1>1. TypeOK /\ WaitInv
  BY DEF IInv
<1>2. UNCHANGED <<inWait, locked, owner, sequence, observed, signals, broadcasts>>
  BY DEF condition_wait_check, mutexVars, history
<1>3. /\ pc[t] \in {"wait_check", "c_awake"}
      /\ \A u \in Threads :
           pc'[u] = IF u = t THEN IF sequence = observed[t] THEN "c_sleep" ELSE "lock_slow"
                             ELSE pc[u]
  BY <1>1 DEF condition_wait_check, Goto, TypeOK
<1>4. Inside' = Inside
  BY <1>1, <1>2, <1>3, InsideKept DEF WaitInv
<1>5. \A u \in inWait : u \in Threads
  BY <1>1 DEF TypeOK
<1>6. \A u \in inWait : /\ u \in WaitingThreads' <=> u \in WaitingThreads
                        /\ pc'[u] = "reacquire" <=> pc[u] = "reacquire"
  BY <1>2, <1>3, <1>5 DEF WaitingThreads
<1>7. WaitingThreads' = WaitingThreads
  BY <1>2, <1>6 DEF WaitingThreads
<1>8. ReleasedThreads' = ReleasedThreads
  BY <1>2, <1>6, <1>7 DEF ReleasedThreads
<1> QED
  BY <1>2, <1>4, <1>7, <1>8 DEF M!monitorVars

\* The other steps are not seen: they move threads that are not in wait(), or
\* that are taking the mutex again.
LEMMA OtherStepsStutter ==
  ASSUME IInv, NEW t \in Threads,
         \/ gil_release(t) \/ gil_acquire(t) \/ mutex_lock_slow(t) \/ lock_return(t)
         \/ (mutex_acquire(t) /\ locked) \/ (mutex_reacquire(t) /\ locked)
         \/ mutex_close(t) \/ condition_close(t)
  PROVE  UNCHANGED M!monitorVars
<1>1. TypeOK /\ WaitInv /\ ReturnsOwning
  BY DEF IInv
<1> USE DEF mutexVars, condVars, history, Goto
<1>2. UNCHANGED <<locked, owner, sequence, observed, signals, broadcasts>>
  BY DEF gil_release, gil_acquire, mutex_lock_slow, lock_return, mutex_acquire,
         mutex_reacquire, mutex_close, condition_close
<1>3. \A v \in Threads : pc'[v] = "wait_unlock" <=> pc[v] = "wait_unlock"
  BY <1>1 DEF TypeOK, gil_release, gil_acquire, mutex_lock_slow, lock_return,
              mutex_acquire, mutex_reacquire, mutex_close, condition_close
<1>4. Inside' = Inside
  BY <1>1, <1>2, <1>3, InsideKept DEF WaitInv
<1>5. CASE lock_return(t)
  <2>1. pc[t] = "reacquire" /\ inWait' = inWait \ {t}
    BY <1>5 DEF lock_return
  <2>2. \A u \in inWait : u # t => pc'[u] = pc[u]
    BY <1>1, <1>5 DEF lock_return, TypeOK
  <2>3. WaitingThreads' = WaitingThreads
    BY <1>2, <2>1, <2>2 DEF WaitingThreads
  <2>4. ReleasedThreads' = ReleasedThreads
    BY <2>1, <2>2, <2>3 DEF ReleasedThreads
  <2> QED
    BY <1>2, <1>4, <2>3, <2>4 DEF M!monitorVars
<1>6. CASE ~lock_return(t)
  <2>1. \A u \in inWait : pc'[u] # pc[u] => pc[u] \in LockSteps /\ pc'[u] \in LockSteps
    BY <1>1, <1>6 DEF TypeOK, WaitInv, LockSteps, WaitSteps, gil_release, gil_acquire,
       mutex_lock_slow, mutex_acquire, mutex_reacquire, mutex_close, condition_close
  <2>2. UNCHANGED inWait
    BY <1>6 DEF gil_release, gil_acquire, mutex_lock_slow, mutex_acquire,
                mutex_reacquire, mutex_close, condition_close
  <2>3. WaitingThreads' = WaitingThreads /\ ReleasedThreads' = ReleasedThreads
    BY <1>1, <1>2, <2>1, <2>2, WaitersKept
  <2> QED
    BY <1>2, <1>4, <2>3 DEF M!monitorVars
<1> QED
  BY <1>5, <1>6

\* Every step is a step of the monitor or leaves it as it is.
LEMMA StepRefines == IInv /\ [Next]_vars => [M!MonitorNext]_(M!monitorVars)
<1> SUFFICES ASSUME IInv, [Next]_vars PROVE M!MonitorNext \/ UNCHANGED M!monitorVars
  OBVIOUS
<1>1. ASSUME UNCHANGED vars PROVE UNCHANGED M!monitorVars
  <2>1. UNCHANGED <<pc, inWait, locked, owner, sequence, observed, signals, broadcasts>>
    BY <1>1 DEF vars
  <2>2. Inside' = Inside /\ WaitingThreads' = WaitingThreads
    BY <2>1 DEF Inside, WaitingThreads
  <2>3. ReleasedThreads' = ReleasedThreads
    BY <2>1, <2>2 DEF ReleasedThreads
  <2> QED
    BY <2>1, <2>2, <2>3 DEF M!monitorVars
<1>2. ASSUME NEW t \in Threads, Step(t) PROVE M!MonitorNext \/ UNCHANGED M!monitorVars
  <2>1. CASE mutex_lock_fast(t)
    <3>1. M!Enter(t) \/ M!Reenter(t)
      BY <2>1, TakeRefines DEF mutex_lock_fast
    <3> QED
      BY <3>1 DEF M!MonitorNext
  <2>2. CASE mutex_acquire(t) /\ ~locked
    <3>1. M!Enter(t) \/ M!Reenter(t)
      BY <2>2, TakeRefines DEF mutex_acquire
    <3> QED
      BY <3>1 DEF M!MonitorNext
  <2>3. CASE mutex_reacquire(t) /\ ~locked
    <3>1. M!Enter(t) \/ M!Reenter(t)
      BY <2>3, TakeRefines DEF mutex_reacquire
    <3> QED
      BY <3>1 DEF M!MonitorNext
  <2>4. CASE mutex_unlock(t)
    BY <2>4, UnlockRefines DEF M!MonitorNext
  <2>5. CASE condition_wait(t)
    BY <2>5, WaitRefines DEF M!MonitorNext
  <2>6. CASE condition_wait_unlock(t)
    BY <2>6, WaitUnlockRefines
  <2>7. CASE condition_wait_check(t)
    BY <2>7, WaitCheckRefines
  <2>8. CASE condition_signal(t)
    BY <2>8, SignalRefines, Zenon DEF M!MonitorNext
  <2>9. CASE condition_broadcast(t)
    BY <2>9, BroadcastRefines DEF M!MonitorNext
  <2>10. CASE spurious_wakeup(t)
    BY <2>10, SpuriousRefines DEF M!MonitorNext
  <2>11. CASE \/ gil_release(t) \/ gil_acquire(t) \/ mutex_lock_slow(t) \/ lock_return(t)
              \/ (mutex_acquire(t) /\ locked) \/ (mutex_reacquire(t) /\ locked)
              \/ mutex_close(t) \/ condition_close(t)
    BY <2>11, OtherStepsStutter
  <2> QED
    BY <1>1, <1>2, <2>1, <2>2, <2>3, <2>4, <2>5, <2>6, <2>7, <2>8, <2>9, <2>10, <2>11,
       Refusals DEF Step
<1> QED
  BY <1>1, <1>2 DEF Next

\* Mutex and condition behave as the monitor their documentation describes,
\* for any number of threads: a notification between registering as a waiter
\* and falling asleep is not lost, and wait() returns only with the mutex.
THEOREM RefinesMonitor == Spec => ImplementsMonitor
<1>1. Spec => M!MonitorInit /\ [][M!MonitorNext]_(M!monitorVars)
  BY InitRefines, StepRefines, Inductive, PTL DEF Spec
<1> QED
  BY <1>1 DEF ImplementsMonitor, M!MonitorSpec
=============================================================================
