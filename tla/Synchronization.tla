-------------------------- MODULE Synchronization --------------------------
(***************************************************************************)
(* Sync.Mutex and Sync.Condition: src/src/RuntimeThreads.c:217-464 and the *)
(* wrappers of src/stdlib/synchronization/0.1.0/synchronization.cw.  One   *)
(* mutex and one condition used by several Cwhip threads.                  *)
(*                                                                         *)
(* The native guard mutexes are held only over short sections that do not  *)
(* block, so one section is one step.  A thread holds the global lock      *)
(* exactly while it is at "run" (LockDiscipline of module Threads): every  *)
(* call starts there, and the steps of a blocking call run without it.     *)
(* pthread_cond_wait is a set of sleeping threads, from which a signal     *)
(* takes one; it may also return by itself.                                *)
(***************************************************************************)
EXTENDS Naturals, FiniteSets

CONSTANTS Threads,
          NoOwner,
          MaxNotify,   \* bound on the signal() and broadcast() calls
          ClosePolicy  \* when close() is called: "never", "quiescent", "any"

ASSUME ThreadsAreFinite == IsFiniteSet(Threads)
ASSUME NoOwnerIsFresh == NoOwner \notin Threads
ASSUME MaxNotifyIsNat == MaxNotify \in Nat
ASSUME ClosePolicyIsKnown == ClosePolicy \in {"never", "quiescent", "any"}

VARIABLES
  pc,          \* where each thread is
  inWait,      \* threads whose current call is Condition.wait
  locked, owner, waiters,        \* CwhipMutexObject
  mutexOpen,                     \* the mutex is allocated
  sequence, condWaiters,         \* CwhipConditionObject
  condOpen,                      \* the condition is allocated
  observed,    \* condition_wait's local snapshot of sequence
  signals, broadcasts            \* history: notifications so far

mutexVars == <<locked, owner, waiters, mutexOpen>>
condVars == <<sequence, condWaiters, condOpen, observed>>
history == <<signals, broadcasts>>
vars == <<pc, inWait, locked, owner, waiters, mutexOpen, sequence,
          condWaiters, condOpen, observed, signals, broadcasts>>

\* The steps of a blocking call, all of them without the global lock.
LockSteps == {"lock_slow", "m_sleep", "m_awake"}
WaitSteps == {"wait_unlock", "wait_check", "c_sleep", "c_awake"}
PCs == {"run", "outside", "reacquire"} \cup LockSteps \cup WaitSteps

At(label) == {t \in Threads : pc[t] = label}
Goto(t, label) == pc' = [pc EXCEPT ![t] = label]

\* The global lock is free, as every thread at "run" holds it.
GilFree == At("run") = {}

\* mutex_owned_by_caller
Owns(t) == locked /\ owner = t

TypeOK ==
  /\ pc \in [Threads -> PCs]
  /\ inWait \in SUBSET Threads
  /\ locked \in BOOLEAN
  /\ owner \in Threads \cup {NoOwner}
  /\ waiters \in Nat
  /\ mutexOpen \in BOOLEAN
  /\ sequence \in Nat
  /\ condWaiters \in Nat
  /\ condOpen \in BOOLEAN
  /\ observed \in [Threads -> Nat]
  /\ signals \in Nat
  /\ broadcasts \in Nat

\* cwhip_mutex_create and cwhip_condition_create have returned and all the
\* threads are about to take the global lock.
Init ==
  /\ pc = [t \in Threads |-> "outside"]
  /\ inWait = {}
  /\ locked = FALSE /\ owner = NoOwner /\ waiters = 0 /\ mutexOpen = TRUE
  /\ sequence = 0 /\ condWaiters = 0 /\ condOpen = TRUE
  /\ observed = [t \in Threads |-> 0]
  /\ signals = 0 /\ broadcasts = 0

----------------------------------------------------------------------------
(* The global lock around calls that do not concern the mutex.             *)

gil_release(t) ==
  /\ pc[t] = "run"
  /\ Goto(t, "outside")
  /\ UNCHANGED <<inWait, mutexVars, condVars, history>>

gil_acquire(t) ==
  /\ pc[t] = "outside"
  /\ GilFree
  /\ Goto(t, "run")
  /\ UNCHANGED <<inWait, mutexVars, condVars, history>>

----------------------------------------------------------------------------
(* cwhip_mutex_lock                                                        *)

\* A null handle (the mutex was closed) or a lock the caller owns: an error
\* is returned and nothing changes.
mutex_lock_refused(t) ==
  /\ pc[t] = "run"
  /\ ~mutexOpen \/ Owns(t)
  /\ UNCHANGED vars

\* Uncontended: the caller keeps the global lock.
mutex_lock_fast(t) ==
  /\ pc[t] = "run"
  /\ mutexOpen /\ ~locked
  /\ locked' = TRUE
  /\ owner' = t
  /\ UNCHANGED <<pc, inWait, waiters, mutexOpen, condVars, history>>

\* Contended: give up the guard and then the global lock.
mutex_lock_slow(t) ==
  /\ pc[t] = "run"
  /\ mutexOpen /\ locked /\ owner # t
  /\ Goto(t, "lock_slow")
  /\ UNCHANGED <<inWait, mutexVars, condVars, history>>

\* mutex_acquire_locked_guard, up to the first test of the loop: count the
\* caller as a waiter and sleep, or take the lock at once.
mutex_acquire(t) ==
  /\ pc[t] = "lock_slow"
  /\ IF locked
       THEN /\ waiters' = waiters + 1
            /\ Goto(t, "m_sleep")
            /\ UNCHANGED <<locked, owner>>
       ELSE /\ locked' = TRUE
            /\ owner' = t
            /\ Goto(t, "reacquire")
            /\ UNCHANGED waiters
  /\ UNCHANGED <<inWait, mutexOpen, condVars, history>>

\* The loop tests again after pthread_cond_wait returned.
mutex_reacquire(t) ==
  /\ pc[t] = "m_awake"
  /\ IF locked
       THEN /\ Goto(t, "m_sleep")
            /\ UNCHANGED <<locked, owner, waiters>>
       ELSE /\ waiters' = waiters - 1
            /\ locked' = TRUE
            /\ owner' = t
            /\ Goto(t, "reacquire")
  /\ UNCHANGED <<inWait, mutexOpen, condVars, history>>

\* The tail of lock and of wait: cwhip_runtime_gil_acquire, return true.
lock_return(t) ==
  /\ pc[t] = "reacquire"
  /\ GilFree
  /\ Goto(t, "run")
  /\ inWait' = inWait \ {t}
  /\ UNCHANGED <<mutexVars, condVars, history>>

----------------------------------------------------------------------------
(* cwhip_mutex_unlock                                                      *)

\* Mutant: nobody is woken.
mutex_release_silent(t, label) ==
  /\ locked' = FALSE
  /\ Goto(t, label)

\* mutex_release_locked_guard by t, which goes on at label: if somebody is
\* counted as a waiter, one of the sleeping threads is woken.
mutex_release_locked_guard(t, label) ==
  /\ locked' = FALSE
  /\ \/ /\ waiters = 0 \/ At("m_sleep") = {}
        /\ Goto(t, label)
     \/ /\ waiters > 0
        /\ \E u \in At("m_sleep") :
             pc' = [pc EXCEPT ![t] = label, ![u] = "m_awake"]

mutex_unlock(t) ==
  /\ pc[t] = "run"
  /\ mutexOpen /\ Owns(t)
  /\ mutex_release_locked_guard(t, "run")
  /\ UNCHANGED <<inWait, owner, waiters, mutexOpen, condVars, history>>

mutex_unlock_refused(t) ==
  /\ pc[t] = "run"
  /\ ~mutexOpen \/ ~Owns(t)
  /\ UNCHANGED vars

----------------------------------------------------------------------------
(* cwhip_condition_wait                                                    *)

condition_wait_refused(t) ==
  /\ pc[t] = "run"
  /\ ~mutexOpen \/ ~condOpen \/ ~Owns(t)
  /\ UNCHANGED vars

\* Owning the mutex, register as a waiter and snapshot the sequence; then
\* give up the global lock.
condition_wait(t) ==
  /\ pc[t] = "run"
  /\ mutexOpen /\ condOpen /\ Owns(t)
  /\ observed' = [observed EXCEPT ![t] = sequence]
  /\ condWaiters' = condWaiters + 1
  /\ inWait' = inWait \cup {t}
  /\ Goto(t, "wait_unlock")
  /\ UNCHANGED <<mutexVars, sequence, condOpen, history>>

\* Mutant: the snapshot is taken after the mutex was released.
condition_wait_unlock_late(t) ==
  /\ pc[t] = "wait_unlock"
  /\ mutex_release_locked_guard(t, "wait_check")
  /\ observed' = [observed EXCEPT ![t] = sequence]
  /\ UNCHANGED <<inWait, owner, waiters, mutexOpen, sequence, condWaiters, condOpen, history>>

\* Release the mutex.
condition_wait_unlock(t) ==
  /\ pc[t] = "wait_unlock"
  /\ mutex_release_locked_guard(t, "wait_check")
  /\ UNCHANGED <<inWait, owner, waiters, mutexOpen, condVars, history>>

\* The test of the loop: sleep while no notification came since the snapshot.
condition_wait_check(t) ==
  /\ pc[t] \in {"wait_check", "c_awake"}
  /\ IF sequence = observed[t]
       THEN /\ Goto(t, "c_sleep")
            /\ UNCHANGED condWaiters
       ELSE /\ condWaiters' = condWaiters - 1
            /\ Goto(t, "lock_slow")
  /\ UNCHANGED <<inWait, mutexVars, sequence, condOpen, observed, history>>

----------------------------------------------------------------------------
(* condition_notify: cwhip_condition_signal and cwhip_condition_broadcast  *)

condition_signal(t) ==
  /\ pc[t] = "run" /\ condOpen
  /\ signals + broadcasts < MaxNotify
  /\ signals' = signals + 1
  /\ \/ /\ condWaiters = 0
        /\ UNCHANGED <<sequence, pc>>
     \/ /\ condWaiters > 0
        /\ sequence' = sequence + 1
        /\ \/ At("c_sleep") = {} /\ UNCHANGED pc
           \/ \E u \in At("c_sleep") : Goto(u, "c_awake")
  /\ UNCHANGED <<inWait, mutexVars, condWaiters, condOpen, observed, broadcasts>>

condition_broadcast(t) ==
  /\ pc[t] = "run" /\ condOpen
  /\ signals + broadcasts < MaxNotify
  /\ broadcasts' = broadcasts + 1
  /\ IF condWaiters > 0
       THEN /\ sequence' = sequence + 1
            /\ pc' = [u \in Threads |-> IF pc[u] = "c_sleep" THEN "c_awake" ELSE pc[u]]
       ELSE UNCHANGED <<sequence, pc>>
  /\ UNCHANGED <<inWait, mutexVars, condWaiters, condOpen, observed, signals>>

condition_notify_refused(t) ==
  /\ pc[t] = "run" /\ ~condOpen
  /\ UNCHANGED vars

\* pthread_cond_wait returns although nobody signalled.
spurious_wakeup(t) ==
  /\ \/ pc[t] = "m_sleep" /\ Goto(t, "m_awake")
     \/ pc[t] = "c_sleep" /\ Goto(t, "c_awake")
  /\ UNCHANGED <<inWait, mutexVars, condVars, history>>

----------------------------------------------------------------------------
(* close() of the wrappers: cwhip_mutex_release, cwhip_condition_release.  *)

\* Threads inside a call that goes on to use the mutex, or the condition.
MutexUsers == {t \in Threads : pc[t] \in LockSteps \cup WaitSteps}
ConditionUsers == {t \in Threads : pc[t] \in WaitSteps}

\* STDLIB.md:836 asks the caller to close only after all users have stopped;
\* a condition is closed at any time, as its own check is enough.
MayCloseMutex == ClosePolicy = "any" \/ (ClosePolicy = "quiescent" /\ MutexUsers = {})
MayCloseCondition == ClosePolicy # "never"

MutexBusy == locked \/ waiters > 0
ConditionBusy == condWaiters > 0

mutex_close(t) ==
  /\ pc[t] = "run" /\ mutexOpen /\ MayCloseMutex
  /\ ~MutexBusy
  /\ mutexOpen' = FALSE
  /\ UNCHANGED <<pc, inWait, locked, owner, waiters, condVars, history>>

\* EBUSY; the object stays usable.
mutex_close_refused(t) ==
  /\ pc[t] = "run" /\ mutexOpen /\ MayCloseMutex
  /\ MutexBusy
  /\ UNCHANGED vars

\* Mutant: the object is freed without looking at the waiters.
condition_close_unchecked(t) ==
  /\ pc[t] = "run" /\ condOpen /\ MayCloseCondition
  /\ condOpen' = FALSE
  /\ UNCHANGED <<pc, inWait, mutexVars, sequence, condWaiters, observed, history>>

condition_close(t) ==
  /\ pc[t] = "run" /\ condOpen /\ MayCloseCondition
  /\ ~ConditionBusy
  /\ condOpen' = FALSE
  /\ UNCHANGED <<pc, inWait, mutexVars, sequence, condWaiters, observed, history>>

condition_close_refused(t) ==
  /\ pc[t] = "run" /\ condOpen /\ MayCloseCondition
  /\ ConditionBusy
  /\ UNCHANGED vars

----------------------------------------------------------------------------
Step(t) ==
  \/ gil_release(t)
  \/ gil_acquire(t)
  \/ mutex_lock_refused(t)
  \/ mutex_lock_fast(t)
  \/ mutex_lock_slow(t)
  \/ mutex_acquire(t)
  \/ mutex_reacquire(t)
  \/ lock_return(t)
  \/ mutex_unlock(t)
  \/ mutex_unlock_refused(t)
  \/ condition_wait_refused(t)
  \/ condition_wait(t)
  \/ condition_wait_unlock(t)
  \/ condition_wait_check(t)
  \/ condition_signal(t)
  \/ condition_broadcast(t)
  \/ condition_notify_refused(t)
  \/ spurious_wakeup(t)
  \/ mutex_close(t)
  \/ mutex_close_refused(t)
  \/ condition_close(t)
  \/ condition_close_refused(t)

Next == \E t \in Threads : Step(t)

Spec == Init /\ [][Next]_vars

----------------------------------------------------------------------------
(* Properties.                                                             *)

\* A thread on its way out of lock() or wait() owns the mutex until it has the
\* global lock again, and so does one that is about to give it up in wait():
\* nobody barges in between (RuntimeThreads.c:254-263, 396-416).
ReturnsOwning ==
  \A t \in Threads : pc[t] \in {"reacquire", "wait_unlock"} => Owns(t)

\* An unlocked mutex never leaves all of its waiters asleep: one of them has
\* been woken and will test the flag (mutex_release_locked_guard), however
\* other threads barge in on the fast path.
NoLostWakeup == ~locked /\ At("m_sleep") # {} => At("m_awake") # {}

\* The waiter counts that decide whether to signal and whether close() may
\* free the object count exactly the threads that will come back.
WaitersExact ==
  /\ waiters = Cardinality(At("m_sleep") \cup At("m_awake"))
  /\ condWaiters = Cardinality(ConditionUsers)

\* A condition is never freed under a thread that waits on it: a waiter is
\* counted before it gives up the global lock (RuntimeThreads.c:388-396).
ConditionFreedIdle == ~condOpen => ConditionUsers = {}

\* Closing a contended mutex is refused: it is never freed while a thread is
\* blocked in lock() (src/doc/STDLIB.md:814-815).
ContendedCloseRefused ==
  ~mutexOpen => ~\E t \in Threads \ inWait : pc[t] \in LockSteps

\* Mutex and condition exist as long as a thread may come back to them: the
\* counts that close() reads are exact, and who returns owns the mutex.
CloseSafe == /\ TypeOK /\ ReturnsOwning /\ WaitersExact
             /\ ConditionFreedIdle /\ ContendedCloseRefused

\* The threads in wait() that no notification has reached yet: asleep, or on
\* their way to sleep with an up-to-date snapshot.
WaitingThreads ==
  {t \in inWait : \/ pc[t] = "c_sleep"
                  \/ /\ pc[t] \in {"wait_unlock", "wait_check", "c_awake"}
                     /\ observed[t] = sequence}
ReleasedThreads == {t \in inWait \ WaitingThreads : pc[t] # "reacquire"}
Inside == IF locked /\ pc[owner] # "wait_unlock" THEN owner ELSE NoOwner

\* The implementation of mutex and condition behaves as the monitor: a signal
\* is never lost between registering as a waiter and falling asleep, and the
\* lock is given up in the same abstract step.
M == INSTANCE Monitor WITH owner <- Inside, waiting <- WaitingThreads,
                           released <- ReleasedThreads
ImplementsMonitor == M!MonitorSpec
=============================================================================
