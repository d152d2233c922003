----------------------------- MODULE Semaphore -----------------------------
(***************************************************************************)
(* The counting semaphore of src/src/RuntimeThreads.c:167-215: a count     *)
(* under its own mutex and condition variable.  wait() always gives up the *)
(* global lock; signal() runs with it.  A thread holds the global lock     *)
(* exactly while it is at "run".                                           *)
(***************************************************************************)
EXTENDS Naturals, FiniteSets

CONSTANTS Threads,
          InitialCount,  \* the argument of cwhip_semaphore_create
          MaxCount,      \* stands for INT64_MAX, where signal() aborts
          MaxSignals     \* bound on the signal() calls

ASSUME ThreadsAreFinite == IsFiniteSet(Threads)
ASSUME InitialCountInRange == InitialCount \in Nat /\ InitialCount <= MaxCount
ASSUME MaxCountIsNat == MaxCount \in Nat
ASSUME MaxSignalsIsNat == MaxSignals \in Nat

VARIABLES pc,       \* where each thread is
          count,    \* sem->count
          aborted,  \* the process ended in abort()
          signals,  \* history: signal() calls that returned
          taken,    \* history: counts consumed by wait()
          open      \* the semaphore is allocated

vars == <<pc, count, aborted, signals, taken, open>>

PCs == {"run", "outside", "enter", "sleep", "awake", "reacquire"}
At(label) == {t \in Threads : pc[t] = label}
Goto(t, label) == pc' = [pc EXCEPT ![t] = label]
GilFree == At("run") = {}

TypeOK ==
  /\ pc \in [Threads -> PCs]
  /\ count \in 0..MaxCount
  /\ aborted \in BOOLEAN
  /\ signals \in Nat
  /\ taken \in Nat
  /\ open \in BOOLEAN

\* cwhip_semaphore_create has returned; a negative count would have aborted.
Init ==
  /\ pc = [t \in Threads |-> "outside"]
  /\ count = InitialCount
  /\ aborted = FALSE
  /\ signals = 0
  /\ taken = 0
  /\ open = TRUE

gil_release(t) ==
  /\ pc[t] = "run"
  /\ Goto(t, "outside")
  /\ UNCHANGED <<count, aborted, signals, taken, open>>

gil_acquire(t) ==
  /\ pc[t] = "outside"
  /\ GilFree
  /\ Goto(t, "run")
  /\ UNCHANGED <<count, aborted, signals, taken, open>>

\* cwhip_semaphore_wait: the global lock is released first.
semaphore_wait(t) ==
  /\ pc[t] = "run" /\ open
  /\ Goto(t, "enter")
  /\ UNCHANGED <<count, aborted, signals, taken, open>>

\* The loop under sem->mutex: sleep while the count is zero, else take one.
semaphore_take(t) ==
  /\ pc[t] \in {"enter", "awake"}
  /\ IF count = 0
       THEN /\ Goto(t, "sleep")
            /\ UNCHANGED <<count, taken>>
       ELSE /\ count' = count - 1
            /\ taken' = taken + 1
            /\ Goto(t, "reacquire")
  /\ UNCHANGED <<aborted, signals, open>>

semaphore_wait_return(t) ==
  /\ pc[t] = "reacquire"
  /\ GilFree
  /\ Goto(t, "run")
  /\ UNCHANGED <<count, aborted, signals, taken, open>>

\* Mutant: a thread is woken only when the count leaves zero.
semaphore_signal_edge(t) ==
  /\ pc[t] = "run" /\ open
  /\ signals < MaxSignals
  /\ count < MaxCount
  /\ count' = count + 1
  /\ signals' = signals + 1
  /\ \/ (count > 0 \/ At("sleep") = {}) /\ UNCHANGED pc
     \/ count = 0 /\ \E u \in At("sleep") : Goto(u, "awake")
  /\ UNCHANGED <<aborted, taken, open>>

\* Mutant: nobody is woken.
semaphore_signal_silent(t) ==
  /\ pc[t] = "run" /\ open
  /\ signals < MaxSignals
  /\ count < MaxCount
  /\ count' = count + 1
  /\ signals' = signals + 1
  /\ UNCHANGED <<pc, aborted, taken, open>>

\* cwhip_semaphore_signal: count, then wake one sleeping thread.
semaphore_signal(t) ==
  /\ pc[t] = "run" /\ open
  /\ signals < MaxSignals
  /\ count < MaxCount
  /\ count' = count + 1
  /\ signals' = signals + 1
  /\ \/ At("sleep") = {} /\ UNCHANGED pc
     \/ \E u \in At("sleep") : Goto(u, "awake")
  /\ UNCHANGED <<aborted, taken, open>>

\* The count would overflow, or wait() or signal() is called on a closed
\* semaphore: abort().
semaphore_abort(t) ==
  /\ pc[t] = "run"
  /\ count = MaxCount \/ ~open
  /\ aborted' = TRUE
  /\ UNCHANGED <<pc, count, signals, taken, open>>

\* close(): STDLIB.md:830-831 asks the caller to wait until nobody uses it,
\* and nothing checks it.
semaphore_close(t) ==
  /\ pc[t] = "run" /\ open
  /\ At("enter") \cup At("sleep") \cup At("awake") = {}
  /\ open' = FALSE
  /\ UNCHANGED <<pc, count, aborted, signals, taken>>

\* pthread_cond_wait returns although nobody signalled.
spurious_wakeup(t) ==
  /\ pc[t] = "sleep"
  /\ Goto(t, "awake")
  /\ UNCHANGED <<count, aborted, signals, taken, open>>

Step(t) ==
  \/ gil_release(t)
  \/ gil_acquire(t)
  \/ semaphore_wait(t)
  \/ semaphore_take(t)
  \/ semaphore_wait_return(t)
  \/ semaphore_signal(t)
  \/ semaphore_abort(t)
  \/ semaphore_close(t)
  \/ spurious_wakeup(t)

Next == ~aborted /\ \E t \in Threads : Step(t)

\* A thread in the loop needs only sem->mutex, which is held over short
\* sections: it tests the count again some time.  Nothing is assumed about
\* who gets the global lock.
Fairness == \A t \in Threads : WF_vars(~aborted /\ semaphore_take(t))

Spec == Init /\ [][Next]_vars /\ Fairness

----------------------------------------------------------------------------
(* Properties.                                                             *)

\* Every signal is consumed at most once and none is invented, whatever
\* threads barge in between a wake-up and the test it leads to.
Conservation == count + taken = InitialCount + signals

\* While threads sleep, every count left is already meant for a thread that
\* was woken: one signal per sleeper suffices, no count is stranded.
NoStrandedCount == At("sleep") # {} => count <= Cardinality(At("awake"))

\* Both together, of a count that stays within its type.
CountExact == TypeOK /\ Conservation /\ NoStrandedCount

\* A count and a sleeping waiter do not stay together for ever: as long as
\* the process lives, the count is taken or nobody sleeps any more.
CountReachesWaiter ==
  (count > 0 /\ At("sleep") # {}) ~> (count = 0 \/ At("sleep") = {} \/ aborted)
=============================================================================
