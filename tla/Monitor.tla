------------------------------ MODULE Monitor ------------------------------
(***************************************************************************)
(* What Sync.Mutex and Sync.Condition promise their callers                *)
(* (src/doc/STDLIB.md, "synchronization"): a non-recursive lock with one   *)
(* owner, a wait that gives up the lock in the same instant it starts to   *)
(* wait, a signal that wakes at least one thread that waits, a broadcast   *)
(* that wakes all of them, and a wait that returns only with the lock.     *)
(* Wake-ups without a notification are allowed: callers loop on a          *)
(* predicate.                                                              *)
(***************************************************************************)
EXTENDS Naturals

CONSTANTS Threads, NoOwner

VARIABLES owner,     \* the thread inside the monitor
          waiting,   \* threads in wait() that no notification has reached
          released,  \* threads in wait() that only need the lock again
          signals,   \* signal() calls so far
          broadcasts \* broadcast() calls so far

monitorVars == <<owner, waiting, released, signals, broadcasts>>

MonitorInit ==
  /\ owner = NoOwner
  /\ waiting = {} /\ released = {}
  /\ signals = 0 /\ broadcasts = 0

\* lock() returns to t.
Enter(t) ==
  /\ owner = NoOwner
  /\ t \notin waiting \cup released
  /\ owner' = t
  /\ UNCHANGED <<waiting, released, signals, broadcasts>>

\* unlock() by the owner.
Leave(t) ==
  /\ owner = t
  /\ owner' = NoOwner
  /\ UNCHANGED <<waiting, released, signals, broadcasts>>

\* wait(): the lock is free and t waits, in one step.
Wait(t) ==
  /\ owner = t
  /\ owner' = NoOwner
  /\ waiting' = waiting \cup {t}
  /\ UNCHANGED <<released, signals, broadcasts>>

\* signal() reaches at least one of the threads that wait, if there are any.
Signal(S) ==
  /\ S \subseteq waiting
  /\ waiting # {} => S # {}
  /\ waiting' = waiting \ S
  /\ released' = released \cup S
  /\ signals' = signals + 1
  /\ UNCHANGED <<owner, broadcasts>>

\* broadcast() reaches all of them.
Broadcast ==
  /\ waiting' = {}
  /\ released' = released \cup waiting
  /\ broadcasts' = broadcasts + 1
  /\ UNCHANGED <<owner, signals>>

Spurious(t) ==
  /\ t \in waiting
  /\ waiting' = waiting \ {t}
  /\ released' = released \cup {t}
  /\ UNCHANGED <<owner, signals, broadcasts>>

\* wait() returns to t with the lock.
Reenter(t) ==
  /\ owner = NoOwner
  /\ t \in released
  /\ owner' = t
  /\ released' = released \ {t}
  /\ UNCHANGED <<waiting, signals, broadcasts>>

MonitorNext ==
  \/ \E t \in Threads : Enter(t) \/ Leave(t) \/ Wait(t) \/ Spurious(t) \/ Reenter(t)
  \/ \E S \in SUBSET Threads : Signal(S)
  \/ Broadcast

MonitorSpec == MonitorInit /\ [][MonitorNext]_monitorVars
=============================================================================
