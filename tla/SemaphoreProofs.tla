-------------------------- MODULE SemaphoreProofs --------------------------
(***************************************************************************)
(* Proofs about module Semaphore, for any finite number of threads, any    *)
(* initial and any largest count.                                          *)
(***************************************************************************)
EXTENDS Semaphore, FiniteSetTheorems, TLAPS

\* The threads at a label are finitely many.
LEMMA AtIsFinite ==
  ASSUME NEW label
  PROVE  IsFiniteSet(At(label)) /\ Cardinality(At(label)) \in Nat
<1>1. At(label) \in SUBSET Threads
  BY DEF At
<1> QED
  BY <1>1, ThreadsAreFinite, FS_Subset, FS_CardinalityType

\* A thread that goes to another label leaves one set and joins the other.
LEMMA AtAfterGoto ==
  ASSUME pc \in [Threads -> PCs], NEW t \in Threads, NEW label, Goto(t, label), NEW other
  PROVE  At(other)' = IF other = label THEN At(other) \cup {t} ELSE At(other) \ {t}
  BY DEF At, Goto

\* The counts of sleeping and woken threads that the proof follows.
LEMMA CountAfterGoto ==
  ASSUME pc \in [Threads -> PCs], NEW t \in Threads, NEW label, Goto(t, label), NEW other
  PROVE  /\ Cardinality(At(other))' \in Nat
         /\ Cardinality(At(other))' =
              IF other = label
                THEN IF pc[t] = other THEN Cardinality(At(other)) ELSE Cardinality(At(other)) + 1
                ELSE IF pc[t] = other THEN Cardinality(At(other)) - 1 ELSE Cardinality(At(other))
<1>1. t \in At(other) <=> pc[t] = other
  BY DEF At
<1>2. IsFiniteSet(At(other)')
  BY AtAfterGoto, AtIsFinite, FS_AddElement, FS_RemoveElement
<1> QED
  BY <1>1, <1>2, AtAfterGoto, AtIsFinite, FS_AddElement, FS_RemoveElement, FS_CardinalityType

\* The type invariant holds of the semaphore that create() returns.
LEMMA InitCountExact == Init => CountExact
<1> SUFFICES ASSUME Init PROVE CountExact
  OBVIOUS
<1>1. TypeOK
  <2>1. aborted \in BOOLEAN /\ open \in BOOLEAN
    BY Zenon DEF Init
  <2>2. count \in 0..MaxCount /\ signals \in Nat /\ taken \in Nat
    BY InitialCountInRange, MaxCountIsNat DEF Init
  <2>3. pc \in [Threads -> PCs]
    BY DEF Init, PCs
  <2> QED
    BY <2>1, <2>2, <2>3 DEF TypeOK
<1>2. Conservation
  BY InitialCountInRange DEF Init, Conservation
<1>3. At("sleep") = {}
  BY DEF Init, At
<1> QED
  BY <1>1, <1>2, <1>3 DEF CountExact, NoStrandedCount

\* Every step keeps the count within its type and conserves it, and pairs it
\* with woken threads while others sleep.
LEMMA StepCountExact == CountExact /\ [Next]_vars => CountExact'
<1> SUFFICES ASSUME CountExact, [Next]_vars PROVE CountExact'
  OBVIOUS
<1>0. pc \in [Threads -> PCs] /\ count \in Nat /\ taken \in Nat /\ signals \in Nat
  BY MaxCountIsNat DEF CountExact, TypeOK
<1>1. Cardinality(At("awake")) \in Nat
  BY AtIsFinite
<1> USE InitialCountInRange, MaxCountIsNat DEF CountExact, TypeOK, PCs, Conservation
<1>2. ASSUME NEW t \in Threads, Step(t) PROVE CountExact'
  <2>1. CASE gil_release(t)
    <3>1. At("sleep")' = At("sleep") /\ At("awake")' = At("awake")
      BY <2>1 DEF gil_release, Goto, At
    <3> QED
      BY <2>1, <3>1 DEF gil_release, Goto, NoStrandedCount
  <2>2. CASE gil_acquire(t)
    <3>1. At("sleep")' = At("sleep") /\ At("awake")' = At("awake")
      BY <2>2 DEF gil_acquire, Goto, At
    <3> QED
      BY <2>2, <3>1 DEF gil_acquire, Goto, NoStrandedCount
  <2>3. CASE semaphore_wait(t)
    <3>1. At("sleep")' = At("sleep") /\ At("awake")' = At("awake")
      BY <2>3 DEF semaphore_wait, Goto, At
    <3> QED
      BY <2>3, <3>1 DEF semaphore_wait, Goto, NoStrandedCount
  <2>4. CASE semaphore_take(t)
    <3>1. TypeOK' /\ Conservation'
      BY <2>4 DEF semaphore_take, Goto
    <3>2. CASE count = 0
      <4>1. count' = 0 /\ Goto(t, "sleep")
        BY <2>4, <3>2 DEF semaphore_take
      <4>2. Cardinality(At("awake"))' \in Nat
        BY <1>0, <4>1, CountAfterGoto
      <4> QED
        BY <3>1, <4>1, <4>2 DEF NoStrandedCount
    <3>3. CASE count # 0
      <4>1. count' = count - 1 /\ Goto(t, "reacquire")
        BY <2>4, <3>3 DEF semaphore_take
      <4>2. At("sleep")' = At("sleep")
        BY <1>0, <2>4, <4>1 DEF semaphore_take, Goto, At
      <4>3. /\ Cardinality(At("awake"))' \in Nat
            /\ Cardinality(At("awake"))' >= Cardinality(At("awake")) - 1
        BY <1>0, <1>1, <4>1, CountAfterGoto
      <4> QED
        BY <1>0, <1>1, <3>1, <4>1, <4>2, <4>3 DEF NoStrandedCount
    <3> QED
      BY <3>2, <3>3
  <2>5. CASE semaphore_wait_return(t)
    <3>1. At("sleep")' = At("sleep") /\ At("awake")' = At("awake")
      BY <2>5 DEF semaphore_wait_return, Goto, At
    <3> QED
      BY <2>5, <3>1 DEF semaphore_wait_return, Goto, NoStrandedCount
  <2>6. CASE semaphore_signal(t)
    <3>1. TypeOK' /\ Conservation'
      BY <2>6 DEF semaphore_signal, Goto, At
    <3>2. CASE At("sleep") = {} /\ UNCHANGED pc
      BY <3>1, <3>2 DEF NoStrandedCount, At
    <3>3. ASSUME NEW u \in At("sleep"), Goto(u, "awake") PROVE NoStrandedCount'
      <4>1. u \in Threads /\ pc[u] = "sleep"
        BY <3>3 DEF At
      <4>2. Cardinality(At("awake"))' = Cardinality(At("awake")) + 1
        BY <1>0, <3>3, <4>1, CountAfterGoto
      <4>3. count' = count + 1
        BY <2>6 DEF semaphore_signal
      <4> QED
        BY <1>0, <1>1, <4>2, <4>3 DEF NoStrandedCount
    <3> QED
      BY <2>6, <3>1, <3>2, <3>3 DEF semaphore_signal
  <2>7. CASE semaphore_abort(t)
    BY <2>7 DEF semaphore_abort, NoStrandedCount, At
  <2>8. CASE semaphore_close(t)
    BY <2>8 DEF semaphore_close, NoStrandedCount, At
  <2>9. CASE spurious_wakeup(t)
    <3>1. Cardinality(At("awake"))' = Cardinality(At("awake")) + 1
      BY <1>0, <2>9, CountAfterGoto DEF spurious_wakeup
    <3>2. TypeOK' /\ Conservation' /\ count' = count
      BY <2>9 DEF spurious_wakeup, Goto
    <3> QED
      BY <1>0, <1>1, <2>9, <3>1, <3>2 DEF NoStrandedCount, spurious_wakeup, At
  <2> QED
    BY <1>2, <2>1, <2>2, <2>3, <2>4, <2>5, <2>6, <2>7, <2>8, <2>9 DEF Step
<1>3. CASE UNCHANGED vars
  BY <1>3 DEF vars, NoStrandedCount, At
<1> QED
  BY <1>2, <1>3 DEF Next

\* No count is invented or consumed twice, and while threads sleep every count
\* left is already meant for a woken one, however many threads barge in.
THEOREM CountIsExact == Spec => []CountExact
  BY InitCountExact, StepCountExact, PTL DEF Spec
=============================================================================
