---------------------------- MODULE ThreadsProofs ----------------------------
(***************************************************************************)
(* Proofs about module Threads, for any number of threads, objects and     *)
(* frames.  The invariants of the runs are not inductive by themselves;    *)
(* each section states the strengthening its theorem rests on.             *)
(***************************************************************************)
EXTENDS Threads, FiniteSetTheorems, SequenceTheorems, TLAPS

----------------------------------------------------------------------------
(* Sequences of roots.                                                     *)

\* A pushed frame adds its object to the roots of the chain.
LEMMA ElementsOfAppend ==
  ASSUME NEW S, NEW s \in Seq(S), NEW e
  PROVE  ElementsOf(Append(s, e)) = ElementsOf(s) \cup {e}
<1> DEFINE a == Append(s, e)
<1>1. Len(a) = Len(s) + 1 /\ Len(s) \in Nat
  BY DEF a
<1>2. \A i \in 1..Len(s) : a[i] = s[i]
  BY DEF a
<1>3. a[Len(s) + 1] = e
  BY DEF a
<1> HIDE DEF a
<1>4. 1..Len(a) = (1..Len(s)) \cup {Len(s) + 1}
  BY <1>1
<1>5. ElementsOf(a) = {a[i] : i \in 1..Len(s)} \cup {a[Len(s) + 1]}
  BY <1>4 DEF ElementsOf
<1>6. {a[i] : i \in 1..Len(s)} = {s[i] : i \in 1..Len(s)}
  BY <1>2
<1> QED
  BY <1>3, <1>5, <1>6 DEF ElementsOf, a

\* A popped frame takes no other object away, and the chain keeps its type.
LEMMA ElementsOfPop ==
  ASSUME NEW S, NEW s \in Seq(S)
  PROVE  /\ Pop(s) \in Seq(S)
         /\ ElementsOf(Pop(s)) \subseteq ElementsOf(s)
<1>1. Len(s) \in Nat /\ \A i \in 1..Len(s) - 1 : s[i] \in S
  OBVIOUS
<1>2. /\ Pop(s) \in Seq(S)
      /\ Len(Pop(s)) = IF 1 <= Len(s) - 1 THEN Len(s) - 1 ELSE 0
      /\ \A i \in 1..Len(s) - 1 : Pop(s)[i] = s[i]
  <2>1. Len(s) - 1 \in Int
    BY <1>1
  <2>2. /\ SubSeq(s, 1, Len(s) - 1) \in Seq(S)
        /\ Len(SubSeq(s, 1, Len(s) - 1)) = IF 1 <= Len(s) - 1 THEN Len(s) - 1 - 1 + 1 ELSE 0
        /\ \A i \in 1..Len(s) - 1 - 1 + 1 : SubSeq(s, 1, Len(s) - 1)[i] = s[1 + i - 1]
    BY <1>1, <2>1, SubSeqProperties
  <2> QED
    BY <1>1, <2>2 DEF Pop
<1>3. \A i \in 1..Len(Pop(s)) : Pop(s)[i] = s[i] /\ i \in 1..Len(s)
  BY <1>1, <1>2
<1> QED
  BY <1>2, <1>3 DEF ElementsOf

----------------------------------------------------------------------------
(* Types.                                                                  *)

\* A created thread has a receiver; a start or a join is about some thread.
TypeInv ==
  /\ TypeOK
  /\ \A t \in Threads :
       /\ pc[t] = "created" => receiver[t] \in Objects
       /\ pc[t] \in Starting \cup Joining => child[t] \in Threads

\* The strengthened type invariant holds initially.
LEMMA InitTypeInv == Init => TypeInv
<1> SUFFICES ASSUME Init PROVE TypeInv
  OBVIOUS
<1> USE MainIsThread, NoneIsFresh DEF Init
<1>1. TypeOK
  BY DEF TypeOK, PCs, Managed, Outside, Unregistered, ArgsStates
<1>2. \A t \in Threads : pc[t] \in {"run", "absent"}
  OBVIOUS
<1> QED
  BY <1>1, <1>2 DEF TypeInv, Starting, Joining

\* A worklist length is a natural number, because the heap is finite.
LEMMA HeapSizeType == ASSUME heap \in SUBSET Objects PROVE Cardinality(heap) \in Nat
  BY ObjectsAreFinite, FS_Subset, FS_CardinalityType

\* Every step preserves the strengthened type invariant.
LEMMA StepTypeInv == TypeInv /\ [Next]_vars => TypeInv'
<1> SUFFICES ASSUME TypeInv, [Next]_vars PROVE TypeInv'
  OBVIOUS
<1> USE MainIsThread, NoneIsFresh DEF TypeInv, TypeOK, PCs, Managed, Outside, Unregistered,
        Starting, Joining, ArgsStates, threadVars, gcVars, Goto, RootsOf,
        gil_release, gil_acquire, thread_enter
<1>1. ASSUME NEW t \in Threads, Step(t) PROVE TypeInv'
  <2>1. ASSUME NEW o \in Objects, gc_push(t, o) PROVE TypeInv'
    BY <2>1 DEF gc_push
  <2>2. CASE gc_pop(t)
    <3>1. Pop(rootFrame[t]) \in Seq(Objects)
      BY ElementsOfPop
    <3> QED
      BY <2>2, <3>1 DEF gc_pop
  <2>3. CASE native_block(t)
    BY <2>3 DEF native_block
  <2>4. CASE native_resume(t)
    BY <2>4 DEF native_resume
  <2>5. ASSUME NEW c \in Threads, NEW o \in Objects, thread_start(t, c, o) PROVE TypeInv'
    <3>1. t # c
      BY <2>5 DEF thread_start
    <3>2. rootFrame' \in [Threads -> Seq(Objects)]
      BY <2>5 DEF thread_start
    <3>3. pc' \in [Threads -> PCs]
      BY <2>5 DEF thread_start
    <3>4. TypeOK'
      BY <2>5, <3>2, <3>3 DEF thread_start
    <3>5. \A u \in Threads : u # c => pc'[u] # "created" \/ pc[u] = "created"
      BY <2>5 DEF thread_start
    <3>6. \A u \in Threads : pc'[u] \in Starting \cup Joining => child'[u] \in Threads
      BY <2>5, <3>1 DEF thread_start
    <3>7. \A u \in Threads : pc'[u] = "created" => receiver'[u] \in Objects
      BY <2>5, <3>5 DEF thread_start
    <3> QED
      BY <3>4, <3>6, <3>7
  <2>6. CASE thread_start_release(t)
    BY <2>6 DEF thread_start_release
  <2>7. CASE thread_start_ready(t)
    BY <2>7 DEF thread_start_ready
  <2>8. CASE thread_start_done(t)
    <3>1. Pop(rootFrame[t]) \in Seq(Objects)
      BY ElementsOfPop
    <3> QED
      BY <2>8, <3>1 DEF thread_start_done
  <2>9. CASE trampoline_enter(t)
    BY <2>9 DEF trampoline_enter
  <2>10. CASE trampoline_ready(t)
    BY <2>10 DEF trampoline_ready
  <2>11. CASE trampoline_run(t)
    BY <2>11 DEF trampoline_run
  <2>12. CASE thread_exit(t)
    BY <2>12 DEF thread_exit
  <2>13. ASSUME NEW c \in Threads, thread_join(t, c) PROVE TypeInv'
    BY <2>13 DEF thread_join
  <2>14. CASE thread_join_ended(t)
    BY <2>14 DEF thread_join_ended
  <2>15. CASE thread_join_done(t)
    BY <2>15 DEF thread_join_done
  <2>16. CASE gc_collect(t)
    <3>1. Cardinality(heap) \in Nat
      BY HeapSizeType
    <3> QED
      BY <2>16, <3>1 DEF gc_collect
  <2>17. ASSUME NEW u \in Threads, mark_roots(t, u) PROVE TypeInv'
    BY <2>17 DEF mark_roots
  <2>18. CASE mark_done(t)
    BY <2>18 DEF mark_done
  <2>19. ASSUME NEW o \in Objects, finalize_skip(t, o) PROVE TypeInv'
    BY <2>19 DEF finalize_skip
  <2>20. ASSUME NEW o \in Objects, finalize_object(t, o) PROVE TypeInv'
    BY <2>20 DEF finalize_object
  <2>21. CASE finalizer_block(t)
    BY <2>21 DEF finalizer_block
  <2>22. CASE finalizer_resume(t)
    BY <2>22 DEF finalizer_resume
  <2>23. CASE finalizer_return(t)
    <3>1. Pop(rootFrame[t]) \in Seq(Objects)
      BY ElementsOfPop
    <3> QED
      BY <2>23, <3>1 DEF finalizer_return
  <2>24. CASE gc_remark(t)
    BY <2>24 DEF gc_remark
  <2>25. CASE remark_done(t)
    BY <2>25 DEF remark_done
  <2>26. CASE gc_sweep(t)
    BY <2>26 DEF gc_sweep
  <2>27. ASSUME NEW o \in Objects, gc_alloc(t, o) PROVE TypeInv'
    BY <2>27 DEF gc_alloc
  <2>28. CASE gc_collect_return(t)
    BY <2>28 DEF gc_collect_return
  <2> QED
    BY <1>1, <2>1, <2>2, <2>3, <2>4, <2>5, <2>6, <2>7, <2>8, <2>9, <2>10, <2>11, <2>12,
       <2>13, <2>14, <2>15, <2>16, <2>17, <2>18, <2>19, <2>20, <2>21, <2>22, <2>23, <2>24,
       <2>25, <2>26, <2>27, <2>28 DEF Step
<1>2. CASE UNCHANGED vars
  BY <1>2 DEF vars
<1> QED
  BY <1>1, <1>2 DEF Next, Finished

----------------------------------------------------------------------------
(* The lock.                                                               *)

\* Program counter, mutex, thread-local flag and registry tell the same story.
LockInv ==
  \A t \in Threads :
    /\ pc[t] \in Managed <=> gil = t
    /\ gilHeld[t] <=> gil = t
    /\ t \in registry <=> pc[t] \notin Unregistered

\* Only main runs at first, registered and with the lock.
LEMMA InitLockInv == Init => LockInv
<1> SUFFICES ASSUME Init, NEW t \in Threads
             PROVE  /\ pc[t] \in Managed <=> gil = t
                    /\ gilHeld[t] <=> gil = t
                    /\ t \in registry <=> pc[t] \notin Unregistered
  BY DEF LockInv
<1>1. pc[t] \in Managed <=> t = main
  BY DEF Init, Managed
<1>2. pc[t] \notin Unregistered <=> t = main
  BY DEF Init, Unregistered
<1>3. gilHeld[t] <=> t = main
  BY Zenon DEF Init
<1> QED
  BY <1>1, <1>2, <1>3 DEF Init

\* Every step preserves the lock invariant.
LEMMA StepLockInv == TypeInv /\ LockInv /\ [Next]_vars => LockInv'
<1> SUFFICES ASSUME TypeInv, LockInv, [Next]_vars PROVE LockInv'
  OBVIOUS
<1> USE NoneIsFresh DEF TypeInv, TypeOK, LockInv, Managed, Outside, Unregistered, threadVars,
        gcVars, Goto, gil_release, gil_acquire, thread_enter
<1>1. ASSUME NEW t \in Threads, Step(t) PROVE LockInv'
  <2>1. ASSUME NEW o \in Objects, gc_push(t, o) PROVE LockInv'
    BY <2>1 DEF gc_push
  <2>2. CASE gc_pop(t)
    BY <2>2 DEF gc_pop
  <2>3. CASE native_block(t)
    BY <2>3 DEF native_block
  <2>4. CASE native_resume(t)
    BY <2>4 DEF native_resume
  <2>5. ASSUME NEW c \in Threads, NEW o \in Objects, thread_start(t, c, o) PROVE LockInv'
    BY <2>5 DEF thread_start
  <2>6. CASE thread_start_release(t)
    BY <2>6 DEF thread_start_release
  <2>7. CASE thread_start_ready(t)
    BY <2>7 DEF thread_start_ready
  <2>8. CASE thread_start_done(t)
    BY <2>8 DEF thread_start_done
  <2>9. CASE trampoline_enter(t)
    BY <2>9 DEF trampoline_enter
  <2>10. CASE trampoline_ready(t)
    BY <2>10 DEF trampoline_ready
  <2>11. CASE trampoline_run(t)
    BY <2>11 DEF trampoline_run
  <2>12. CASE thread_exit(t)
    BY <2>12 DEF thread_exit
  <2>13. ASSUME NEW c \in Threads, thread_join(t, c) PROVE LockInv'
    BY <2>13 DEF thread_join
  <2>14. CASE thread_join_ended(t)
    BY <2>14 DEF thread_join_ended
  <2>15. CASE thread_join_done(t)
    BY <2>15 DEF thread_join_done
  <2>16. CASE gc_collect(t)
    BY <2>16 DEF gc_collect
  <2>17. ASSUME NEW u \in Threads, mark_roots(t, u) PROVE LockInv'
    BY <2>17 DEF mark_roots
  <2>18. CASE mark_done(t)
    BY <2>18 DEF mark_done
  <2>19. ASSUME NEW o \in Objects, finalize_skip(t, o) PROVE LockInv'
    BY <2>19 DEF finalize_skip
  <2>20. ASSUME NEW o \in Objects, finalize_object(t, o) PROVE LockInv'
    BY <2>20 DEF finalize_object
  <2>21. CASE finalizer_block(t)
    BY <2>21 DEF finalizer_block
  <2>22. CASE finalizer_resume(t)
    BY <2>22 DEF finalizer_resume
  <2>23. CASE finalizer_return(t)
    BY <2>23 DEF finalizer_return
  <2>24. CASE gc_remark(t)
    BY <2>24 DEF gc_remark
  <2>25. CASE remark_done(t)
    BY <2>25 DEF remark_done
  <2>26. CASE gc_sweep(t)
    BY <2>26 DEF gc_sweep
  <2>27. ASSUME NEW o \in Objects, gc_alloc(t, o) PROVE LockInv'
    BY <2>27 DEF gc_alloc
  <2>28. CASE gc_collect_return(t)
    BY <2>28 DEF gc_collect_return
  <2> QED
    BY <1>1, <2>1, <2>2, <2>3, <2>4, <2>5, <2>6, <2>7, <2>8, <2>9, <2>10, <2>11, <2>12, <2>13,
       <2>14, <2>15, <2>16, <2>17, <2>18, <2>19, <2>20, <2>21, <2>22, <2>23, <2>24, <2>25,
       <2>26, <2>27, <2>28 DEF Step
<1>2. CASE UNCHANGED vars
  BY <1>2 DEF vars
<1> QED
  BY <1>1, <1>2 DEF Next, Finished

----------------------------------------------------------------------------
(* Starting a thread.                                                      *)

\* The hand-shake on ready, seen from the child and from the spawner.
StartInv ==
  \A t \in Threads :
    /\ pc[t] \in {"created", "entered"} => args[t] = "waiting"
    /\ pc[t] = "ready_set" => args[t] = "ready"
    /\ pc[t] \in Starting => pc[child[t]] # "absent"
    /\ pc[t] = "start_reacquire" =>
         pc[child[t]] \notin {"created", "entered", "ready_set"}

\* No start is under way at first.
LEMMA InitStartInv == Init => StartInv
  BY DEF Init, StartInv, Starting

\* Every step preserves the hand-shake invariant.
LEMMA StepStartInv == TypeInv /\ StartInv /\ [Next]_vars => StartInv'
<1> SUFFICES ASSUME TypeInv, StartInv, [Next]_vars PROVE StartInv'
  OBVIOUS
<1> USE NoneIsFresh DEF TypeInv, TypeOK, StartInv, Starting, Joining, threadVars, gcVars, Goto,
        gil_release, gil_acquire, thread_enter
<1>1. ASSUME NEW t \in Threads, Step(t) PROVE StartInv'
  <2>1. ASSUME NEW o \in Objects, gc_push(t, o) PROVE StartInv'
    BY <2>1 DEF gc_push
  <2>2. CASE gc_pop(t)
    BY <2>2 DEF gc_pop
  <2>3. CASE native_block(t)
    BY <2>3 DEF native_block
  <2>4. CASE native_resume(t)
    BY <2>4 DEF native_resume
  <2>5. ASSUME NEW c \in Threads, NEW o \in Objects, thread_start(t, c, o) PROVE StartInv'
    BY <2>5 DEF thread_start
  <2>6. CASE thread_start_release(t)
    BY <2>6 DEF thread_start_release
  <2>7. CASE thread_start_ready(t)
    BY <2>7 DEF thread_start_ready
  <2>8. CASE thread_start_done(t)
    BY <2>8 DEF thread_start_done
  <2>9. CASE trampoline_enter(t)
    BY <2>9 DEF trampoline_enter
  <2>10. CASE trampoline_ready(t)
    BY <2>10 DEF trampoline_ready
  <2>11. CASE trampoline_run(t)
    BY <2>11 DEF trampoline_run
  <2>12. CASE thread_exit(t)
    BY <2>12 DEF thread_exit
  <2>13. ASSUME NEW c \in Threads, thread_join(t, c) PROVE StartInv'
    BY <2>13 DEF thread_join
  <2>14. CASE thread_join_ended(t)
    BY <2>14 DEF thread_join_ended
  <2>15. CASE thread_join_done(t)
    BY <2>15 DEF thread_join_done
  <2>16. CASE gc_collect(t)
    BY <2>16 DEF gc_collect
  <2>17. ASSUME NEW u \in Threads, mark_roots(t, u) PROVE StartInv'
    BY <2>17 DEF mark_roots
  <2>18. CASE mark_done(t)
    BY <2>18 DEF mark_done
  <2>19. ASSUME NEW o \in Objects, finalize_skip(t, o) PROVE StartInv'
    BY <2>19 DEF finalize_skip
  <2>20. ASSUME NEW o \in Objects, finalize_object(t, o) PROVE StartInv'
    BY <2>20 DEF finalize_object
  <2>21. CASE finalizer_block(t)
    BY <2>21 DEF finalizer_block
  <2>22. CASE finalizer_resume(t)
    BY <2>22 DEF finalizer_resume
  <2>23. CASE finalizer_return(t)
    BY <2>23 DEF finalizer_return
  <2>24. CASE gc_remark(t)
    BY <2>24 DEF gc_remark
  <2>25. CASE remark_done(t)
    BY <2>25 DEF remark_done
  <2>26. CASE gc_sweep(t)
    BY <2>26 DEF gc_sweep
  <2>27. ASSUME NEW o \in Objects, gc_alloc(t, o) PROVE StartInv'
    BY <2>27 DEF gc_alloc
  <2>28. CASE gc_collect_return(t)
    BY <2>28 DEF gc_collect_return
  <2> QED
    BY <1>1, <2>1, <2>2, <2>3, <2>4, <2>5, <2>6, <2>7, <2>8, <2>9, <2>10, <2>11, <2>12, <2>13,
       <2>14, <2>15, <2>16, <2>17, <2>18, <2>19, <2>20, <2>21, <2>22, <2>23, <2>24, <2>25,
       <2>26, <2>27, <2>28 DEF Step
<1>2. CASE UNCHANGED vars
  BY <1>2 DEF vars
<1> QED
  BY <1>1, <1>2 DEF Next, Finished

----------------------------------------------------------------------------
(* Roots.                                                                  *)

\* Every root and every node the finalizer loop will visit is allocated, and
\* an unregistered thread has no roots.
RootInv ==
  \A t \in Threads :
    /\ RootsOf(t) \subseteq heap
    /\ todo[t] \subseteq heap
    /\ t \notin registry => rootFrame[t] = <<>>

\* p is starting c and keeps the receiver in its root frames.
HandsOver(p, c) == pc[p] \in Starting /\ child[p] = c /\ receiver[c] \in RootsOf(p)

\* The receiver of a thread that has not registered is rooted by its spawner.
HandOverInv ==
  \A c \in Threads : pc[c] = "created" => \E p \in Threads : HandsOver(p, c)

\* What the second pass has visited is marked.
ScanInv ==
  \A t \in Threads :
    /\ pc[t] = "remark" => \A u \in registry \ toScan : RootsOf(u) \subseteq marked
    /\ pc[t] = "sweep" => \A u \in registry : RootsOf(u) \subseteq marked

\* Every step preserves the root invariant.
LEMMA StepRootInv ==
  TypeInv /\ LockInv /\ RootInv /\ HandOverInv /\ ScanInv /\ [Next]_vars => RootInv'
<1> SUFFICES ASSUME TypeInv, LockInv, RootInv, HandOverInv, ScanInv, [Next]_vars PROVE RootInv'
  OBVIOUS
<1> USE NoneIsFresh DEF TypeInv, TypeOK, LockInv, RootInv, RootsOf, Managed, Unregistered,
        threadVars, gcVars, Goto, gil_release, gil_acquire, thread_enter
<1>1. ASSUME NEW t \in Threads, Step(t) PROVE RootInv'
  <2>1. ASSUME NEW o \in Objects, gc_push(t, o) PROVE RootInv'
    <3>1. ElementsOf(rootFrame'[t]) = ElementsOf(rootFrame[t]) \cup {o}
      BY <2>1, ElementsOfAppend DEF gc_push
    <3>2. \A v \in Threads : v # t => rootFrame'[v] = rootFrame[v]
      BY <2>1 DEF gc_push
    <3>4. \A v \in Threads : ElementsOf(rootFrame'[v]) \subseteq heap'
      BY <2>1, <3>1, <3>2 DEF gc_push
    <3>5. \A v \in Threads : todo'[v] \subseteq heap'
      BY <2>1 DEF gc_push
    <3>6. t \in registry' /\ \A v \in Threads \ registry' : rootFrame'[v] = <<>>
      BY <2>1 DEF gc_push
    <3> QED
      BY <3>4, <3>5, <3>6
  <2>2. CASE gc_pop(t)
    <3>1. ElementsOf(rootFrame'[t]) \subseteq ElementsOf(rootFrame[t])
      BY <2>2, ElementsOfPop DEF gc_pop
    <3>2. \A v \in Threads : v # t => rootFrame'[v] = rootFrame[v]
      BY <2>2 DEF gc_pop
    <3>3. \A v \in Threads : ElementsOf(rootFrame'[v]) \subseteq heap'
      BY <2>2, <3>1, <3>2 DEF gc_pop
    <3>4. t \in registry' /\ \A v \in Threads \ registry' : rootFrame'[v] = <<>>
      BY <2>2 DEF gc_pop
    <3> QED
      BY <2>2, <3>3, <3>4 DEF gc_pop
  <2>3. CASE native_block(t)
    BY <2>3 DEF native_block
  <2>4. CASE native_resume(t)
    BY <2>4 DEF native_resume
  <2>5. ASSUME NEW c \in Threads, NEW o \in Objects, thread_start(t, c, o) PROVE RootInv'
    <3>1. ElementsOf(rootFrame'[t]) = ElementsOf(rootFrame[t]) \cup {o}
      BY <2>5, ElementsOfAppend DEF thread_start
    <3>2. \A v \in Threads : v # t => rootFrame'[v] = rootFrame[v]
      BY <2>5 DEF thread_start
    <3>4. \A v \in Threads : ElementsOf(rootFrame'[v]) \subseteq heap'
      BY <2>5, <3>1, <3>2 DEF thread_start
    <3>5. \A v \in Threads : todo'[v] \subseteq heap'
      BY <2>5 DEF thread_start
    <3>6. t \in registry' /\ \A v \in Threads \ registry' : rootFrame'[v] = <<>>
      BY <2>5 DEF thread_start
    <3> QED
      BY <3>4, <3>5, <3>6
  <2>6. CASE thread_start_release(t)
    BY <2>6 DEF thread_start_release
  <2>7. CASE thread_start_ready(t)
    BY <2>7 DEF thread_start_ready
  <2>8. CASE thread_start_done(t)
    <3>1. ElementsOf(rootFrame'[t]) \subseteq ElementsOf(rootFrame[t])
      BY <2>8, ElementsOfPop DEF thread_start_done
    <3>2. \A v \in Threads : v # t => rootFrame'[v] = rootFrame[v]
      BY <2>8 DEF thread_start_done
    <3>3. \A v \in Threads : ElementsOf(rootFrame'[v]) \subseteq heap'
      BY <2>8, <3>1, <3>2 DEF thread_start_done
    <3>4. t \in registry' /\ \A v \in Threads \ registry' : rootFrame'[v] = <<>>
      BY <2>8 DEF thread_start_done
    <3> QED
      BY <2>8, <3>3, <3>4 DEF thread_start_done
  <2>9. CASE trampoline_enter(t)
    <3>1. ElementsOf(rootFrame'[t]) = ElementsOf(rootFrame[t]) \cup {receiver[t]}
      BY <2>9, ElementsOfAppend DEF trampoline_enter
    <3>2. \A v \in Threads : v # t => rootFrame'[v] = rootFrame[v]
      BY <2>9 DEF trampoline_enter
    <3>3. receiver[t] \in heap
      BY <2>9 DEF trampoline_enter, HandOverInv, HandsOver
    <3>4. \A v \in Threads : ElementsOf(rootFrame'[v]) \subseteq heap'
      BY <2>9, <3>1, <3>2, <3>3 DEF trampoline_enter
    <3>5. \A v \in Threads : todo'[v] \subseteq heap'
      BY <2>9 DEF trampoline_enter
    <3>6. t \in registry' /\ \A v \in Threads \ registry' : rootFrame'[v] = <<>>
      BY <2>9 DEF trampoline_enter
    <3> QED
      BY <3>4, <3>5, <3>6
  <2>10. CASE trampoline_ready(t)
    BY <2>10 DEF trampoline_ready
  <2>11. CASE trampoline_run(t)
    BY <2>11 DEF trampoline_run
  <2>12. CASE thread_exit(t)
    <3>1. ElementsOf(rootFrame'[t]) = {}
      BY <2>12 DEF thread_exit, ElementsOf
    <3>2. \A v \in Threads : v # t => rootFrame'[v] = rootFrame[v]
      BY <2>12 DEF thread_exit
    <3> QED
      BY <2>12, <3>1, <3>2 DEF thread_exit
  <2>13. ASSUME NEW c \in Threads, thread_join(t, c) PROVE RootInv'
    BY <2>13 DEF thread_join
  <2>14. CASE thread_join_ended(t)
    BY <2>14 DEF thread_join_ended
  <2>15. CASE thread_join_done(t)
    BY <2>15 DEF thread_join_done
  <2>16. CASE gc_collect(t)
    BY <2>16 DEF gc_collect
  <2>17. ASSUME NEW u \in Threads, mark_roots(t, u) PROVE RootInv'
    BY <2>17 DEF mark_roots
  <2>18. CASE mark_done(t)
    BY <2>18 DEF mark_done
  <2>19. ASSUME NEW o \in Objects, finalize_skip(t, o) PROVE RootInv'
    BY <2>19 DEF finalize_skip
  <2>20. ASSUME NEW o \in Objects, finalize_object(t, o) PROVE RootInv'
    <3>1. ElementsOf(rootFrame'[t]) = ElementsOf(rootFrame[t]) \cup {o}
      BY <2>20, ElementsOfAppend DEF finalize_object
    <3>2. \A v \in Threads : v # t => rootFrame'[v] = rootFrame[v]
      BY <2>20 DEF finalize_object
    <3>4. \A v \in Threads : ElementsOf(rootFrame'[v]) \subseteq heap'
      BY <2>20, <3>1, <3>2 DEF finalize_object
    <3>5. \A v \in Threads : todo'[v] \subseteq heap'
      BY <2>20 DEF finalize_object
    <3>6. t \in registry' /\ \A v \in Threads \ registry' : rootFrame'[v] = <<>>
      BY <2>20 DEF finalize_object
    <3> QED
      BY <3>4, <3>5, <3>6
  <2>21. CASE finalizer_block(t)
    BY <2>21 DEF finalizer_block
  <2>22. CASE finalizer_resume(t)
    BY <2>22 DEF finalizer_resume
  <2>23. CASE finalizer_return(t)
    <3>1. ElementsOf(rootFrame'[t]) \subseteq ElementsOf(rootFrame[t])
      BY <2>23, ElementsOfPop DEF finalizer_return
    <3>2. \A v \in Threads : v # t => rootFrame'[v] = rootFrame[v]
      BY <2>23 DEF finalizer_return
    <3>3. \A v \in Threads : ElementsOf(rootFrame'[v]) \subseteq heap'
      BY <2>23, <3>1, <3>2 DEF finalizer_return
    <3>4. t \in registry' /\ \A v \in Threads \ registry' : rootFrame'[v] = <<>>
      BY <2>23 DEF finalizer_return
    <3> QED
      BY <2>23, <3>3, <3>4 DEF finalizer_return
  <2>24. CASE gc_remark(t)
    BY <2>24 DEF gc_remark
  <2>25. CASE remark_done(t)
    BY <2>25 DEF remark_done
  <2>26. CASE gc_sweep(t)
    <3>1. \A v \in Threads : rootFrame'[v] = rootFrame[v]
      BY <2>26 DEF gc_sweep
    <3>2. \A v \in Threads : ElementsOf(rootFrame[v]) \subseteq marked
      BY <2>26 DEF gc_sweep, ScanInv, ElementsOf
    <3> QED
      BY <2>26, <3>1, <3>2 DEF gc_sweep
  <2>27. ASSUME NEW o \in Objects, gc_alloc(t, o) PROVE RootInv'
    <3>1. ElementsOf(rootFrame'[t]) = ElementsOf(rootFrame[t]) \cup {o}
      BY <2>27, ElementsOfAppend DEF gc_alloc
    <3>2. \A v \in Threads : v # t => rootFrame'[v] = rootFrame[v]
      BY <2>27 DEF gc_alloc
    <3>4. \A v \in Threads : ElementsOf(rootFrame'[v]) \subseteq heap'
      BY <2>27, <3>1, <3>2 DEF gc_alloc
    <3>5. \A v \in Threads : todo'[v] \subseteq heap'
      BY <2>27 DEF gc_alloc
    <3>6. t \in registry' /\ \A v \in Threads \ registry' : rootFrame'[v] = <<>>
      BY <2>27 DEF gc_alloc
    <3> QED
      BY <3>4, <3>5, <3>6
  <2>28. CASE gc_collect_return(t)
    BY <2>28 DEF gc_collect_return
  <2> QED
    BY <1>1, <2>1, <2>2, <2>3, <2>4, <2>5, <2>6, <2>7, <2>8, <2>9, <2>10, <2>11, <2>12, <2>13,
       <2>14, <2>15, <2>16, <2>17, <2>18, <2>19, <2>20, <2>21, <2>22, <2>23, <2>24, <2>25,
       <2>26, <2>27, <2>28 DEF Step
<1>2. CASE UNCHANGED vars
  BY <1>2 DEF vars, RootsOf
<1> QED
  BY <1>1, <1>2 DEF Next, Finished

\* Every step preserves the scan invariant.
LEMMA StepScanInv == TypeInv /\ LockInv /\ RootInv /\ ScanInv /\ [Next]_vars => ScanInv'
<1> SUFFICES ASSUME TypeInv, LockInv, RootInv, ScanInv, [Next]_vars PROVE ScanInv'
  OBVIOUS
<1> USE NoneIsFresh DEF TypeInv, TypeOK, LockInv, RootInv, ScanInv, Managed, Outside,
        Unregistered, threadVars, gcVars, Goto, gil_release, gil_acquire, thread_enter
<1>1. ASSUME NEW t \in Threads, Step(t) PROVE ScanInv'
  <2>1. ASSUME NEW o \in Objects, gc_push(t, o) PROVE ScanInv'
    BY <2>1 DEF gc_push, RootsOf
  <2>2. CASE gc_pop(t)
    BY <2>2 DEF gc_pop, RootsOf
  <2>3. CASE native_block(t)
    BY <2>3 DEF native_block, RootsOf
  <2>4. CASE native_resume(t)
    BY <2>4 DEF native_resume, RootsOf
  <2>5. ASSUME NEW c \in Threads, NEW o \in Objects, thread_start(t, c, o) PROVE ScanInv'
    <3>1. t # c /\ gil = t
      BY <2>5 DEF thread_start
    <3>2. \A v \in Threads : pc'[v] \in {"remark", "sweep"} => v = t
      BY <2>5, <3>1 DEF thread_start
    <3>3. pc'[t] = "start_created"
      BY <2>5, <3>1 DEF thread_start
    <3> QED
      BY <3>2, <3>3
  <2>6. CASE thread_start_release(t)
    BY <2>6 DEF thread_start_release, RootsOf
  <2>7. CASE thread_start_ready(t)
    BY <2>7 DEF thread_start_ready, RootsOf
  <2>8. CASE thread_start_done(t)
    BY <2>8 DEF thread_start_done, RootsOf
  <2>9. CASE trampoline_enter(t)
    BY <2>9 DEF trampoline_enter, RootsOf
  <2>10. CASE trampoline_ready(t)
    BY <2>10 DEF trampoline_ready, RootsOf
  <2>11. CASE trampoline_run(t)
    BY <2>11 DEF trampoline_run, RootsOf
  <2>12. CASE thread_exit(t)
    BY <2>12 DEF thread_exit, RootsOf
  <2>13. ASSUME NEW c \in Threads, thread_join(t, c) PROVE ScanInv'
    BY <2>13 DEF thread_join, RootsOf
  <2>14. CASE thread_join_ended(t)
    BY <2>14 DEF thread_join_ended, RootsOf
  <2>15. CASE thread_join_done(t)
    BY <2>15 DEF thread_join_done, RootsOf
  <2>16. CASE gc_collect(t)
    BY <2>16 DEF gc_collect, RootsOf
  <2>17. ASSUME NEW u \in Threads, mark_roots(t, u) PROVE ScanInv'
    BY <2>17 DEF mark_roots, RootsOf
  <2>18. CASE mark_done(t)
    BY <2>18 DEF mark_done, RootsOf
  <2>19. ASSUME NEW o \in Objects, finalize_skip(t, o) PROVE ScanInv'
    BY <2>19 DEF finalize_skip, RootsOf
  <2>20. ASSUME NEW o \in Objects, finalize_object(t, o) PROVE ScanInv'
    BY <2>20 DEF finalize_object, RootsOf
  <2>21. CASE finalizer_block(t)
    BY <2>21 DEF finalizer_block, RootsOf
  <2>22. CASE finalizer_resume(t)
    BY <2>22 DEF finalizer_resume, RootsOf
  <2>23. CASE finalizer_return(t)
    BY <2>23 DEF finalizer_return, RootsOf
  <2>24. CASE gc_remark(t)
    BY <2>24 DEF gc_remark, RootsOf
  <2>25. CASE remark_done(t)
    BY <2>25 DEF remark_done, RootsOf
  <2>26. CASE gc_sweep(t)
    BY <2>26 DEF gc_sweep, RootsOf
  <2>27. ASSUME NEW o \in Objects, gc_alloc(t, o) PROVE ScanInv'
    BY <2>27 DEF gc_alloc, RootsOf
  <2>28. CASE gc_collect_return(t)
    BY <2>28 DEF gc_collect_return, RootsOf
  <2> QED
    BY <1>1, <2>1, <2>2, <2>3, <2>4, <2>5, <2>6, <2>7, <2>8, <2>9, <2>10, <2>11, <2>12, <2>13,
       <2>14, <2>15, <2>16, <2>17, <2>18, <2>19, <2>20, <2>21, <2>22, <2>23, <2>24, <2>25,
       <2>26, <2>27, <2>28 DEF Step
<1>2. CASE UNCHANGED vars
  BY <1>2 DEF vars, RootsOf
<1> QED
  BY <1>1, <1>2 DEF Next, Finished

\* A step touches only the thread that takes it, except that a start moves
\* the child from "absent" to "created" and gives it a receiver.
LEMMA StepIsLocal ==
  ASSUME TypeOK, NEW t \in Threads, Step(t), NEW v \in Threads, v # t
  PROVE  /\ child'[v] = child[v] /\ rootFrame'[v] = rootFrame[v]
         /\ \/ pc'[v] = pc[v] /\ receiver'[v] = receiver[v]
            \/ \E o \in Objects : thread_start(t, v, o)
<1> DEFINE Local == /\ child'[v] = child[v] /\ rootFrame'[v] = rootFrame[v]
                    /\ \/ pc'[v] = pc[v] /\ receiver'[v] = receiver[v]
                       \/ \E o \in Objects : thread_start(t, v, o)
<1> USE DEF TypeOK, threadVars, gcVars, Goto, gil_release, gil_acquire, thread_enter
<1>1. ASSUME NEW o \in Objects, gc_push(t, o) PROVE Local
  BY <1>1 DEF gc_push
<1>2. CASE gc_pop(t)
  BY <1>2 DEF gc_pop
<1>3. CASE native_block(t)
  BY <1>3 DEF native_block
<1>4. CASE native_resume(t)
  BY <1>4 DEF native_resume
<1>5. ASSUME NEW c \in Threads, NEW o \in Objects, thread_start(t, c, o) PROVE Local
  BY <1>5 DEF thread_start
<1>6. CASE thread_start_release(t)
  BY <1>6 DEF thread_start_release
<1>7. CASE thread_start_ready(t)
  BY <1>7 DEF thread_start_ready
<1>8. CASE thread_start_done(t)
  BY <1>8 DEF thread_start_done
<1>9. CASE trampoline_enter(t)
  BY <1>9 DEF trampoline_enter
<1>10. CASE trampoline_ready(t)
  BY <1>10 DEF trampoline_ready
<1>11. CASE trampoline_run(t)
  BY <1>11 DEF trampoline_run
<1>12. CASE thread_exit(t)
  BY <1>12 DEF thread_exit
<1>13. ASSUME NEW c \in Threads, thread_join(t, c) PROVE Local
  BY <1>13 DEF thread_join
<1>14. CASE thread_join_ended(t)
  BY <1>14 DEF thread_join_ended
<1>15. CASE thread_join_done(t)
  BY <1>15 DEF thread_join_done
<1>16. CASE gc_collect(t)
  BY <1>16 DEF gc_collect
<1>17. ASSUME NEW u \in Threads, mark_roots(t, u) PROVE Local
  BY <1>17 DEF mark_roots
<1>18. CASE mark_done(t)
  BY <1>18 DEF mark_done
<1>19. ASSUME NEW o \in Objects, finalize_skip(t, o) PROVE Local
  BY <1>19 DEF finalize_skip
<1>20. ASSUME NEW o \in Objects, finalize_object(t, o) PROVE Local
  BY <1>20 DEF finalize_object
<1>21. CASE finalizer_block(t)
  BY <1>21 DEF finalizer_block
<1>22. CASE finalizer_resume(t)
  BY <1>22 DEF finalizer_resume
<1>23. CASE finalizer_return(t)
  BY <1>23 DEF finalizer_return
<1>24. CASE gc_remark(t)
  BY <1>24 DEF gc_remark
<1>25. CASE remark_done(t)
  BY <1>25 DEF remark_done
<1>26. CASE gc_sweep(t)
  BY <1>26 DEF gc_sweep
<1>27. ASSUME NEW o \in Objects, gc_alloc(t, o) PROVE Local
  BY <1>27 DEF gc_alloc
<1>28. CASE gc_collect_return(t)
  BY <1>28 DEF gc_collect_return
<1> QED
  BY <1>1, <1>2, <1>3, <1>4, <1>5, <1>6, <1>7, <1>8, <1>9, <1>10, <1>11, <1>12, <1>13,
     <1>14, <1>15, <1>16, <1>17, <1>18, <1>19, <1>20, <1>21, <1>22, <1>23, <1>24, <1>25,
     <1>26, <1>27, <1>28 DEF Step

\* A step of the thread itself leaves "created" only by registering.
LEMMA StepHandOverInv ==
  TypeInv /\ LockInv /\ StartInv /\ HandOverInv /\ [Next]_vars => HandOverInv'
<1> SUFFICES ASSUME TypeInv, LockInv, StartInv, HandOverInv, [Next]_vars,
                    NEW c \in Threads, pc'[c] = "created"
             PROVE  \E p \in Threads : HandsOver(p, c)'
  BY DEF HandOverInv
<1> USE DEF TypeInv, HandsOver
<1>1. ASSUME NEW t \in Threads, Step(t) PROVE \E p \in Threads : HandsOver(p, c)'
  <2>1. ASSUME NEW o \in Objects, thread_start(t, c, o) PROVE HandsOver(t, c)'
    <3>1. RootsOf(t)' = RootsOf(t) \cup {o}
      BY <2>1, ElementsOfAppend DEF thread_start, RootsOf, TypeOK
    <3>2. pc'[t] = "start_created" /\ child'[t] = c /\ receiver'[c] = o
      BY <2>1 DEF thread_start, TypeOK
    <3> QED
      BY <3>1, <3>2 DEF Starting
  <2>2. CASE \A o \in Objects : ~thread_start(t, c, o)
    <3>1. c # t
      BY <1>1 DEF Step, gc_push, gc_pop, native_block, native_resume, thread_start,
               thread_start_release, thread_start_ready, thread_start_done,
               trampoline_enter, trampoline_ready, trampoline_run, thread_exit,
               thread_join, thread_join_ended, thread_join_done, gc_collect, mark_roots,
               mark_done, finalize_skip, finalize_object, finalizer_block,
               finalizer_resume, finalizer_return, gc_remark, remark_done, gc_sweep,
               gc_alloc, gc_collect_return, Goto, TypeOK
    <3>2. pc[c] = "created" /\ receiver'[c] = receiver[c]
      BY <1>1, <2>2, <3>1, StepIsLocal
    <3>3. PICK p \in Threads : HandsOver(p, c)
      BY <3>2 DEF HandOverInv
    <3>4. CASE p # t
      <4>1. ~\E o \in Objects : thread_start(t, p, o)
        BY <3>3 DEF thread_start, Starting
      <4>2. pc'[p] = pc[p] /\ child'[p] = child[p] /\ rootFrame'[p] = rootFrame[p]
        BY <1>1, <3>4, <4>1, StepIsLocal
      <4> QED
        BY <3>2, <3>3, <4>2 DEF RootsOf
    <3>5. CASE p = t
      <4>1. pc[child[t]] = "created" /\ pc[t] \in Starting
        BY <3>2, <3>3, <3>5
      <4>2. thread_start_release(t) \/ thread_start_ready(t)
        BY <1>1, <4>1 DEF Step, gc_push, gc_pop, native_block, native_resume, thread_start,
               thread_start_release, thread_start_ready, thread_start_done,
               trampoline_enter, trampoline_ready, trampoline_run, thread_exit,
               thread_join, thread_join_ended, thread_join_done, gc_collect, mark_roots,
               mark_done, finalize_skip, finalize_object, finalizer_block,
               finalizer_resume, finalizer_return, gc_remark, remark_done, gc_sweep,
               gc_alloc, gc_collect_return,
               Starting, StartInv
      <4>3. pc'[t] \in Starting /\ child'[t] = child[t] /\ rootFrame'[t] = rootFrame[t]
        BY <4>2 DEF thread_start_release, thread_start_ready, Goto, Starting, threadVars, TypeOK
      <4> QED
        BY <3>2, <3>3, <3>5, <4>3 DEF RootsOf
    <3> QED
      BY <3>4, <3>5
  <2> QED
    BY <2>1, <2>2
<1>2. CASE UNCHANGED vars
  BY <1>2 DEF vars, HandOverInv, RootsOf
<1> QED
  BY <1>1, <1>2 DEF Next, Finished

IInv == TypeInv /\ LockInv /\ StartInv /\ RootInv /\ HandOverInv /\ ScanInv

----------------------------------------------------------------------------
(* The inductive invariant.                                                *)

\* The conjunction of the parts is an invariant of the specification.
THEOREM Inductive == Spec => []IInv
<1>1. Init => IInv
  <2> SUFFICES ASSUME Init PROVE RootInv /\ HandOverInv /\ ScanInv
    BY InitTypeInv, InitLockInv, InitStartInv DEF IInv
  <2>1. RootInv
    BY DEF Init, RootInv, RootsOf, ElementsOf
  <2>2. \A t \in Threads : pc[t] \in {"run", "absent"}
    BY DEF Init
  <2> QED
    BY <2>1, <2>2 DEF HandOverInv, ScanInv
<1>2. IInv /\ [Next]_vars => IInv'
  BY StepTypeInv, StepLockInv, StepStartInv, StepRootInv, StepHandOverInv, StepScanInv DEF IInv
<1> QED
  BY <1>1, <1>2, PTL DEF Spec

\* Every variable keeps its type, for any set of threads and finite heap.
THEOREM TypeCorrect == Spec => []TypeOK
<1>1. IInv => TypeOK
  BY DEF IInv, TypeInv
<1> QED
  BY <1>1, Inductive, PTL

\* One thread at a time runs managed code, and it holds the lock: gil_held
\* mirrors the mutex in every thread.
THEOREM MutualExclusion == Spec => []LockDiscipline
<1>1. IInv => LockDiscipline
  BY DEF IInv, LockInv, LockDiscipline
<1> QED
  BY <1>1, Inductive, PTL

\* The abort() branches of gil_acquire, gil_release, thread_enter and
\* thread_exit are unreachable.
THEOREM AbortsUnreachable == Spec => []NeverAborts
<1>1. IInv => NeverAborts
  <2> SUFFICES ASSUME IInv, NEW t \in Threads
               PROVE  /\ pc[t] \in Managed => t \in registry /\ gilHeld[t]
                      /\ pc[t] \in Outside => t \in registry /\ ~gilHeld[t]
                      /\ pc[t] = "created" => t \notin registry
    BY DEF NeverAborts
  <2>1. Managed \cap Outside = {} /\ (Managed \cup Outside) \cap Unregistered = {}
    BY DEF Managed, Outside, Unregistered
  <2> QED
    BY <2>1 DEF IInv, LockInv, Unregistered
<1> QED
  BY <1>1, Inductive, PTL

\* No collection frees an object that a root frame holds, or the receiver of
\* a thread between its creation and its registration.
THEOREM RootsAreSafe == Spec => []RootSafety
<1>1. IInv => RootSafety
  BY DEF IInv, RootInv, HandOverInv, HandsOver, RootSafety
<1> QED
  BY <1>1, Inductive, PTL

\* A new thread never uses its start arguments after the spawner freed them.
THEOREM ArgsAreSafe == Spec => []ArgsOutliveChild
<1>1. IInv => ArgsOutliveChild
  BY DEF IInv, StartInv, ArgsOutliveChild
<1> QED
  BY <1>1, Inductive, PTL

\* No root frame is pushed or popped by any thread while one scans them.
THEOREM ScanIsExclusive == Spec => RootsFrozenDuringScan
<1> DEFINE Frozen == (\E t \in Threads : pc[t] \in {"mark", "remark"}) => UNCHANGED rootFrame
<1>1. IInv /\ [Next]_vars => [Frozen]_vars
  <2> SUFFICES ASSUME IInv, NEW u \in Threads, Step(u),
                      NEW t \in Threads, pc[t] \in {"mark", "remark"}
               PROVE  UNCHANGED rootFrame
    BY DEF Next, Finished, vars
  <2>1. gil = t /\ gil # None
    BY NoneIsFresh DEF IInv, LockInv, Managed
  <2>2. u # t => pc[u] \notin Managed
    BY <2>1 DEF IInv, LockInv
  <2> QED
    BY <2>1, <2>2 DEF Step, Managed, threadVars, gil_release, gil_acquire, thread_enter,
           gc_push, gc_pop, native_block, native_resume, thread_start,
           thread_start_release, thread_start_ready, thread_start_done,
           trampoline_enter, trampoline_ready, trampoline_run, thread_exit,
           thread_join, thread_join_ended, thread_join_done, gc_collect, mark_roots,
           mark_done, finalize_skip, finalize_object, finalizer_block,
           finalizer_resume, finalizer_return, gc_remark, remark_done, gc_sweep,
           gc_alloc, gc_collect_return
<1> QED
  BY <1>1, Inductive, PTL DEF Spec, RootsFrozenDuringScan

----------------------------------------------------------------------------
(* The worklist of a collection whose destructors may block.               *)

\* From the allocation of the worklist to the end of the second marking.
Tracing == {"mark", "finalize", "finalizer", "finalizer_blocked", "remark"}

\* Of the nodes that the collection of t found, no more are left than its
\* worklist has entries, and only nodes of the heap are marked.
WorklistInv ==
  \A t \in Threads :
    /\ pc[t] \in Tracing => Cardinality(heap \ added[t]) <= worklist[t]
    /\ pc[t] \in {"mark", "remark"} => marked \subseteq heap
    /\ pc[t] \notin Tracing \cup {"sweep"} \/ pc[t] = "mark" => added[t] = {}

\* A smaller set of objects has no more members.
LEMMA FewerObjects ==
  ASSUME NEW S \in SUBSET Objects, NEW R, R \subseteq S
  PROVE  /\ Cardinality(R) \in Nat /\ Cardinality(S) \in Nat
         /\ Cardinality(R) <= Cardinality(S)
<1>1. IsFiniteSet(S)
  BY ObjectsAreFinite, FS_Subset
<1>2. IsFiniteSet(R) /\ Cardinality(R) <= Cardinality(S)
  BY <1>1, FS_Subset
<1> QED
  BY <1>1, <1>2, FS_CardinalityType

\* Every step preserves the worklist invariant: what another thread allocates
\* is added, and collections of other threads only free nodes.
LEMMA StepWorklistInv ==
  IInv /\ WorklistInv /\ [Next]_vars => WorklistInv'
<1> SUFFICES ASSUME IInv, WorklistInv, NEW u \in Threads, Step(u), NEW t \in Threads
             PROVE  /\ pc'[t] \in Tracing => Cardinality(heap' \ added'[t]) <= worklist'[t]
                    /\ pc'[t] \in {"mark", "remark"} => marked' \subseteq heap'
                    /\ pc'[t] \notin Tracing \cup {"sweep"} \/ pc'[t] = "mark" => added'[t] = {}
  BY DEF WorklistInv, Tracing, Next, Finished, vars
<1> USE DEF IInv, TypeInv, TypeOK
<1>1. ASSUME pc[t] \in Tracing, heap' \ added'[t] \subseteq heap \ added[t], worklist'[t] = worklist[t]
      PROVE  Cardinality(heap' \ added'[t]) <= worklist'[t]
  <2> DEFINE S == heap \ added[t]
             R == heap' \ added'[t]
  <2>1. S \in SUBSET Objects /\ R \subseteq S
    BY <1>1
  <2> HIDE DEF S, R
  <2>2. /\ Cardinality(R) \in Nat /\ Cardinality(S) \in Nat
        /\ Cardinality(R) <= Cardinality(S)
    BY <2>1, FewerObjects
  <2>3. Cardinality(S) <= worklist[t] /\ worklist[t] \in Nat
    BY <1>1 DEF WorklistInv, S
  <2> QED
    BY <1>1, <2>2, <2>3 DEF R
<1>2. CASE u # t
  <2>1. CASE \E o \in Objects : thread_start(u, t, o)
    <3>1. pc[t] = "absent" /\ pc'[t] = "created" /\ added' = added
      BY <2>1 DEF thread_start, gcVars
    <3> QED
      BY <3>1 DEF WorklistInv, Tracing
  <2>2. CASE ~\E o \in Objects : thread_start(u, t, o)
    <3>1. pc'[t] = pc[t]
      BY <1>2, <2>2, StepIsLocal
    <3>2. pc[t] \in Tracing =>
            worklist'[t] = worklist[t] /\ heap' \ added'[t] \subseteq heap \ added[t]
      <4>1. ASSUME NEW o \in Objects, gc_alloc(u, o), pc[t] \in Tracing
            PROVE  worklist'[t] = worklist[t] /\ heap' \ added'[t] \subseteq heap \ added[t]
        <5>1. pc[u] = "swept"
          BY <4>1 DEF gc_alloc
        <5>2. pc[t] \notin Managed
          BY <1>2, <5>1 DEF LockInv, Managed
        <5>3. pc[t] = "finalizer_blocked"
          BY <4>1, <5>2 DEF Tracing, Managed
        <5>4. added'[t] = added[t] \cup {o}
          BY <4>1, <5>3 DEF gc_alloc
        <5> QED
          BY <4>1, <5>4 DEF gc_alloc
      <4>2. CASE gc_sweep(u)
        BY <1>2, <4>2 DEF gc_sweep
      <4>3. CASE gc_collect(u)
        BY <1>2, <4>3 DEF gc_collect
      <4>4. CASE ~gc_sweep(u) /\ ~gc_collect(u) /\ \A o \in Objects : ~gc_alloc(u, o)
        <5>1. UNCHANGED <<heap, worklist, added>>
          BY <4>4 DEF Step, threadVars, gcVars,
             gc_push, gc_pop, native_block, native_resume, thread_start,
             thread_start_release, thread_start_ready, thread_start_done,
             trampoline_enter, trampoline_ready, trampoline_run, thread_exit,
             thread_join, thread_join_ended, thread_join_done, mark_roots,
             mark_done, finalize_skip, finalize_object, finalizer_block,
             finalizer_resume, finalizer_return, gc_remark, remark_done, gc_collect_return
        <5> QED
          BY <5>1
      <4> QED
        BY <4>1, <4>2, <4>3, <4>4
    <3>3. pc[t] \in {"mark", "remark"} => UNCHANGED <<heap, marked>>
      <4> SUFFICES ASSUME pc[t] \in {"mark", "remark"} PROVE UNCHANGED <<heap, marked>>
        OBVIOUS
      <4>1. pc[t] \in Managed /\ gil = t /\ gil # None
        BY NoneIsFresh DEF LockInv, Managed
      <4>2. pc[u] \notin Managed
        BY <1>2, <4>1 DEF LockInv
      <4> QED
        BY <4>1, <4>2 DEF Step, Managed, threadVars, gcVars, gil_release, gil_acquire, thread_enter,
             gc_push, gc_pop, native_block, native_resume, thread_start,
             thread_start_release, thread_start_ready, thread_start_done,
             trampoline_enter, trampoline_ready, trampoline_run, thread_exit,
             thread_join, thread_join_ended, thread_join_done, gc_collect, mark_roots,
             mark_done, finalize_skip, finalize_object, finalizer_block,
             finalizer_resume, finalizer_return, gc_remark, remark_done, gc_sweep,
             gc_alloc, gc_collect_return
    <3>4. pc[t] # "finalizer_blocked" => added'[t] \subseteq added[t]
      <4>1. ASSUME NEW o \in Objects, gc_alloc(u, o), pc[t] # "finalizer_blocked"
            PROVE  added'[t] = added[t]
        BY <4>1 DEF gc_alloc
      <4>2. CASE gc_sweep(u)
        BY <1>2, <4>2 DEF gc_sweep
      <4>3. CASE ~gc_sweep(u) /\ \A o \in Objects : ~gc_alloc(u, o)
        <5>1. UNCHANGED added
          BY <4>3 DEF Step, threadVars, gcVars,
             gc_push, gc_pop, native_block, native_resume, thread_start,
             thread_start_release, thread_start_ready, thread_start_done,
             trampoline_enter, trampoline_ready, trampoline_run, thread_exit,
             thread_join, thread_join_ended, thread_join_done, gc_collect, mark_roots,
             mark_done, finalize_skip, finalize_object, finalizer_block,
             finalizer_resume, finalizer_return, gc_remark, remark_done, gc_collect_return
        <5> QED
          BY <5>1
      <4> QED
        BY <4>1, <4>2, <4>3
    <3>5. pc'[t] \in Tracing => Cardinality(heap' \ added'[t]) <= worklist'[t]
      BY <1>1, <3>1, <3>2
    <3>6. pc'[t] \in {"mark", "remark"} => marked' \subseteq heap'
      BY <3>1, <3>3 DEF WorklistInv
    <3>7. pc'[t] \notin Tracing \cup {"sweep"} \/ pc'[t] = "mark" => added'[t] = {}
      BY <3>1, <3>4 DEF WorklistInv, Tracing
    <3> QED
      BY <3>5, <3>6, <3>7
  <2> QED
    BY <2>1, <2>2
<1>3. CASE u = t
  <2> USE DEF Goto
  <2>1. CASE gc_collect(t)
    <3>1. /\ pc[t] = "run" /\ pc'[t] = "mark" /\ worklist'[t] = Cardinality(heap) /\ marked' = {}
          /\ UNCHANGED <<heap, added>>
      BY <2>1 DEF gc_collect
    <3>2. added[t] = {}
      BY <3>1 DEF WorklistInv, Tracing
    <3>3. heap' \ added'[t] = heap
      BY <3>1, <3>2
    <3>4. Cardinality(heap) \in Nat
      BY HeapSizeType
    <3> QED
      BY <3>1, <3>2, <3>3, <3>4 DEF Tracing
  <2>2. ASSUME NEW v \in Threads, mark_roots(t, v)
        PROVE  /\ pc'[t] \in Tracing => Cardinality(heap' \ added'[t]) <= worklist'[t]
               /\ pc'[t] \in {"mark", "remark"} => marked' \subseteq heap'
               /\ pc'[t] \notin Tracing \cup {"sweep"} \/ pc'[t] = "mark" => added'[t] = {}
    BY <2>2 DEF mark_roots, WorklistInv, Tracing
  <2>3. CASE gc_remark(t)
    BY <2>3 DEF gc_remark, WorklistInv, Tracing
  <2>4. CASE gc_sweep(t)
    BY <2>4 DEF gc_sweep, Tracing
  <2>5. ASSUME NEW o \in Objects, gc_alloc(t, o)
        PROVE  /\ pc'[t] \in Tracing => Cardinality(heap' \ added'[t]) <= worklist'[t]
               /\ pc'[t] \in {"mark", "remark"} => marked' \subseteq heap'
               /\ pc'[t] \notin Tracing \cup {"sweep"} \/ pc'[t] = "mark" => added'[t] = {}
    <3>1. pc[t] = "swept" /\ pc'[t] = "run" /\ added'[t] = added[t]
      BY <2>5 DEF gc_alloc
    <3> QED
      BY <3>1 DEF WorklistInv, Tracing
  <2>6. CASE /\ UNCHANGED <<heap, worklist, added>>
             /\ pc'[t] \in {"finalize", "finalizer", "finalizer_blocked", "sweep"}
             /\ pc[t] \in Tracing
    BY <2>6 DEF WorklistInv, Tracing
  <2>7. CASE /\ UNCHANGED added
             /\ pc[t] \notin Tracing \cup {"sweep"} /\ pc'[t] \notin Tracing \cup {"sweep"}
    BY <2>7 DEF WorklistInv, Tracing
  <2>8. \/ gc_collect(t) \/ gc_remark(t) \/ gc_sweep(t)
        \/ \E v \in Threads : mark_roots(t, v)
        \/ \E o \in Objects : gc_alloc(t, o)
        \/ /\ UNCHANGED <<heap, worklist, added>>
           /\ pc'[t] \in {"finalize", "finalizer", "finalizer_blocked", "sweep"}
           /\ pc[t] \in Tracing
        \/ /\ UNCHANGED added
           /\ pc[t] \notin Tracing \cup {"sweep"} /\ pc'[t] \notin Tracing \cup {"sweep"}
    <3> DEFINE Inside == /\ UNCHANGED <<heap, worklist, added>>
                         /\ pc'[t] \in {"finalize", "finalizer", "finalizer_blocked", "sweep"}
                         /\ pc[t] \in Tracing
               Beside == /\ UNCHANGED added
                         /\ pc[t] \notin Tracing \cup {"sweep"} /\ pc'[t] \notin Tracing \cup {"sweep"}
    <3> USE DEF Tracing, threadVars, gcVars
    <3>1. ASSUME NEW c \in Threads, NEW o \in Objects, thread_start(t, c, o) PROVE Beside
      <4>1. t # c
        BY <3>1 DEF thread_start
      <4> QED
        BY <3>1, <4>1 DEF thread_start
    <3>2. ASSUME NEW o \in Objects, gc_push(t, o) PROVE Beside
      BY <3>2 DEF gc_push
    <3>3. ASSUME NEW c \in Threads, thread_join(t, c) PROVE Beside
      BY <3>3 DEF thread_join
    <3>4. ASSUME \/ gc_pop(t) \/ native_block(t) \/ native_resume(t) \/ thread_start_release(t)
                 \/ thread_start_ready(t) \/ thread_start_done(t) \/ trampoline_enter(t)
                 \/ trampoline_ready(t) \/ trampoline_run(t) \/ thread_exit(t)
          PROVE  Beside
      BY <3>4 DEF gc_pop, native_block, native_resume, thread_start_release, thread_start_ready,
             thread_start_done, trampoline_enter, trampoline_ready, trampoline_run, thread_exit
    <3>5. ASSUME thread_join_ended(t) \/ thread_join_done(t) \/ gc_collect_return(t) PROVE Beside
      BY <3>5 DEF thread_join_ended, thread_join_done, gc_collect_return
    <3>6. ASSUME NEW o \in Objects, finalize_skip(t, o) \/ finalize_object(t, o) PROVE Inside
      BY <3>6 DEF finalize_skip, finalize_object
    <3>7. ASSUME \/ mark_done(t) \/ finalizer_block(t) \/ finalizer_resume(t) \/ finalizer_return(t)
                 \/ remark_done(t)
          PROVE  Inside
      BY <3>7 DEF mark_done, finalizer_block, finalizer_resume, finalizer_return, remark_done
    <3> HIDE DEF Tracing, Goto, threadVars, gcVars, IInv, TypeInv, TypeOK, Inside, Beside
    <3>8. \/ gc_collect(t) \/ gc_remark(t) \/ gc_sweep(t)
          \/ \E v \in Threads : mark_roots(t, v)
          \/ \E o \in Objects : gc_alloc(t, o)
          \/ Inside \/ Beside
      BY <1>3, <3>1, <3>2, <3>3, <3>4, <3>5, <3>6, <3>7 DEF Step
    <3> QED
      BY <3>8 DEF Inside, Beside
  <2> QED
    BY <2>1, <2>2, <2>3, <2>4, <2>5, <2>6, <2>7, <2>8
<1> QED
  BY <1>2, <1>3

\* Marking never needs more worklist entries than the collection allocated, but
\* for objects that were allocated while one of its destructors was blocked.
THEOREM WorklistIsLargeEnough == Spec => []WorklistHoldsNodes
<1>1. Init => WorklistInv
  BY DEF Init, WorklistInv, Tracing
<1>2. IInv /\ WorklistInv /\ [Next]_vars => WorklistInv'
  BY StepWorklistInv
<1>3. IInv /\ WorklistInv => WorklistHoldsNodes
  <2> SUFFICES ASSUME IInv, WorklistInv, NEW t \in Threads, pc[t] \in {"mark", "remark"}
               PROVE  /\ pc[t] = "mark" => Cardinality(marked) <= worklist[t]
                      /\ Cardinality(marked \ added[t]) <= worklist[t]
    BY DEF WorklistHoldsNodes
  <2> DEFINE S == heap \ added[t]
             R == marked \ added[t]
  <2>1. marked \subseteq heap /\ Cardinality(S) <= worklist[t] /\ worklist[t] \in Nat
    BY DEF WorklistInv, Tracing, IInv, TypeInv, TypeOK
  <2>2. S \in SUBSET Objects /\ R \subseteq S
    BY <2>1 DEF IInv, TypeInv, TypeOK
  <2>3. pc[t] = "mark" => R = marked
    BY DEF WorklistInv
  <2> HIDE DEF S, R
  <2>4. Cardinality(R) \in Nat /\ Cardinality(S) \in Nat /\ Cardinality(R) <= Cardinality(S)
    BY <2>2, FewerObjects
  <2>5. Cardinality(R) <= worklist[t]
    BY <2>1, <2>4
  <2> QED
    BY <2>3, <2>5 DEF R
<1> QED
  BY <1>1, <1>2, <1>3, Inductive, PTL DEF Spec
=============================================================================
