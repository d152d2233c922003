------------------------------ MODULE Threads ------------------------------
(***************************************************************************)
(* The cooperative threading of the Cwhip runtime: the global lock (GIL),  *)
(* the registry of threads, starting and joining a thread, native calls    *)
(* that block with the lock released, and the collection that every        *)
(* allocation starts and that scans the root frames of all the registered  *)
(* threads.  Sources: src/src/RuntimeGc.c (lock, registry, root frames,    *)
(* collector) and src/src/RuntimeThreads.c (start, trampoline, join).      *)
(*                                                                         *)
(* Abstractions.  A root frame has one slot, so a chain is a sequence of   *)
(* objects with the innermost frame last; references between heap objects  *)
(* are left out (module Heap models the graph).  pthread_create and malloc *)
(* succeed: the code aborts the process when they fail.                    *)
(***************************************************************************)
EXTENDS Naturals, Sequences, FiniteSets

CONSTANTS Threads,         \* pthreads that may exist
          main,            \* the thread that runs the program's start block
          Objects,         \* addresses of heap objects
          None,            \* no thread, no object
          MaxFrames        \* bound on the depth of a root-frame chain

ASSUME MainIsThread == main \in Threads
ASSUME NoneIsFresh == None \notin Threads /\ None \notin Objects
ASSUME ObjectsAreFinite == IsFiniteSet(Objects)
ASSUME MaxFramesIsNat == MaxFrames \in Nat

VARIABLES
  gil,        \* the holder of cwhip_gil
  gilHeld,    \* thread-local gil_held
  registry,   \* thread_registry
  rootFrame,  \* thread-local root_frame: the chain, innermost frame last
  pc,         \* where each thread is
  child,      \* the thread that a start or a join is about
  args,       \* CwhipThreadStartArgs of the start that created each thread
  receiver,   \* trampoline's local variable: the Thread object
  handles,    \* thread handles a thread has got from launch and not joined
  heap,       \* allocated objects
  destroyed,  \* node->destroyed
  marked,     \* node->marked
  toScan,     \* threads mark_roots has still to visit
  todo,       \* nodes the finalizer loop of a collection has still to visit
  worklist,   \* entries of the worklist a collection allocated
  added       \* history: objects allocated while a destructor that the
              \* collection of this thread runs is blocked

threadVars == <<gil, gilHeld, registry, child, args, receiver, handles>>
gcVars == <<heap, destroyed, marked, toScan, todo, worklist, added>>
vars == <<gil, gilHeld, registry, rootFrame, pc, child, args, receiver,
          handles, heap, destroyed, marked, toScan, todo, worklist, added>>

----------------------------------------------------------------------------
(* Program counters.                                                       *)

\* The thread executes Cwhip code or runtime code that needs the lock.
Managed == {"entered", "ready_set", "run", "start_created",
            "mark", "finalize", "finalizer", "remark", "sweep", "swept"}
\* The thread is inside a blocking native, with the lock released.
Outside == {"start_waiting", "start_reacquire", "join_waiting",
            "join_reacquire", "blocked", "finalizer_blocked"}
\* The thread has not registered itself, or no longer is registered.
Unregistered == {"absent", "created", "exited"}
\* Between the first and the last line of cwhip_gc_collect.
Collecting == {"mark", "finalize", "finalizer", "finalizer_blocked",
               "remark", "sweep"}
Starting == {"start_created", "start_waiting", "start_reacquire"}
Joining == {"join_waiting", "join_reacquire"}
PCs == Managed \cup Outside \cup Unregistered

ArgsStates == {"none", "waiting", "ready", "freed"}

ElementsOf(s) == {s[i] : i \in 1..Len(s)}
Pop(s) == SubSeq(s, 1, Len(s) - 1)

\* What mark_roots finds in the chain of one registered thread.
RootsOf(t) == ElementsOf(rootFrame[t])

\* The frames a thread owns before its body pushes any: the trampoline's.
BaseFrames(t) == IF t = main THEN 0 ELSE 1

TypeOK ==
  /\ gil \in Threads \cup {None}
  /\ gilHeld \in [Threads -> BOOLEAN]
  /\ registry \in SUBSET Threads
  /\ rootFrame \in [Threads -> Seq(Objects)]
  /\ pc \in [Threads -> PCs]
  /\ child \in [Threads -> Threads \cup {None}]
  /\ args \in [Threads -> ArgsStates]
  /\ receiver \in [Threads -> Objects \cup {None}]
  /\ handles \in [Threads -> SUBSET Threads]
  /\ heap \in SUBSET Objects
  /\ destroyed \in SUBSET Objects
  /\ marked \in SUBSET Objects
  /\ toScan \in SUBSET Threads
  /\ todo \in [Threads -> SUBSET Objects]
  /\ worklist \in [Threads -> Nat]
  /\ added \in [Threads -> SUBSET Objects]

\* main has run thread_enter and is about to execute the start block.
Init ==
  /\ gil = main
  /\ gilHeld = [t \in Threads |-> t = main]
  /\ registry = {main}
  /\ rootFrame = [t \in Threads |-> <<>>]
  /\ pc = [t \in Threads |-> IF t = main THEN "run" ELSE "absent"]
  /\ child = [t \in Threads |-> None]
  /\ args = [t \in Threads |-> "none"]
  /\ receiver = [t \in Threads |-> None]
  /\ handles = [t \in Threads |-> {}]
  /\ heap = {}
  /\ destroyed = {}
  /\ marked = {}
  /\ toScan = {}
  /\ todo = [t \in Threads |-> {}]
  /\ worklist = [t \in Threads |-> 0]
  /\ added = [t \in Threads |-> {}]

----------------------------------------------------------------------------
(* The lock.  The C functions abort when their precondition fails, so an   *)
(* action that calls one carries the precondition as its guard and         *)
(* NeverAborts says that the guard holds wherever the call is reached.     *)

\* cwhip_runtime_gil_release
gil_release(t) ==
  /\ t \in registry /\ gilHeld[t]
  /\ gilHeld' = [gilHeld EXCEPT ![t] = FALSE]
  /\ gil' = None

\* Mutant: the mutex is not waited for.
gil_acquire_unchecked(t) ==
  /\ t \in registry /\ ~gilHeld[t]
  /\ gil' = t
  /\ gilHeld' = [gilHeld EXCEPT ![t] = TRUE]

\* cwhip_runtime_gil_acquire
gil_acquire(t) ==
  /\ t \in registry /\ ~gilHeld[t]
  /\ gil = None
  /\ gil' = t
  /\ gilHeld' = [gilHeld EXCEPT ![t] = TRUE]

\* Mutant: the thread registers without taking the mutex.
thread_enter_unlocked(t) ==
  /\ t \notin registry
  /\ gil' = t
  /\ registry' = registry \cup {t}
  /\ gilHeld' = [gilHeld EXCEPT ![t] = TRUE]

\* Mutant: the registration is not linked into the list.
thread_enter_unlinked(t) ==
  /\ gil = None
  /\ t \notin registry
  /\ gil' = t
  /\ registry' = registry
  /\ gilHeld' = [gilHeld EXCEPT ![t] = TRUE]

\* cwhip_runtime_thread_enter
thread_enter(t) ==
  /\ gil = None
  /\ t \notin registry
  /\ gil' = t
  /\ registry' = registry \cup {t}
  /\ gilHeld' = [gilHeld EXCEPT ![t] = TRUE]

Goto(t, label) == pc' = [pc EXCEPT ![t] = label]

----------------------------------------------------------------------------
(* Generated code between two runtime calls: functions are entered with a  *)
(* reference the caller holds and left again.                              *)

\* A function call: its prologue pushes a root frame.
gc_push(t, o) ==
  /\ pc[t] = "run"
  /\ Len(rootFrame[t]) < MaxFrames
  /\ o \in RootsOf(t)
  /\ rootFrame' = [rootFrame EXCEPT ![t] = Append(@, o)]
  /\ UNCHANGED <<threadVars, gcVars, pc>>

\* A return: the frame is popped.
gc_pop(t) ==
  /\ pc[t] = "run"
  /\ Len(rootFrame[t]) > BaseFrames(t)
  /\ rootFrame' = [rootFrame EXCEPT ![t] = Pop(@)]
  /\ UNCHANGED <<threadVars, gcVars, pc>>

\* A native that blocks (sleep, reading a line, a contended lock...).
native_block(t) ==
  /\ pc[t] = "run"
  /\ gil_release(t)
  /\ Goto(t, "blocked")
  /\ UNCHANGED <<registry, rootFrame, child, args, receiver, handles, gcVars>>

native_resume(t) ==
  /\ pc[t] = "blocked"
  /\ gil_acquire(t)
  /\ Goto(t, "run")
  /\ UNCHANGED <<registry, rootFrame, child, args, receiver, handles, gcVars>>

----------------------------------------------------------------------------
(* cwhip_thread_start, by the spawner t.                                   *)

\* Root the receiver, allocate the arguments and the handle, create c.
thread_start(t, c, o) ==
  /\ pc[t] = "run"
  /\ pc[c] = "absent"
  /\ o \in RootsOf(t) /\ Len(rootFrame[t]) < MaxFrames
  /\ rootFrame' = [rootFrame EXCEPT ![t] = Append(@, o)]
  /\ args' = [args EXCEPT ![c] = "waiting"]
  /\ receiver' = [receiver EXCEPT ![c] = o]
  /\ child' = [child EXCEPT ![t] = c]
  /\ pc' = [pc EXCEPT ![t] = "start_created", ![c] = "created"]
  /\ UNCHANGED <<gil, gilHeld, registry, handles, gcVars>>

thread_start_release(t) ==
  /\ pc[t] = "start_created"
  /\ gil_release(t)
  /\ Goto(t, "start_waiting")
  /\ UNCHANGED <<registry, rootFrame, child, args, receiver, handles, gcVars>>

\* Mutant: the spawner does not wait for the flag.
thread_start_ready_unwaited(t) ==
  /\ pc[t] = "start_waiting"
  /\ Goto(t, "start_reacquire")
  /\ UNCHANGED <<threadVars, rootFrame, gcVars>>

\* The loop on ready_cond ends; ready_mutex must be free to test the flag.
thread_start_ready(t) ==
  /\ pc[t] = "start_waiting"
  /\ args[child[t]] = "ready"
  /\ pc[child[t]] # "ready_set"
  /\ Goto(t, "start_reacquire")
  /\ UNCHANGED <<threadVars, rootFrame, gcVars>>

\* With the lock again: unroot the receiver, free the arguments, return.
thread_start_done(t) ==
  /\ pc[t] = "start_reacquire"
  /\ gil_acquire(t)
  /\ rootFrame' = [rootFrame EXCEPT ![t] = Pop(@)]
  /\ args' = [args EXCEPT ![child[t]] = "freed"]
  /\ handles' = [handles EXCEPT ![t] = @ \cup {child[t]}]
  /\ child' = [child EXCEPT ![t] = None]
  /\ Goto(t, "run")
  /\ UNCHANGED <<registry, receiver, gcVars>>

----------------------------------------------------------------------------
(* cwhip_thread_trampoline, on the new thread t.                           *)

\* Register with the collector and root the receiver.
trampoline_enter(t) ==
  /\ pc[t] = "created"
  /\ thread_enter(t)
  /\ rootFrame' = [rootFrame EXCEPT ![t] = Append(@, receiver[t])]
  /\ Goto(t, "entered")
  /\ UNCHANGED <<child, args, receiver, handles, gcVars>>

\* ready_mutex is locked, the flag set and the spawner signalled.
trampoline_ready(t) ==
  /\ pc[t] = "entered"
  /\ args' = [args EXCEPT ![t] = "ready"]
  /\ Goto(t, "ready_set")
  /\ UNCHANGED <<gil, gilHeld, registry, rootFrame, child, receiver, handles, gcVars>>

\* ready_mutex is unlocked: the last use of the arguments.
trampoline_run(t) ==
  /\ pc[t] = "ready_set"
  /\ Goto(t, "run")
  /\ UNCHANGED <<threadVars, rootFrame, gcVars>>

\* run() has returned: pop the receiver's frame and cwhip_runtime_thread_exit.
thread_exit(t) ==
  /\ pc[t] = "run"
  /\ Len(rootFrame[t]) = BaseFrames(t)
  /\ t \in registry /\ gilHeld[t]
  /\ rootFrame' = [rootFrame EXCEPT ![t] = <<>>]
  /\ registry' = registry \ {t}
  /\ gilHeld' = [gilHeld EXCEPT ![t] = FALSE]
  /\ gil' = None
  /\ Goto(t, "exited")
  /\ UNCHANGED <<child, args, receiver, handles, gcVars>>

----------------------------------------------------------------------------
(* cwhip_thread_join: a handle is joined once, by the thread that holds it. *)

thread_join(t, c) ==
  /\ pc[t] = "run"
  /\ c \in handles[t]
  /\ gil_release(t)
  /\ child' = [child EXCEPT ![t] = c]
  /\ handles' = [handles EXCEPT ![t] = @ \ {c}]
  /\ Goto(t, "join_waiting")
  /\ UNCHANGED <<registry, rootFrame, args, receiver, gcVars>>

\* pthread_join returns.
thread_join_ended(t) ==
  /\ pc[t] = "join_waiting"
  /\ pc[child[t]] = "exited"
  /\ Goto(t, "join_reacquire")
  /\ UNCHANGED <<threadVars, rootFrame, gcVars>>

thread_join_done(t) ==
  /\ pc[t] = "join_reacquire"
  /\ gil_acquire(t)
  /\ child' = [child EXCEPT ![t] = None]
  /\ Goto(t, "run")
  /\ UNCHANGED <<registry, rootFrame, args, receiver, handles, gcVars>>

----------------------------------------------------------------------------
(* cwhip_gc_collect and, after it, cwhip_gc_alloc.                         *)

\* Mutant: the worklist is one entry short.
gc_collect_short(t) ==
  /\ pc[t] = "run"
  /\ marked' = {}
  /\ toScan' = registry
  /\ worklist' = [worklist EXCEPT ![t] = IF heap = {} THEN 0 ELSE Cardinality(heap) - 1]
  /\ Goto(t, "mark")
  /\ UNCHANGED <<threadVars, rootFrame, heap, destroyed, todo, added>>

\* Clear the mark bits, allocate the worklist, begin mark_roots.
gc_collect(t) ==
  /\ pc[t] = "run"
  /\ marked' = {}
  /\ toScan' = registry
  /\ worklist' = [worklist EXCEPT ![t] = Cardinality(heap)]
  /\ Goto(t, "mark")
  /\ UNCHANGED <<threadVars, rootFrame, heap, destroyed, todo, added>>

\* mark_roots visits the chain of one registered thread, in either pass.
\* An object that is not in the heap is not found and not marked.
mark_roots(t, u) ==
  /\ pc[t] \in {"mark", "remark"}
  /\ u \in toScan
  /\ marked' = marked \cup (RootsOf(u) \cap heap)
  /\ toScan' = toScan \ {u}
  /\ UNCHANGED <<threadVars, rootFrame, pc, heap, destroyed, todo, worklist, added>>

mark_done(t) ==
  /\ pc[t] = "mark" /\ toScan = {}
  /\ todo' = [todo EXCEPT ![t] = heap]
  /\ Goto(t, "finalize")
  /\ UNCHANGED <<threadVars, rootFrame, heap, destroyed, marked, toScan, worklist, added>>

\* The loop visits node o: nothing to do if it is marked or destroyed.
finalize_skip(t, o) ==
  /\ pc[t] = "finalize"
  /\ o \in todo[t]
  /\ o \in marked \cup destroyed
  /\ todo' = [todo EXCEPT ![t] = @ \ {o}]
  /\ UNCHANGED <<threadVars, rootFrame, pc, heap, destroyed, marked, toScan, worklist, added>>

\* Otherwise its destructor starts; the body roots `this`.
finalize_object(t, o) ==
  /\ pc[t] = "finalize"
  /\ o \in todo[t]
  /\ o \notin marked \cup destroyed
  /\ todo' = [todo EXCEPT ![t] = @ \ {o}]
  /\ destroyed' = destroyed \cup {o}
  /\ rootFrame' = [rootFrame EXCEPT ![t] = Append(@, o)]
  /\ Goto(t, "finalizer")
  /\ UNCHANGED <<threadVars, heap, marked, toScan, worklist, added>>

\* A blocking native called by the destructor.
finalizer_block(t) ==
  /\ pc[t] = "finalizer"
  /\ gil_release(t)
  /\ Goto(t, "finalizer_blocked")
  /\ UNCHANGED <<registry, rootFrame, child, args, receiver, handles, gcVars>>

finalizer_resume(t) ==
  /\ pc[t] = "finalizer_blocked"
  /\ gil_acquire(t)
  /\ Goto(t, "finalizer")
  /\ UNCHANGED <<registry, rootFrame, child, args, receiver, handles, gcVars>>

finalizer_return(t) ==
  /\ pc[t] = "finalizer"
  /\ rootFrame' = [rootFrame EXCEPT ![t] = Pop(@)]
  /\ Goto(t, "finalize")
  /\ UNCHANGED <<threadVars, gcVars>>

\* Mutant: only the collecting thread's own chain is scanned.
gc_remark_own(t) ==
  /\ pc[t] = "finalize"
  /\ todo[t] = {}
  /\ marked' = {}
  /\ toScan' = {t}
  /\ Goto(t, "remark")
  /\ UNCHANGED <<threadVars, rootFrame, heap, destroyed, todo, worklist, added>>

\* Clear the mark bits and trace the roots a second time.
gc_remark(t) ==
  /\ pc[t] = "finalize"
  /\ todo[t] = {}
  /\ marked' = {}
  /\ toScan' = registry
  /\ Goto(t, "remark")
  /\ UNCHANGED <<threadVars, rootFrame, heap, destroyed, todo, worklist, added>>

remark_done(t) ==
  /\ pc[t] = "remark" /\ toScan = {}
  /\ Goto(t, "sweep")
  /\ UNCHANGED <<threadVars, rootFrame, gcVars>>

\* Free the unmarked nodes.
gc_sweep(t) ==
  /\ pc[t] = "sweep"
  /\ heap' = heap \cap marked
  /\ destroyed' = destroyed \cap marked
  /\ todo' = [u \in Threads |-> todo[u] \cap marked]
  /\ added' = [added EXCEPT ![t] = {}]
  /\ Goto(t, "swept")
  /\ UNCHANGED <<threadVars, rootFrame, marked, toScan, worklist>>

\* The collection was asked for by an allocation: link the new node o, which
\* generated code stores in a rooted slot before anything can collect again.
gc_alloc(t, o) ==
  /\ pc[t] = "swept"
  /\ Len(rootFrame[t]) < MaxFrames
  /\ o \in Objects \ heap
  /\ heap' = heap \cup {o}
  /\ rootFrame' = [rootFrame EXCEPT ![t] = Append(@, o)]
  /\ added' = [u \in Threads |-> IF pc[u] = "finalizer_blocked" THEN added[u] \cup {o} ELSE added[u]]
  /\ Goto(t, "run")
  /\ UNCHANGED <<threadVars, destroyed, marked, toScan, todo, worklist>>

\* The collection was asked for by native code (cwhip_gc_collect is exported).
gc_collect_return(t) ==
  /\ pc[t] = "swept"
  /\ Goto(t, "run")
  /\ UNCHANGED <<threadVars, rootFrame, gcVars>>

----------------------------------------------------------------------------
\* main returns from its start block and the process ends with it.
Ended == pc[main] = "exited"

Step(t) ==
  \/ \E o \in Objects : gc_push(t, o)
  \/ gc_pop(t)
  \/ native_block(t)
  \/ native_resume(t)
  \/ \E c \in Threads, o \in Objects : thread_start(t, c, o)
  \/ thread_start_release(t)
  \/ thread_start_ready(t)
  \/ thread_start_done(t)
  \/ trampoline_enter(t)
  \/ trampoline_ready(t)
  \/ trampoline_run(t)
  \/ thread_exit(t)
  \/ \E c \in Threads : thread_join(t, c)
  \/ thread_join_ended(t)
  \/ thread_join_done(t)
  \/ gc_collect(t)
  \/ \E u \in Threads : mark_roots(t, u)
  \/ mark_done(t)
  \/ \E o \in Objects : finalize_skip(t, o)
  \/ \E o \in Objects : finalize_object(t, o)
  \/ finalizer_block(t)
  \/ finalizer_resume(t)
  \/ finalizer_return(t)
  \/ gc_remark(t)
  \/ remark_done(t)
  \/ gc_sweep(t)
  \/ \E o \in Objects : gc_alloc(t, o)
  \/ gc_collect_return(t)

Finished == Ended /\ UNCHANGED vars

Next == \/ ~Ended /\ \E t \in Threads : Step(t)
        \/ Finished

Spec == Init /\ [][Next]_vars

----------------------------------------------------------------------------
(* Properties.                                                             *)

\* At most one thread executes Cwhip code or touches the heap, and it is the
\* one that holds the lock (RuntimeGc.c:305 "Only one Cwhip thread ever
\* executes managed code at a time"); the thread-local gil_held agrees with
\* the mutex, so the checks built on it (gil_acquire, managed_enter) are sound.
LockDiscipline ==
  /\ \A t \in Threads : pc[t] \in Managed => gil = t
  /\ \A t \in Threads : gilHeld[t] <=> gil = t

\* No runtime call reaches one of its abort() branches: every release is made
\* by a registered thread that holds the lock, every acquire by a registered
\* thread that does not, and a thread that enters was not registered.
NeverAborts ==
  \A t \in Threads :
    /\ pc[t] \in Managed => t \in registry /\ gilHeld[t]
    /\ pc[t] \in Outside => t \in registry /\ ~gilHeld[t]
    /\ pc[t] = "created" => t \notin registry

\* An object referred to by a root frame of a registered thread, or by the
\* arguments of a thread that has not rooted its receiver yet, is allocated:
\* no collection frees the receiver during the hand-over from the spawner's
\* frame to the new thread's frame (RuntimeThreads.c:83-85, 118-119).
RootSafety ==
  \A t \in Threads :
    /\ RootsOf(t) \subseteq heap
    /\ pc[t] = "created" => receiver[t] \in heap

\* The new thread touches CwhipThreadStartArgs only while they exist: the
\* spawner frees them after it has the lock again, which the new thread keeps
\* from registering until its last use of them.
ArgsOutliveChild ==
  \A t \in Threads :
    pc[t] \in {"created", "entered", "ready_set"} => args[t] \in {"waiting", "ready"}

\* While one thread walks the root frames no frame is pushed or popped by
\* anyone (RuntimeGc.c:1328-1333), whether or not destructors block.
RootsFrozenDuringScan ==
  [][(\E t \in Threads : pc[t] \in {"mark", "remark"}) => UNCHANGED rootFrame]_vars

\* mark_object needs no more entries than the worklist has, one per object that
\* existed when the collection began (RuntimeGc.c:1313-1321, 1075), but for the
\* objects that other threads allocated while a destructor was blocked: whatever
\* collections of others came in between, the first trace always fits.
WorklistHoldsNodes ==
  \A t \in Threads :
    /\ pc[t] = "mark" => Cardinality(marked) <= worklist[t]
    /\ pc[t] = "remark" => Cardinality(marked \ added[t]) <= worklist[t]

\* Does not hold (CWHIP-LANGUAGE-NOTES.md:1433, "When any thread collects, every
\* other registered thread is not running Cwhip code").  A destructor that blocks
\* in the middle of a collection lets the others run.
CollectorExcludesMutators ==
  \A t, u \in Threads :
    t # u /\ pc[t] \in Collecting => pc[u] \notin Managed

\* Does not hold (the same sentence, on which the size of the worklist relies,
\* RuntimeGc.c:1313-1321): mark_object never writes past the worklist.
WorklistFits ==
  \A t \in Threads :
    pc[t] \in {"mark", "remark"} => Cardinality(marked) <= worklist[t]
=============================================================================
