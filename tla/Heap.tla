-------------------------------- MODULE Heap --------------------------------
(***************************************************************************)
(* The object graph of one Cwhip thread: allocation and the two-pass       *)
(* collection (mark, finalize, mark again, sweep), explicit destruction,   *)
(* construction, and exceptions that unwind all of them.  Sources:         *)
(* src/src/RuntimeGc.c, and the code the compiler emits for calls,         *)
(* constructors, destructor chains and try statements                      *)
(* (CodeGenerator.cpp, CodeGeneratorModule.cpp, CodeGeneratorExceptions.cpp). *)
(*                                                                         *)
(* An object has one reference field.  An activation of generated code is  *)
(* one record of `stack`, the root slots it registers included, so that    *)
(* root_frame is the sequence of the slots in `stack`.                     *)
(*   "call"       a method: `this` and one local variable, both roots      *)
(*   "try"        a try statement: the rooted exception, and in `mode`     *)
(*                which part runs: body, except, cleanup                   *)
(*   "construct"  between begin_construction and end_construction: first   *)
(*                the arguments are evaluated, then the constructor is     *)
(*                called; the new object is a root                         *)
(*   "destroy"    between begin_destroy and end_destroy: the finalizer     *)
(*                function, which runs the bodies of a destructor chain    *)
(***************************************************************************)
EXTENDS Naturals, Sequences, FiniteSets, SequencesExt

CONSTANTS Objects,             \* addresses
          None,                \* null
          MaxDepth,            \* bound on the activations
          ChainLength          \* destructor bodies of a class and its bases

ASSUME NoneIsNoObject == None \notin Objects
ASSUME ObjectsAreFinite == IsFiniteSet(Objects)
ASSUME ChainLengthIsPositive == ChainLength \in Nat \ {0}

VARIABLES
  heap,          \* the node list, newest first
  field,         \* the reference field of every object
  marked, destroyed, destroying, constructing,   \* flags of the nodes
  destroyStack, constructionStack,               \* innermost last
  stack,         \* activations, innermost last
  pc,            \* "run", a phase of cwhip_gc_collect, or "aborted"
  worklist,      \* of mark_object and trace_graph
  todo,          \* nodes the finalizer loop has still to visit
  finalizing,    \* the object whose finalizer runs
  reached,       \* history: what the first trace of this collection marked
  lost           \* history: exceptions freed while a destructor chain kept them

histVars == <<reached, lost>>
gcVars == <<marked, worklist, todo, finalizing, histVars>>
unwindVars == <<destroying, constructing, destroyStack, constructionStack>>
vars == <<heap, field, destroyed, stack, pc, gcVars, unwindVars>>

ObjectOrNone == Objects \cup {None}

Call(o) == [kind |-> "call", this |-> o, slot |-> None]
\* A try statement and what cwhip_exception_push saves.
Try == [kind |-> "try", mode |-> "body", slot |-> None,
        destroys |-> Len(destroyStack), constructions |-> Len(constructionStack)]
Construct(o) == [kind |-> "construct", this |-> o, called |-> FALSE]
\* first is %cwhip.first.exception; one frame is pushed for every body.
Destroy(o) == [kind |-> "destroy", this |-> o, index |-> 1, first |-> None,
               destroys |-> Len(destroyStack) + 1,
               constructions |-> Len(constructionStack)]

Top == stack[Len(stack)]
WithTop(a) == [stack EXCEPT ![Len(stack)] = a]

Nodes == ToSet(heap)

\* What the slots of the root-frame chain hold.
Slots(a) == CASE a.kind = "call" -> {a.this, a.slot}
              [] a.kind = "try" -> {a.slot}
              [] a.kind = "construct" -> {a.this}
              [] OTHER -> {}
Roots == {o \in Objects : \E i \in 1..Len(stack) : o \in Slots(stack[i])}
LiveRoots == Roots \cap Nodes

\* cwhip_gc_require_alive
Alive(o) == o \in Nodes /\ (o \notin destroyed \/ o \in destroying)

\* The objects that S refers to directly or through fields: the least set
\* that holds S and what its members refer to.
Closed(T) == \A o \in T : field[o] \in T \cup {None}
Closure(S) ==
  {o \in Objects : \A T \in SUBSET Objects : S \subseteq T /\ Closed(T) => o \in T}

\* The part of s at the positions I, in their order.
Nth(I, k) == CHOOSE i \in I : Cardinality({j \in I : j <= i}) = k
Part(s, I) == [k \in 1..Cardinality(I) |-> s[Nth(I, k)]]

TypeOK ==
  /\ heap \in Seq(Objects) /\ Len(heap) = Cardinality(Nodes)
  /\ field \in [Objects -> ObjectOrNone]
  /\ \A S \in {marked, destroyed, destroying, constructing, todo, reached, lost} :
       S \subseteq Objects
  /\ \A s \in {destroyStack, constructionStack, worklist} : s \in Seq(Objects)
  /\ Len(worklist) <= Len(heap)
  /\ \A i \in 1..Len(stack) : stack[i].kind \in {"call", "try", "construct", "destroy"}
  /\ pc \in {"run", "mark", "finalize", "finalizer", "remark", "sweep", "swept", "aborted"}
  /\ finalizing \in ObjectOrNone

\* The start block is about to run.
Init ==
  /\ heap = <<>>
  /\ field = [o \in Objects |-> None]
  /\ marked = {} /\ destroyed = {} /\ destroying = {} /\ constructing = {}
  /\ destroyStack = <<>> /\ constructionStack = <<>>
  /\ stack = <<Call(None)>>
  /\ pc = "run"
  /\ worklist = <<>> /\ todo = {} /\ finalizing = None
  /\ reached = {} /\ lost = {}

----------------------------------------------------------------------------
(* Generated code: the innermost activation is a method body, or the body, *)
(* the except clause or the cleanup of a try statement of such a method.   *)

Running == pc = "run" /\ Top.kind \in {"call", "try"}
\* An expression may also be an argument of a constructor.
Evaluating == Running \/ (pc = "run" /\ Top.kind = "construct" /\ ~Top.called)

\* The method that the innermost activation belongs to.
Method == LET i == CHOOSE i \in 1..Len(stack) :
                     /\ stack[i].kind = "call"
                     /\ \A j \in i + 1..Len(stack) : stack[j].kind # "call"
          IN  i
Locals == {stack[Method].this, stack[Method].slot}
SetLocal(o) == [stack EXCEPT ![Method].slot = o]

\* local = null, local = this, or local = x.field.
load(o) ==
  /\ Running
  /\ o \in {None, stack[Method].this} \cup {field[x] : x \in {y \in Locals : Alive(y)}}
  /\ o = None \/ Alive(o)
  /\ stack' = SetLocal(o)
  /\ UNCHANGED <<heap, field, destroyed, pc, gcVars, unwindVars>>

\* x.field = y
store(x, y) ==
  /\ Running
  /\ x \in Locals /\ Alive(x)
  /\ y \in Locals \cup {None} /\ (y = None \/ Alive(y))
  /\ field' = [field EXCEPT ![x] = y]
  /\ UNCHANGED <<heap, destroyed, stack, pc, gcVars, unwindVars>>

call(o) ==
  /\ Evaluating /\ Len(stack) < MaxDepth
  /\ o \in Locals /\ Alive(o)
  /\ stack' = Append(stack, Call(o))
  /\ UNCHANGED <<heap, field, destroyed, pc, gcVars, unwindVars>>

\* A method body ends.  Below it is its caller, a constructor expression or
\* the finalizer function.
return ==
  /\ pc = "run" /\ Top.kind = "call" /\ Len(stack) > 1
  /\ stack' = Front(stack)
  /\ UNCHANGED <<heap, field, destroyed, pc, gcVars, unwindVars>>

----------------------------------------------------------------------------
(* Constructor expressions.  The object was allocated by gc_alloc_construct. *)

\* A node that is destroyed or under construction aborts.
begin_construction(o) ==
  /\ o \notin destroyed \cup constructing
  /\ constructing' = constructing \cup {o}
  /\ constructionStack' = Append(constructionStack, o)

\* The arguments are evaluated: call the constructor.
constructor_call ==
  /\ pc = "run" /\ Top.kind = "construct" /\ ~Top.called
  /\ Len(stack) < MaxDepth
  /\ stack' = Append(WithTop([Top EXCEPT !.called = TRUE]), Call(Top.this))
  /\ UNCHANGED <<heap, field, destroyed, pc, gcVars, unwindVars>>

\* The value of the expression is the object, kept in a local variable.
\* Aborts unless the object is the innermost one under construction.
end_construction ==
  /\ pc = "run" /\ Top.kind = "construct" /\ Top.called
  /\ constructing' = constructing \ {Top.this}
  /\ constructionStack' = Front(constructionStack)
  /\ pc' = IF constructionStack # <<>> /\ Last(constructionStack) = Top.this
             THEN pc ELSE "aborted"
  /\ stack' = Front(SetLocal(Top.this))
  /\ UNCHANGED <<heap, field, destroyed, gcVars, destroying, destroyStack>>

----------------------------------------------------------------------------
(* Exceptions: raise_exception and the handlers the compiler emits.        *)

\* The activations that have an exception frame pushed.
Handlers == {i \in 1..Len(stack) :
               \/ stack[i].kind = "destroy"
               \/ stack[i].kind = "try" /\ stack[i].mode \in {"body", "except"}}

\* The activation at i after exception e has arrived.  A try body goes to a
\* matching except clause, or to the cleanup when none matches; an except
\* clause goes to the cleanup; a destructor body keeps the first exception.
Caught(i, e) ==
  LET a == stack[i] IN
  CASE a.kind = "destroy" -> {[a EXCEPT !.first = IF @ = None THEN e ELSE @]}
    [] a.kind = "try" /\ a.mode = "body" ->
         {[a EXCEPT !.slot = e, !.mode = m] : m \in {"except", "cleanup"}}
    [] OTHER -> {[a EXCEPT !.slot = e, !.mode = "cleanup"]}

\* Mutant: destructions that the exception leaves stay on destroy_stack.
raise_exception_keep(e, n) ==
  LET live == {i \in Handlers : i <= n} IN
  IF live = {}
    THEN pc' = "aborted" /\ UNCHANGED <<stack, destroyed, unwindVars>>
    ELSE LET h == CHOOSE i \in live : \A j \in live : j <= i
             keepC == SubSeq(constructionStack, 1, stack[h].constructions)
             unwoundC == ToSet(constructionStack) \ ToSet(keepC)
         IN  /\ \E a \in Caught(h, e) : stack' = Append(SubSeq(stack, 1, h - 1), a)
             /\ constructionStack' = keepC
             /\ constructing' = constructing \ unwoundC
             /\ destroyed' = destroyed \cup unwoundC
             /\ UNCHANGED <<pc, destroyStack, destroying>>

\* Unwind to the innermost handler in activations 1..n; abort if there is none.
raise_exception(e, n) ==
  LET live == {i \in Handlers : i <= n} IN
  IF live = {}
    THEN pc' = "aborted" /\ UNCHANGED <<stack, destroyed, unwindVars>>
    ELSE LET h == CHOOSE i \in live : \A j \in live : j <= i
             keepD == SubSeq(destroyStack, 1, stack[h].destroys)
             keepC == SubSeq(constructionStack, 1, stack[h].constructions)
             unwoundC == ToSet(constructionStack) \ ToSet(keepC)
         IN  /\ \E a \in Caught(h, e) : stack' = Append(SubSeq(stack, 1, h - 1), a)
             /\ destroyStack' = keepD
             /\ destroying' = destroying \ (ToSet(destroyStack) \ ToSet(keepD))
             /\ constructionStack' = keepC
             /\ constructing' = constructing \ unwoundC
             /\ destroyed' = destroyed \cup unwoundC
             /\ pc' = pc

\* raise statement, or the runtime raises an exception it has just made.
raise(e) ==
  /\ Evaluating
  /\ e \in Locals /\ Alive(e)
  /\ raise_exception(e, Len(stack))
  /\ UNCHANGED <<heap, field, gcVars>>

try_enter ==
  /\ Running /\ Len(stack) < MaxDepth
  /\ stack' = Append(stack, Try)
  /\ UNCHANGED <<heap, field, destroyed, pc, gcVars, unwindVars>>

\* The body or the except clause ends: pop its frame, forget the exception.
try_done ==
  /\ pc = "run" /\ Top.kind = "try" /\ Top.mode \in {"body", "except"}
  /\ stack' = WithTop([Top EXCEPT !.mode = "cleanup", !.slot = None])
  /\ UNCHANGED <<heap, field, destroyed, pc, gcVars, unwindVars>>

\* The except clause re-raises the exception it handles.
rethrow ==
  /\ pc = "run" /\ Top.kind = "try" /\ Top.mode = "except"
  /\ raise_exception(Top.slot, Len(stack))
  /\ UNCHANGED <<heap, field, gcVars>>

\* The clauses of a try statement read the class of an exception that has been
\* freed: whatever they make of it (Caught), or a memory fault.
read_freed ==
  /\ pc = "run" /\ Top.kind = "try" /\ Top.slot \in Objects \ Nodes
  /\ pc' = "aborted"
  /\ UNCHANGED <<heap, field, destroyed, stack, gcVars, unwindVars>>

\* The cleanup ends: go on, or pass the pending exception to an outer handler.
cleanup_done ==
  /\ pc = "run" /\ Top.kind = "try" /\ Top.mode = "cleanup"
  /\ IF Top.slot = None
       THEN stack' = Front(stack) /\ UNCHANGED <<pc, destroyed, unwindVars>>
       ELSE raise_exception(Top.slot, Len(stack) - 1)
  /\ UNCHANGED <<heap, field, gcVars>>

----------------------------------------------------------------------------
(* Explicit destruction: o.destroy().                                      *)

begin_destroy(o) ==
  /\ Running /\ Len(stack) + 1 < MaxDepth
  /\ o \in Locals /\ o \in Nodes /\ o \notin destroyed
  /\ destroyed' = destroyed \cup {o}
  /\ destroying' = destroying \cup {o}
  /\ destroyStack' = Append(destroyStack, o)
  /\ stack' = stack \o <<Destroy(o), Call(o)>>
  /\ UNCHANGED <<heap, field, pc, gcVars, constructing, constructionStack>>

\* A body of the chain has ended, normally or not: run the next one.
destroy_next ==
  /\ pc = "run" /\ Top.kind = "destroy" /\ Top.index < ChainLength
  /\ stack' = Append(WithTop([Top EXCEPT !.index = @ + 1]), Call(Top.this))
  /\ UNCHANGED <<heap, field, destroyed, pc, gcVars, unwindVars>>

\* The chain is over: rethrow the first exception, or end_destroy, which
\* aborts unless the object is the innermost one being destroyed.
end_destroy ==
  /\ pc = "run" /\ Top.kind = "destroy" /\ Top.index = ChainLength
  /\ IF Top.first # None
       THEN raise_exception(Top.first, Len(stack) - 1)
       ELSE /\ destroying' = destroying \ {Top.this}
            /\ pc' = IF destroyStack # <<>> /\ Last(destroyStack) = Top.this
                       THEN pc ELSE "aborted"
            /\ destroyStack' = Front(destroyStack)
            /\ stack' = Front(stack)
            /\ UNCHANGED <<destroyed, constructing, constructionStack>>
  /\ UNCHANGED <<heap, field, gcVars>>

----------------------------------------------------------------------------
(* cwhip_gc_alloc: collect, then link a node.                              *)

\* Clear the marks and mark_roots; the found nodes go on the worklist.  A slot
\* that refers to no node is skipped.
mark_roots(label) ==
  /\ marked' = LiveRoots
  /\ worklist' = SetToSeq(LiveRoots)
  /\ pc' = label

gc_collect ==
  /\ Evaluating
  /\ mark_roots("mark")
  /\ UNCHANGED <<heap, field, destroyed, stack, todo, finalizing, histVars, unwindVars>>

\* trace_graph: take a node from the worklist and mark what it refers to.
trace_graph ==
  /\ pc \in {"mark", "remark"} /\ worklist # <<>>
  /\ LET o == field[Last(worklist)] IN
     IF o \in Nodes \ marked
       THEN marked' = marked \cup {o} /\ worklist' = Append(Front(worklist), o)
       ELSE marked' = marked /\ worklist' = Front(worklist)
  /\ UNCHANGED <<heap, field, destroyed, stack, pc, todo, finalizing, histVars, unwindVars>>

mark_done ==
  /\ pc = "mark" /\ worklist = <<>>
  /\ todo' = Nodes
  /\ reached' = marked
  /\ pc' = "finalize"
  /\ UNCHANGED <<heap, field, destroyed, stack, marked, worklist, finalizing, lost, unwindVars>>

\* The loop skips marked and destroyed nodes and finalizes the next one.
finalize ==
  /\ pc = "finalize"
  /\ \E i \in 1..Len(heap) :
       /\ heap[i] \in todo \ (marked \cup destroyed)
       /\ \A j \in 1..i - 1 : heap[j] \notin todo \ (marked \cup destroyed)
       /\ todo' = todo \ {heap[j] : j \in 1..i}
       /\ destroyed' = destroyed \cup {heap[i]}
       /\ destroying' = destroying \cup {heap[i]}
       /\ finalizing' = heap[i]
  /\ pc' = "finalizer"
  /\ UNCHANGED <<heap, field, stack, marked, worklist, histVars, constructing, destroyStack,
                 constructionStack>>

\* What a destructor body can touch: every use is checked for liveness, and
\* an exception in a finalizer ends the process.
Touchable == {o \in Closure({finalizing}) : Alive(o)}

finalizer_store(x, y) ==
  /\ pc = "finalizer"
  /\ x \in Touchable /\ y \in Touchable \cup {None}
  /\ field' = [field EXCEPT ![x] = y]
  /\ UNCHANGED <<heap, destroyed, stack, pc, gcVars, unwindVars>>

\* A destructor destroys another object explicitly.
finalizer_destroy(o) ==
  /\ pc = "finalizer"
  /\ o \in Touchable /\ o \notin destroyed
  /\ destroyed' = destroyed \cup {o}
  /\ UNCHANGED <<heap, field, stack, pc, gcVars, unwindVars>>

\* Mutant: the finalized object is usable again.
finalizer_return_reset ==
  /\ pc = "finalizer"
  /\ destroying' = destroying \ {finalizing}
  /\ destroyed' = destroyed \ {finalizing}
  /\ finalizing' = None
  /\ pc' = "finalize"
  /\ UNCHANGED <<heap, field, stack, marked, worklist, todo, histVars, constructing,
                 destroyStack, constructionStack>>

finalizer_return ==
  /\ pc = "finalizer"
  /\ destroying' = destroying \ {finalizing}
  /\ finalizing' = None
  /\ pc' = "finalize"
  /\ UNCHANGED <<heap, field, destroyed, stack, marked, worklist, todo, histVars, constructing,
                 destroyStack, constructionStack>>

\* A finalizer allocates, or an exception is raised in it.
finalizer_abort ==
  /\ pc = "finalizer"
  /\ pc' = "aborted"
  /\ UNCHANGED <<heap, field, destroyed, stack, gcVars, unwindVars>>

\* Mutant: the finalizer loop ends after the first node.
remark_early ==
  /\ pc = "finalize"
  /\ mark_roots("remark")
  /\ UNCHANGED <<heap, field, destroyed, stack, todo, finalizing, histVars, unwindVars>>

\* Finalizers may have attached dead objects to live ones: mark again.
remark ==
  /\ pc = "finalize" /\ todo \subseteq marked \cup destroyed
  /\ mark_roots("remark")
  /\ UNCHANGED <<heap, field, destroyed, stack, todo, finalizing, histVars, unwindVars>>

remark_done ==
  /\ pc = "remark" /\ worklist = <<>>
  /\ pc' = "sweep"
  /\ UNCHANGED <<heap, field, destroyed, stack, gcVars, unwindVars>>

\* The exceptions that destructor chains will rethrow when they are over.  Their
\* frames are no roots.
Kept == {o \in Objects : \E i \in 1..Len(stack) :
                           stack[i].kind = "destroy" /\ stack[i].first = o}

\* Free what is not marked.
sweep ==
  /\ pc = "sweep"
  /\ heap' = Part(heap, {i \in 1..Len(heap) : heap[i] \in marked})
  /\ field' = [o \in Objects |-> IF o \in marked THEN field[o] ELSE None]
  /\ destroyed' = destroyed \cap marked
  /\ todo' = {} /\ marked' = {} /\ reached' = {}
  /\ lost' = lost \cup (Kept \cap (Nodes \ marked))
  /\ pc' = "swept"
  /\ UNCHANGED <<stack, worklist, finalizing, unwindVars>>

\* Link the new node; generated code roots it at once (rootObjectValue).
gc_alloc(o) ==
  /\ pc = "swept"
  /\ o \notin Nodes
  /\ heap' = <<o>> \o heap
  /\ stack' = SetLocal(o)
  /\ pc' = "run"
  /\ UNCHANGED <<field, destroyed, gcVars, unwindVars>>

\* The same for a class with a constructor, whose construction begins.
gc_alloc_construct(o) ==
  /\ pc = "swept" /\ Len(stack) + 1 < MaxDepth
  /\ o \notin Nodes
  /\ heap' = <<o>> \o heap
  /\ begin_construction(o)
  /\ stack' = Append(stack, Construct(o))
  /\ pc' = "run"
  /\ UNCHANGED <<field, destroyed, gcVars, destroying, destroyStack>>

\* The allocation fails and aborts the process.
alloc_fails ==
  /\ pc = "swept"
  /\ pc' = "aborted"
  /\ UNCHANGED <<heap, field, destroyed, stack, gcVars, unwindVars>>

\* The start block ends, or the process was aborted.
Ended == pc = "aborted" /\ UNCHANGED vars

----------------------------------------------------------------------------
Mutator ==
  \/ \E o \in ObjectOrNone : load(o)
  \/ \E x \in Objects, y \in ObjectOrNone : store(x, y)
  \/ \E o \in Objects : call(o)
  \/ return
  \/ constructor_call \/ end_construction
  \/ \E e \in Objects : raise(e)
  \/ try_enter \/ try_done \/ rethrow \/ read_freed \/ cleanup_done
  \/ \E o \in Objects : begin_destroy(o)
  \/ destroy_next \/ end_destroy

Collector ==
  \/ gc_collect \/ trace_graph \/ mark_done
  \/ finalize
  \/ \E x \in Objects, y \in ObjectOrNone : finalizer_store(x, y)
  \/ \E o \in Objects : finalizer_destroy(o)
  \/ finalizer_return \/ finalizer_abort
  \/ remark \/ remark_done \/ sweep
  \/ \E o \in Objects : gc_alloc(o) \/ gc_alloc_construct(o)
  \/ alloc_fails

Next == Mutator \/ Collector \/ Ended

Spec == Init /\ [][Next]_vars

----------------------------------------------------------------------------
(* Properties.                                                             *)

ObjectsOf(kind) ==
  LET s == Part(stack, {i \in 1..Len(stack) : stack[i].kind = kind})
  IN  [k \in 1..Len(s) |-> s[k].this]

\* No variable of a method, no object under construction or destruction and no
\* field of what is in use refers to freed memory, whatever finalizers and
\* exceptions did.  The one reference that may is a rooted exception that a
\* destructor chain has kept through a collection.
NoDangling ==
  /\ Closure(LiveRoots) \subseteq Nodes
  /\ \A i \in 1..Len(stack) :
       Slots(stack[i]) \subseteq Nodes \cup {None} \cup
                                (IF stack[i].kind = "try" THEN lost ELSE {})
  /\ ToSet(destroyStack) \cup ToSet(constructionStack) \subseteq Nodes

\* Both tracing passes end with exactly the nodes reachable from the roots.
TraceExact == pc = "sweep" => marked = Closure(LiveRoots)

\* destroy_stack and construction_stack name the destructions and constructions
\* in progress, also after an exception has left some of them: the checks of
\* end_destroy and end_construction never fail.
UnwindingExact ==
  pc # "aborted" =>
    /\ destroyStack = ObjectsOf("destroy")
    /\ constructionStack = ObjectsOf("construct")
    /\ destroying = ToSet(destroyStack) \cup ({finalizing} \ {None})
    /\ constructing = ToSet(constructionStack)

\* What no root reached when the collection began is freed only after its
\* destructor has run or its constructor failed, although finalizers change the
\* graph while the list of nodes is walked.
ReclaimedWasDestroyed == pc = "sweep" => Nodes \ marked \subseteq destroyed \cup reached

\* The collector frees exactly the memory that is unreachable after all
\* destructors of the collection have run, and nothing that is in use.
CollectionExact == TypeOK /\ NoDangling /\ TraceExact /\ ReclaimedWasDestroyed

\* Does not hold (CWHIP-LANGUAGE-NOTES.md:1352, "the first exception is propagated
\* only after the chain completes"): the exception that a destructor chain will
\* propagate exists until then.  A later body may allocate, and no root slot
\* holds the exception.
KeptExceptionLives == Kept \subseteq Nodes

\* Does not hold (CWHIP-LANGUAGE-NOTES.md:1329, "If the destructor was not explicitly
\* called, GC finalization is the fallback"): whatever is freed was destroyed.  An
\* object that a finalizer cuts off a live one is freed without its destructor.
FreedWasDestroyed == pc = "sweep" => Nodes \ marked \subseteq destroyed

\* A destroyed object never becomes usable again as long as it is allocated,
\* and no object is freed while its constructor or destructor runs.
DestroyedForever ==
  [][/\ destroyed \cap ToSet(heap') \subseteq destroyed'
     /\ (destroying \cup constructing) \subseteq ToSet(heap')]_vars
=============================================================================
