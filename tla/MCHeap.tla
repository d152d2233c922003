------------------------------- MODULE MCHeap -------------------------------
EXTENDS Heap, TLC

CONSTANT FlatDepth   \* activations at which every graph is explored

\* Addresses are interchangeable.
Symmetry == Permutations(Objects)

\* Unwinding reads no field, so deeper stacks are explored without references
\* between objects and with an address left; collections take place up to one
\* activation deeper than that.  With every graph, a collection below two
\* activations takes place where an object is under construction or destruction:
\* roots are roots, whoever has them.  Once nothing refers to a lost exception,
\* the program is in a state it can also reach without having lost one.
Bounded ==
  /\ \/ /\ Len(stack) <= FlatDepth
        /\ \/ pc = "run" \/ Len(stack) < FlatDepth
           \/ \E i \in 1..Len(stack) : stack[i].kind \in {"construct", "destroy"}
     \/ /\ pc = "run" \/ Len(stack) <= FlatDepth + 1
        /\ Len(heap) < Cardinality(Objects)
        /\ \A o \in Objects : field[o] = None
  /\ lost = {} \/ \E o \in lost \ Nodes : o \in Roots \cup Kept
=============================================================================
