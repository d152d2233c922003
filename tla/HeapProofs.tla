----------------------------- MODULE HeapProofs -----------------------------
(***************************************************************************)
(* Proofs about module Heap, for any finite set of objects, any depth of   *)
(* activations and any length of destructor chains.  The first sections    *)
(* are about sequences of activations alone: what every push, pop and      *)
(* unwinding does to them.  The invariant and the steps follow.            *)
(***************************************************************************)
EXTENDS Heap, FiniteSetTheorems, SequenceTheorems, TLAPS

----------------------------------------------------------------------------
(* Positions in a sequence.                                                *)

\* A set of positions that is not empty has a last one.
LEMMA LastPosition ==
  ASSUME NEW n \in Nat, NEW S \in SUBSET (1..n), S # {}
  PROVE  \E m \in S : \A k \in S : k <= m
<1> DEFINE T == {n - i : i \in S}
<1>1. T \subseteq Nat /\ T # {}
  <2>1. \A i \in S : n - i \in Nat
    OBVIOUS
  <2>2. PICK i \in S : TRUE
    OBVIOUS
  <2>3. n - i \in T
    BY <2>2
  <2> QED
    BY <2>1, <2>3
<1>2. \E x \in T : \A y \in T : ~(<<y, x>> \in OpToRel(<, Nat))
  <2> HIDE DEF T
  <2> QED
    BY <1>1, NatLessThanWellFounded, WFMin, Zenon
<1>3. PICK x \in T : \A y \in T : ~(y < x)
  BY <1>1, <1>2 DEF OpToRel
<1>4. PICK m \in S : x = n - m
  BY <1>3
<1>5. \A k \in S : k <= m
  BY <1>3, <1>4
<1> QED
  BY <1>5

Rank(I, i) == Cardinality({j \in I : j <= i})

\* Ranks number a set of positions from 1 on, without gaps.
LEMMA RankNumbers ==
  ASSUME NEW n \in Nat, NEW I \in SUBSET (1..n)
  PROVE  /\ IsFiniteSet(I) /\ Cardinality(I) \in Nat
         /\ \A i \in I : Rank(I, i) \in 1..Cardinality(I)
         /\ \A i, j \in I : Rank(I, i) = Rank(I, j) => i = j
         /\ \A k \in 1..Cardinality(I) : \E i \in I : Rank(I, i) = k
<1>0. \A i \in I : i \in Nat
  OBVIOUS
<1>1. IsFiniteSet(I) /\ Cardinality(I) \in Nat
  <2>1. IsFiniteSet(1..n)
    BY FS_Interval
  <2>2. IsFiniteSet(I)
    BY <2>1, FS_Subset, Zenon
  <2> QED
    BY <2>2, FS_CardinalityType
<1>2. \A i \in I : IsFiniteSet({j \in I : j <= i}) /\ Rank(I, i) \in Nat
  <2> TAKE i \in I
  <2>1. {j \in I : j <= i} \in SUBSET I
    OBVIOUS
  <2> QED
    BY <1>1, <2>1, FS_Subset, FS_CardinalityType DEF Rank
<1>3. \A i \in I : Rank(I, i) \in 1..Cardinality(I)
  <2> TAKE i \in I
  <2> DEFINE B == {j \in I : j <= i}
  <2>1. B \in SUBSET I /\ i \in B
    OBVIOUS
  <2>2. Cardinality(B) <= Cardinality(I) /\ IsFiniteSet(B)
    BY <1>1, <2>1, FS_Subset
  <2>3. Cardinality(B) # 0
    BY <2>1, <2>2, FS_EmptySet
  <2> QED
    BY <1>1, <1>2, <2>2, <2>3 DEF Rank
<1>4. ASSUME NEW i \in I, NEW j \in I, i < j PROVE Rank(I, i) < Rank(I, j)
  <2> DEFINE A == {k \in I : k <= i}
             B == {k \in I : k <= j}
  <2>0. i \in Nat /\ j \in Nat /\ \A k \in I : k \in Nat
    BY <1>0
  <2>1. A \in SUBSET B /\ j \in B /\ j \notin A
    <3>1. \A k \in I : k <= i => k <= j
      BY <1>4, <2>0
    <3>2. j <= j /\ ~(j <= i)
      BY <1>4, <2>0
    <3> QED
      BY <3>1, <3>2, Zenon
  <2>2. IsFiniteSet(B)
    BY <1>2
  <2>3. Cardinality(A) <= Cardinality(B) /\ Cardinality(B) # Cardinality(A)
    <3> HIDE DEF A, B
    <3> QED
      BY <2>1, <2>2, FS_Subset
  <2>4. Cardinality(A) \in Nat /\ Cardinality(B) \in Nat
    BY <1>2 DEF Rank
  <2> QED
    BY <2>3, <2>4 DEF Rank
<1>5. \A i, j \in I : Rank(I, i) = Rank(I, j) => i = j
  <2> TAKE i, j \in I
  <2>1. i \in Nat /\ j \in Nat /\ Rank(I, i) \in Nat /\ Rank(I, j) \in Nat
    BY <1>0, <1>2
  <2>2. (i < j => Rank(I, i) < Rank(I, j)) /\ (j < i => Rank(I, j) < Rank(I, i))
    BY <1>4
  <2> QED
    BY <2>1, <2>2
<1>6. \A k \in 1..Cardinality(I) : \E i \in I : Rank(I, i) = k
  <2> DEFINE f == [i \in I |-> Rank(I, i)]
  <2>1. f \in Injection(I, 1..Cardinality(I))
    BY <1>3, <1>5 DEF Injection, IsInjective
  <2>2. IsFiniteSet(1..Cardinality(I)) /\ Cardinality(1..Cardinality(I)) = Cardinality(I)
    BY <1>1, FS_Interval
  <2>3. f \in Surjection(I, 1..Cardinality(I))
    BY <2>1, <2>2, FS_Injection
  <2> QED
    BY <2>3 DEF Surjection
<1> QED
  BY <1>1, <1>3, <1>5, <1>6

\* Nth is the inverse of the rank.
LEMMA NthOfRank ==
  ASSUME NEW n \in Nat, NEW I \in SUBSET (1..n)
  PROVE  /\ \A k \in 1..Cardinality(I) : Nth(I, k) \in I /\ Rank(I, Nth(I, k)) = k
         /\ \A i \in I : Nth(I, Rank(I, i)) = i
<1>1. /\ \A i \in I : Rank(I, i) \in 1..Cardinality(I)
      /\ \A i, j \in I : Rank(I, i) = Rank(I, j) => i = j
      /\ \A k \in 1..Cardinality(I) : \E i \in I : Rank(I, i) = k
  BY RankNumbers, Zenon
<1>2. \A k : Nth(I, k) = CHOOSE i \in I : Rank(I, i) = k
  BY DEF Nth, Rank
<1>3. \A k \in 1..Cardinality(I) : Nth(I, k) \in I /\ Rank(I, Nth(I, k)) = k
  BY <1>1, <1>2
<1>4. \A i \in I : Nth(I, Rank(I, i)) = i
  <2> TAKE i \in I
  <2>1. Rank(I, i) \in 1..Cardinality(I)
    BY <1>1
  <2>2. Nth(I, Rank(I, i)) \in I /\ Rank(I, Nth(I, Rank(I, i))) = Rank(I, i)
    BY <1>3, <2>1, Zenon
  <2> QED
    BY <1>1, <2>2, Zenon
<1> QED
  BY <1>3, <1>4

\* A part of a sequence is a sequence, and holds the elements at its positions.
LEMMA PartProperties ==
  ASSUME NEW S, NEW s \in Seq(S), NEW I \in SUBSET (1..Len(s))
  PROVE  /\ Part(s, I) \in Seq(S)
         /\ Len(Part(s, I)) = Cardinality(I)
         /\ \A k \in 1..Cardinality(I) : Nth(I, k) \in I /\ Part(s, I)[k] = s[Nth(I, k)]
         /\ ToSet(Part(s, I)) = {s[i] : i \in I}
<1>1. Len(s) \in Nat /\ \A i \in 1..Len(s) : s[i] \in S
  OBVIOUS
<1>2. /\ Cardinality(I) \in Nat
      /\ \A k \in 1..Cardinality(I) : Nth(I, k) \in I
      /\ \A i \in I : Rank(I, i) \in 1..Cardinality(I) /\ Nth(I, Rank(I, i)) = i
  <2> DEFINE n == Len(s)
  <2>1. n \in Nat /\ I \in SUBSET (1..n)
    BY <1>1
  <2> HIDE DEF n
  <2> QED
    BY <2>1, RankNumbers, NthOfRank, Zenon
<1>3. \A k \in 1..Cardinality(I) : Part(s, I)[k] = s[Nth(I, k)]
  BY DEF Part
<1>4. Part(s, I) \in [1..Cardinality(I) -> S]
  BY <1>1, <1>2 DEF Part
<1>5. Part(s, I) \in Seq(S) /\ Len(Part(s, I)) = Cardinality(I)
  BY <1>2, <1>4
<1>6. ToSet(Part(s, I)) = {Part(s, I)[k] : k \in 1..Cardinality(I)}
  BY <1>5 DEF ToSet
<1>7. {Part(s, I)[k] : k \in 1..Cardinality(I)} = {s[i] : i \in I}
  <2>1. \A k \in 1..Cardinality(I) : Part(s, I)[k] \in {s[i] : i \in I}
    BY <1>2, <1>3, Zenon
  <2>2. ASSUME NEW i \in I PROVE s[i] \in {Part(s, I)[k] : k \in 1..Cardinality(I)}
    <3>1. Rank(I, i) \in 1..Cardinality(I) /\ Part(s, I)[Rank(I, i)] = s[i]
      <4>1. Rank(I, i) \in 1..Cardinality(I) /\ Nth(I, Rank(I, i)) = i
        BY <1>2
      <4>2. Part(s, I)[Rank(I, i)] = s[Nth(I, Rank(I, i))]
        BY <1>3, <4>1, Zenon
      <4> QED
        BY <4>1, <4>2
    <3> QED
      BY <3>1, Zenon
  <2> QED
    BY <2>1, <2>2, Zenon
<1> QED
  BY <1>2, <1>3, <1>5, <1>6, <1>7

----------------------------------------------------------------------------
(* Counting activations.                                                   *)

Calls == [kind : {"call"}, this : ObjectOrNone, slot : ObjectOrNone]
Tries == [kind : {"try"}, mode : {"body", "except", "cleanup"}, slot : ObjectOrNone,
          destroys : Nat, constructions : Nat]
Constructs == [kind : {"construct"}, this : Objects, called : BOOLEAN]
Destroys == [kind : {"destroy"}, this : Objects, index : Nat, first : ObjectOrNone,
             destroys : Nat, constructions : Nat]
Activations == Calls \cup Tries \cup Constructs \cup Destroys

\* The kind tells which record an activation is.
LEMMA ActivationKinds ==
  ASSUME NEW a \in Activations
  PROVE  /\ a.kind = "call" => a \in Calls
         /\ a.kind = "try" => a \in Tries
         /\ a.kind = "construct" => a \in Constructs
         /\ a.kind = "destroy" => a \in Destroys
         /\ a.kind \in {"call", "try", "construct", "destroy"}
  BY DEF Activations, Calls, Tries, Constructs, Destroys

\* How many of the activations 1..i are of kind k.
CountOf(s, k, i) == Cardinality({j \in 1..i : s[j].kind = k})

\* A count is a natural number, it starts at 0, and every activation of the
\* kind adds one.
LEMMA CountSteps ==
  ASSUME NEW s, NEW k, NEW i \in Nat
  PROVE  /\ CountOf(s, k, 0) = 0
         /\ CountOf(s, k, i) \in Nat
         /\ s[i + 1].kind = k => CountOf(s, k, i + 1) = CountOf(s, k, i) + 1
         /\ s[i + 1].kind # k => CountOf(s, k, i + 1) = CountOf(s, k, i)
<1> DEFINE C(n) == {j \in 1..n : s[j].kind = k}
<1>1. \A n \in Nat : IsFiniteSet(C(n)) /\ Cardinality(C(n)) \in Nat
  <2> TAKE n \in Nat
  <2>1. IsFiniteSet(1..n) /\ C(n) \in SUBSET (1..n)
    BY FS_Interval
  <2> QED
    BY <2>1, FS_Subset, FS_CardinalityType
<1>2. C(0) = {}
  OBVIOUS
<1>3. i + 1 \notin C(i) /\ 1..i + 1 = (1..i) \cup {i + 1}
  OBVIOUS
<1>4. s[i + 1].kind = k => C(i + 1) = C(i) \cup {i + 1}
  BY <1>3
<1>5. s[i + 1].kind # k => C(i + 1) = C(i)
  BY <1>3
<1>6. s[i + 1].kind = k => Cardinality(C(i + 1)) = Cardinality(C(i)) + 1
  <2> HIDE DEF C
  <2>1. IsFiniteSet(C(i))
    BY <1>1
  <2> QED
    BY <1>3, <1>4, <2>1, FS_AddElement
<1>7. Cardinality(C(0)) = 0
  BY <1>2, FS_EmptySet
<1> QED
  BY <1>1, <1>5, <1>6, <1>7 DEF CountOf

\* A count depends on the kinds alone.
LEMMA CountOfSameKinds ==
  ASSUME NEW s, NEW t, NEW k, NEW i \in Nat, \A j \in 1..i : s[j].kind = t[j].kind
  PROVE  CountOf(s, k, i) = CountOf(t, k, i)
<1>1. {j \in 1..i : s[j].kind = k} = {j \in 1..i : t[j].kind = k}
  OBVIOUS
<1> QED
  BY <1>1 DEF CountOf

\* A later position has a count that is not smaller, and a larger one if the
\* activation there is of the kind.
LEMMA CountGrows ==
  ASSUME NEW s, NEW k, NEW i \in Nat, NEW j \in Nat, i <= j
  PROVE  /\ CountOf(s, k, i) \in Nat /\ CountOf(s, k, j) \in Nat
         /\ CountOf(s, k, i) <= CountOf(s, k, j)
         /\ i < j /\ s[j].kind = k => CountOf(s, k, i) < CountOf(s, k, j)
<1> DEFINE A == {n \in 1..i : s[n].kind = k}
           B == {n \in 1..j : s[n].kind = k}
<1>1. A \in SUBSET B
  OBVIOUS
<1>2. IsFiniteSet(B)
  <2>1. IsFiniteSet(1..j) /\ B \in SUBSET (1..j)
    BY FS_Interval
  <2> QED
    BY <2>1, FS_Subset
<1>3. i < j /\ s[j].kind = k => j \in B /\ j \notin A
  OBVIOUS
<1>4. CountOf(s, k, i) = Cardinality(A) /\ CountOf(s, k, j) = Cardinality(B)
  BY DEF CountOf
<1>5. CountOf(s, k, i) \in Nat /\ CountOf(s, k, j) \in Nat
  BY CountSteps
<1> HIDE DEF A, B
<1>6. Cardinality(A) <= Cardinality(B) /\ (Cardinality(B) = Cardinality(A) => B = A)
  BY <1>1, <1>2, FS_Subset
<1> QED
  BY <1>3, <1>4, <1>5, <1>6

----------------------------------------------------------------------------
(* A stack of objects that follows the activations of one kind.            *)

\* q holds, in their order, the objects of the activations of kind k.
Tracks(s, q, k) ==
  /\ q \in Seq(Objects)
  /\ Len(q) = CountOf(s, k, Len(s))
  /\ \A i \in 1..Len(s) : s[i].kind = k => q[CountOf(s, k, i)] = s[i].this

\* What an activation with a handler saved are the counts at its position.
Saved(s) ==
  \A i \in 1..Len(s) : s[i].kind \in {"try", "destroy"} =>
    /\ s[i].destroys = CountOf(s, "destroy", i)
    /\ s[i].constructions = CountOf(s, "construct", i)

\* The activations of a kind are in a place of q, and q has no other places.
LEMMA TracksPlaces ==
  ASSUME NEW s \in Seq(Activations), NEW q, NEW k, Tracks(s, q, k)
  PROVE  /\ \A i \in 1..Len(s) : s[i].kind = k => CountOf(s, k, i) \in 1..Len(q)
         /\ \A x \in ToSet(q) : \E i \in 1..Len(s) : s[i].kind = k /\ x = s[i].this
<1> DEFINE I == {j \in 1..Len(s) : s[j].kind = k}
<1>1. Len(s) \in Nat /\ I \in SUBSET (1..Len(s)) /\ Cardinality(I) = CountOf(s, k, Len(s))
  BY DEF CountOf
<1>2. ASSUME NEW i \in I PROVE Rank(I, i) = CountOf(s, k, i)
  <2>1. {j \in I : j <= i} = {j \in 1..i : s[j].kind = k}
    BY <1>1
  <2> QED
    BY <2>1 DEF Rank, CountOf
<1>3. Len(q) = Cardinality(I) /\ q \in Seq(Objects) /\ Len(q) \in Nat
  BY <1>1 DEF Tracks
<1>4. \A i \in I : q[CountOf(s, k, i)] = s[i].this
  BY DEF Tracks
<1> HIDE DEF I
<1>5. /\ \A i \in I : Rank(I, i) \in 1..Cardinality(I)
      /\ \A n \in 1..Cardinality(I) : Nth(I, n) \in I /\ Rank(I, Nth(I, n)) = n
  <2> DEFINE m == Len(s)
  <2>1. m \in Nat /\ I \in SUBSET (1..m)
    BY <1>1
  <2> HIDE DEF m
  <2> QED
    BY <2>1, RankNumbers, NthOfRank, Zenon
<1>7. \A n \in 1..Len(q) : Nth(I, n) \in I /\ q[n] = s[Nth(I, n)].this
  <2> TAKE n \in 1..Len(q)
  <2>1. Nth(I, n) \in I /\ Rank(I, Nth(I, n)) = n
    BY <1>3, <1>5
  <2>2. CountOf(s, k, Nth(I, n)) = n
    BY <1>2, <2>1
  <2> QED
    BY <1>4, <2>1, <2>2
<1>8. \A i \in I : CountOf(s, k, i) \in 1..Len(q)
  BY <1>2, <1>3, <1>5
<1>9. ASSUME NEW x \in ToSet(q) PROVE \E i \in I : x = s[i].this
  <2>1. PICK n \in 1..Len(q) : x = q[n]
    BY <1>3 DEF ToSet
  <2> QED
    BY <1>7, <2>1
<1> QED
  BY <1>8, <1>9 DEF I

\* q is what ObjectsOf computes from the activations.
LEMMA TracksObjects ==
  ASSUME NEW s \in Seq(Activations), NEW q, NEW k, Tracks(s, q, k)
  PROVE  LET P == Part(s, {j \in 1..Len(s) : s[j].kind = k})
         IN  q = [n \in 1..Len(P) |-> P[n].this]
<1> DEFINE I == {j \in 1..Len(s) : s[j].kind = k}
           P == Part(s, I)
<1>1. Len(s) \in Nat /\ I \in SUBSET (1..Len(s)) /\ Cardinality(I) = CountOf(s, k, Len(s))
  BY DEF CountOf
<1>2. ASSUME NEW i \in I PROVE Rank(I, i) = CountOf(s, k, i)
  <2>1. {j \in I : j <= i} = {j \in 1..i : s[j].kind = k}
    BY <1>1
  <2> QED
    BY <2>1 DEF Rank, CountOf
<1>3. Len(q) = Cardinality(I) /\ q \in Seq(Objects) /\ Len(q) \in Nat
  BY <1>1 DEF Tracks
<1>4. \A i \in I : q[CountOf(s, k, i)] = s[i].this
  BY DEF Tracks
<1> HIDE DEF I
<1>5. /\ \A i \in I : Rank(I, i) \in 1..Cardinality(I)
      /\ \A n \in 1..Cardinality(I) : Nth(I, n) \in I /\ Rank(I, Nth(I, n)) = n
  <2> DEFINE m == Len(s)
  <2>1. m \in Nat /\ I \in SUBSET (1..m)
    BY <1>1
  <2> HIDE DEF m
  <2> QED
    BY <2>1, RankNumbers, NthOfRank, Zenon
<1>6. /\ Len(P) = Cardinality(I)
      /\ \A n \in 1..Cardinality(I) : P[n] = s[Nth(I, n)]
  BY <1>1, PartProperties
<1>7. \A n \in 1..Len(q) : Nth(I, n) \in I /\ q[n] = s[Nth(I, n)].this
  <2> TAKE n \in 1..Len(q)
  <2>1. Nth(I, n) \in I /\ Rank(I, Nth(I, n)) = n
    BY <1>3, <1>5
  <2>2. CountOf(s, k, Nth(I, n)) = n
    BY <1>2, <2>1
  <2> QED
    BY <1>4, <2>1, <2>2
<1>10. q = [n \in 1..Len(P) |-> P[n].this]
  <2>1. \A n \in 1..Len(P) : q[n] = P[n].this
    BY <1>3, <1>6, <1>7
  <2>2. q = [n \in 1..Len(q) |-> q[n]]
    BY <1>3
  <2> QED
    BY <1>3, <1>6, <2>1, <2>2
<1> QED
  BY <1>10 DEF I

----------------------------------------------------------------------------
(* Sound stacks of activations, and what keeps them sound.                 *)

\* The objects an activation must find allocated.
Held(a) == IF a.kind = "destroy" THEN {a.this}
           ELSE IF a.kind = "try" THEN {} ELSE Slots(a)

\* The exception that a try statement handles, or that a destructor chain keeps.
Exception(a) == IF a.kind = "destroy" THEN {a.first}
                ELSE IF a.kind = "try" THEN {a.slot} ELSE {}

\* What activation a refers to is among the nodes N; an exception may be lost.
Holds(a, N, L) == /\ Held(a) \subseteq N \cup {None}
                  /\ Exception(a) \subseteq N \cup L \cup {None}

\* What that means for each kind of activation.
LEMMA HoldsKinds ==
  ASSUME NEW a, NEW N, NEW L
  PROVE  /\ a.kind = "call" => (Holds(a, N, L) <=> a.this \in N \cup {None} /\ a.slot \in N \cup {None})
         /\ a.kind = "try" => (Holds(a, N, L) <=> a.slot \in N \cup L \cup {None})
         /\ a.kind = "construct" => (Holds(a, N, L) <=> a.this \in N \cup {None})
         /\ a.kind = "destroy" =>
              (Holds(a, N, L) <=> a.this \in N \cup {None} /\ a.first \in N \cup L \cup {None})
  BY DEF Holds, Held, Exception, Slots

\* The body of a destructor chain roots the object that is destroyed.
Chained(s) ==
  \A i \in 1..Len(s) - 1 : s[i].kind = "destroy" =>
    s[i + 1].kind = "call" /\ s[i + 1].this = s[i].this

\* The activations s of a program with nodes N, lost exceptions L, destroy_stack
\* d and construction_stack c.
Sound(s, N, L, d, c) ==
  /\ s \in Seq(Activations) /\ Len(s) \in Nat \ {0} /\ s[1].kind = "call"
  /\ \A i \in 1..Len(s) : Holds(s[i], N, L)
  /\ Chained(s)
  /\ Tracks(s, d, "destroy") /\ Tracks(s, c, "construct")
  /\ Saved(s)

\* t is s with a added at the end.
IsPush(t, s, a) ==
  Len(t) = Len(s) + 1 /\ t[Len(s) + 1] = a /\ \A i \in 1..Len(s) : t[i] = s[i]

\* Append adds its element at the end.
LEMMA AppendIsPush ==
  ASSUME NEW S, NEW s \in Seq(S), NEW a \in S
  PROVE  Append(s, a) \in Seq(S) /\ IsPush(Append(s, a), s, a)
  BY AppendProperties DEF IsPush

\* r follows q when activation a is pushed.
Follows(r, q, a, k) ==
  /\ r \in Seq(Objects)
  /\ a.kind = k => IsPush(r, q, a.this)
  /\ a.kind # k => r = q

\* A pushed activation is counted where its kind is.
LEMMA TracksPush ==
  ASSUME NEW s \in Seq(Activations), NEW q, NEW k, Tracks(s, q, k),
         NEW a, NEW t \in Seq(Activations), IsPush(t, s, a),
         NEW r, Follows(r, q, a, k)
  PROVE  /\ Tracks(t, r, k)
         /\ \A i \in 1..Len(s) : CountOf(t, k, i) = CountOf(s, k, i)
         /\ CountOf(t, k, Len(s) + 1) = Len(r)
<1>0. r \in Seq(Objects) /\ (a.kind = k => IsPush(r, q, a.this)) /\ (a.kind # k => r = q)
  BY DEF Follows
<1>1. /\ Len(s) \in Nat /\ Len(t) = Len(s) + 1
      /\ \A i \in 1..Len(s) : t[i] = s[i]
      /\ t[Len(s) + 1] = a
  BY DEF IsPush
<1>2. \A i \in 0..Len(s) : CountOf(t, k, i) = CountOf(s, k, i)
  <2> TAKE i \in 0..Len(s)
  <2>1. i \in Nat /\ \A j \in 1..i : t[j].kind = s[j].kind
    BY <1>1
  <2> QED
    BY <2>1, CountOfSameKinds
<1>3. q \in Seq(Objects) /\ Len(q) \in Nat /\ Len(q) = CountOf(t, k, Len(s))
  BY <1>1, <1>2 DEF Tracks
<1>4. /\ a.kind = k => CountOf(t, k, Len(s) + 1) = Len(q) + 1
      /\ a.kind # k => CountOf(t, k, Len(s) + 1) = Len(q)
  BY <1>1, <1>3, CountSteps
<1>5. r \in Seq(Objects) /\ Len(r) = CountOf(t, k, Len(s) + 1)
  <2>1. CASE a.kind = k
    BY <1>0, <1>3, <1>4, <2>1 DEF IsPush
  <2>2. CASE a.kind # k
    BY <1>0, <1>3, <1>4, <2>2
  <2> QED
    BY <2>1, <2>2
<1>6. ASSUME NEW i \in 1..Len(t), t[i].kind = k PROVE r[CountOf(t, k, i)] = t[i].this
  <2>1. CASE i = Len(s) + 1
    BY <1>0, <1>1, <1>3, <1>4, <1>6, <2>1 DEF IsPush
  <2>2. CASE i # Len(s) + 1
    <3>1. i \in 1..Len(s) /\ s[i].kind = k
      BY <1>1, <1>6, <2>2
    <3>2. q[CountOf(s, k, i)] = s[i].this /\ CountOf(s, k, i) \in 1..Len(q)
      BY <3>1, TracksPlaces DEF Tracks
    <3>3. r[CountOf(s, k, i)] = q[CountOf(s, k, i)]
      BY <1>0, <1>3, <3>2 DEF IsPush
    <3> QED
      BY <1>1, <1>2, <3>1, <3>2, <3>3
  <2> QED
    BY <2>1, <2>2
<1>7. \A i \in 1..Len(s) : CountOf(t, k, i) = CountOf(s, k, i)
  BY <1>2
<1> QED
  BY <1>1, <1>5, <1>6, <1>7 DEF Tracks

\* A call, a try statement, a constructor expression or a destructor chain begins.
LEMMA PushSound ==
  ASSUME NEW s, NEW N, NEW L, NEW d, NEW c, Sound(s, N, L, d, c),
         NEW a \in Activations, Holds(a, N, L),
         s[Len(s)].kind = "destroy" => a.kind = "call" /\ a.this = s[Len(s)].this,
         NEW d2, a.kind = "destroy" => d2 = Append(d, a.this), a.kind # "destroy" => d2 = d,
         NEW c2, a.kind = "construct" => c2 = Append(c, a.this), a.kind # "construct" => c2 = c,
         a.kind \in {"try", "destroy"} => a.destroys = Len(d2) /\ a.constructions = Len(c2)
  PROVE  Sound(Append(s, a), N, L, d2, c2)
<1> DEFINE t == Append(s, a)
<1>1. /\ s \in Seq(Activations) /\ Len(s) \in Nat \ {0}
      /\ t \in Seq(Activations) /\ Len(t) = Len(s) + 1
      /\ \A i \in 1..Len(s) : t[i] = s[i]
      /\ t[Len(s) + 1] = a
      /\ IsPush(t, s, a)
  BY AppendProperties DEF Sound, IsPush
<1>2. a.kind \in {"construct", "destroy"} => a.this \in Objects
  BY ActivationKinds DEF Constructs, Destroys
<1>3. /\ Tracks(t, d2, "destroy")
      /\ \A i \in 1..Len(s) : CountOf(t, "destroy", i) = CountOf(s, "destroy", i)
      /\ CountOf(t, "destroy", Len(s) + 1) = Len(d2)
  <2>1. Tracks(s, d, "destroy") /\ d \in Seq(Objects)
    BY DEF Sound, Tracks
  <2>2. Follows(d2, d, a, "destroy")
    BY <1>2, <2>1, AppendIsPush DEF Follows
  <2>3. s \in Seq(Activations) /\ t \in Seq(Activations) /\ IsPush(t, s, a)
    BY <1>1
  <2> HIDE DEF t
  <2> QED
    BY <2>1, <2>2, <2>3, TracksPush
<1>4. /\ Tracks(t, c2, "construct")
      /\ \A i \in 1..Len(s) : CountOf(t, "construct", i) = CountOf(s, "construct", i)
      /\ CountOf(t, "construct", Len(s) + 1) = Len(c2)
  <2>1. Tracks(s, c, "construct") /\ c \in Seq(Objects)
    BY DEF Sound, Tracks
  <2>2. Follows(c2, c, a, "construct")
    BY <1>2, <2>1, AppendIsPush DEF Follows
  <2>3. s \in Seq(Activations) /\ t \in Seq(Activations) /\ IsPush(t, s, a)
    BY <1>1
  <2> HIDE DEF t
  <2> QED
    BY <2>1, <2>2, <2>3, TracksPush
<1> HIDE DEF t
<1>5. \A i \in 1..Len(t) : i \in 1..Len(s) \/ i = Len(s) + 1
  BY <1>1
<1>6. Saved(t)
  <2> SUFFICES ASSUME NEW i \in 1..Len(t), t[i].kind \in {"try", "destroy"}
               PROVE  /\ t[i].destroys = CountOf(t, "destroy", i)
                      /\ t[i].constructions = CountOf(t, "construct", i)
    BY DEF Saved
  <2>1. CASE i \in 1..Len(s)
    BY <1>1, <1>3, <1>4, <2>1 DEF Sound, Saved
  <2>2. CASE i = Len(s) + 1
    BY <1>1, <1>3, <1>4, <2>2
  <2> QED
    BY <1>5, <2>1, <2>2
<1>7. \A i \in 1..Len(t) : Holds(t[i], N, L)
  BY <1>1, <1>5 DEF Sound
<1>8. Chained(t)
  <2> SUFFICES ASSUME NEW i \in 1..Len(t) - 1, t[i].kind = "destroy"
               PROVE  t[i + 1].kind = "call" /\ t[i + 1].this = t[i].this
    BY DEF Chained
  <2>1. CASE i = Len(s)
    BY <1>1, <2>1
  <2>2. CASE i # Len(s)
    <3>1. i \in 1..Len(s) - 1 /\ i \in 1..Len(s) /\ i + 1 \in 1..Len(s)
      BY <1>1, <2>2
    <3> QED
      BY <1>1, <3>1 DEF Sound, Chained
  <2> QED
    BY <2>1, <2>2
<1>9. t[1].kind = "call" /\ Len(t) \in Nat \ {0}
  BY <1>1 DEF Sound
<1> QED
  BY <1>1, <1>3, <1>4, <1>6, <1>7, <1>8, <1>9 DEF Sound, t

\* t has the activations 1..n of s, up to their variables and modes.
Agrees(t, s, n) ==
  /\ t \in Seq(Activations) /\ Len(t) = n
  /\ \A i \in 1..n : /\ t[i].kind = s[i].kind
                     /\ t[i].kind # "try" => t[i].this = s[i].this
                     /\ t[i].kind \in {"try", "destroy"} =>
                          /\ t[i].destroys = s[i].destroys
                          /\ t[i].constructions = s[i].constructions

\* The stack of objects is cut where the activations are.
LEMMA TracksCut ==
  ASSUME NEW s \in Seq(Activations), NEW q, NEW k, k # "try", Tracks(s, q, k),
         NEW n \in 1..Len(s), NEW t, Agrees(t, s, n)
  PROVE  /\ Tracks(t, SubSeq(q, 1, CountOf(s, k, n)), k)
         /\ \A i \in 1..n : CountOf(t, k, i) = CountOf(s, k, i)
         /\ CountOf(s, k, n) \in 0..Len(q)
<1> DEFINE r == SubSeq(q, 1, CountOf(s, k, n))
<1>1. /\ Len(s) \in Nat /\ n \in Nat /\ n <= Len(s)
      /\ t \in Seq(Activations) /\ Len(t) = n
      /\ \A i \in 1..n : t[i].kind = s[i].kind
      /\ \A i \in 1..n : t[i].kind = k => t[i].this = s[i].this
  BY DEF Agrees
<1>2. \A i \in 0..n : CountOf(t, k, i) = CountOf(s, k, i)
  <2> TAKE i \in 0..n
  <2>1. i \in Nat /\ \A j \in 1..i : t[j].kind = s[j].kind
    BY <1>1
  <2> QED
    BY <2>1, CountOfSameKinds
<1>3. q \in Seq(Objects) /\ Len(q) = CountOf(s, k, Len(s)) /\ Len(q) \in Nat
  BY DEF Tracks
<1>4. CountOf(s, k, n) \in 0..Len(q)
  <2>1. CountOf(s, k, n) \in Nat /\ CountOf(s, k, n) <= CountOf(s, k, Len(s))
    BY <1>1, CountGrows
  <2> QED
    BY <1>3, <2>1
<1>5. /\ r \in Seq(Objects) /\ Len(r) = CountOf(s, k, n)
      /\ \A i \in 1..CountOf(s, k, n) : r[i] = q[i]
  <2> DEFINE m == CountOf(s, k, n)
  <2>1. m \in 0..Len(q)
    BY <1>4
  <2> HIDE DEF m
  <2>2. SubSeq(q, 1, m) \in Seq(Objects) /\ Len(SubSeq(q, 1, m)) = m
    BY <1>3, <2>1, SubSeqProperties
  <2>3. \A i \in 1..m : SubSeq(q, 1, m)[i] = q[i]
    BY <1>3, <2>1, SubSeqProperties
  <2> QED
    BY <2>2, <2>3 DEF m
<1> HIDE DEF r
<1>6. ASSUME NEW i \in 1..n, t[i].kind = k PROVE r[CountOf(t, k, i)] = t[i].this
  <2>1. i \in 1..Len(s) /\ i \in Nat /\ i <= n /\ s[i].kind = k /\ t[i].this = s[i].this
    BY <1>1, <1>6
  <2>2. CountOf(s, k, i) \in 1..Len(q) /\ q[CountOf(s, k, i)] = s[i].this
    BY <2>1, TracksPlaces DEF Tracks
  <2>3. CountOf(s, k, i) <= CountOf(s, k, n)
    BY <1>1, <2>1, CountGrows
  <2>4. CountOf(s, k, i) \in 1..CountOf(s, k, n)
    BY <1>4, <2>2, <2>3
  <2> QED
    BY <1>2, <1>5, <2>1, <2>2, <2>4
<1>7. Tracks(t, r, k)
  BY <1>1, <1>2, <1>5, <1>6 DEF Tracks
<1> QED
  BY <1>2, <1>4, <1>7 DEF r

\* A part of the activations, and those whose variables changed, are sound.
LEMMA AgreeSound ==
  ASSUME NEW s, NEW N, NEW L, NEW d, NEW c, Sound(s, N, L, d, c),
         NEW n \in 1..Len(s), NEW t, Agrees(t, s, n),
         NEW M, NEW K, \A i \in 1..n : Holds(t[i], M, K)
  PROVE  Sound(t, M, K, SubSeq(d, 1, CountOf(s, "destroy", n)),
                     SubSeq(c, 1, CountOf(s, "construct", n)))
<1>1. /\ s \in Seq(Activations) /\ Len(s) \in Nat /\ n \in Nat \ {0} /\ n <= Len(s)
      /\ t \in Seq(Activations) /\ Len(t) = n
  BY DEF Sound, Agrees
<1>2. \A i \in 1..n : /\ i \in 1..Len(s) /\ t[i].kind = s[i].kind
                      /\ t[i].kind # "try" => t[i].this = s[i].this
                      /\ t[i].kind \in {"try", "destroy"} =>
                           /\ t[i].destroys = s[i].destroys
                           /\ t[i].constructions = s[i].constructions
  BY <1>1 DEF Agrees
<1>3. /\ Tracks(t, SubSeq(d, 1, CountOf(s, "destroy", n)), "destroy")
      /\ \A i \in 1..n : CountOf(t, "destroy", i) = CountOf(s, "destroy", i)
  <2>1. Tracks(s, d, "destroy") /\ "destroy" # "try"
    BY DEF Sound
  <2> QED
    BY <1>1, <2>1, TracksCut
<1>4. /\ Tracks(t, SubSeq(c, 1, CountOf(s, "construct", n)), "construct")
      /\ \A i \in 1..n : CountOf(t, "construct", i) = CountOf(s, "construct", i)
  <2>1. Tracks(s, c, "construct") /\ "construct" # "try"
    BY DEF Sound
  <2> QED
    BY <1>1, <2>1, TracksCut
<1>5. Saved(t)
  <2> SUFFICES ASSUME NEW i \in 1..n, t[i].kind \in {"try", "destroy"}
               PROVE  /\ t[i].destroys = CountOf(t, "destroy", i)
                      /\ t[i].constructions = CountOf(t, "construct", i)
    BY <1>1 DEF Saved
  <2>1. s[i].destroys = CountOf(s, "destroy", i) /\ s[i].constructions = CountOf(s, "construct", i)
    BY <1>2 DEF Sound, Saved
  <2> QED
    BY <1>2, <1>3, <1>4, <2>1
<1>6. Chained(t)
  <2> SUFFICES ASSUME NEW i \in 1..n - 1, t[i].kind = "destroy"
               PROVE  t[i + 1].kind = "call" /\ t[i + 1].this = t[i].this
    BY <1>1 DEF Chained
  <2>1. i \in 1..n /\ i + 1 \in 1..n /\ i \in 1..Len(s) - 1
    BY <1>1
  <2>2. s[i].kind = "destroy" /\ t[i].this = s[i].this
    BY <1>2, <2>1
  <2>3. s[i + 1].kind = "call" /\ s[i + 1].this = s[i].this
    BY <2>1, <2>2 DEF Sound, Chained
  <2>4. t[i + 1].kind = s[i + 1].kind /\ (t[i + 1].kind # "try" => t[i + 1].this = s[i + 1].this)
    BY <1>2, <2>1
  <2> QED
    BY <2>2, <2>3, <2>4
<1>7. t[1].kind = "call"
  BY <1>1, <1>2 DEF Sound
<1> QED
  BY <1>1, <1>3, <1>4, <1>5, <1>6, <1>7 DEF Sound

\* Front drops the last element.
LEMMA FrontAndLast ==
  ASSUME NEW S, NEW s \in Seq(S), Len(s) # 0
  PROVE  /\ Front(s) \in Seq(S) /\ Len(Front(s)) = Len(s) - 1 /\ Len(s) - 1 \in Nat
         /\ \A i \in 1..Len(s) - 1 : Front(s)[i] = s[i]
         /\ Front(s) = SubSeq(s, 1, Len(s) - 1)
         /\ Last(s) = s[Len(s)] /\ Last(s) \in S
<1>1. Len(s) \in Nat \ {0}
  OBVIOUS
<1>2. Len(s) - 1 \in 0..Len(s) /\ Len(s) - 1 \in Nat
  BY <1>1
<1>3. Front(s) = SubSeq(s, 1, Len(s) - 1) /\ Last(s) = s[Len(s)]
  BY DEF Front, Last
<1>4. /\ SubSeq(s, 1, Len(s) - 1) \in Seq(S) /\ Len(SubSeq(s, 1, Len(s) - 1)) = Len(s) - 1
      /\ \A i \in 1..Len(s) - 1 : SubSeq(s, 1, Len(s) - 1)[i] = s[i]
  <2> DEFINE m == Len(s) - 1
  <2>1. m \in 0..Len(s)
    BY <1>2
  <2> HIDE DEF m
  <2>2. SubSeq(s, 1, m) \in Seq(S) /\ Len(SubSeq(s, 1, m)) = m
    BY <2>1, SubSeqProperties
  <2>3. \A i \in 1..m : SubSeq(s, 1, m)[i] = s[i]
    BY <2>1, SubSeqProperties
  <2> QED
    BY <2>2, <2>3 DEF m
<1> QED
  BY <1>1, <1>2, <1>3, <1>4

\* A sequence is its whole part.
LEMMA WholeSequence ==
  ASSUME NEW S, NEW s \in Seq(S)
  PROVE  SubSeq(s, 1, Len(s)) = s
  BY SubSeqProperties

\* The variables of activations change.
LEMMA ReplaceSound ==
  ASSUME NEW s, NEW N, NEW L, NEW d, NEW c, Sound(s, N, L, d, c),
         NEW t, Agrees(t, s, Len(s)),
         NEW M, NEW K, \A i \in 1..Len(s) : Holds(t[i], M, K)
  PROVE  Sound(t, M, K, d, c)
<1>1. /\ Len(s) \in 1..Len(s)
      /\ d \in Seq(Objects) /\ Len(d) = CountOf(s, "destroy", Len(s))
      /\ c \in Seq(Objects) /\ Len(c) = CountOf(s, "construct", Len(s))
  BY DEF Sound, Tracks
<1>2. Sound(t, M, K, SubSeq(d, 1, CountOf(s, "destroy", Len(s))),
                  SubSeq(c, 1, CountOf(s, "construct", Len(s))))
  BY <1>1, AgreeSound
<1>3. SubSeq(d, 1, Len(d)) = d /\ SubSeq(c, 1, Len(c)) = c
  BY <1>1, WholeSequence
<1> QED
  BY <1>1, <1>2, <1>3

\* The innermost activation ends.
LEMMA PopSound ==
  ASSUME NEW s, NEW N, NEW L, NEW d, NEW c, Sound(s, N, L, d, c), Len(s) > 1,
         NEW d2, s[Len(s)].kind = "destroy" => d2 = Front(d), s[Len(s)].kind # "destroy" => d2 = d,
         NEW c2, s[Len(s)].kind = "construct" => c2 = Front(c), s[Len(s)].kind # "construct" => c2 = c
  PROVE  /\ Sound(Front(s), N, L, d2, c2)
         /\ s[Len(s)].kind = "destroy" => Len(d) # 0 /\ d[Len(d)] = s[Len(s)].this
         /\ s[Len(s)].kind = "construct" => Len(c) # 0 /\ c[Len(c)] = s[Len(s)].this
<1> DEFINE n == Len(s) - 1
           t == Front(s)
<1>1. s \in Seq(Activations) /\ Len(s) \in Nat /\ n \in 1..Len(s) /\ n \in Nat /\ n + 1 = Len(s)
  BY DEF Sound
<1>2. /\ d \in Seq(Objects) /\ Len(d) \in Nat /\ Len(d) = CountOf(s, "destroy", Len(s))
      /\ c \in Seq(Objects) /\ Len(c) \in Nat /\ Len(c) = CountOf(s, "construct", Len(s))
  BY DEF Sound, Tracks
<1>3. t \in Seq(Activations) /\ Len(t) = n /\ \A i \in 1..n : t[i] = s[i]
  <2>1. s \in Seq(Activations) /\ Len(s) # 0
    BY <1>1
  <2>2. /\ Front(s) \in Seq(Activations) /\ Len(Front(s)) = Len(s) - 1
        /\ \A i \in 1..Len(s) - 1 : Front(s)[i] = s[i]
    BY <2>1, FrontAndLast
  <2> QED
    BY <2>2
<1> HIDE DEF n, t
<1>4. Agrees(t, s, n)
  BY <1>3 DEF Agrees
<1>5. \A i \in 1..n : Holds(t[i], N, L)
  BY <1>1, <1>3 DEF Sound
<1>6. Sound(t, N, L, SubSeq(d, 1, CountOf(s, "destroy", n)), SubSeq(c, 1, CountOf(s, "construct", n)))
  BY <1>1, <1>4, <1>5, AgreeSound
<1>7. ASSUME NEW k, NEW q, NEW q2, q \in Seq(Objects), Tracks(s, q, k),
             s[Len(s)].kind = k => q2 = Front(q), s[Len(s)].kind # k => q2 = q
      PROVE  /\ SubSeq(q, 1, CountOf(s, k, n)) = q2
             /\ s[Len(s)].kind = k => Len(q) # 0 /\ q[Len(q)] = s[Len(s)].this
  <2>1. /\ CountOf(s, k, n) \in Nat /\ Len(q) = CountOf(s, k, n + 1)
        /\ s[n + 1].kind = k => CountOf(s, k, n + 1) = CountOf(s, k, n) + 1
        /\ s[n + 1].kind # k => CountOf(s, k, n + 1) = CountOf(s, k, n)
    BY <1>1, <1>7, CountSteps DEF Tracks
  <2>2. CASE s[Len(s)].kind = k
    <3>1. Len(q) # 0 /\ CountOf(s, k, n) = Len(q) - 1
      BY <1>1, <2>1, <2>2
    <3>2. Front(q) = SubSeq(q, 1, Len(q) - 1)
      BY <1>7, <3>1, FrontAndLast
    <3>3. q[Len(q)] = s[Len(s)].this
      BY <1>1, <1>7, <2>2 DEF Tracks
    <3> QED
      BY <1>7, <2>2, <3>1, <3>2, <3>3
  <2>3. CASE s[Len(s)].kind # k
    <3>1. CountOf(s, k, n) = Len(q)
      BY <1>1, <2>1, <2>3
    <3>2. SubSeq(q, 1, Len(q)) = q
      BY <1>7, WholeSequence
    <3> QED
      BY <1>7, <2>3, <3>1, <3>2
  <2> QED
    BY <2>2, <2>3
<1>8. /\ SubSeq(d, 1, CountOf(s, "destroy", n)) = d2
      /\ s[Len(s)].kind = "destroy" => Len(d) # 0 /\ d[Len(d)] = s[Len(s)].this
  <2>1. Tracks(s, d, "destroy")
    BY DEF Sound
  <2> QED
    BY <1>2, <1>7, <2>1
<1>9. /\ SubSeq(c, 1, CountOf(s, "construct", n)) = c2
      /\ s[Len(s)].kind = "construct" => Len(c) # 0 /\ c[Len(c)] = s[Len(s)].this
  <2>1. Tracks(s, c, "construct")
    BY DEF Sound
  <2> QED
    BY <1>2, <1>7, <2>1
<1> QED
  BY <1>6, <1>8, <1>9 DEF t

\* An exception arrives at the handler of activation h, which becomes b.
LEMMA UnwindSound ==
  ASSUME NEW s, NEW N, NEW L, NEW d, NEW c, Sound(s, N, L, d, c),
         NEW h \in 1..Len(s), s[h].kind \in {"try", "destroy"},
         NEW b \in Activations, Holds(b, N, L),
         b.kind = s[h].kind, b.kind # "try" => b.this = s[h].this,
         b.destroys = s[h].destroys, b.constructions = s[h].constructions
  PROVE  /\ Sound(Append(SubSeq(s, 1, h - 1), b), N, L,
                  SubSeq(d, 1, s[h].destroys), SubSeq(c, 1, s[h].constructions))
         /\ s[h].destroys \in 0..Len(d) /\ s[h].constructions \in 0..Len(c)
<1> DEFINE u == SubSeq(s, 1, h - 1)
           t == Append(u, b)
<1>1. s \in Seq(Activations) /\ Len(s) \in Nat /\ h \in Nat \ {0} /\ h <= Len(s)
  BY DEF Sound
<1>2. u \in Seq(Activations) /\ Len(u) = h - 1 /\ \A i \in 1..h - 1 : u[i] = s[i]
  <2> DEFINE m == h - 1
  <2>1. m \in 0..Len(s)
    BY <1>1
  <2> HIDE DEF m
  <2>2. SubSeq(s, 1, m) \in Seq(Activations) /\ Len(SubSeq(s, 1, m)) = m
    BY <1>1, <2>1, SubSeqProperties
  <2>3. \A i \in 1..m : SubSeq(s, 1, m)[i] = s[i]
    BY <1>1, <2>1, SubSeqProperties
  <2> QED
    BY <2>2, <2>3 DEF m
<1> HIDE DEF u
<1>3. /\ t \in Seq(Activations) /\ Len(t) = h /\ t[h] = b
      /\ \A i \in 1..h : i # h => t[i] = s[i]
  BY <1>1, <1>2, AppendProperties
<1> HIDE DEF t
<1>4. Agrees(t, s, h)
  BY <1>1, <1>3 DEF Agrees
<1>5. \A i \in 1..h : Holds(t[i], N, L)
  <2> TAKE i \in 1..h
  <2>1. CASE i = h
    BY <1>3, <2>1
  <2>2. CASE i # h
    BY <1>1, <1>3, <2>2 DEF Sound
  <2> QED
    BY <2>1, <2>2
<1>6. Sound(t, N, L, SubSeq(d, 1, CountOf(s, "destroy", h)), SubSeq(c, 1, CountOf(s, "construct", h)))
  BY <1>4, <1>5, AgreeSound
<1>7. s[h].destroys = CountOf(s, "destroy", h) /\ s[h].constructions = CountOf(s, "construct", h)
  BY DEF Sound, Saved
<1>8. Len(d) = CountOf(s, "destroy", Len(s)) /\ Len(c) = CountOf(s, "construct", Len(s))
  BY DEF Sound, Tracks
<1>9. CountOf(s, "destroy", h) \in 0..Len(d) /\ CountOf(s, "construct", h) \in 0..Len(c)
  <2>1. /\ CountOf(s, "destroy", h) \in Nat /\ CountOf(s, "destroy", Len(s)) \in Nat
        /\ CountOf(s, "destroy", h) <= CountOf(s, "destroy", Len(s))
    BY <1>1, CountGrows
  <2>2. /\ CountOf(s, "construct", h) \in Nat /\ CountOf(s, "construct", Len(s)) \in Nat
        /\ CountOf(s, "construct", h) <= CountOf(s, "construct", Len(s))
    BY <1>1, CountGrows
  <2> QED
    BY <1>8, <2>1, <2>2
<1> QED
  BY <1>6, <1>7, <1>9 DEF t, u

----------------------------------------------------------------------------
(* Sequences without repetition.                                           *)

\* What the elements of a sequence are.
LEMMA Elements ==
  ASSUME NEW S, NEW s \in Seq(S)
  PROVE  /\ Len(s) \in Nat /\ DOMAIN s = 1..Len(s) /\ ToSet(s) \subseteq S
         /\ \A x : x \in ToSet(s) <=> \E i \in 1..Len(s) : x = s[i]
  BY DEF ToSet

\* A sequence without repetition is as long as its set of elements.
LEMMA InjectiveLength ==
  ASSUME NEW S, NEW s \in Seq(S), IsInjective(s)
  PROVE  IsFiniteSet(ToSet(s)) /\ Cardinality(ToSet(s)) = Len(s)
<1> DEFINE n == Len(s)
           T == ToSet(s)
<1>1. n \in Nat /\ DOMAIN s = 1..n /\ \A x : x \in T <=> \E i \in 1..n : x = s[i]
  BY Elements
<1>2. s = [i \in 1..n |-> s[i]]
  OBVIOUS
<1> HIDE DEF n, T
<1>3. s \in [1..n -> T]
  BY <1>1, <1>2
<1>4. s \in Bijection(1..n, T)
  BY <1>1, <1>3 DEF Bijection, Injection, Surjection
<1>5. ExistsBijection(1..n, T)
  BY <1>4 DEF ExistsBijection
<1>6. IsFiniteSet(T) /\ Cardinality(T) = n
  BY <1>1, <1>5, FS_CountingElements, FS_NatBijection
<1> QED
  BY <1>6 DEF n, T

\* An element that is new is added at the end.
LEMMA AppendNew ==
  ASSUME NEW S, NEW s \in Seq(S), NEW a \in S
  PROVE  /\ Append(s, a) \in Seq(S) /\ ToSet(Append(s, a)) = ToSet(s) \cup {a}
         /\ IsInjective(s) /\ a \notin ToSet(s) => IsInjective(Append(s, a))
<1> DEFINE t == Append(s, a)
           n == Len(s)
<1>1. /\ t \in Seq(S) /\ n \in Nat /\ Len(t) = n + 1 /\ t[n + 1] = a
      /\ \A i \in 1..n : t[i] = s[i]
  BY AppendProperties
<1>2. /\ DOMAIN s = 1..n /\ DOMAIN t = 1..Len(t)
      /\ \A x : x \in ToSet(s) <=> \E i \in 1..n : x = s[i]
      /\ \A x : x \in ToSet(t) <=> \E i \in 1..Len(t) : x = t[i]
  BY <1>1, Elements
<1> HIDE DEF t, n
<1>3. \A i \in 1..Len(t) : i \in 1..n \/ i = n + 1
  BY <1>1
<1>4. 1..n \subseteq 1..Len(t) /\ n + 1 \in 1..Len(t)
  BY <1>1
<1>5. ToSet(t) = ToSet(s) \cup {a}
  <2>1. ASSUME NEW x \in ToSet(t) PROVE x \in ToSet(s) \cup {a}
    BY <1>1, <1>2, <1>3
  <2>2. ASSUME NEW x \in ToSet(s) PROVE x \in ToSet(t)
    BY <1>1, <1>2, <1>4
  <2>3. a \in ToSet(t)
    BY <1>1, <1>2, <1>4
  <2> QED
    BY <2>1, <2>2, <2>3
<1>6. ASSUME IsInjective(s), a \notin ToSet(s) PROVE IsInjective(t)
  BY <1>1, <1>2, <1>3, <1>6 DEF IsInjective
<1> QED
  BY <1>1, <1>5, <1>6 DEF t

\* A part from the start, and the elements it keeps.
LEMMA PrefixInjective ==
  ASSUME NEW S, NEW s \in Seq(S), NEW m \in 0..Len(s)
  PROVE  /\ SubSeq(s, 1, m) \in Seq(S) /\ ToSet(SubSeq(s, 1, m)) \subseteq ToSet(s)
         /\ IsInjective(s) => IsInjective(SubSeq(s, 1, m))
<1> DEFINE t == SubSeq(s, 1, m)
<1>1. t \in Seq(S) /\ Len(t) = m /\ Len(s) \in Nat
  BY SubSeqProperties
<1>2. \A i \in 1..m : t[i] = s[i]
  BY SubSeqProperties
<1>3. /\ DOMAIN s = 1..Len(s) /\ DOMAIN t = 1..m
      /\ \A x : x \in ToSet(s) <=> \E i \in 1..Len(s) : x = s[i]
      /\ \A x : x \in ToSet(t) <=> \E i \in 1..m : x = t[i]
  BY <1>1, Elements
<1> HIDE DEF t
<1>4. \A i \in 1..m : i \in 1..Len(s)
  BY <1>1
<1>5. ToSet(t) \subseteq ToSet(s)
  BY <1>2, <1>3, <1>4
<1>6. IsInjective(s) => IsInjective(t)
  BY <1>2, <1>3, <1>4 DEF IsInjective
<1> QED
  BY <1>1, <1>5, <1>6 DEF t

\* The last element is removed.
LEMMA FrontInjective ==
  ASSUME NEW S, NEW s \in Seq(S), IsInjective(s), Len(s) # 0
  PROVE  /\ Front(s) \in Seq(S) /\ IsInjective(Front(s))
         /\ Last(s) \in ToSet(s) /\ Last(s) = s[Len(s)]
         /\ ToSet(Front(s)) = ToSet(s) \ {Last(s)}
<1> DEFINE t == Front(s)
           n == Len(s)
<1>1. /\ t \in Seq(S) /\ Len(t) = n - 1 /\ n \in Nat \ {0}
      /\ \A i \in 1..n - 1 : t[i] = s[i]
      /\ Last(s) = s[n]
  BY FrontAndLast
<1>2. /\ DOMAIN s = 1..n /\ DOMAIN t = 1..n - 1
      /\ \A x : x \in ToSet(s) <=> \E i \in 1..n : x = s[i]
      /\ \A x : x \in ToSet(t) <=> \E i \in 1..Len(t) : x = t[i]
  BY <1>1, Elements
<1> HIDE DEF t, n
<1>3. /\ \A i \in 1..n - 1 : i \in 1..n /\ i # n
      /\ n \in 1..n /\ \A i \in 1..n : i # n => i \in 1..n - 1
  BY <1>1
<1>4. IsInjective(t)
  BY <1>1, <1>2, <1>3 DEF IsInjective
<1>5. Last(s) \in ToSet(s)
  BY <1>1, <1>2, <1>3
<1>6. ToSet(t) = ToSet(s) \ {Last(s)}
  <2>1. ASSUME NEW x \in ToSet(t) PROVE x \in ToSet(s) /\ x # Last(s)
    <3>1. PICK i \in 1..n - 1 : x = t[i]
      BY <1>1, <1>2
    <3>2. i \in 1..n /\ i # n /\ x = s[i]
      BY <1>1, <1>3, <3>1
    <3> QED
      BY <1>1, <1>2, <1>3, <3>2 DEF IsInjective
  <2>2. ASSUME NEW x \in ToSet(s), x # Last(s) PROVE x \in ToSet(t)
    <3>1. PICK i \in 1..n : x = s[i]
      BY <1>2
    <3>2. i \in 1..n - 1 /\ x = t[i]
      BY <1>1, <1>3, <2>2, <3>1
    <3> QED
      BY <1>1, <1>2, <3>2
  <2> QED
    BY <2>1, <2>2
<1> QED
  BY <1>1, <1>4, <1>5, <1>6 DEF t, n

\* A node is linked at the head.
LEMMA ConsInjective ==
  ASSUME NEW S, NEW s \in Seq(S), IsInjective(s), NEW a \in S, a \notin ToSet(s)
  PROVE  /\ <<a>> \o s \in Seq(S) /\ IsInjective(<<a>> \o s)
         /\ ToSet(<<a>> \o s) = ToSet(s) \cup {a}
<1> DEFINE t == <<a>> \o s
           n == Len(s)
<1>1. n \in Nat /\ t \in Seq(S) /\ Len(t) = n + 1 /\ t[1] = a
  OBVIOUS
<1>2. \A i \in 1..n : t[i + 1] = s[i]
  OBVIOUS
<1>3. /\ DOMAIN s = 1..n /\ DOMAIN t = 1..n + 1
      /\ \A x : x \in ToSet(s) <=> \E i \in 1..n : x = s[i]
      /\ \A x : x \in ToSet(t) <=> \E i \in 1..Len(t) : x = t[i]
  BY <1>1, Elements
<1> HIDE DEF t, n
<1>4. \A i \in 1..n + 1 : i = 1 \/ (i - 1 \in 1..n /\ t[i] = s[i - 1])
  <2> TAKE i \in 1..n + 1
  <2>1. i = 1 \/ (i - 1 \in 1..n /\ (i - 1) + 1 = i)
    BY <1>1
  <2> QED
    BY <1>2, <2>1
<1>5. 1 \in 1..n + 1 /\ \A i \in 1..n : i + 1 \in 1..n + 1
  BY <1>1
<1>6. IsInjective(t)
  <2> SUFFICES ASSUME NEW i \in 1..n + 1, NEW j \in 1..n + 1, t[i] = t[j] PROVE i = j
    BY <1>3 DEF IsInjective
  <2>1. \A k \in 1..n + 1 : k # 1 => t[k] \in ToSet(s)
    BY <1>3, <1>4
  <2>2. CASE i = 1 \/ j = 1
    BY <1>1, <2>1, <2>2
  <2>3. CASE i # 1 /\ j # 1
    <3>1. i - 1 \in 1..n /\ j - 1 \in 1..n /\ s[i - 1] = s[j - 1]
      BY <1>4, <2>3
    <3>2. i - 1 = j - 1
      BY <1>3, <3>1 DEF IsInjective
    <3> QED
      BY <1>1, <3>2
  <2> QED
    BY <2>2, <2>3
<1>7. ToSet(t) = ToSet(s) \cup {a}
  <2>1. ASSUME NEW x \in ToSet(t) PROVE x \in ToSet(s) \cup {a}
    BY <1>1, <1>3, <1>4
  <2>2. ASSUME NEW x \in ToSet(s) PROVE x \in ToSet(t)
    BY <1>1, <1>2, <1>3, <1>5
  <2>3. a \in ToSet(t)
    BY <1>1, <1>3, <1>5
  <2> QED
    BY <2>1, <2>2, <2>3
<1> QED
  BY <1>1, <1>6, <1>7 DEF t

\* A part of a sequence without repetition has none.
LEMMA PartInjective ==
  ASSUME NEW S, NEW s \in Seq(S), IsInjective(s), NEW I \in SUBSET (1..Len(s))
  PROVE  /\ Part(s, I) \in Seq(S) /\ ToSet(Part(s, I)) = {s[i] : i \in I}
         /\ IsInjective(Part(s, I))
<1> DEFINE t == Part(s, I)
           n == Len(s)
           c == Cardinality(I)
<1>1. /\ t \in Seq(S) /\ Len(t) = c /\ ToSet(t) = {s[i] : i \in I}
      /\ \A k \in 1..c : Nth(I, k) \in I /\ t[k] = s[Nth(I, k)]
  BY PartProperties
<1>2. n \in Nat /\ I \in SUBSET (1..n) /\ DOMAIN s = 1..n /\ DOMAIN t = 1..c
  BY <1>1, Elements
<1>3. \A k \in 1..c : Rank(I, Nth(I, k)) = k
  <2> HIDE DEF n
  <2> QED
    BY <1>2, NthOfRank, Zenon DEF c
<1> HIDE DEF t, n, c
<1>4. IsInjective(t)
  <2> SUFFICES ASSUME NEW i \in 1..c, NEW j \in 1..c, t[i] = t[j] PROVE i = j
    BY <1>2 DEF IsInjective
  <2>1. Nth(I, i) = Nth(I, j)
    BY <1>1, <1>2 DEF IsInjective
  <2>2. Rank(I, Nth(I, i)) = i /\ Rank(I, Nth(I, j)) = j
    BY <1>3
  <2> QED
    BY <2>1, <2>2
<1> QED
  BY <1>1, <1>4 DEF t

\* The nodes that are found first go on the worklist, each once.
LEMMA SetToSeqElements ==
  ASSUME NEW S, IsFiniteSet(S)
  PROVE  /\ SetToSeq(S) \in Seq(S) /\ IsInjective(SetToSeq(S)) /\ ToSet(SetToSeq(S)) = S
<1> DEFINE n == Cardinality(S)
           f == SetToSeq(S)
<1>1. n \in Nat /\ ExistsBijection(1..n, S)
  BY FS_CardinalityType
<1>2. \E g \in [1..n -> S] : IsInjective(g)
  BY <1>1 DEF ExistsBijection, Bijection, Injection
<1>3. f \in [1..n -> S] /\ IsInjective(f)
  BY <1>2 DEF SetToSeq
<1>4. f \in Injection(1..n, S)
  BY <1>3 DEF Injection
<1>5. Cardinality(1..n) = n
  BY <1>1, FS_Interval
<1>6. f \in Surjection(1..n, S)
  <2> HIDE DEF f
  <2>1. Cardinality(1..n) = Cardinality(S)
    BY <1>5
  <2> HIDE DEF n
  <2> QED
    BY <1>4, <2>1, FS_Injection
<1> HIDE DEF n, f
<1>7. f \in Seq(S) /\ Len(f) = n
  BY <1>1, <1>3
<1>8. ToSet(f) = S
  <2>1. \A x \in S : \E i \in 1..n : f[i] = x
    BY <1>6 DEF Surjection
  <2>2. \A x : x \in ToSet(f) <=> \E i \in 1..n : x = f[i]
    BY <1>7, Elements
  <2>3. \A i \in 1..n : f[i] \in S
    BY <1>3
  <2>4. ASSUME NEW x \in S PROVE x \in ToSet(f)
    BY <2>1, <2>2
  <2>5. ASSUME NEW x \in ToSet(f) PROVE x \in S
    BY <2>2, <2>3
  <2> QED
    BY <2>4, <2>5
<1> QED
  BY <1>3, <1>7, <1>8 DEF f

----------------------------------------------------------------------------
(* The inductive invariant.                                                *)

\* A node is on the list once, and no field refers to freed memory.
HeapInv ==
  /\ heap \in Seq(Objects) /\ IsInjective(heap)
  /\ field \in [Objects -> Nodes \cup {None}]

FlagsInv ==
  /\ marked \subseteq Nodes /\ destroyed \subseteq Objects /\ todo \subseteq Objects
  /\ reached \subseteq Objects /\ lost \subseteq Objects
  /\ pc \in {"run", "mark", "finalize", "finalizer", "remark", "sweep", "swept", "aborted"}

StackInv == Sound(stack, Nodes, lost, destroyStack, constructionStack)

\* The flags of the nodes and the two stacks agree.
UnwindInv ==
  /\ IsInjective(destroyStack) /\ IsInjective(constructionStack)
  /\ ToSet(destroyStack) \subseteq destroyed
  /\ destroying = ToSet(destroyStack) \cup ({finalizing} \ {None})
  /\ constructing = ToSet(constructionStack)
  /\ finalizing \in (Nodes \ ToSet(destroyStack)) \cup {None}
  /\ finalizing # None => pc \in {"finalizer", "aborted"}

\* A collection starts in an expression, never between two bodies of a
\* destructor chain.
PauseInv == pc \notin {"run", "aborted"} => Top.kind # "destroy"

\* Every marked node is on the worklist or what it refers to is marked.
Scanned == \A o \in marked : o \in ToSet(worklist) \/ field[o] \in marked \cup {None}

\* Whatever holds the roots and what marked members refer to holds all that
\* is marked: only what is reachable has been marked.
MarkedReach ==
  \A T \in SUBSET Objects :
    LiveRoots \subseteq T /\ (\A o \in T \cap marked : field[o] \in T \cup {None})
      => marked \subseteq T

TraceInv ==
  /\ worklist \in Seq(Objects) /\ IsInjective(worklist) /\ ToSet(worklist) \subseteq marked
  /\ pc \notin {"mark", "remark"} => worklist = <<>>
  /\ pc \in {"mark", "remark", "sweep"} => LiveRoots \subseteq marked /\ Scanned /\ MarkedReach

IInv ==
  /\ HeapInv /\ FlagsInv /\ StackInv /\ UnwindInv /\ PauseInv /\ TraceInv

\* Every node was marked by the first trace, is destroyed, or is still to be
\* finalized.
ReclaimInv ==
  /\ pc \in {"finalize", "finalizer"} =>
       marked = reached /\ Nodes \subseteq reached \cup destroyed \cup todo
  /\ pc \in {"remark", "sweep"} => Nodes \subseteq reached \cup destroyed

----------------------------------------------------------------------------
(* What the invariant says of the roots and of the current method.         *)

\* Outside destructor chains, all that an activation must find allocated is a root.
LEMMA HeldIsRooted ==
  ASSUME HeapInv, StackInv, Top.kind # "destroy"
  PROVE  \A i \in 1..Len(stack) : Held(stack[i]) \subseteq LiveRoots \cup {None}
<1>1. ASSUME NEW i \in 1..Len(stack), stack[i].kind # "destroy"
      PROVE  Held(stack[i]) \subseteq LiveRoots \cup {None}
  <2>1. Held(stack[i]) \subseteq Slots(stack[i])
    BY <1>1 DEF Held
  <2>2. Held(stack[i]) \subseteq Nodes \cup {None} /\ Nodes \subseteq Objects
    BY Elements DEF HeapInv, StackInv, Sound, Nodes, Holds
  <2> QED
    BY <2>1, <2>2 DEF Roots, LiveRoots
<1>2. ASSUME NEW i \in 1..Len(stack), stack[i].kind = "destroy"
      PROVE  Held(stack[i]) \subseteq LiveRoots \cup {None}
  <2>1. Len(stack) \in Nat /\ i \in 1..Len(stack) - 1 /\ i + 1 \in 1..Len(stack)
    BY <1>2 DEF StackInv, Sound, Top
  <2>2. stack[i + 1].kind = "call" /\ stack[i + 1].this = stack[i].this
    BY <1>2, <2>1 DEF StackInv, Sound, Chained
  <2>3. stack[i].this \in Held(stack[i + 1])
    BY <2>2 DEF Held, Slots
  <2>4. Held(stack[i + 1]) \subseteq LiveRoots \cup {None}
    BY <1>1, <2>1, <2>2
  <2>5. Held(stack[i]) = {stack[i].this}
    BY <1>2 DEF Held
  <2> QED
    BY <1>2, <2>3, <2>4, <2>5
<1> QED
  BY <1>1, <1>2

\* There is a method, and its variables refer to nodes.
LEMMA MethodIsCall ==
  ASSUME StackInv
  PROVE  /\ Method \in 1..Len(stack) /\ stack[Method].kind = "call"
         /\ stack[Method] \in Calls /\ Locals \subseteq Nodes \cup {None}
<1> DEFINE C == {i \in 1..Len(stack) : stack[i].kind = "call"}
           n == Len(stack)
<1>1. n \in Nat /\ C \in SUBSET (1..n) /\ 1 \in C
  BY DEF StackInv, Sound
<1>2. \E m \in C : \A k \in C : k <= m
  <2> HIDE DEF C, n
  <2>1. C # {}
    BY <1>1
  <2> QED
    BY <1>1, <2>1, LastPosition
<1>3. \E i \in 1..Len(stack) : /\ stack[i].kind = "call"
                               /\ \A j \in i + 1..Len(stack) : stack[j].kind # "call"
  <2>1. PICK m \in C : \A k \in C : k <= m
    BY <1>2
  <2>2. \A j \in m + 1..Len(stack) : j \in 1..Len(stack) /\ ~(j <= m)
    BY <1>1
  <2>3. \A j \in m + 1..Len(stack) : stack[j].kind # "call"
    BY <2>1, <2>2
  <2> QED
    BY <2>3
<1>4. Method \in 1..Len(stack) /\ stack[Method].kind = "call"
  BY <1>3 DEF Method
<1>5. stack[Method] \in Calls
  BY <1>4, ActivationKinds DEF StackInv, Sound
<1>6. Locals \subseteq Nodes \cup {None}
  <2>1. Holds(stack[Method], Nodes, lost)
    BY <1>4 DEF StackInv, Sound
  <2> QED
    BY <1>4, <2>1, HoldsKinds DEF Locals
<1> QED
  BY <1>4, <1>5, <1>6

\* A local variable of the method is assigned.
LEMMA SetLocalSound ==
  ASSUME StackInv, NEW M, Nodes \subseteq M, NEW o \in ObjectOrNone, o \in M \cup {None}
  PROVE  /\ Sound(SetLocal(o), M, lost, destroyStack, constructionStack)
         /\ Len(SetLocal(o)) = Len(stack)
         /\ Top.kind # "call" => SetLocal(o)[Len(stack)] = Top
<1> DEFINE t == SetLocal(o)
           m == Method
<1>1. m \in 1..Len(stack) /\ stack[m].kind = "call" /\ stack[m] \in Calls
  BY MethodIsCall
<1>2. stack \in Seq(Activations) /\ Len(stack) \in Nat \ {0}
  BY DEF StackInv, Sound
<1>3. t = [stack EXCEPT ![m] = [stack[m] EXCEPT !.slot = o]]
  BY DEF SetLocal
<1> HIDE DEF m
<1>4. /\ [stack[m] EXCEPT !.slot = o] \in Calls
      /\ [stack[m] EXCEPT !.slot = o].kind = "call"
      /\ [stack[m] EXCEPT !.slot = o].this = stack[m].this
      /\ [stack[m] EXCEPT !.slot = o].slot = o
  BY <1>1 DEF Calls
<1>5. /\ t \in Seq(Activations) /\ Len(t) = Len(stack)
      /\ \A i \in 1..Len(stack) : i # m => t[i] = stack[i]
      /\ t[m] = [stack[m] EXCEPT !.slot = o]
  <2>1. [stack[m] EXCEPT !.slot = o] \in Activations
    BY <1>4 DEF Activations
  <2> QED
    BY <1>1, <1>2, <1>3, <2>1
<1> HIDE DEF t
<1>6. Agrees(t, stack, Len(stack))
  BY <1>1, <1>4, <1>5 DEF Agrees
<1>7. \A i \in 1..Len(stack) : Holds(t[i], M, lost)
  <2> TAKE i \in 1..Len(stack)
  <2>0. Holds(stack[i], Nodes, lost)
    BY DEF StackInv, Sound
  <2>1. CASE i = m
    <3>1. t[i].kind = "call" /\ t[i].this = stack[m].this /\ t[i].slot = o
      BY <1>1, <1>4, <1>5, <2>1
    <3>2. stack[m].this \in Nodes \cup {None}
      BY <1>1, <2>0, <2>1, HoldsKinds
    <3> QED
      BY <3>1, <3>2, HoldsKinds
  <2>2. CASE i # m
    BY <1>5, <2>0, <2>2 DEF Holds
  <2> QED
    BY <2>1, <2>2
<1>8. Sound(t, M, lost, destroyStack, constructionStack)
  BY <1>6, <1>7, ReplaceSound DEF StackInv
<1>9. Top.kind # "call" => t[Len(stack)] = Top
  BY <1>1, <1>2, <1>5 DEF Top
<1> QED
  BY <1>5, <1>8, <1>9 DEF t

\* The innermost activation moves on.
LEMMA WithTopSound ==
  ASSUME StackInv, NEW a \in Activations, Holds(a, Nodes, lost),
         a.kind = Top.kind, a.kind # "try" => a.this = Top.this,
         a.kind \in {"try", "destroy"} =>
           a.destroys = Top.destroys /\ a.constructions = Top.constructions
  PROVE  /\ Sound(WithTop(a), Nodes, lost, destroyStack, constructionStack)
         /\ Len(WithTop(a)) = Len(stack) /\ WithTop(a)[Len(stack)] = a
<1> DEFINE t == WithTop(a)
           n == Len(stack)
<1>1. stack \in Seq(Activations) /\ n \in Nat \ {0} /\ n \in 1..n
  BY DEF StackInv, Sound
<1>2. /\ t \in Seq(Activations) /\ Len(t) = n /\ t[n] = a
      /\ \A i \in 1..n : i # n => t[i] = stack[i]
  BY <1>1 DEF WithTop
<1> HIDE DEF t
<1>3. Agrees(t, stack, n)
  BY <1>1, <1>2 DEF Agrees, Top
<1>4. \A i \in 1..n : Holds(t[i], Nodes, lost)
  <2> TAKE i \in 1..n
  <2>1. CASE i = n
    BY <1>2, <2>1
  <2>2. CASE i # n
    BY <1>2, <2>2 DEF StackInv, Sound
  <2> QED
    BY <2>1, <2>2
<1>5. Sound(t, Nodes, lost, destroyStack, constructionStack)
  BY <1>3, <1>4, ReplaceSound DEF StackInv
<1> QED
  BY <1>2, <1>5 DEF t

\* The two stacks hold nodes.
LEMMA SoundStacks ==
  ASSUME NEW s, NEW N, NEW L, NEW d, NEW c, Sound(s, N, L, d, c)
  PROVE  /\ d \in Seq(Objects) /\ c \in Seq(Objects)
         /\ ToSet(d) \subseteq N /\ ToSet(c) \subseteq N
<1>1. /\ s \in Seq(Activations) /\ Tracks(s, d, "destroy") /\ Tracks(s, c, "construct")
      /\ d \in Seq(Objects) /\ c \in Seq(Objects)
  BY DEF Sound, Tracks
<1>2. /\ \A x \in ToSet(d) : \E i \in 1..Len(s) : s[i].kind = "destroy" /\ x = s[i].this
      /\ \A x \in ToSet(c) : \E i \in 1..Len(s) : s[i].kind = "construct" /\ x = s[i].this
  BY <1>1, TracksPlaces
<1>3. ASSUME NEW i \in 1..Len(s), s[i].kind \in {"destroy", "construct"}
      PROVE  s[i].this \in N
  <2>1. s[i].this \in Objects
    BY <1>1, <1>3, ActivationKinds DEF Destroys, Constructs
  <2>2. Holds(s[i], N, L)
    BY <1>3 DEF Sound
  <2> QED
    BY <1>3, <2>1, <2>2, HoldsKinds, NoneIsNoObject
<1> QED
  BY <1>1, <1>2, <1>3

\* So do those of the program.
LEMMA StacksAreNodes ==
  ASSUME StackInv
  PROVE  /\ destroyStack \in Seq(Objects) /\ constructionStack \in Seq(Objects)
         /\ ToSet(destroyStack) \subseteq Nodes /\ ToSet(constructionStack) \subseteq Nodes
  BY SoundStacks DEF StackInv

----------------------------------------------------------------------------
(* The steps of generated code.                                            *)

\* While generated code runs, only the activations, the two stacks, the flags
\* and the fields change.
LEMMA RunStep ==
  ASSUME IInv, pc = "run", pc' \in {"run", "aborted"}, heap' = heap, UNCHANGED gcVars,
         field' \in [Objects -> Nodes \cup {None}], destroyed' \subseteq Objects,
         StackInv', UnwindInv'
  PROVE  IInv'
<1>1. Nodes' = Nodes
  BY DEF Nodes
<1>2. HeapInv'
  BY <1>1 DEF IInv, HeapInv
<1>3. FlagsInv'
  BY <1>1 DEF IInv, FlagsInv, gcVars, histVars
<1>4. PauseInv'
  BY DEF PauseInv
<1>5. TraceInv'
  BY DEF IInv, TraceInv, gcVars, histVars
<1> QED
  BY <1>2, <1>3, <1>4, <1>5 DEF IInv

\* A step that changes neither the two stacks nor the flags.
LEMMA PlainStep ==
  ASSUME IInv, pc = "run", UNCHANGED <<heap, destroyed, pc, gcVars, unwindVars>>,
         field' \in [Objects -> Nodes \cup {None}],
         Sound(stack', Nodes, lost, destroyStack, constructionStack)
  PROVE  IInv'
<1>1. StackInv'
  BY DEF StackInv, Nodes, unwindVars, gcVars, histVars
<1>2. UnwindInv'
  BY DEF IInv, UnwindInv, unwindVars, gcVars, histVars, Nodes
<1>3. destroyed' \subseteq Objects /\ pc' \in {"run", "aborted"} /\ heap' = heap /\ UNCHANGED gcVars
  BY DEF IInv, FlagsInv
<1> QED
  BY <1>1, <1>2, <1>3, RunStep

\* What the invariant says while generated code runs.
LEMMA RunFacts ==
  ASSUME IInv
  PROVE  /\ HeapInv /\ StackInv /\ UnwindInv
         /\ Nodes \subseteq Objects /\ heap \in Seq(Objects)
         /\ field \in [Objects -> Nodes \cup {None}]
         /\ stack \in Seq(Activations) /\ Len(stack) \in Nat \ {0}
         /\ stack[1].kind = "call"
         /\ Len(stack) \in 1..Len(stack) /\ Top \in Activations
         /\ Holds(Top, Nodes, lost)
         /\ pc = "run" => finalizing = None
<1>1. HeapInv /\ StackInv /\ UnwindInv
  BY DEF IInv
<1>2. Nodes \subseteq Objects /\ heap \in Seq(Objects) /\ field \in [Objects -> Nodes \cup {None}]
  BY <1>1, Elements DEF HeapInv, Nodes
<1>3. stack \in Seq(Activations) /\ Len(stack) \in Nat \ {0} /\ stack[1].kind = "call"
  BY <1>1 DEF StackInv, Sound
<1>4. Len(stack) \in 1..Len(stack)
  BY <1>3
<1>5. Top \in Activations /\ Holds(Top, Nodes, lost)
  BY <1>1, <1>3, <1>4 DEF StackInv, Sound, Top
<1>6. pc = "run" => finalizing = None
  BY <1>1 DEF UnwindInv
<1> QED
  BY <1>1, <1>2, <1>3, <1>4, <1>5, <1>6

\* A method of a node is called.
LEMMA CallActivation ==
  ASSUME NEW o \in ObjectOrNone
  PROVE  /\ Call(o) \in Activations /\ Call(o).kind = "call" /\ Call(o).this = o
         /\ \A N, L : o \in N \cup {None} => Holds(Call(o), N, L)
<1>1. Call(o) \in Calls /\ Call(o).kind = "call" /\ Call(o).this = o /\ Call(o).slot = None
  BY DEF Call, Calls, ObjectOrNone
<1>2. ASSUME NEW N, NEW L, o \in N \cup {None} PROVE Holds(Call(o), N, L)
  BY <1>1, <1>2, HoldsKinds
<1> QED
  BY <1>1, <1>2 DEF Activations

\* A variable is assigned null, this or what a field refers to.
LEMMA KeepLoad == ASSUME IInv, NEW o \in ObjectOrNone, load(o) PROVE IInv'
<1>1. o \in Nodes \cup {None}
  BY DEF load, Alive
<1>2. Sound(SetLocal(o), Nodes, lost, destroyStack, constructionStack)
  BY <1>1, RunFacts, SetLocalSound
<1>3. field' \in [Objects -> Nodes \cup {None}] /\ pc = "run"
  BY RunFacts DEF load, Running
<1> QED
  BY <1>2, <1>3, PlainStep DEF load

\* A field is assigned.
LEMMA KeepStore ==
  ASSUME IInv, NEW x \in Objects, NEW y \in ObjectOrNone, store(x, y) PROVE IInv'
<1>1. y \in Nodes \cup {None}
  BY DEF store, Alive
<1>2. field' \in [Objects -> Nodes \cup {None}] /\ pc = "run"
  BY <1>1, RunFacts DEF store, Running
<1>3. Sound(stack', Nodes, lost, destroyStack, constructionStack)
  BY RunFacts DEF StackInv, store
<1> QED
  BY <1>2, <1>3, PlainStep DEF store

\* A method is called.
LEMMA KeepCall == ASSUME IInv, NEW o \in Objects, call(o) PROVE IInv'
<1>1. o \in Nodes /\ o \in ObjectOrNone /\ pc = "run" /\ Top.kind # "destroy"
  BY DEF call, Alive, ObjectOrNone, Evaluating, Running
<1>2. Sound(Append(stack, Call(o)), Nodes, lost, destroyStack, constructionStack)
  <2>1. /\ Call(o) \in Activations /\ Call(o).kind = "call"
        /\ Holds(Call(o), Nodes, lost)
    BY <1>1, CallActivation
  <2>2. stack[Len(stack)].kind # "destroy"
    BY <1>1 DEF Top
  <2>3. Sound(stack, Nodes, lost, destroyStack, constructionStack)
    BY RunFacts DEF StackInv
  <2> QED
    BY <2>1, <2>2, <2>3, PushSound
<1>3. field' \in [Objects -> Nodes \cup {None}]
  BY RunFacts DEF call
<1> QED
  BY <1>1, <1>2, <1>3, PlainStep DEF call

\* A method returns.
LEMMA KeepReturn == ASSUME IInv, return PROVE IInv'
<1>1. pc = "run" /\ stack[Len(stack)].kind = "call" /\ Len(stack) > 1
  BY DEF return, Top
<1>2. Sound(Front(stack), Nodes, lost, destroyStack, constructionStack)
  BY <1>1, RunFacts, PopSound DEF StackInv
<1>3. field' \in [Objects -> Nodes \cup {None}]
  BY RunFacts DEF return
<1> QED
  BY <1>1, <1>2, <1>3, PlainStep DEF return

\* A constructor is called on the object of a constructor expression.
LEMMA KeepConstructorCall == ASSUME IInv, constructor_call PROVE IInv'
<1> DEFINE a == [Top EXCEPT !.called = TRUE]
           t == WithTop(a)
<1>1. pc = "run" /\ Top.kind = "construct" /\ Top \in Constructs
  BY RunFacts, ActivationKinds DEF constructor_call
<1>2. /\ a \in Activations /\ a.kind = "construct" /\ a.this = Top.this /\ Top.this \in Objects
      /\ Holds(a, Nodes, lost) /\ Top.this \in Nodes \cup {None}
  <2>1. /\ a \in Constructs /\ a.kind = "construct" /\ a.this = Top.this /\ Top.this \in Objects
    BY <1>1 DEF Constructs
  <2>2. Top.this \in Nodes \cup {None}
    BY <1>1, RunFacts, HoldsKinds
  <2>3. Holds(a, Nodes, lost)
    <3> HIDE DEF a
    <3> QED
      BY <2>1, <2>2, HoldsKinds
  <2> QED
    BY <2>1, <2>2, <2>3 DEF Activations
<1> HIDE DEF a
<1>3. Sound(t, Nodes, lost, destroyStack, constructionStack) /\ Len(t) = Len(stack) /\ t[Len(stack)] = a
  BY <1>1, <1>2, RunFacts, WithTopSound
<1>4. /\ Call(Top.this) \in Activations /\ Call(Top.this).kind = "call"
      /\ Holds(Call(Top.this), Nodes, lost)
  <2>1. Top.this \in ObjectOrNone /\ Top.this \in Nodes \cup {None}
    BY <1>2, RunFacts DEF ObjectOrNone
  <2> QED
    BY <2>1, CallActivation
<1>5. Sound(Append(t, Call(Top.this)), Nodes, lost, destroyStack, constructionStack)
  <2>1. t[Len(t)].kind # "destroy"
    BY <1>2, <1>3
  <2> HIDE DEF t
  <2> QED
    BY <1>3, <1>4, <2>1, PushSound
<1>6. field' \in [Objects -> Nodes \cup {None}] /\ stack' = Append(t, Call(Top.this))
  BY RunFacts DEF constructor_call, a
<1> HIDE DEF t
<1> QED
  BY <1>1, <1>5, <1>6, PlainStep DEF constructor_call

\* A constructor expression ends: its object is the innermost one under construction.
LEMMA KeepEndConstruction == ASSUME IInv, end_construction PROVE IInv'
<1> DEFINE t == SetLocal(Top.this)
           n == Len(stack)
<1>1. pc = "run" /\ Top.kind = "construct" /\ Top \in Constructs
  BY RunFacts, ActivationKinds DEF end_construction
<1>2. Top.this \in Objects /\ Top.this \in Nodes \cup {None} /\ Top.this \in ObjectOrNone
  <2>1. Top.this \in Nodes \cup {None}
    BY <1>1, RunFacts, HoldsKinds
  <2> QED
    BY <1>1, <2>1, RunFacts DEF Constructs, ObjectOrNone
<1>3. Sound(t, Nodes, lost, destroyStack, constructionStack) /\ Len(t) = n /\ t[n] = Top
  BY <1>1, <1>2, RunFacts, SetLocalSound
<1>4. n > 1
  BY <1>1, RunFacts DEF Top
<1>5. /\ Sound(Front(t), Nodes, lost, destroyStack, Front(constructionStack))
      /\ Len(constructionStack) # 0 /\ constructionStack[Len(constructionStack)] = Top.this
  <2>1. t[Len(t)].kind = "construct" /\ t[Len(t)].this = Top.this /\ Len(t) > 1
    BY <1>1, <1>3, <1>4
  <2> HIDE DEF t
  <2> QED
    BY <1>3, <2>1, PopSound
<1>6. /\ constructionStack \in Seq(Objects) /\ destroyStack \in Seq(Objects)
      /\ IsInjective(constructionStack) /\ constructing = ToSet(constructionStack)
  BY RunFacts, StacksAreNodes DEF UnwindInv
<1>7. /\ IsInjective(Front(constructionStack))
      /\ Last(constructionStack) = Top.this
      /\ ToSet(Front(constructionStack)) = ToSet(constructionStack) \ {Top.this}
  BY <1>5, <1>6, FrontInjective
<1>8. pc' = "run"
  <2>1. constructionStack # <<>>
    BY <1>5, <1>6
  <2> QED
    BY <1>1, <1>7, <2>1 DEF end_construction
<1>9. StackInv'
  BY <1>5 DEF end_construction, StackInv, Nodes, gcVars, histVars
<1>10. UnwindInv'
  BY <1>6, <1>7, RunFacts DEF end_construction, UnwindInv, Nodes, gcVars, histVars
<1>11. /\ heap' = heap /\ UNCHANGED gcVars /\ destroyed' \subseteq Objects
       /\ field' \in [Objects -> Nodes \cup {None}]
  BY RunFacts DEF end_construction, IInv, FlagsInv
<1> QED
  BY <1>1, <1>8, <1>9, <1>10, <1>11, RunStep

----------------------------------------------------------------------------
(* Exceptions.                                                             *)

\* The handler keeps what identifies its activation.
LEMMA CaughtActivation ==
  ASSUME IInv, NEW e \in Nodes \cup lost \cup {None}, NEW h \in Handlers, NEW b \in Caught(h, e)
  PROVE  /\ h \in 1..Len(stack) /\ stack[h].kind \in {"try", "destroy"}
         /\ b \in Activations /\ Holds(b, Nodes, lost)
         /\ b.kind = stack[h].kind /\ (b.kind # "try" => b.this = stack[h].this)
         /\ b.destroys = stack[h].destroys /\ b.constructions = stack[h].constructions
<1> DEFINE a == stack[h]
<1>1. h \in 1..Len(stack) /\ a \in Activations /\ Holds(a, Nodes, lost)
  BY RunFacts DEF Handlers, StackInv, Sound
<1>2. a.kind = "destroy" \/ (a.kind = "try" /\ a.mode \in {"body", "except"})
  BY DEF Handlers
<1>3. e \in ObjectOrNone
  BY RunFacts DEF ObjectOrNone, IInv, FlagsInv
<1>4. CASE a.kind = "destroy"
  <2>1. a \in Destroys /\ a.this \in Nodes \cup {None} /\ a.first \in Nodes \cup lost \cup {None}
    BY <1>1, <1>4, ActivationKinds, HoldsKinds
  <2>2. b = [a EXCEPT !.first = IF a.first = None THEN e ELSE a.first]
    BY <1>4 DEF Caught
  <2>3. PICK x \in {e, a.first} : b = [a EXCEPT !.first = x]
    BY <2>2
  <2>4. x \in ObjectOrNone /\ x \in Nodes \cup lost \cup {None}
    BY <1>1, <1>3, <2>1 DEF Destroys
  <2>5. /\ b \in Destroys /\ b.kind = "destroy" /\ b.this = a.this /\ b.first = x
        /\ b.destroys = a.destroys /\ b.constructions = a.constructions
    BY <2>1, <2>3, <2>4 DEF Destroys
  <2>7. b \in Activations /\ Holds(b, Nodes, lost)
    BY <2>1, <2>4, <2>5, HoldsKinds DEF Activations
  <2> QED
    BY <1>1, <1>4, <2>5, <2>7
<1>5. CASE a.kind = "try"
  <2>1. a \in Tries
    BY <1>1, <1>5, ActivationKinds
  <2>2. PICK m \in {"except", "cleanup"} : b = [a EXCEPT !.slot = e, !.mode = m]
    BY <1>5 DEF Caught
  <2>3. /\ b \in Tries /\ b.kind = "try" /\ b.slot = e
        /\ b.destroys = a.destroys /\ b.constructions = a.constructions
    BY <1>3, <2>1, <2>2 DEF Tries
  <2>5. b \in Activations /\ Holds(b, Nodes, lost)
    BY <2>3, HoldsKinds DEF Activations
  <2> QED
    BY <1>1, <1>5, <2>3, <2>5
<1> QED
  BY <1>2, <1>4, <1>5

\* An exception unwinds the activations, both stacks and their flags together.
LEMMA KeepRaise ==
  ASSUME IInv, pc = "run", NEW e \in Nodes \cup lost \cup {None},
         NEW n \in Nat, n <= Len(stack), raise_exception(e, n),
         UNCHANGED <<heap, field, gcVars>>
  PROVE  IInv'
<1> DEFINE live == {i \in Handlers : i <= n}
<1>1. heap' = heap /\ UNCHANGED gcVars /\ field' \in [Objects -> Nodes \cup {None}]
  BY RunFacts
<1>2. CASE live = {}
  <2>1. pc' = "aborted" /\ UNCHANGED <<stack, destroyed, unwindVars>>
    BY <1>2 DEF raise_exception
  <2>2. StackInv'
    BY <1>1, <2>1, RunFacts DEF StackInv, Nodes, unwindVars, gcVars, histVars
  <2>3. UnwindInv'
    BY <1>1, <2>1, RunFacts DEF UnwindInv, Nodes, unwindVars, gcVars, histVars
  <2>4. destroyed' \subseteq Objects
    BY <2>1 DEF IInv, FlagsInv
  <2> QED
    BY <1>1, <2>1, <2>2, <2>3, <2>4, RunStep
<1>3. CASE live # {}
  <2> DEFINE h == CHOOSE i \in live : \A j \in live : j <= i
             keepD == SubSeq(destroyStack, 1, stack[h].destroys)
             keepC == SubSeq(constructionStack, 1, stack[h].constructions)
             unwoundC == ToSet(constructionStack) \ ToSet(keepC)
  <2>1. h \in live
    <3>1. live \in SUBSET (1..n) /\ n \in Nat
      BY RunFacts DEF Handlers
    <3> HIDE DEF live
    <3>2. \E m \in live : \A k \in live : k <= m
      BY <1>3, <3>1, LastPosition
    <3> QED
      BY <3>2
  <2>2. /\ \E b \in Caught(h, e) : stack' = Append(SubSeq(stack, 1, h - 1), b)
        /\ destroyStack' = keepD
        /\ destroying' = destroying \ (ToSet(destroyStack) \ ToSet(keepD))
        /\ constructionStack' = keepC
        /\ constructing' = constructing \ unwoundC
        /\ destroyed' = destroyed \cup unwoundC
        /\ pc' = pc
    BY <1>3 DEF raise_exception
  <2> HIDE DEF h
  <2>3. PICK b \in Caught(h, e) : stack' = Append(SubSeq(stack, 1, h - 1), b)
    BY <2>2
  <2>4. h \in Handlers
    BY <2>1
  <2>5. /\ h \in 1..Len(stack) /\ stack[h].kind \in {"try", "destroy"}
        /\ b \in Activations /\ Holds(b, Nodes, lost)
        /\ b.kind = stack[h].kind /\ (b.kind # "try" => b.this = stack[h].this)
        /\ b.destroys = stack[h].destroys /\ b.constructions = stack[h].constructions
    BY <2>4, CaughtActivation
  <2>6. Sound(stack, Nodes, lost, destroyStack, constructionStack)
    BY RunFacts DEF StackInv
  <2>7. /\ Sound(Append(SubSeq(stack, 1, h - 1), b), Nodes, lost, keepD, keepC)
        /\ stack[h].destroys \in 0..Len(destroyStack)
        /\ stack[h].constructions \in 0..Len(constructionStack)
    BY <2>5, <2>6, UnwindSound
  <2>8. /\ destroyStack \in Seq(Objects) /\ constructionStack \in Seq(Objects)
        /\ ToSet(constructionStack) \subseteq Objects
    BY RunFacts, StacksAreNodes
  <2>9. /\ ToSet(keepD) \subseteq ToSet(destroyStack) /\ ToSet(keepC) \subseteq ToSet(constructionStack)
        /\ IsInjective(destroyStack) => IsInjective(keepD)
        /\ IsInjective(constructionStack) => IsInjective(keepC)
    BY <2>7, <2>8, PrefixInjective
  <2> HIDE DEF keepD, keepC, live
  <2>10. StackInv'
    BY <1>1, <2>2, <2>3, <2>7 DEF StackInv, Nodes, gcVars, histVars
  <2>11. UnwindInv'
    BY <1>1, <2>2, <2>9, RunFacts DEF UnwindInv, Nodes, gcVars, histVars
  <2>12. destroyed' \subseteq Objects
    BY <2>2, <2>8 DEF IInv, FlagsInv
  <2> QED
    BY <1>1, <2>2, <2>10, <2>11, <2>12, RunStep
<1> QED
  BY <1>2, <1>3

\* A raise statement, or an operation that fails.
LEMMA KeepRaiseStatement == ASSUME IInv, NEW e \in Objects, raise(e) PROVE IInv'
<1>1. pc = "run" /\ e \in Nodes \cup lost \cup {None} /\ raise_exception(e, Len(stack))
  BY DEF raise, Evaluating, Running, Alive
<1>2. Len(stack) \in Nat /\ Len(stack) <= Len(stack)
  BY RunFacts
<1>3. UNCHANGED <<heap, field, gcVars>>
  BY DEF raise
<1> QED
  BY <1>1, <1>2, <1>3, KeepRaise

\* A try statement begins and saves the heights of both stacks.
LEMMA KeepTryEnter == ASSUME IInv, try_enter PROVE IInv'
<1>1. pc = "run" /\ stack[Len(stack)].kind # "destroy"
  BY DEF try_enter, Running, Top
<1>2. destroyStack \in Seq(Objects) /\ constructionStack \in Seq(Objects)
  BY RunFacts, StacksAreNodes
<1>3. /\ Try \in Tries /\ Try.kind = "try" /\ Try.slot = None
      /\ Try.destroys = Len(destroyStack) /\ Try.constructions = Len(constructionStack)
  BY <1>2 DEF Try, Tries, ObjectOrNone
<1>4. Try \in Activations /\ Holds(Try, Nodes, lost)
  BY <1>3, HoldsKinds DEF Activations
<1>5. Sound(stack, Nodes, lost, destroyStack, constructionStack)
  BY RunFacts DEF StackInv
<1>6. Sound(Append(stack, Try), Nodes, lost, destroyStack, constructionStack)
  BY <1>1, <1>3, <1>4, <1>5, PushSound
<1>7. field' \in [Objects -> Nodes \cup {None}]
  BY RunFacts DEF try_enter
<1> QED
  BY <1>1, <1>6, <1>7, PlainStep DEF try_enter

\* The body or the except clause of a try statement ends.
LEMMA KeepTryDone == ASSUME IInv, try_done PROVE IInv'
<1> DEFINE a == [Top EXCEPT !.mode = "cleanup", !.slot = None]
<1>1. pc = "run" /\ Top.kind = "try" /\ Top \in Tries
  BY RunFacts, ActivationKinds DEF try_done
<1>2. /\ a \in Tries /\ a.kind = "try" /\ a.slot = None
      /\ a.destroys = Top.destroys /\ a.constructions = Top.constructions
  BY <1>1 DEF Tries, ObjectOrNone
<1>3. a \in Activations /\ Holds(a, Nodes, lost)
  <2> HIDE DEF a
  <2> QED
    BY <1>2, HoldsKinds DEF Activations
<1>4. stack' = WithTop(a)
  BY DEF try_done
<1> HIDE DEF a
<1>5. Sound(WithTop(a), Nodes, lost, destroyStack, constructionStack)
  BY <1>1, <1>2, <1>3, RunFacts, WithTopSound
<1>6. field' \in [Objects -> Nodes \cup {None}]
  BY RunFacts DEF try_done
<1> QED
  BY <1>1, <1>4, <1>5, <1>6, PlainStep DEF try_done

\* The exception that a try statement handles is a node, or lost.
LEMMA TrySlot ==
  ASSUME IInv, Top.kind = "try" PROVE Top.slot \in Nodes \cup lost \cup {None}
  BY RunFacts, HoldsKinds

\* The clauses of a try statement fail on a freed exception.
LEMMA KeepReadFreed == ASSUME IInv, read_freed PROVE IInv'
<1>1. pc = "run" /\ pc' = "aborted" /\ UNCHANGED <<heap, field, destroyed, stack, gcVars, unwindVars>>
  BY DEF read_freed
<1>2. StackInv'
  BY <1>1, RunFacts DEF StackInv, Nodes, unwindVars, gcVars, histVars
<1>3. UnwindInv'
  BY <1>1, RunFacts DEF UnwindInv, Nodes, unwindVars, gcVars, histVars
<1>4. destroyed' \subseteq Objects /\ field' \in [Objects -> Nodes \cup {None}]
  BY <1>1, RunFacts DEF IInv, FlagsInv
<1> QED
  BY <1>1, <1>2, <1>3, <1>4, RunStep

\* An except clause raises its exception again.
LEMMA KeepRethrow == ASSUME IInv, rethrow PROVE IInv'
<1>1. pc = "run" /\ Top.slot \in Nodes \cup lost \cup {None} /\ raise_exception(Top.slot, Len(stack))
  BY TrySlot DEF rethrow
<1>2. Len(stack) \in Nat /\ Len(stack) <= Len(stack)
  BY RunFacts
<1>3. UNCHANGED <<heap, field, gcVars>>
  BY DEF rethrow
<1> QED
  BY <1>1, <1>2, <1>3, KeepRaise

\* A try statement ends, or passes its exception on.
LEMMA KeepCleanupDone == ASSUME IInv, cleanup_done PROVE IInv'
<1>1. pc = "run" /\ stack[Len(stack)].kind = "try" /\ UNCHANGED <<heap, field, gcVars>>
  BY DEF cleanup_done, Top
<1>2. Len(stack) - 1 \in Nat /\ Len(stack) - 1 <= Len(stack) /\ Len(stack) > 1
  BY <1>1, RunFacts
<1>3. CASE Top.slot = None
  <2>1. stack' = Front(stack) /\ UNCHANGED <<pc, destroyed, unwindVars>>
    BY <1>3 DEF cleanup_done
  <2>2. Sound(Front(stack), Nodes, lost, destroyStack, constructionStack)
    BY <1>1, <1>2, RunFacts, PopSound DEF StackInv
  <2>3. field' \in [Objects -> Nodes \cup {None}]
    BY <1>1, RunFacts
  <2>4. UNCHANGED <<heap, destroyed, pc, gcVars, unwindVars>>
    BY <1>1, <2>1
  <2> QED
    BY <1>1, <2>1, <2>2, <2>3, <2>4, PlainStep
<1>4. CASE Top.slot # None
  <2>1. raise_exception(Top.slot, Len(stack) - 1) /\ Top.slot \in Nodes \cup lost \cup {None}
    BY <1>4, TrySlot DEF cleanup_done
  <2> DEFINE m == Len(stack) - 1
             e == Top.slot
  <2>2. m \in Nat /\ m <= Len(stack) /\ raise_exception(e, m) /\ e \in Nodes \cup lost \cup {None}
    BY <1>2, <2>1
  <2> HIDE DEF m, e
  <2> QED
    BY <1>1, <2>2, KeepRaise
<1> QED
  BY <1>3, <1>4

----------------------------------------------------------------------------
(* Explicit destruction.                                                   *)

\* Two activations are pushed one after the other.
LEMMA PushTwo ==
  ASSUME NEW S, NEW s \in Seq(S), NEW a \in S, NEW b \in S
  PROVE  s \o <<a, b>> = Append(Append(s, a), b)
<1> DEFINE t == s \o <<a, b>>
           u == Append(Append(s, a), b)
<1>1. t \in Seq(S) /\ u \in Seq(S) /\ Len(t) = Len(s) + 2 /\ Len(u) = Len(s) + 2 /\ Len(s) \in Nat
  OBVIOUS
<1>2. \A i \in 1..Len(s) : t[i] = s[i] /\ u[i] = s[i]
  OBVIOUS
<1>3. /\ t[Len(s) + 1] = a /\ t[Len(s) + 2] = b
      /\ u[Len(s) + 1] = a /\ u[Len(s) + 2] = b
  OBVIOUS
<1> HIDE DEF t, u
<1>4. ASSUME NEW i \in 1..Len(s) + 2 PROVE t[i] = u[i]
  <2>1. i \in 1..Len(s) \/ i = Len(s) + 1 \/ i = Len(s) + 2
    BY <1>1
  <2> QED
    BY <1>2, <1>3, <2>1
<1>5. t = u
  BY <1>1, <1>4, SeqEqual
<1> QED
  BY <1>5 DEF t, u

\* A destruction begins with its first destructor body.
LEMMA KeepBeginDestroy == ASSUME IInv, NEW o \in Objects, begin_destroy(o) PROVE IInv'
<1> DEFINE a == Destroy(o)
           b == Call(o)
           d2 == Append(destroyStack, o)
<1>1. /\ pc = "run" /\ stack[Len(stack)].kind # "destroy"
      /\ o \in Nodes /\ o \notin destroyed /\ o \in ObjectOrNone
  BY DEF begin_destroy, Running, Top, ObjectOrNone
<1>2. /\ destroyStack \in Seq(Objects) /\ constructionStack \in Seq(Objects)
      /\ Len(destroyStack) \in Nat /\ Len(constructionStack) \in Nat
  BY RunFacts, StacksAreNodes
<1>3. /\ d2 \in Seq(Objects) /\ ToSet(d2) = ToSet(destroyStack) \cup {o}
      /\ IsInjective(destroyStack) /\ o \notin ToSet(destroyStack) => IsInjective(d2)
      /\ Len(d2) = Len(destroyStack) + 1
  BY <1>2, AppendNew
<1>4. /\ a \in Destroys /\ a.kind = "destroy" /\ a.this = o /\ a.first = None
      /\ a.destroys = Len(destroyStack) + 1 /\ a.constructions = Len(constructionStack)
  BY <1>2 DEF Destroy, Destroys, ObjectOrNone
<1>5. b \in Activations /\ b.kind = "call" /\ b.this = o /\ Holds(b, Nodes, lost)
  BY <1>1, CallActivation
<1> HIDE DEF a, b
<1>6. a \in Activations /\ Holds(a, Nodes, lost)
  BY <1>1, <1>4, HoldsKinds DEF Activations
<1>7. Sound(Append(stack, a), Nodes, lost, d2, constructionStack)
  <2>1. Sound(stack, Nodes, lost, destroyStack, constructionStack)
    BY RunFacts DEF StackInv
  <2> QED
    BY <1>1, <1>3, <1>4, <1>6, <2>1, PushSound
<1>8. Sound(Append(Append(stack, a), b), Nodes, lost, d2, constructionStack)
  <2> DEFINE s == Append(stack, a)
  <2>1. s[Len(s)] = a
    BY <1>6, RunFacts
  <2>2. Sound(s, Nodes, lost, d2, constructionStack)
    BY <1>7
  <2> HIDE DEF s, d2
  <2>3. Sound(Append(s, b), Nodes, lost, d2, constructionStack)
    BY <1>4, <1>5, <2>1, <2>2, PushSound
  <2> QED
    BY <2>3 DEF s, d2
<1>9. /\ stack' = stack \o <<a, b>> /\ destroyStack' = d2 /\ destroyed' = destroyed \cup {o}
      /\ destroying' = destroying \cup {o}
      /\ UNCHANGED <<heap, field, pc, gcVars, constructing, constructionStack>>
  BY DEF begin_destroy, a, b
<1>10. stack \o <<a, b>> = Append(Append(stack, a), b)
  BY <1>5, <1>6, RunFacts, PushTwo
<1> HIDE DEF d2
<1>11. StackInv'
  BY <1>8, <1>9, <1>10 DEF StackInv, Nodes, gcVars, histVars
<1>12. UnwindInv'
  BY <1>1, <1>3, <1>9, RunFacts DEF UnwindInv, Nodes, gcVars, histVars
<1>13. /\ heap' = heap /\ UNCHANGED gcVars /\ destroyed' \subseteq Objects
       /\ field' \in [Objects -> Nodes \cup {None}] /\ pc' \in {"run", "aborted"}
  BY <1>1, <1>9, RunFacts DEF IInv, FlagsInv
<1> QED
  BY <1>1, <1>11, <1>12, <1>13, RunStep

\* The next body of a destructor chain runs.
LEMMA KeepDestroyNext == ASSUME IInv, destroy_next PROVE IInv'
<1> DEFINE a == [Top EXCEPT !.index = Top.index + 1]
           t == WithTop(a)
           b == Call(Top.this)
<1>1. pc = "run" /\ Top.kind = "destroy" /\ Top \in Destroys
  BY RunFacts, ActivationKinds DEF destroy_next
<1>2. /\ a \in Destroys /\ a.kind = "destroy" /\ a.this = Top.this /\ a.first = Top.first
      /\ a.destroys = Top.destroys /\ a.constructions = Top.constructions
      /\ Top.this \in Objects
  BY <1>1 DEF Destroys
<1> HIDE DEF a
<1>3. a \in Activations /\ Holds(a, Nodes, lost) /\ Top.this \in Nodes \cup {None}
  BY <1>1, <1>2, RunFacts, HoldsKinds DEF Activations
<1>4. Sound(t, Nodes, lost, destroyStack, constructionStack) /\ Len(t) = Len(stack) /\ t[Len(stack)] = a
  BY <1>1, <1>2, <1>3, RunFacts, WithTopSound
<1>5. b \in Activations /\ b.kind = "call" /\ b.this = Top.this /\ Holds(b, Nodes, lost)
  <2>1. Top.this \in ObjectOrNone /\ Top.this \in Nodes \cup {None}
    BY <1>2, <1>3, RunFacts DEF ObjectOrNone
  <2> QED
    BY <2>1, CallActivation
<1> HIDE DEF t, b
<1>6. Sound(Append(t, b), Nodes, lost, destroyStack, constructionStack)
  <2>1. t[Len(t)] = a
    BY <1>4
  <2> QED
    BY <1>2, <1>4, <1>5, <2>1, PushSound
<1>7. field' \in [Objects -> Nodes \cup {None}] /\ stack' = Append(t, b)
  BY RunFacts DEF destroy_next, a, t, b
<1> QED
  BY <1>1, <1>6, <1>7, PlainStep DEF destroy_next

\* A destructor chain is over: its object is the innermost one being destroyed.
LEMMA KeepEndDestroy == ASSUME IInv, end_destroy PROVE IInv'
<1>1. /\ pc = "run" /\ stack[Len(stack)].kind = "destroy" /\ Top = stack[Len(stack)]
      /\ UNCHANGED <<heap, field, gcVars>>
  BY DEF end_destroy, Top
<1>2. Len(stack) - 1 \in Nat /\ Len(stack) - 1 <= Len(stack) /\ Len(stack) > 1
  BY <1>1, RunFacts
<1>3. CASE Top.first # None
  <2> DEFINE m == Len(stack) - 1
             e == Top.first
  <2>1. Top.first \in Nodes \cup lost \cup {None}
    BY <1>1, RunFacts, HoldsKinds
  <2>2. m \in Nat /\ m <= Len(stack) /\ raise_exception(e, m) /\ e \in Nodes \cup lost \cup {None}
    BY <1>2, <1>3, <2>1, RunFacts DEF end_destroy
  <2> HIDE DEF m, e
  <2> QED
    BY <1>1, <2>2, KeepRaise
<1>4. CASE Top.first = None
  <2>1. /\ destroying' = destroying \ {Top.this}
        /\ pc' = IF destroyStack # <<>> /\ Last(destroyStack) = Top.this THEN pc ELSE "aborted"
        /\ destroyStack' = Front(destroyStack) /\ stack' = Front(stack)
        /\ UNCHANGED <<destroyed, constructing, constructionStack>>
    BY <1>4 DEF end_destroy
  <2>2. /\ Sound(Front(stack), Nodes, lost, Front(destroyStack), constructionStack)
        /\ Len(destroyStack) # 0 /\ destroyStack[Len(destroyStack)] = Top.this
    BY <1>1, <1>2, RunFacts, PopSound DEF StackInv
  <2>3. destroyStack \in Seq(Objects) /\ IsInjective(destroyStack)
    BY RunFacts, StacksAreNodes DEF UnwindInv
  <2>4. /\ IsInjective(Front(destroyStack)) /\ Last(destroyStack) = Top.this
        /\ ToSet(Front(destroyStack)) = ToSet(destroyStack) \ {Top.this}
    BY <2>2, <2>3, FrontInjective
  <2>5. pc' = "run"
    <3>1. destroyStack # <<>>
      BY <2>2, <2>3
    <3> QED
      BY <1>1, <2>1, <2>4, <3>1
  <2>6. StackInv'
    BY <1>1, <2>1, <2>2 DEF StackInv, Nodes, gcVars, histVars
  <2>7. UnwindInv'
    BY <1>1, <2>1, <2>4, RunFacts DEF UnwindInv, Nodes, gcVars, histVars
  <2>8. /\ heap' = heap /\ UNCHANGED gcVars /\ destroyed' \subseteq Objects
        /\ field' \in [Objects -> Nodes \cup {None}]
    BY <1>1, <2>1, RunFacts DEF IInv, FlagsInv
  <2> QED
    BY <1>1, <2>5, <2>6, <2>7, <2>8, RunStep
<1> QED
  BY <1>3, <1>4

----------------------------------------------------------------------------
(* The steps of a collection.                                              *)

Paused == Top.kind # "destroy"

\* A step of the collector that changes neither the activations nor the stacks.
LEMMA CollectorFrame ==
  ASSUME IInv, UNCHANGED <<heap, stack, lost, constructing, destroyStack, constructionStack>>
  PROVE  /\ Nodes' = Nodes /\ LiveRoots' = LiveRoots /\ StackInv' /\ Paused' = Paused
         /\ heap' \in Seq(Objects) /\ IsInjective(heap')
<1>1. Nodes' = Nodes
  BY DEF Nodes
<1>2. LiveRoots' = LiveRoots
  BY <1>1 DEF Roots, LiveRoots
<1>3. StackInv'
  BY <1>1 DEF IInv, StackInv
<1>4. Paused' = Paused
  BY DEF Paused, Top
<1> QED
  BY <1>1, <1>2, <1>3, <1>4 DEF IInv, HeapInv

\* The roots are marked and put on the worklist.
LEMMA KeepMarkRoots ==
  ASSUME IInv, NEW label \in {"mark", "remark"}, mark_roots(label), Paused, finalizing = None,
         UNCHANGED <<heap, field, destroyed, stack, todo, finalizing, histVars, unwindVars>>
  PROVE  IInv'
<1>1. /\ Nodes' = Nodes /\ LiveRoots' = LiveRoots /\ StackInv' /\ Paused' = Paused
      /\ heap' \in Seq(Objects) /\ IsInjective(heap')
  BY CollectorFrame DEF unwindVars, gcVars, histVars
<1>2. LiveRoots \subseteq Nodes /\ Nodes \subseteq Objects
  BY RunFacts DEF LiveRoots
<1>4. marked' = LiveRoots /\ worklist' = SetToSeq(LiveRoots) /\ pc' = label
  BY DEF mark_roots
<1>5. /\ SetToSeq(LiveRoots) \in Seq(Objects) /\ IsInjective(SetToSeq(LiveRoots))
      /\ ToSet(SetToSeq(LiveRoots)) = LiveRoots
  <2> DEFINE R == LiveRoots
  <2>1. IsFiniteSet(R) /\ R \subseteq Objects
    BY <1>2, ObjectsAreFinite, FS_Subset
  <2> HIDE DEF R
  <2>2. SetToSeq(R) \in Seq(R) /\ IsInjective(SetToSeq(R)) /\ ToSet(SetToSeq(R)) = R
    BY <2>1, SetToSeqElements
  <2>3. SetToSeq(R) \in Seq(Objects)
    BY <2>1, <2>2
  <2> QED
    BY <2>2, <2>3 DEF R
<1>6. HeapInv'
  BY <1>1 DEF IInv, HeapInv
<1>7. FlagsInv'
  BY <1>1, <1>2, <1>4 DEF IInv, FlagsInv, histVars
<1>8. UnwindInv'
  BY <1>1, RunFacts DEF UnwindInv, unwindVars
<1>9. PauseInv'
  BY <1>1 DEF PauseInv, Paused
<1>10. TraceInv'
  <2>1. Scanned'
    BY <1>4, <1>5 DEF Scanned
  <2>2. MarkedReach'
    BY <1>1, <1>4 DEF MarkedReach
  <2> QED
    BY <1>1, <1>4, <1>5, <2>1, <2>2 DEF TraceInv
<1> QED
  BY <1>1, <1>6, <1>7, <1>8, <1>9, <1>10 DEF IInv

\* A collection starts.
LEMMA KeepCollect == ASSUME IInv, gc_collect PROVE IInv'
<1>1. Paused /\ pc = "run"
  BY DEF gc_collect, Evaluating, Running, Paused
<1>2. finalizing = None
  BY <1>1, RunFacts
<1> QED
  BY <1>1, <1>2, KeepMarkRoots DEF gc_collect

\* The collector marks again, after the finalizers.
LEMMA KeepRemark == ASSUME IInv, remark PROVE IInv'
<1>1. Paused
  BY DEF remark, IInv, PauseInv, Paused
<1>2. finalizing = None
  BY DEF remark, IInv, UnwindInv
<1> QED
  BY <1>1, <1>2, KeepMarkRoots DEF remark

\* A node is taken from the worklist and what it refers to is marked.
LEMMA KeepTrace == ASSUME IInv, trace_graph PROVE IInv'
<1> DEFINE w == Last(worklist)
           o == field[w]
           rest == Front(worklist)
<1>1. /\ pc \in {"mark", "remark"} /\ worklist # <<>>
      /\ UNCHANGED <<heap, field, destroyed, stack, pc, todo, finalizing, histVars, unwindVars>>
  BY DEF trace_graph
<1>2. /\ Nodes' = Nodes /\ LiveRoots' = LiveRoots /\ StackInv' /\ Paused' = Paused
      /\ heap' \in Seq(Objects) /\ IsInjective(heap')
  BY <1>1, CollectorFrame DEF unwindVars, gcVars, histVars
<1>3. /\ worklist \in Seq(Objects) /\ IsInjective(worklist) /\ ToSet(worklist) \subseteq marked
      /\ LiveRoots \subseteq marked /\ Scanned /\ MarkedReach
  BY <1>1 DEF IInv, TraceInv
<1>4. Len(worklist) # 0
  BY <1>1, <1>3
<1>5. /\ rest \in Seq(Objects) /\ IsInjective(rest) /\ w \in ToSet(worklist)
      /\ ToSet(rest) = ToSet(worklist) \ {w}
  BY <1>3, <1>4, FrontInjective
<1>6. marked \subseteq Nodes /\ Nodes \subseteq Objects /\ field \in [Objects -> Nodes \cup {None}]
  BY RunFacts DEF IInv, FlagsInv
<1>7. w \in marked /\ o \in Nodes \cup {None}
  BY <1>3, <1>5, <1>6
<1>8. \/ o \in Nodes \ marked /\ marked' = marked \cup {o} /\ worklist' = Append(rest, o)
      \/ o \notin Nodes \ marked /\ marked' = marked /\ worklist' = rest
  BY DEF trace_graph
<1> HIDE DEF w, o, rest
<1>9. HeapInv' /\ UnwindInv' /\ PauseInv'
  BY <1>1, <1>2 DEF IInv, HeapInv, UnwindInv, PauseInv, Paused, unwindVars
<1>10. FlagsInv' /\ marked \subseteq marked' /\ marked' \subseteq Nodes
  BY <1>1, <1>2, <1>6, <1>8 DEF IInv, FlagsInv, histVars
<1>11. /\ worklist' \in Seq(Objects) /\ IsInjective(worklist') /\ ToSet(worklist') \subseteq marked'
       /\ ToSet(rest) \subseteq ToSet(worklist')
       /\ (marked' \ marked) \subseteq ToSet(worklist')
  <2>1. CASE o \in Nodes \ marked /\ marked' = marked \cup {o} /\ worklist' = Append(rest, o)
    <3>1. o \in Objects /\ o \notin ToSet(rest)
      BY <1>3, <1>5, <1>6, <2>1
    <3>2. /\ Append(rest, o) \in Seq(Objects) /\ ToSet(Append(rest, o)) = ToSet(rest) \cup {o}
          /\ IsInjective(Append(rest, o))
      BY <1>5, <3>1, AppendNew
    <3> QED
      BY <1>3, <1>5, <2>1, <3>2
  <2>2. CASE o \notin Nodes \ marked /\ marked' = marked /\ worklist' = rest
    BY <1>3, <1>5, <2>2
  <2> QED
    BY <1>8, <2>1, <2>2
<1>12. Scanned'
  <2> SUFFICES ASSUME NEW x \in marked', x \notin ToSet(worklist')
               PROVE  field[x] \in marked' \cup {None}
    BY <1>1 DEF Scanned
  <2>1. x \in marked /\ x \notin ToSet(rest)
    BY <1>11
  <2>2. CASE x = w
    <3>1. field[x] = o
      BY <2>2 DEF o
    <3> QED
      BY <1>7, <1>8, <3>1
  <2>3. CASE x # w
    <3>1. x \notin ToSet(worklist)
      BY <1>5, <2>1, <2>3
    <3> QED
      BY <1>3, <1>10, <2>1, <3>1 DEF Scanned
  <2> QED
    BY <2>2, <2>3
<1>13. MarkedReach'
  <2> SUFFICES ASSUME NEW T \in SUBSET Objects, LiveRoots \subseteq T,
                      \A x \in T \cap marked' : field[x] \in T \cup {None}
               PROVE  marked' \subseteq T
    BY <1>1, <1>2 DEF MarkedReach
  <2>1. marked \subseteq T
    <3>1. \A x \in T \cap marked : field[x] \in T \cup {None}
      BY <1>10
    <3> QED
      BY <1>3, <3>1 DEF MarkedReach
  <2>2. o \in T \cup {None}
    BY <1>7, <1>10, <2>1 DEF o
  <2>3. o \in Nodes \ marked => o \in T
    BY <1>6, <2>2, NoneIsNoObject
  <2> QED
    BY <1>8, <2>1, <2>3
<1>14. TraceInv'
  BY <1>1, <1>2, <1>3, <1>10, <1>11, <1>12, <1>13 DEF TraceInv
<1> QED
  BY <1>2, <1>9, <1>10, <1>14 DEF IInv

\* The first trace is over.
LEMMA KeepMarkDone == ASSUME IInv, mark_done PROVE IInv'
<1>1. /\ pc = "mark" /\ worklist = <<>> /\ todo' = Nodes /\ pc' = "finalize" /\ reached' = marked
      /\ UNCHANGED <<heap, field, destroyed, stack, marked, worklist, finalizing, lost, unwindVars>>
  BY DEF mark_done
<1>2. /\ Nodes' = Nodes /\ LiveRoots' = LiveRoots /\ StackInv' /\ Paused' = Paused
      /\ heap' \in Seq(Objects) /\ IsInjective(heap')
  BY <1>1, CollectorFrame DEF unwindVars, gcVars, histVars
<1>3. HeapInv' /\ UnwindInv' /\ PauseInv'
  BY <1>1, <1>2 DEF IInv, HeapInv, UnwindInv, PauseInv, Paused, unwindVars
<1>4. FlagsInv' /\ TraceInv'
  BY <1>1, <1>2, RunFacts DEF IInv, FlagsInv, TraceInv
<1> QED
  BY <1>2, <1>3, <1>4 DEF IInv

\* A finalizer is called.
LEMMA KeepFinalize == ASSUME IInv, finalize PROVE IInv'
<1>1. PICK i \in 1..Len(heap) :
        /\ heap[i] \in todo \ (marked \cup destroyed)
        /\ todo' = todo \ {heap[j] : j \in 1..i}
        /\ destroyed' = destroyed \cup {heap[i]}
        /\ destroying' = destroying \cup {heap[i]}
        /\ finalizing' = heap[i]
  BY DEF finalize
<1>2. /\ pc = "finalize" /\ pc' = "finalizer"
      /\ UNCHANGED <<heap, field, stack, marked, worklist, histVars, constructing,
                     destroyStack, constructionStack>>
  BY DEF finalize
<1>3. /\ Nodes' = Nodes /\ LiveRoots' = LiveRoots /\ StackInv' /\ Paused' = Paused
      /\ heap' \in Seq(Objects) /\ IsInjective(heap')
  BY <1>2, CollectorFrame DEF histVars
<1>4. heap[i] \in Nodes /\ heap[i] \in Objects
  BY RunFacts, Elements DEF Nodes
<1>5. HeapInv' /\ PauseInv'
  BY <1>2, <1>3 DEF IInv, HeapInv, PauseInv, Paused
<1>6. UnwindInv'
  <2>1. finalizing = None /\ heap[i] # None
    BY <1>2, <1>4, NoneIsNoObject DEF IInv, UnwindInv
  <2>2. heap[i] \notin ToSet(destroyStack)
    BY <1>1 DEF IInv, UnwindInv
  <2> QED
    BY <1>1, <1>2, <1>3, <1>4, <2>1, <2>2 DEF IInv, UnwindInv
<1>7. FlagsInv' /\ TraceInv'
  BY <1>1, <1>2, <1>3, <1>4 DEF IInv, FlagsInv, TraceInv, histVars
<1> QED
  BY <1>3, <1>5, <1>6, <1>7 DEF IInv

\* A finalizer assigns a field.
LEMMA KeepFinalizerStore ==
  ASSUME IInv, NEW x \in Objects, NEW y \in ObjectOrNone, finalizer_store(x, y) PROVE IInv'
<1>1. /\ pc = "finalizer" /\ field' = [field EXCEPT ![x] = y]
      /\ UNCHANGED <<heap, destroyed, stack, pc, gcVars, unwindVars>>
  BY DEF finalizer_store
<1>2. y \in Nodes \cup {None}
  BY DEF finalizer_store, Touchable, Alive
<1>3. /\ Nodes' = Nodes /\ LiveRoots' = LiveRoots /\ StackInv' /\ Paused' = Paused
      /\ heap' \in Seq(Objects) /\ IsInjective(heap')
  BY <1>1, CollectorFrame DEF unwindVars, gcVars, histVars
<1>4. HeapInv'
  BY <1>1, <1>2, <1>3, RunFacts DEF HeapInv
<1>5. UnwindInv' /\ PauseInv' /\ FlagsInv' /\ TraceInv'
  BY <1>1, <1>3 DEF IInv, UnwindInv, PauseInv, Paused, FlagsInv, TraceInv, unwindVars, gcVars, histVars
<1> QED
  BY <1>3, <1>4, <1>5 DEF IInv

\* A finalizer destroys another object.
LEMMA KeepFinalizerDestroy == ASSUME IInv, NEW o \in Objects, finalizer_destroy(o) PROVE IInv'
<1>1. /\ pc = "finalizer" /\ destroyed' = destroyed \cup {o}
      /\ UNCHANGED <<heap, field, stack, pc, gcVars, unwindVars>>
  BY DEF finalizer_destroy
<1>2. /\ Nodes' = Nodes /\ LiveRoots' = LiveRoots /\ StackInv' /\ Paused' = Paused
      /\ heap' \in Seq(Objects) /\ IsInjective(heap')
  BY <1>1, CollectorFrame DEF unwindVars, gcVars, histVars
<1>3. HeapInv' /\ UnwindInv' /\ PauseInv' /\ FlagsInv' /\ TraceInv'
  BY <1>1, <1>2
     DEF IInv, HeapInv, UnwindInv, PauseInv, Paused, FlagsInv, TraceInv, unwindVars, gcVars, histVars
<1> QED
  BY <1>2, <1>3 DEF IInv

\* A finalizer returns.
LEMMA KeepFinalizerReturn == ASSUME IInv, finalizer_return PROVE IInv'
<1>1. /\ pc = "finalizer" /\ pc' = "finalize" /\ finalizing' = None
      /\ destroying' = destroying \ {finalizing}
      /\ UNCHANGED <<heap, field, destroyed, stack, marked, worklist, todo, histVars,
                     constructing, destroyStack, constructionStack>>
  BY DEF finalizer_return
<1>2. /\ Nodes' = Nodes /\ LiveRoots' = LiveRoots /\ StackInv' /\ Paused' = Paused
      /\ heap' \in Seq(Objects) /\ IsInjective(heap')
  BY <1>1, CollectorFrame DEF histVars
<1>3. None \notin ToSet(destroyStack)
  BY RunFacts, StacksAreNodes, NoneIsNoObject
<1>4. UnwindInv'
  BY <1>1, <1>2, <1>3 DEF IInv, UnwindInv
<1>5. HeapInv' /\ PauseInv' /\ FlagsInv' /\ TraceInv'
  BY <1>1, <1>2 DEF IInv, HeapInv, PauseInv, Paused, FlagsInv, TraceInv, histVars
<1> QED
  BY <1>2, <1>4, <1>5 DEF IInv

\* The process aborts in a finalizer or because memory is exhausted.
LEMMA KeepAbort ==
  ASSUME IInv, pc \in {"finalizer", "swept"}, pc' = "aborted",
         UNCHANGED <<heap, field, destroyed, stack, gcVars, unwindVars>>
  PROVE  IInv'
<1>1. /\ Nodes' = Nodes /\ LiveRoots' = LiveRoots /\ StackInv' /\ Paused' = Paused
      /\ heap' \in Seq(Objects) /\ IsInjective(heap')
  BY CollectorFrame DEF unwindVars, gcVars, histVars
<1>2. HeapInv' /\ UnwindInv' /\ PauseInv' /\ FlagsInv' /\ TraceInv'
  BY <1>1
     DEF IInv, HeapInv, UnwindInv, PauseInv, Paused, FlagsInv, TraceInv, unwindVars, gcVars, histVars
<1> QED
  BY <1>1, <1>2 DEF IInv

\* The second trace is over.
LEMMA KeepRemarkDone == ASSUME IInv, remark_done PROVE IInv'
<1>1. /\ pc = "remark" /\ worklist = <<>> /\ pc' = "sweep"
      /\ UNCHANGED <<heap, field, destroyed, stack, gcVars, unwindVars>>
  BY DEF remark_done
<1>2. /\ Nodes' = Nodes /\ LiveRoots' = LiveRoots /\ StackInv' /\ Paused' = Paused
      /\ heap' \in Seq(Objects) /\ IsInjective(heap')
  BY <1>1, CollectorFrame DEF unwindVars, gcVars, histVars
<1>3. HeapInv' /\ UnwindInv' /\ PauseInv' /\ FlagsInv'
  BY <1>1, <1>2 DEF IInv, HeapInv, UnwindInv, PauseInv, Paused, FlagsInv, unwindVars, gcVars, histVars
<1>4. TraceInv'
  BY <1>1, <1>2 DEF IInv, TraceInv, Scanned, MarkedReach, gcVars, histVars
<1> QED
  BY <1>2, <1>3, <1>4 DEF IInv

\* What is not marked is freed.  All that activations hold is marked.
LEMMA KeepSweep == ASSUME IInv, sweep PROVE IInv'
<1> DEFINE I == {i \in 1..Len(heap) : heap[i] \in marked}
<1>1. /\ pc = "sweep" /\ heap' = Part(heap, I) /\ pc' = "swept" /\ marked' = {} /\ todo' = {}
      /\ field' = [o \in Objects |-> IF o \in marked THEN field[o] ELSE None]
      /\ destroyed' = destroyed \cap marked
      /\ reached' = {} /\ lost' = lost \cup (Kept \cap (Nodes \ marked))
      /\ UNCHANGED <<stack, worklist, finalizing, unwindVars>>
  BY DEF sweep
<1>2. marked \subseteq Nodes /\ Nodes \subseteq Objects /\ heap \in Seq(Objects) /\ IsInjective(heap)
  BY RunFacts DEF IInv, FlagsInv, HeapInv
<1>3. Nodes' = marked /\ heap' \in Seq(Objects) /\ IsInjective(heap')
  <2>1. /\ heap' \in Seq(Objects) /\ IsInjective(heap') /\ ToSet(heap') = {heap[i] : i \in I}
    <3>1. I \in SUBSET (1..Len(heap))
      OBVIOUS
    <3> HIDE DEF I
    <3> QED
      BY <1>1, <1>2, <3>1, PartInjective
  <2>2. \A x : x \in Nodes <=> \E i \in 1..Len(heap) : x = heap[i]
    BY <1>2, Elements DEF Nodes
  <2>3. {heap[i] : i \in I} = marked
    <3>1. ASSUME NEW x \in marked PROVE x \in {heap[i] : i \in I}
      <4>1. PICK i \in 1..Len(heap) : x = heap[i]
        BY <1>2, <2>2
      <4> QED
        BY <3>1, <4>1
    <3> QED
      BY <3>1
  <2> QED
    BY <2>1, <2>3 DEF Nodes
<1>4. worklist = <<>> /\ LiveRoots \subseteq marked /\ Scanned /\ Paused /\ finalizing = None
  BY <1>1 DEF IInv, TraceInv, PauseInv, Paused, UnwindInv
<1>5. \A o \in marked : field[o] \in marked \cup {None}
  BY <1>4 DEF Scanned, ToSet
<1>6. HeapInv'
  BY <1>1, <1>3, <1>5 DEF HeapInv
<1>7. Sound(stack, marked, lost', destroyStack, constructionStack)
  <2>1. \A i \in 1..Len(stack) : Holds(stack[i], marked, lost')
    <3> TAKE i \in 1..Len(stack)
    <3>1. Held(stack[i]) \subseteq marked \cup {None}
      <4>1. Held(stack[i]) \subseteq LiveRoots \cup {None}
        BY <1>4, RunFacts, HeldIsRooted DEF Paused
      <4> QED
        BY <1>4, <4>1
    <3>2. Exception(stack[i]) \subseteq Nodes \cup lost \cup {None}
      BY RunFacts DEF StackInv, Sound, Holds
    <3>3. Exception(stack[i]) \cap Nodes \subseteq marked \cup lost'
      <4>1. CASE stack[i].kind = "try"
        <5>1. Exception(stack[i]) = Slots(stack[i])
          BY <4>1 DEF Exception, Slots
        <5> QED
          BY <1>2, <1>4, <5>1 DEF LiveRoots, Roots
      <4>2. CASE stack[i].kind = "destroy"
        <5>1. Exception(stack[i]) = {stack[i].first}
          BY <4>2 DEF Exception
        <5>2. stack[i].first \in Objects => stack[i].first \in Kept
          BY <4>2 DEF Kept
        <5> QED
          BY <1>1, <1>2, <5>1, <5>2
      <4>3. CASE stack[i].kind \notin {"try", "destroy"}
        BY <4>3 DEF Exception
      <4> QED
        BY <4>1, <4>2, <4>3
    <3>4. lost \subseteq lost'
      BY <1>1
    <3>5. Exception(stack[i]) \subseteq marked \cup lost' \cup {None}
      BY <3>2, <3>3, <3>4
    <3> QED
      BY <3>1, <3>5 DEF Holds
  <2>2. Agrees(stack, stack, Len(stack))
    BY RunFacts DEF Agrees
  <2>3. Sound(stack, Nodes, lost, destroyStack, constructionStack)
    BY RunFacts DEF StackInv
  <2> DEFINE K == lost'
  <2>4. \A i \in 1..Len(stack) : Holds(stack[i], marked, K)
    BY <2>1
  <2> HIDE DEF K
  <2>5. Sound(stack, marked, K, destroyStack, constructionStack)
    BY <2>2, <2>3, <2>4, ReplaceSound
  <2> QED
    BY <2>5 DEF K
<1>8. StackInv'
  BY <1>1, <1>3, <1>7 DEF StackInv, unwindVars
<1>9. UnwindInv'
  <2>1. ToSet(destroyStack) \subseteq marked
    BY <1>7, SoundStacks
  <2> QED
    BY <1>1, <1>3, <1>4, <2>1 DEF IInv, UnwindInv, unwindVars
<1>10. PauseInv'
  BY <1>1, <1>4 DEF PauseInv, Paused, Top
<1>11. FlagsInv' /\ TraceInv'
  <2>1. lost' \subseteq Objects
    BY <1>1, <1>2 DEF IInv, FlagsInv
  <2> QED
    BY <1>1, <1>4, <2>1 DEF IInv, FlagsInv, TraceInv, ToSet
<1> QED
  BY <1>6, <1>8, <1>9, <1>10, <1>11 DEF IInv

\* The facts about the heap after a node has been linked.
LEMMA LinkNode ==
  ASSUME IInv, pc = "swept", NEW o \in Objects, o \notin Nodes, heap' = <<o>> \o heap,
         pc' = "run", UNCHANGED <<field, destroyed, gcVars>>
  PROVE  HeapInv' /\ FlagsInv' /\ PauseInv' /\ TraceInv' /\ Nodes' = Nodes \cup {o}
<1>1. heap' \in Seq(Objects) /\ IsInjective(heap') /\ Nodes' = Nodes \cup {o}
  BY ConsInjective DEF IInv, HeapInv, Nodes
<1>2. HeapInv'
  BY <1>1, RunFacts DEF HeapInv
<1>3. FlagsInv' /\ PauseInv' /\ TraceInv'
  BY <1>1 DEF IInv, FlagsInv, PauseInv, TraceInv, gcVars, histVars
<1> QED
  BY <1>1, <1>2, <1>3

\* An object without constructor is allocated.
LEMMA KeepAlloc == ASSUME IInv, NEW o \in Objects, gc_alloc(o) PROVE IInv'
<1>1. /\ pc = "swept" /\ o \notin Nodes /\ heap' = <<o>> \o heap /\ stack' = SetLocal(o)
      /\ pc' = "run" /\ UNCHANGED <<field, destroyed, gcVars, unwindVars>>
  BY DEF gc_alloc
<1>2. HeapInv' /\ FlagsInv' /\ PauseInv' /\ TraceInv' /\ Nodes' = Nodes \cup {o}
  BY <1>1, LinkNode
<1>3. Sound(SetLocal(o), Nodes \cup {o}, lost, destroyStack, constructionStack)
  <2> DEFINE M == Nodes \cup {o}
  <2>1. Nodes \subseteq M /\ o \in M \cup {None} /\ o \in ObjectOrNone
    BY DEF ObjectOrNone
  <2> HIDE DEF M
  <2>2. Sound(SetLocal(o), M, lost, destroyStack, constructionStack)
    BY <2>1, RunFacts, SetLocalSound
  <2> QED
    BY <2>2 DEF M
<1>4. StackInv'
  BY <1>1, <1>2, <1>3 DEF StackInv, unwindVars, gcVars, histVars
<1>5. UnwindInv'
  BY <1>1, <1>2 DEF IInv, UnwindInv, unwindVars, gcVars, histVars
<1> QED
  BY <1>2, <1>4, <1>5 DEF IInv

\* An object is allocated and its construction begins.
LEMMA KeepAllocConstruct == ASSUME IInv, NEW o \in Objects, gc_alloc_construct(o) PROVE IInv'
<1> DEFINE a == Construct(o)
           c2 == Append(constructionStack, o)
           M == Nodes \cup {o}
<1>1. /\ pc = "swept" /\ o \notin Nodes /\ heap' = <<o>> \o heap /\ stack' = Append(stack, a)
      /\ o \notin constructing /\ constructing' = constructing \cup {o}
      /\ constructionStack' = c2
      /\ pc' = "run" /\ UNCHANGED <<field, destroyed, gcVars, destroying, destroyStack>>
  BY DEF gc_alloc_construct, begin_construction
<1>2. HeapInv' /\ FlagsInv' /\ PauseInv' /\ TraceInv' /\ Nodes' = M
  BY <1>1, LinkNode
<1>3. a \in Constructs /\ a.kind = "construct" /\ a.this = o
  BY DEF Construct, Constructs
<1> HIDE DEF a
<1>4. a \in Activations /\ Holds(a, M, lost)
  BY <1>3, HoldsKinds DEF Activations
<1>5. Sound(stack, M, lost, destroyStack, constructionStack)
  <2>1. \A i \in 1..Len(stack) : Holds(stack[i], M, lost)
    BY RunFacts DEF StackInv, Sound, Holds
  <2>2. Agrees(stack, stack, Len(stack))
    BY RunFacts DEF Agrees
  <2>3. Sound(stack, Nodes, lost, destroyStack, constructionStack)
    BY RunFacts DEF StackInv
  <2> HIDE DEF M
  <2> QED
    BY <2>1, <2>2, <2>3, ReplaceSound
<1>6. stack[Len(stack)].kind # "destroy"
  BY <1>1 DEF IInv, PauseInv, Top
<1> HIDE DEF M
<1>7. Sound(Append(stack, a), M, lost, destroyStack, c2)
  BY <1>3, <1>4, <1>5, <1>6, PushSound
<1>8. StackInv'
  BY <1>1, <1>2, <1>7 DEF StackInv, gcVars, histVars
<1>9. /\ ToSet(c2) = ToSet(constructionStack) \cup {o}
      /\ IsInjective(constructionStack) /\ o \notin ToSet(constructionStack) => IsInjective(c2)
  BY RunFacts, StacksAreNodes, AppendNew
<1> HIDE DEF c2
<1>10. UnwindInv'
  BY <1>1, <1>2, <1>9 DEF IInv, UnwindInv, gcVars, histVars, M
<1> QED
  BY <1>2, <1>8, <1>10 DEF IInv

----------------------------------------------------------------------------
(* The invariant holds.                                                    *)

\* It holds before the start block runs.
LEMMA InitIInv == Init => IInv
<1> SUFFICES ASSUME Init PROVE IInv
  OBVIOUS
<1> USE DEF Init
<1>1. ToSet(<<>>) = {} /\ IsInjective(<<>>) /\ <<>> \in Seq(Objects)
  BY DEF ToSet, IsInjective
<1>2. Nodes = {}
  BY <1>1 DEF Nodes
<1>3. HeapInv /\ FlagsInv /\ UnwindInv /\ PauseInv /\ TraceInv
  BY <1>1, <1>2 DEF HeapInv, FlagsInv, UnwindInv, PauseInv, TraceInv
<1>4. /\ Call(None) \in Activations /\ Call(None).kind = "call"
      /\ Holds(Call(None), Nodes, lost)
  BY CallActivation DEF ObjectOrNone
<1> DEFINE s == <<Call(None)>>
<1>5. /\ s \in Seq(Activations) /\ Len(s) = 1 /\ s[1] = Call(None)
  BY <1>4
<1> HIDE DEF s
<1>6. \A i \in 1..Len(s) : i = 1 /\ s[i].kind = "call"
  BY <1>4, <1>5
<1>7. CountOf(s, "destroy", 1) = 0 /\ CountOf(s, "construct", 1) = 0
  <2>1. {j \in 1..1 : s[j].kind = "destroy"} = {} /\ {j \in 1..1 : s[j].kind = "construct"} = {}
    BY <1>5, <1>6
  <2> QED
    BY <2>1, FS_EmptySet DEF CountOf
<1>8. Tracks(s, <<>>, "destroy") /\ Tracks(s, <<>>, "construct") /\ Saved(s) /\ Chained(s)
  BY <1>1, <1>5, <1>6, <1>7 DEF Tracks, Saved, Chained
<1>9. Sound(s, Nodes, lost, <<>>, <<>>)
  BY <1>4, <1>5, <1>6, <1>8 DEF Sound
<1>10. StackInv
  BY <1>9 DEF StackInv, s
<1> QED
  BY <1>3, <1>10 DEF IInv

\* Every step keeps it.
LEMMA StepIInv ==
  ASSUME IInv, [Next]_vars
  PROVE  IInv'
<1>1. CASE Mutator
  BY <1>1, KeepLoad, KeepStore, KeepCall, KeepReturn, KeepConstructorCall, KeepEndConstruction,
     KeepRaiseStatement, KeepTryEnter, KeepTryDone, KeepRethrow, KeepReadFreed, KeepCleanupDone,
     KeepBeginDestroy, KeepDestroyNext, KeepEndDestroy
     DEF Mutator
<1>2. CASE Collector
  <2>1. CASE finalizer_abort \/ alloc_fails
    BY <2>1, KeepAbort DEF finalizer_abort, alloc_fails
  <2> QED
    BY <1>2, <2>1, KeepCollect, KeepTrace, KeepMarkDone, KeepFinalize, KeepFinalizerStore,
       KeepFinalizerDestroy, KeepFinalizerReturn, KeepRemark, KeepRemarkDone, KeepSweep,
       KeepAlloc, KeepAllocConstruct
       DEF Collector
<1>3. CASE UNCHANGED vars
  <2>1. /\ Nodes' = Nodes /\ LiveRoots' = LiveRoots /\ StackInv' /\ Paused' = Paused
        /\ heap' \in Seq(Objects) /\ IsInjective(heap')
    BY <1>3, CollectorFrame DEF vars, unwindVars, gcVars, histVars
  <2>2. HeapInv' /\ UnwindInv' /\ PauseInv' /\ FlagsInv'
    BY <1>3, <2>1
       DEF IInv, HeapInv, UnwindInv, PauseInv, Paused, FlagsInv, vars, unwindVars, gcVars, histVars
  <2>3. TraceInv'
    BY <1>3, <2>1 DEF IInv, TraceInv, Scanned, MarkedReach, vars, gcVars, histVars
  <2> QED
    BY <2>1, <2>2, <2>3 DEF IInv
<1> QED
  BY <1>1, <1>2, <1>3 DEF Next, Ended

\* The invariant is inductive, whatever destructor bodies and finalizers do.
THEOREM Inductive == Spec => []IInv
<1>1. Init => IInv
  BY InitIInv
<1>2. IInv /\ [Next]_vars => IInv'
  BY StepIInv
<1> QED
  BY <1>1, <1>2, PTL DEF Spec

----------------------------------------------------------------------------
(* What follows from it.                                                   *)

\* The end checks of destructions and constructions never fail.
THEOREM UnwindingIsExact == Spec => []UnwindingExact
<1>1. IInv => UnwindingExact
  <2> SUFFICES ASSUME IInv PROVE UnwindingExact
    OBVIOUS
  <2>1. /\ stack \in Seq(Activations)
        /\ Tracks(stack, destroyStack, "destroy") /\ Tracks(stack, constructionStack, "construct")
    BY DEF IInv, StackInv, Sound
  <2>2. ASSUME NEW q, NEW k, Tracks(stack, q, k) PROVE q = ObjectsOf(k)
    BY <2>1, <2>2, TracksObjects DEF ObjectsOf
  <2>3. destroyStack = ObjectsOf("destroy") /\ constructionStack = ObjectsOf("construct")
    BY <2>1, <2>2
  <2> QED
    BY <2>3 DEF UnwindingExact, IInv, UnwindInv
<1>2. Spec => []IInv
  BY Inductive
<1> QED
  BY <1>1, <1>2, PTL

\* Nothing that is reachable or in use is freed memory.
LEMMA NothingDangles == ASSUME IInv PROVE NoDangling
<1>1. LiveRoots \subseteq Nodes /\ Nodes \in SUBSET Objects
  BY RunFacts DEF LiveRoots
<1>2. Closed(Nodes)
  BY <1>1, RunFacts DEF Closed
<1>3. Closure(LiveRoots) \subseteq Nodes
  BY <1>1, <1>2 DEF Closure
<1>4. ASSUME NEW i \in 1..Len(stack)
      PROVE  Slots(stack[i]) \subseteq Nodes \cup {None} \cup
                                       (IF stack[i].kind = "try" THEN lost ELSE {})
  <2>1. Holds(stack[i], Nodes, lost)
    BY RunFacts DEF StackInv, Sound
  <2>2. CASE stack[i].kind = "try"
    <3>1. Slots(stack[i]) = Exception(stack[i])
      BY <2>2 DEF Slots, Exception
    <3> QED
      BY <2>1, <2>2, <3>1 DEF Holds
  <2>3. CASE stack[i].kind = "destroy"
    BY <2>3 DEF Slots
  <2>4. CASE stack[i].kind \notin {"try", "destroy"}
    <3>1. Slots(stack[i]) = Held(stack[i])
      BY <2>4 DEF Held
    <3> QED
      BY <2>1, <2>4, <3>1 DEF Holds
  <2> QED
    BY <2>2, <2>3, <2>4
<1> QED
  BY <1>3, <1>4, RunFacts, StacksAreNodes DEF NoDangling

\* What is marked at the end of the second trace is what is reachable.
LEMMA MarkedIsReachable == ASSUME IInv PROVE TraceExact
<1> SUFFICES ASSUME pc = "sweep" PROVE marked = Closure(LiveRoots)
  BY DEF TraceExact
<1>1. worklist = <<>> /\ LiveRoots \subseteq marked /\ Scanned /\ MarkedReach
  BY DEF IInv, TraceInv
<1>2. marked \in SUBSET Objects
  BY RunFacts DEF IInv, FlagsInv
<1>3. Closed(marked)
  BY <1>1 DEF Closed, Scanned, ToSet
<1>4. Closure(LiveRoots) \subseteq marked
  BY <1>1, <1>2, <1>3 DEF Closure
<1>5. ASSUME NEW T \in SUBSET Objects, LiveRoots \subseteq T, Closed(T) PROVE marked \subseteq T
  BY <1>1, <1>5 DEF MarkedReach, Closed
<1>6. marked \subseteq Closure(LiveRoots)
  BY <1>2, <1>5 DEF Closure
<1> QED
  BY <1>4, <1>6

\* The types, and the room for the worklist.
LEMMA TypesHold == ASSUME IInv PROVE TypeOK
<1>1. heap \in Seq(Objects) /\ IsInjective(heap) /\ Nodes \subseteq Objects
  BY RunFacts DEF HeapInv
<1>2. Len(heap) = Cardinality(Nodes) /\ IsFiniteSet(Nodes)
  BY <1>1, InjectiveLength DEF Nodes
<1>3. field \in [Objects -> ObjectOrNone]
  BY <1>1, RunFacts DEF ObjectOrNone
<1>4. /\ destroyStack \in Seq(Objects) /\ constructionStack \in Seq(Objects)
      /\ ToSet(destroyStack) \subseteq Nodes /\ ToSet(constructionStack) \subseteq Nodes
  BY RunFacts, StacksAreNodes
<1>5. /\ worklist \in Seq(Objects) /\ IsInjective(worklist) /\ ToSet(worklist) \subseteq Nodes
      /\ marked \subseteq Nodes
  BY DEF IInv, TraceInv, FlagsInv
<1>6. Len(worklist) <= Len(heap)
  <2>1. Len(worklist) = Cardinality(ToSet(worklist))
    BY <1>5, InjectiveLength
  <2>2. Cardinality(ToSet(worklist)) <= Cardinality(Nodes)
    BY <1>2, <1>5, FS_Subset
  <2> QED
    BY <1>2, <2>1, <2>2
<1>7. \A S \in {marked, destroyed, destroying, constructing, todo, reached, lost} : S \subseteq Objects
  <2>1. /\ marked \subseteq Objects /\ destroyed \subseteq Objects /\ todo \subseteq Objects
        /\ reached \subseteq Objects /\ lost \subseteq Objects
    BY <1>1, <1>5 DEF IInv, FlagsInv
  <2>2. destroying \subseteq Objects /\ constructing \subseteq Objects
    BY <1>1, <1>4 DEF IInv, UnwindInv
  <2> QED
    BY <2>1, <2>2
<1>8. \A i \in 1..Len(stack) : stack[i].kind \in {"call", "try", "construct", "destroy"}
  BY RunFacts, ActivationKinds
<1>9. finalizing \in ObjectOrNone
  BY <1>1 DEF IInv, UnwindInv, ObjectOrNone
<1> QED
  BY <1>1, <1>2, <1>3, <1>4, <1>5, <1>6, <1>7, <1>8, <1>9 DEF TypeOK, IInv, FlagsInv

\* Generated code goes on running, or aborts.
LEMMA MutatorRuns == ASSUME Mutator PROVE pc' \in {"run", "aborted"} /\ pc = "run"
<1>1. ASSUME NEW e, NEW n, raise_exception(e, n) PROVE pc' \in {pc, "aborted"}
  BY <1>1 DEF raise_exception
<1>2. ASSUME NEW o \in ObjectOrNone, load(o) PROVE pc = "run" /\ pc' = "run"
  BY <1>2 DEF load, Running
<1>3. ASSUME NEW x \in Objects, NEW y \in ObjectOrNone, store(x, y) PROVE pc = "run" /\ pc' = "run"
  BY <1>3 DEF store, Running
<1>4. ASSUME NEW o \in Objects, call(o) \/ begin_destroy(o) PROVE pc = "run" /\ pc' = "run"
  BY <1>4 DEF call, Evaluating, Running, begin_destroy
<1>5. ASSUME return \/ constructor_call \/ try_enter \/ try_done \/ destroy_next
      PROVE  pc = "run" /\ pc' = "run"
  BY <1>5 DEF return, constructor_call, try_enter, Running, try_done, destroy_next
<1>6. ASSUME NEW e \in Objects, raise(e) PROVE pc = "run" /\ pc' \in {"run", "aborted"}
  BY <1>1, <1>6 DEF raise, Evaluating, Running
<1>7. ASSUME rethrow \/ read_freed \/ cleanup_done PROVE pc = "run" /\ pc' \in {"run", "aborted"}
  BY <1>1, <1>7 DEF rethrow, read_freed, cleanup_done
<1>8. ASSUME end_construction \/ end_destroy PROVE pc = "run" /\ pc' \in {"run", "aborted"}
  BY <1>1, <1>8 DEF end_construction, end_destroy
<1> QED
  BY <1>2, <1>3, <1>4, <1>5, <1>6, <1>7, <1>8 DEF Mutator

\* The finalizer loop passes no node that the first trace did not mark without
\* destroying it.
LEMMA StepReclaimInv ==
  ASSUME IInv, ReclaimInv, [Next]_vars
  PROVE  ReclaimInv'
<1>0. ASSUME pc' \notin {"finalize", "finalizer", "remark", "sweep"} PROVE ReclaimInv'
  BY <1>0 DEF ReclaimInv
<1>1. CASE Mutator
  BY <1>0, <1>1, MutatorRuns
<1>2. CASE gc_collect
  BY <1>0, <1>2 DEF gc_collect, mark_roots
<1>3. CASE trace_graph
  BY <1>3 DEF trace_graph, ReclaimInv, Nodes, histVars
<1>4. CASE mark_done
  BY <1>4 DEF mark_done, ReclaimInv, Nodes
<1>5. CASE finalize
  <2>1. PICK i \in 1..Len(heap) :
          /\ heap[i] \in todo \ (marked \cup destroyed)
          /\ \A j \in 1..i - 1 : heap[j] \notin todo \ (marked \cup destroyed)
          /\ todo' = todo \ {heap[j] : j \in 1..i}
          /\ destroyed' = destroyed \cup {heap[i]}
    BY <1>5 DEF finalize
  <2>2. /\ pc = "finalize" /\ pc' = "finalizer" /\ reached' = reached
        /\ UNCHANGED <<heap, marked>>
    BY <1>5 DEF finalize, histVars
  <2>3. Nodes' = Nodes /\ Len(heap) \in Nat
    BY <2>2, RunFacts DEF Nodes
  <2>4. marked = reached /\ Nodes \subseteq reached \cup destroyed \cup todo
    BY <2>2 DEF ReclaimInv
  <2>5. ASSUME NEW j \in 1..i PROVE heap[j] \in todo => heap[j] \in marked \cup destroyed'
    <3>1. j = i \/ j \in 1..i - 1
      BY <2>3
    <3> QED
      BY <2>1, <3>1
  <2>6. Nodes \subseteq reached \cup destroyed' \cup todo'
    BY <2>1, <2>4, <2>5
  <2> QED
    BY <2>2, <2>3, <2>4, <2>6 DEF ReclaimInv
<1>6. ASSUME NEW x \in Objects, NEW y \in ObjectOrNone, finalizer_store(x, y) PROVE ReclaimInv'
  BY <1>6 DEF finalizer_store, ReclaimInv, Nodes, gcVars, histVars
<1>7. ASSUME NEW o \in Objects, finalizer_destroy(o) PROVE ReclaimInv'
  BY <1>7 DEF finalizer_destroy, ReclaimInv, Nodes, gcVars, histVars
<1>8. CASE finalizer_return
  BY <1>8 DEF finalizer_return, ReclaimInv, Nodes, histVars
<1>9. CASE remark
  BY <1>9 DEF remark, mark_roots, ReclaimInv, Nodes, histVars
<1>10. CASE remark_done
  BY <1>10 DEF remark_done, ReclaimInv, Nodes, gcVars, histVars
<1>11. CASE sweep \/ finalizer_abort \/ alloc_fails
  BY <1>0, <1>11 DEF sweep, finalizer_abort, alloc_fails
<1>12. ASSUME NEW o \in Objects, gc_alloc(o) \/ gc_alloc_construct(o) PROVE ReclaimInv'
  BY <1>0, <1>12 DEF gc_alloc, gc_alloc_construct
<1>13. CASE UNCHANGED vars
  BY <1>13 DEF vars, gcVars, histVars, ReclaimInv, Nodes
<1> QED
  BY <1>1, <1>2, <1>3, <1>4, <1>5, <1>6, <1>7, <1>8, <1>9, <1>10, <1>11, <1>12, <1>13
     DEF Next, Collector, Ended

\* The collector frees exactly what is unreachable when all destructors have
\* run, nothing in use is freed, and what no root reached when the collection
\* began is freed only after its destruction.
THEOREM CollectionIsExact == Spec => []CollectionExact
<1>1. Spec => []IInv
  BY Inductive
<1>2. Init => ReclaimInv
  BY DEF Init, ReclaimInv
<1>3. IInv /\ ReclaimInv /\ [Next]_vars => ReclaimInv'
  BY StepReclaimInv
<1>4. IInv /\ ReclaimInv => CollectionExact
  <2> SUFFICES ASSUME IInv, ReclaimInv PROVE CollectionExact
    OBVIOUS
  <2>1. TypeOK /\ NoDangling /\ TraceExact
    BY TypesHold, NothingDangles, MarkedIsReachable
  <2>2. ReclaimedWasDestroyed
    BY DEF ReclaimedWasDestroyed, ReclaimInv
  <2> QED
    BY <2>1, <2>2 DEF CollectionExact
<1> QED
  BY <1>1, <1>2, <1>3, <1>4, PTL DEF Spec

\* No step makes a destroyed object usable again or frees an object whose
\* constructor or destructor runs.
THEOREM DestroyedStaysDestroyed == Spec => DestroyedForever
<1> DEFINE Forever == /\ destroyed \cap ToSet(heap') \subseteq destroyed'
                      /\ (destroying \cup constructing) \subseteq ToSet(heap')
<1>1. Spec => []IInv
  BY Inductive
<1>2. IInv /\ [Next]_vars => [Forever]_vars
  <2> SUFFICES ASSUME IInv, [Next]_vars PROVE Forever
    OBVIOUS
  <2>1. IInv'
    BY StepIInv
  <2>2. (destroying \cup constructing) \subseteq Nodes
    <3>1. ToSet(destroyStack) \subseteq Nodes /\ ToSet(constructionStack) \subseteq Nodes
      BY RunFacts, StacksAreNodes
    <3> QED
      BY <3>1 DEF IInv, UnwindInv
  <2>3. CASE sweep
    <3>1. /\ destroyed' = destroyed \cap marked /\ finalizing' = finalizing
          /\ UNCHANGED <<destroying, constructing, destroyStack, constructionStack>>
          /\ heap' = Part(heap, {i \in 1..Len(heap) : heap[i] \in marked})
      BY <2>3 DEF sweep, unwindVars
    <3>2. ToSet(heap') \subseteq marked
      <4> DEFINE I == {i \in 1..Len(heap) : heap[i] \in marked}
      <4>1. I \in SUBSET (1..Len(heap)) /\ \A i \in I : heap[i] \in marked
        OBVIOUS
      <4> HIDE DEF I
      <4>2. heap \in Seq(Objects) /\ IsInjective(heap)
        BY RunFacts DEF HeapInv
      <4>3. ToSet(Part(heap, I)) = {heap[i] : i \in I}
        BY <4>1, <4>2, PartInjective
      <4> QED
        BY <3>1, <4>1, <4>3 DEF I
    <3>3. ToSet(destroyStack') \subseteq ToSet(heap') /\ ToSet(constructionStack') \subseteq ToSet(heap')
      <4>1. Sound(stack', Nodes', lost', destroyStack', constructionStack')
        BY <2>1 DEF IInv, StackInv
      <4>2. Nodes' = ToSet(heap')
        BY DEF Nodes
      <4> QED
        BY <4>1, <4>2, SoundStacks
    <3>4. finalizing = None
      BY <2>3 DEF sweep, IInv, UnwindInv
    <3>5. (destroying \cup constructing) \subseteq ToSet(heap')
      BY <3>1, <3>3, <3>4 DEF IInv, UnwindInv
    <3> QED
      BY <3>1, <3>2, <3>5
  <2>4. CASE destroyed \subseteq destroyed' /\ Nodes \subseteq ToSet(heap')
    BY <2>2, <2>4
  <2>5. sweep \/ (destroyed \subseteq destroyed' /\ Nodes \subseteq ToSet(heap'))
    <3>1. ASSUME NEW e, NEW n, raise_exception(e, n) PROVE destroyed \subseteq destroyed'
      BY <3>1 DEF raise_exception, unwindVars
    <3>2. CASE Mutator
      <4>1. heap' = heap
        BY <3>2 DEF Mutator, load, store, call, return, constructor_call, end_construction, raise,
           try_enter, try_done, rethrow, read_freed, cleanup_done, begin_destroy, destroy_next, end_destroy
      <4>2. ASSUME NEW o \in ObjectOrNone, load(o) PROVE destroyed \subseteq destroyed'
        BY <4>2 DEF load
      <4>3. ASSUME NEW x \in Objects, NEW y \in ObjectOrNone, store(x, y)
            PROVE  destroyed \subseteq destroyed'
        BY <4>3 DEF store
      <4>4. ASSUME NEW o \in Objects, call(o) \/ begin_destroy(o) \/ raise(o)
            PROVE  destroyed \subseteq destroyed'
        BY <3>1, <4>4 DEF call, begin_destroy, raise
      <4>5. ASSUME return \/ constructor_call \/ end_construction \/ try_enter \/ try_done \/ destroy_next
            PROVE  destroyed \subseteq destroyed'
        BY <4>5 DEF return, constructor_call, end_construction, try_enter, try_done, destroy_next
      <4>6. ASSUME rethrow \/ read_freed \/ cleanup_done \/ end_destroy PROVE destroyed \subseteq destroyed'
        BY <3>1, <4>6 DEF rethrow, read_freed, cleanup_done, end_destroy, unwindVars
      <4> QED
        BY <3>2, <4>1, <4>2, <4>3, <4>4, <4>5, <4>6 DEF Mutator, Nodes
    <3>3. ASSUME NEW o \in Objects, gc_alloc(o) \/ gc_alloc_construct(o)
          PROVE  destroyed \subseteq destroyed' /\ Nodes \subseteq ToSet(heap')
      <4>1. heap' = <<o>> \o heap /\ o \notin Nodes /\ destroyed' = destroyed
        BY <3>3 DEF gc_alloc, gc_alloc_construct
      <4> QED
        BY <4>1, RunFacts, ConsInjective DEF HeapInv, Nodes
    <3>4. CASE Collector
      BY <3>3, <3>4 DEF Collector, Nodes, gc_collect, trace_graph, mark_done, finalize,
         finalizer_store, finalizer_destroy, finalizer_return, finalizer_abort, remark,
         remark_done, alloc_fails
    <3>5. CASE UNCHANGED vars
      BY <3>5 DEF vars, Nodes
    <3> QED
      BY <3>2, <3>4, <3>5 DEF Next, Ended
  <2> QED
    BY <2>3, <2>4, <2>5
<1> QED
  BY <1>1, <1>2, PTL DEF Spec, DestroyedForever
=============================================================================
