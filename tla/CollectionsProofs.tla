------------------------- MODULE CollectionsProofs -------------------------
(***************************************************************************)
(* Proofs about the dict of module Collections, for any set of keys, any   *)
(* hash function and any number of entries: the index names every entry    *)
(* once, every key that was stored is found and no other, whatever was     *)
(* inserted, overwritten, removed and sliced before.                       *)
(***************************************************************************)
EXTENDS Collections, WellFoundedInduction, FiniteSetTheorems, SequenceTheorems, TLAPS

----------------------------------------------------------------------------
(* Numbers.  Induction is the existence of a least counterexample.         *)

\* Every set of natural numbers that is not empty has a least element.
LEMMA LeastNatural ==
  ASSUME NEW T, T \subseteq Nat, T # {}
  PROVE  \E m \in T : \A k \in T : m <= k
<1> DEFINE R == {ss \in Nat \X Nat : ss[1] < ss[2]}
<1>1. IsWellFoundedOn(R, Nat)
  BY NatLessThanWellFounded DEF OpToRel
<1>2. PICK m \in T : \A k \in T : <<k, m>> \notin R
  <2> HIDE DEF R
  <2> QED
    BY <1>1, WFMin, Zenon
<1>3. \A k \in T : m <= k
  <2> SUFFICES ASSUME NEW k \in T, k < m PROVE FALSE
    OBVIOUS
  <2>1. <<k, m>> \in R
    OBVIOUS
  <2> QED
    BY <1>2, <2>1
<1> QED
  BY <1>3

\* Min is the least element.
LEMMA MinDef ==
  ASSUME NEW T, T \subseteq Nat, T # {}
  PROVE  Min(T) \in T /\ \A k \in T : Min(T) <= k
<1>1. \E m \in T : \A k \in T : m <= k
  BY LeastNatural
<1> QED
  BY <1>1 DEF Min

\* A remainder is below the divisor.
LEMMA ModRange == \A a \in Int, n \in Nat \ {0} : a % n \in 0 .. n - 1
  OBVIOUS

\* A number below the divisor is its own remainder.
LEMMA ModSmall == \A n \in Nat \ {0} : \A a \in 0 .. n - 1 : a % n = a
  OBVIOUS

\* A number is a multiple of the divisor and its remainder.
LEMMA ModDef == \A n \in Nat \ {0}, a \in Nat : \E q \in Nat : a = q * n + (a % n)
<1> SUFFICES ASSUME NEW n \in Nat \ {0}, NEW a \in Nat
             PROVE  a \div n \in Nat /\ a = (a \div n) * n + (a % n)
  OBVIOUS
<1> QED
  OBVIOUS

\* A multiple of the divisor does not change the remainder.
LEMMA ModUnique == \A n \in Nat \ {0}, q \in Nat : \A r \in 0 .. n - 1 : (q * n + r) % n = r
  OBVIOUS

\* Multiplication distributes over addition.
LEMMA Distribute ==
  \A p, q, n \in Nat : (q + p) * n = q * n + p * n /\ q * n \in Nat /\ p * n \in Nat
  OBVIOUS

\* A remainder may be taken before or after an addition.
LEMMA ModAdd ==
  ASSUME NEW n \in Nat \ {0}, NEW a \in Nat, NEW b \in Nat
  PROVE  ((a % n) + b) % n = (a + b) % n
<1>1. PICK q \in Nat : a = q * n + (a % n)
  BY ModDef
<1>2. PICK r \in 0 .. n - 1 : r = a % n
  BY ModRange
<1>a. r + b \in Nat
  OBVIOUS
<1>3. PICK p \in Nat : r + b = p * n + ((r + b) % n)
  BY <1>a, ModDef, Zenon
<1>4. PICK s \in 0 .. n - 1 : s = (r + b) % n
  BY <1>a, ModRange
<1>5. PICK u \in Nat : u = q * n
  BY Distribute
<1>6. PICK v \in Nat : v = p * n
  BY Distribute
<1>7. a = u + r /\ r + b = v + s
  BY <1>1, <1>2, <1>3, <1>4, <1>5, <1>6
<1>8. a + b = u + v + s
  BY <1>7
<1>9. a + b = (q + p) * n + s
  BY <1>8, <1>5, <1>6, Distribute
<1>b. q + p \in Nat
  OBVIOUS
<1>10. ((q + p) * n + s) % n = s
  BY <1>b, ModUnique, Zenon
<1> QED
  BY <1>9, <1>10, <1>4, <1>2

\* The probes from any hash reach every bucket.
LEMMA ProbesReachAll ==
  ASSUME NEW n \in Nat \ {0}, NEW h \in Nat, NEW b \in 0 .. n - 1
  PROVE  \E p \in 0 .. n - 1 : (h + p) % n = b
<1>1. PICK r \in 0 .. n - 1 : r = h % n
  BY ModRange
<1>2. CASE b >= r
  <2>1. PICK c \in 0 .. n - 1 : c \in Nat /\ r + c = b
    <3>1. b - r \in 0 .. n - 1 /\ b - r \in Nat /\ r + (b - r) = b
      BY <1>2
    <3> QED
      BY <3>1
  <2>2. (r + c) % n = (h + c) % n
    BY <1>1, <2>1, ModAdd
  <2>3. (r + c) % n = b
    BY <2>1, ModSmall
  <2> QED
    BY <2>2, <2>3
<1>3. CASE b < r
  <2>1. b - r + n \in 0 .. n - 1 /\ r + (b - r + n) = 1 * n + b
    BY <1>3
  <2> DEFINE c == b - r + n
  <2>2. c \in Nat /\ c \in 0 .. n - 1
    BY <2>1
  <2>3. (1 * n + b) % n = b
    BY ModUnique
  <2> HIDE DEF c
  <2>4. (r + c) % n = (h + c) % n
    BY <1>1, <2>2, ModAdd
  <2>5. (r + c) % n = b
    BY <2>1, <2>3 DEF c
  <2> QED
    BY <2>2, <2>4, <2>5
<1> QED
  BY <1>2, <1>3

\* f starts with t0 and goes on by G, within T.
StepsWithin(G, lo, hi, T) == \A i \in lo + 1 .. hi : \A t \in T : G[i][t] \in T
Recursion(f, G, lo, hi, T, t0) ==
  /\ f \in [lo .. hi -> T]
  /\ f[lo] = t0 /\ \A i \in lo + 1 .. hi : f[i] = G[i][f[i - 1]]

\* A function that is defined by primitive recursion from lo to hi exists.
LEMMA RecursionExists ==
  ASSUME NEW lo \in Nat, NEW hi \in Nat, lo <= hi, NEW T, NEW t0 \in T, NEW G,
         StepsWithin(G, lo, hi, T)
  PROVE  \E f : Recursion(f, G, lo, hi, T, t0)
<1>0. \A i \in lo + 1 .. hi : \A t \in T : G[i][t] \in T
  BY DEF StepsWithin
<1> DEFINE Good(m) == \E f \in [lo .. m -> T] :
                        f[lo] = t0 /\ \A i \in lo + 1 .. m : f[i] = G[i][f[i - 1]]
           Bad == {m \in lo .. hi : ~Good(m)}
<1>1. Bad = {}
  <2> SUFFICES ASSUME Bad # {} PROVE FALSE
    OBVIOUS
  <2>1. PICK m \in Bad : \A k \in Bad : m <= k
    <3>1. Bad \subseteq Nat
      OBVIOUS
    <3> HIDE DEF Bad
    <3> QED
      BY <3>1, LeastNatural
  <2>2. m \in lo .. hi /\ ~Good(m)
    OBVIOUS
  <2>3. CASE m = lo
    <3> DEFINE f == [i \in lo .. lo |-> t0]
    <3>1. f \in [lo .. m -> T] /\ f[lo] = t0 /\ lo + 1 .. m = {}
      BY <2>3
    <3> QED
      BY <2>2, <3>1
  <2>4. CASE m # lo
    <3>1. m - 1 \in lo .. hi /\ m - 1 \notin Bad
      BY <2>1, <2>2, <2>4
    <3>2. PICK f \in [lo .. m - 1 -> T] :
                 f[lo] = t0 /\ \A i \in lo + 1 .. m - 1 : f[i] = G[i][f[i - 1]]
      BY <3>1
    <3> DEFINE g == [i \in lo .. m |-> IF i = m THEN G[m][f[m - 1]] ELSE f[i]]
    <3>3. g \in [lo .. m -> T]
      <4>1. G[m][f[m - 1]] \in T
        BY <1>0, <2>2, <2>4, <3>1, <3>2
      <4>2. \A i \in lo .. m : i # m => f[i] \in T
        BY <2>2, <3>2
      <4>3. \A i \in lo .. m : (IF i = m THEN G[m][f[m - 1]] ELSE f[i]) \in T
        BY <4>1, <4>2
      <4> QED
        BY <4>3
    <3>4. g[lo] = t0
      BY <2>2, <2>4, <3>2
    <3>5. ASSUME NEW i \in lo + 1 .. m PROVE g[i] = G[i][g[i - 1]]
      <4>1. i \in lo .. m /\ i - 1 \in lo .. m /\ i - 1 # m
        BY <2>2, <2>4
      <4>2. g[i - 1] = f[i - 1]
        BY <4>1
      <4>3. CASE i = m
        BY <4>1, <4>2, <4>3
      <4>4. CASE i # m
        <5>1. i \in lo + 1 .. m - 1 /\ g[i] = f[i]
          BY <2>2, <4>1, <4>4
        <5> QED
          BY <3>2, <4>2, <5>1
      <4> QED
        BY <4>3, <4>4
    <3> QED
      BY <2>2, <3>3, <3>4, <3>5
  <2> QED
    BY <2>3, <2>4
<1>2. Good(hi)
  BY <1>1
<1> QED
  BY <1>2 DEF Recursion

----------------------------------------------------------------------------
(* The index.                                                              *)

\* A key with a value.
Entry == [key : Keys, value : Values]

\* Probes from the hash h meet no free bucket before they find entry i.
Reaches(t, h, i, p) == Probe(t, h, p) = i /\ \A q \in 0 .. p - 1 : Probe(t, h, q) # 0

\* The table t is an index of the first m entries.
IndexOK(es, t, m) ==
  /\ t \in Seq(0 .. m)
  /\ \A b, c \in 1 .. Len(t) : t[b] # 0 /\ t[b] = t[c] => b = c
  /\ \A i \in 1 .. m : \E p \in 0 .. Len(t) - 1 : Reaches(t, Hash[es[i].key], i, p)

\* No two entries have the same key.
DistinctKeys(es) == \A i, j \in DOMAIN es : es[i].key = es[j].key => i = j

\* A dict with an index that is at most half full.
DictOK(d) ==
  /\ d \in [capacity : Nat, entries : Seq(Entry), buckets : Seq(Nat)]
  /\ DistinctKeys(d.entries) /\ IndexOK(d.entries, d.buckets, Len(d.entries))
  /\ 2 * Len(d.entries) <= Len(d.buckets)
  /\ Len(d.entries) <= d.capacity

\* A probe reads a bucket of the table.
LEMMA ProbeInTable ==
  ASSUME NEW t, Len(t) \in Nat \ {0}
  PROVE  \A h, p \in Nat : Mask(t, h + p) + 1 \in 1 .. Len(t)
<1> SUFFICES ASSUME NEW h \in Nat, NEW p \in Nat PROVE Mask(t, h + p) + 1 \in 1 .. Len(t)
  OBVIOUS
<1>1. h + p \in Int
  OBVIOUS
<1>2. (h + p) % Len(t) \in 0 .. Len(t) - 1
  BY <1>1, ModRange
<1> QED
  BY <1>2 DEF Mask

\* A table with more buckets than entries has a free one.
LEMMA SomeBucketFree ==
  ASSUME NEW es, NEW t, NEW m \in Nat, IndexOK(es, t, m), m < Len(t)
  PROVE  \E b \in 1 .. Len(t) : t[b] = 0
<1> SUFFICES ASSUME \A b \in 1 .. Len(t) : t[b] # 0 PROVE FALSE
  OBVIOUS
<1>1. t \in Seq(0 .. m) /\ Len(t) \in Nat /\ DOMAIN t = 1 .. Len(t)
  BY LenProperties DEF IndexOK
<1>2. t \in [1 .. Len(t) -> 1 .. m]
  <2>1. \A b \in 1 .. Len(t) : t[b] \in 1 .. m
    BY <1>1, ElementOfSeq
  <2>2. t \in [1 .. Len(t) -> 0 .. m]
    BY <1>1, LenProperties
  <2> QED
    BY <2>1, <2>2
<1>3. /\ IsFiniteSet(1 .. Len(t)) /\ IsFiniteSet(1 .. m)
      /\ Cardinality(1 .. m) < Cardinality(1 .. Len(t))
  <2>1. /\ IsFiniteSet(1 .. Len(t)) /\ IsFiniteSet(1 .. m)
        /\ Cardinality(1 .. Len(t)) = IF 1 > Len(t) THEN 0 ELSE Len(t) - 1 + 1
        /\ Cardinality(1 .. m) = IF 1 > m THEN 0 ELSE m - 1 + 1
    BY <1>1, FS_Interval
  <2> QED
    BY <1>1, <2>1
<1>4. \E b, c \in 1 .. Len(t) : b # c /\ t[b] = t[c]
  BY <1>2, <1>3, FS_PigeonHole
<1> QED
  BY <1>4 DEF IndexOK

\* free_bucket is a free bucket, and the probes to it meet no other.
LEMMA FreeBucket ==
  ASSUME NEW es, NEW t, NEW m \in Nat, IndexOK(es, t, m), m < Len(t), NEW h \in Nat
  PROVE  \E p \in 0 .. Len(t) - 1 :
           /\ free_bucket(t, h) = Mask(t, h + p) /\ Probe(t, h, p) = 0
           /\ \A q \in 0 .. p - 1 : Probe(t, h, q) # 0
<1>1. t \in Seq(0 .. m) /\ Len(t) \in Nat \ {0} /\ Len(t) > 0
  BY LenProperties DEF IndexOK
<1> DEFINE Free == {p \in 0 .. Len(t) - 1 : Probe(t, h, p) = 0}
<1>2. Free \subseteq Nat /\ Free # {}
  <2>1. PICK b \in 1 .. Len(t) : t[b] = 0
    BY SomeBucketFree
  <2>2. b - 1 \in 0 .. Len(t) - 1 /\ (b - 1) + 1 = b
    BY <1>1
  <2>3. PICK p \in 0 .. Len(t) - 1 : (h + p) % Len(t) = b - 1
    BY <1>1, <2>2, ProbesReachAll
  <2>4. Probe(t, h, p) = 0
    BY <2>1, <2>2, <2>3 DEF Probe, Mask
  <2>5. p \in Free
    BY <2>4
  <2>6. \A q \in Free : q \in Nat
    BY <1>1
  <2> QED
    BY <2>5, <2>6
<1>3. Min(Free) \in Free /\ \A k \in Free : Min(Free) <= k
  <2> HIDE DEF Free
  <2> QED
    BY <1>2, MinDef
<1>4. free_bucket(t, h) = Mask(t, h + Min(Free))
  BY DEF free_bucket
<1>5. \A q \in 0 .. Min(Free) - 1 : Probe(t, h, q) # 0
  <2>1. Min(Free) \in 0 .. Len(t) - 1
    BY <1>3
  <2> HIDE DEF Free
  <2>2. ASSUME NEW q \in 0 .. Min(Free) - 1, Probe(t, h, q) = 0 PROVE FALSE
    <3>1. q \in 0 .. Len(t) - 1 /\ ~(Min(Free) <= q)
      BY <1>1, <2>1
    <3>2. q \in Free
      BY <2>2, <3>1 DEF Free
    <3> QED
      BY <1>3, <3>1, <3>2
  <2> QED
    BY <2>2
<1> QED
  BY <1>3, <1>4, <1>5

\* u is the table t with the number i where the probes from the hash h meet
\* the first free bucket.
Placed(t, u, h, i) ==
  \E p \in 0 .. Len(t) - 1 :
    /\ Probe(t, h, p) = 0 /\ \A q \in 0 .. p - 1 : Probe(t, h, q) # 0
    /\ u = [t EXCEPT ![Mask(t, h + p) + 1] = i]

\* Storing into free_bucket places an entry.
LEMMA FreeBucketPlaces ==
  ASSUME NEW es, NEW t, NEW m \in Nat, IndexOK(es, t, m), m < Len(t), NEW h \in Nat
  PROVE  \A i : Placed(t, [t EXCEPT ![free_bucket(t, h) + 1] = i], h, i)
<1>1. PICK p \in 0 .. Len(t) - 1 :
             /\ free_bucket(t, h) = Mask(t, h + p) /\ Probe(t, h, p) = 0
             /\ \A q \in 0 .. p - 1 : Probe(t, h, q) # 0
  BY FreeBucket
<1> QED
  BY <1>1 DEF Placed

\* fs has the keys of the first m entries of es.
SameKeys(es, fs, m) == \A i \in 1 .. m : fs[i].key = es[i].key /\ Hash[fs[i].key] \in Nat

\* With a new entry placed, the table is an index of one entry more.
LEMMA PlaceOne ==
  ASSUME NEW es, NEW fs, NEW t, NEW m \in Nat, IndexOK(es, t, m), m < Len(t),
         SameKeys(es, fs, m),
         Hash[fs[m + 1].key] \in Nat,
         NEW u, Placed(t, u, Hash[fs[m + 1].key], m + 1)
  PROVE  IndexOK(fs, u, m + 1) /\ Len(u) = Len(t)
<1>0. PICK h \in Nat : h = Hash[fs[m + 1].key]
  OBVIOUS
<1>1. t \in Seq(0 .. m) /\ Len(t) \in Nat \ {0} /\ Len(t) > 0 /\ DOMAIN t = 1 .. Len(t)
  BY LenProperties DEF IndexOK
<1>2. PICK p0 \in 0 .. Len(t) - 1 :
             /\ Probe(t, h, p0) = 0 /\ \A q \in 0 .. p0 - 1 : Probe(t, h, q) # 0
             /\ u = [t EXCEPT ![Mask(t, h + p0) + 1] = m + 1]
  BY <1>0 DEF Placed
<1> DEFINE f == Mask(t, h + p0) + 1
<1>3. f \in 1 .. Len(t) /\ t[f] = 0 /\ p0 \in Nat
  <2>1. p0 \in Nat
    BY <1>1
  <2>2. f \in 1 .. Len(t) /\ Probe(t, h, p0) = t[f]
    BY <1>1, <2>1, ProbeInTable DEF Probe
  <2> QED
    BY <1>2, <2>1, <2>2
<1>e. u = [t EXCEPT ![f] = m + 1]
  BY <1>2
<1>p. /\ \A q \in 0 .. p0 - 1 : Probe(t, h, q) # 0
      /\ f = Mask(t, h + p0) + 1
  BY <1>2
<1> HIDE DEF f
<1>4. \A b \in 1 .. Len(t) : t[b] \in 0 .. m
  BY <1>1, ElementOfSeq
<1>5. /\ u \in Seq(0 .. m + 1) /\ Len(u) = Len(t)
      /\ u[f] = m + 1 /\ \A b \in 1 .. Len(t) : b # f => u[b] = t[b]
  <2>1. t \in Seq(0 .. m + 1)
    <3>1. 0 .. m \subseteq 0 .. m + 1
      OBVIOUS
    <3> QED
      BY <1>1, <3>1, SeqMonotonic
  <2>2. m + 1 \in 0 .. m + 1
    OBVIOUS
  <2> QED
    BY <1>1, <1>3, <1>e, <2>1, <2>2, ExceptSeq
<1>6. ASSUME NEW g \in Nat, NEW q \in Nat, Probe(t, g, q) # 0
      PROVE  Probe(u, g, q) = Probe(t, g, q) /\ Probe(u, g, q) # 0
  <2>1. Mask(u, g + q) = Mask(t, g + q)
    BY <1>5 DEF Mask
  <2>2. Mask(t, g + q) + 1 \in 1 .. Len(t) /\ Probe(t, g, q) = t[Mask(t, g + q) + 1]
    BY <1>1, ProbeInTable DEF Probe
  <2>3. Mask(t, g + q) + 1 # f
    BY <1>3, <1>6, <2>2
  <2> QED
    BY <1>5, <1>6, <2>1, <2>2, <2>3 DEF Probe
<1>7. \A b, c \in 1 .. Len(u) : u[b] # 0 /\ u[b] = u[c] => b = c
  <2> SUFFICES ASSUME NEW b \in 1 .. Len(t), NEW c \in 1 .. Len(t), u[b] # 0, u[b] = u[c], b # c
               PROVE  FALSE
    BY <1>5
  <2>1. t[b] # m + 1 /\ t[c] # m + 1
    BY <1>4
  <2>2. b # f /\ c # f
    BY <1>5, <2>1
  <2>3. t[b] # 0 /\ t[b] = t[c]
    BY <1>5, <2>2
  <2> QED
    BY <2>3 DEF IndexOK
<1>8. ASSUME NEW i \in 1 .. m + 1
      PROVE  \E p \in 0 .. Len(u) - 1 : Reaches(u, Hash[fs[i].key], i, p)
  <2>1. CASE i \in 1 .. m
    <3>1. PICK p \in 0 .. Len(t) - 1 : Reaches(t, Hash[es[i].key], i, p)
      BY <2>1 DEF IndexOK
    <3>2. Hash[es[i].key] \in Nat /\ Hash[fs[i].key] = Hash[es[i].key] /\ i # 0
      BY <2>1 DEF SameKeys
    <3>3. Probe(u, Hash[es[i].key], p) = i
      BY <1>6, <3>1, <3>2 DEF Reaches
    <3>4. \A q \in 0 .. p - 1 : Probe(u, Hash[es[i].key], q) # 0
      BY <1>6, <3>1, <3>2 DEF Reaches
    <3> QED
      BY <1>5, <3>1, <3>2, <3>3, <3>4 DEF Reaches
  <2>2. CASE i = m + 1
    <3>1. Probe(u, h, p0) = m + 1
      <4>1. Mask(u, h + p0) + 1 = f
        BY <1>p, <1>5 DEF Mask
      <4> QED
        BY <1>5, <4>1 DEF Probe
    <3>2. \A q \in 0 .. p0 - 1 : Probe(u, h, q) # 0
      BY <1>p, <1>6
    <3> QED
      BY <1>0, <1>5, <2>2, <3>1, <3>2 DEF Reaches
  <2> QED
    BY <2>1, <2>2
<1> QED
  BY <1>5, <1>7, <1>8 DEF IndexOK

\* The recursion of map_rebuild_index defines a sequence of tables.
LEMMA FillDef ==
  ASSUME NEW es \in Seq(Entry), NEW cap \in Nat
  PROVE  \E fill :
           /\ map_rebuild_index(es, cap) = fill[Len(es)]
           /\ fill[0] = [b \in 1 .. cap |-> 0]
           /\ \A i \in 1 .. Len(es) :
                fill[i] = [fill[i - 1] EXCEPT
                             ![free_bucket(fill[i - 1], Hash[es[i].key]) + 1] = i]
<1> DEFINE n == Len(es)
           T == [1 .. cap -> 0 .. n]
           t0 == [b \in 1 .. cap |-> 0]
           Step(i, t) == [t EXCEPT ![free_bucket(t, Hash[es[i].key]) + 1] = i]
           G == [i \in 1 .. n |-> [t \in T |-> Step(i, t)]]
           Eq(f) == f = [i \in 0 .. n |-> IF i = 0 THEN t0 ELSE Step(i, f[i - 1])]
           fill == CHOOSE f : Eq(f)
<1>1. n \in Nat
  BY LenProperties
<1>2. t0 \in T
  BY <1>1
<1>3. \A i \in 1 .. n, t \in T : G[i][t] = Step(i, t) /\ G[i][t] \in T
  <2> SUFFICES ASSUME NEW i \in 1 .. n, NEW t \in T PROVE G[i][t] = Step(i, t) /\ Step(i, t) \in T
    OBVIOUS
  <2>1. i \in 0 .. n
    BY <1>1
  <2> QED
    BY <2>1
<1>4. \E f : Eq(f)
  <2>1. PICK f : Recursion(f, G, 0, n, T, t0)
    <3> HIDE DEF T, t0, G, n
    <3>1. 0 \in Nat /\ 0 <= n /\ 0 + 1 = 1
      BY <1>1
    <3>2. StepsWithin(G, 0, n, T)
      BY <1>3, <3>1 DEF StepsWithin
    <3> QED
      BY <1>1, <1>2, <3>1, <3>2, RecursionExists, Zenon
  <2>2. \A i \in 0 .. n : i # 0 => i \in 1 .. n /\ f[i - 1] \in T
    <3> HIDE DEF T, t0, G
    <3>1. \A i \in 0 .. n : i # 0 => i \in 1 .. n /\ i - 1 \in 0 .. n
      BY <1>1
    <3> QED
      BY <2>1, <3>1 DEF Recursion
  <2>3. \A i \in 0 .. n : f[i] = IF i = 0 THEN t0 ELSE Step(i, f[i - 1])
    <3> HIDE DEF T, t0, G, n, Step
    <3>1. 0 + 1 = 1
      OBVIOUS
    <3> QED
      BY <1>3, <2>1, <2>2, <3>1 DEF Recursion
  <2>4. Eq(f)
    <3> HIDE DEF T, t0, G, n, Step
    <3>1. f = [i \in 0 .. n |-> f[i]]
      BY <2>1 DEF Recursion
    <3> QED
      BY <2>3, <3>1
  <2> QED
    BY <2>4
<1>5. Eq(fill)
  <2> HIDE DEF Eq
  <2> QED
    BY <1>4
<1>6. map_rebuild_index(es, cap) = fill[n]
  BY DEF map_rebuild_index
<1> HIDE DEF fill
<1>7. fill[0] = t0 /\ \A i \in 1 .. n : fill[i] = Step(i, fill[i - 1])
  <2> HIDE DEF T, t0, G, n, Step
  <2>1. \A i \in 0 .. n : fill[i] = IF i = 0 THEN t0 ELSE Step(i, fill[i - 1])
    BY <1>5
  <2>2. 0 \in 0 .. n /\ \A i \in 1 .. n : i \in 0 .. n /\ i # 0
    BY <1>1
  <2> QED
    BY <2>1, <2>2
<1> QED
  BY <1>6, <1>7

\* map_rebuild_index makes an index of all entries, if it has room for them.
LEMMA Rebuilt ==
  ASSUME NEW es \in Seq(Entry), NEW cap \in Nat, Len(es) <= cap
  PROVE  /\ IndexOK(es, map_rebuild_index(es, cap), Len(es))
         /\ Len(map_rebuild_index(es, cap)) = cap
<1> DEFINE n == Len(es)
<1>1. n \in Nat /\ DOMAIN es = 1 .. n /\ \A i \in 1 .. n : es[i] \in Entry
  BY LenProperties, ElementOfSeq
<1>h. \A i \in 1 .. n : Hash[es[i].key] \in Nat
  BY <1>1, HashAssumption DEF Entry, Keys
<1>2. PICK fill :
        /\ map_rebuild_index(es, cap) = fill[n]
        /\ fill[0] = [b \in 1 .. cap |-> 0]
        /\ \A i \in 1 .. n :
             fill[i] = [fill[i - 1] EXCEPT
                          ![free_bucket(fill[i - 1], Hash[es[i].key]) + 1] = i]
  BY FillDef
<1> DEFINE Good(i) == IndexOK(es, fill[i], i) /\ Len(fill[i]) = cap
           Bad == {i \in 0 .. n : ~Good(i)}
<1>3. Good(0)
  <2>1. fill[0] \in [1 .. cap -> 0 .. 0]
    BY <1>2
  <2>2. fill[0] \in Seq(0 .. 0) /\ Len(fill[0]) = cap
    BY <2>1, IsASeq, LenProperties
  <2>3. \A b \in 1 .. cap : fill[0][b] = 0
    BY <1>2
  <2> QED
    BY <2>2, <2>3 DEF IndexOK
<1>4. Bad = {}
  <2> SUFFICES ASSUME Bad # {} PROVE FALSE
    OBVIOUS
  <2>1. PICK m \in Bad : \A k \in Bad : m <= k
    <3>1. Bad \subseteq Nat
      BY <1>1
    <3> HIDE DEF Bad
    <3> QED
      BY <3>1, LeastNatural
  <2>2. m \in 0 .. n /\ ~Good(m)
    OBVIOUS
  <2> HIDE DEF Good
  <2>3. m \in 1 .. n /\ m - 1 \in Nat /\ m - 1 \in 0 .. n /\ (m - 1) + 1 = m /\ m - 1 < cap
    BY <1>1, <1>3, <2>2
  <2>4. Good(m - 1)
    BY <2>1, <2>3
  <2>5. IndexOK(es, fill[m - 1], m - 1) /\ Len(fill[m - 1]) = cap
    BY <2>4 DEF Good
  <2>6. SameKeys(es, es, m - 1)
    BY <1>1, <1>h, <2>3 DEF SameKeys
  <2>7. PICK t : t = fill[m - 1]
    OBVIOUS
  <2>8. PICK h \in Nat : h = Hash[es[m].key]
    BY <1>h, <2>3
  <2>9. PICK k \in Nat : k = m - 1 /\ k + 1 = m
    BY <2>3
  <2>10. IndexOK(es, fill[m], k + 1) /\ Len(fill[m]) = Len(t)
    <3>u. fill[m] = [t EXCEPT ![free_bucket(t, h) + 1] = k + 1]
      BY <1>2, <2>3, <2>7, <2>8, <2>9
    <3>1. /\ IndexOK(es, t, k) /\ k < Len(t) /\ Hash[es[k + 1].key] = h
          /\ SameKeys(es, es, k)
      BY <2>3, <2>5, <2>6, <2>7, <2>8, <2>9
    <3> QED
      <4>1. Placed(t, fill[m], h, k + 1)
        <5>1. Placed(t, [t EXCEPT ![free_bucket(t, h) + 1] = k + 1], h, k + 1)
          BY <3>1, FreeBucketPlaces
        <5> QED
          BY <3>u, <5>1
      <4> QED
        <5>1. Hash[es[k + 1].key] \in Nat /\ Placed(t, fill[m], Hash[es[k + 1].key], k + 1)
          BY <3>1, <4>1
        <5> HIDE DEF n, Bad
        <5> QED
          BY ONLY <2>9, <3>1, <5>1, PlaceOne
  <2>12. Good(m)
    BY <2>5, <2>7, <2>9, <2>10 DEF Good
  <2> QED
    BY <2>2, <2>12
<1>5. Good(n)
  BY <1>1, <1>4
<1> QED
  BY <1>2, <1>5

----------------------------------------------------------------------------
(* The operations of a dict.                                               *)

\* What DictOK says of the parts of a dict.
LEMMA DictParts ==
  ASSUME NEW d, DictOK(d)
  PROVE  /\ d.entries \in Seq(Entry) /\ Len(d.entries) \in Nat
         /\ DOMAIN d.entries = 1 .. Len(d.entries)
         /\ \A i \in 1 .. Len(d.entries) :
              d.entries[i].key \in Keys /\ Hash[d.entries[i].key] \in Nat
         /\ d.buckets \in Seq(0 .. Len(d.entries)) /\ Len(d.buckets) \in Nat
         /\ DOMAIN d.buckets = 1 .. Len(d.buckets)
<1>1. d.entries \in Seq(Entry) /\ d.buckets \in Seq(0 .. Len(d.entries))
  BY DEF DictOK, IndexOK
<1>2. /\ Len(d.entries) \in Nat /\ DOMAIN d.entries = 1 .. Len(d.entries)
      /\ Len(d.buckets) \in Nat /\ DOMAIN d.buckets = 1 .. Len(d.buckets)
  BY <1>1, LenProperties
<1>3. \A i \in 1 .. Len(d.entries) : d.entries[i].key \in Keys
  <2>1. \A i \in 1 .. Len(d.entries) : d.entries[i] \in Entry
    BY <1>1, ElementOfSeq
  <2>2. \A e \in Entry : e.key \in Keys
    BY DEF Entry
  <2> QED
    BY <2>1, <2>2
<1>4. \A k \in Keys : Hash[k] \in Nat
  BY HashAssumption DEF Keys
<1>5. \A i \in 1 .. Len(d.entries) : Hash[d.entries[i].key] \in Nat
  BY <1>3, <1>4
<1> QED
  BY <1>1, <1>2, <1>3, <1>5

\* The probes at which the search for a key ends.
Stops(d, key) ==
  {p \in 0 .. Len(d.buckets) - 1 :
     \/ Probe(d.buckets, Hash[key], p) = 0
     \/ d.entries[Probe(d.buckets, Hash[key], p)].key = key}

\* A probe gives 0 or the number of an entry.
LEMMA ProbeValue ==
  ASSUME NEW d, DictOK(d), NEW h \in Nat, NEW p \in 0 .. Len(d.buckets) - 1
  PROVE  Probe(d.buckets, h, p) \in 0 .. Len(d.entries)
<1>1. Len(d.buckets) \in Nat \ {0} /\ p \in Nat
  BY DictParts
<1>2. Mask(d.buckets, h + p) + 1 \in 1 .. Len(d.buckets)
  BY <1>1, ProbeInTable
<1> QED
  BY <1>2, DictParts, ElementOfSeq DEF Probe

\* The first of them ends it.
LEMMA FirstStop ==
  ASSUME NEW d, DictOK(d), NEW key, Stops(d, key) # {}
  PROVE  Min(Stops(d, key)) \in Stops(d, key) /\ \A k \in Stops(d, key) : Min(Stops(d, key)) <= k
<1>1. Stops(d, key) \subseteq Nat
  BY DictParts DEF Stops
<1> QED
  BY <1>1, MinDef

\* A key that was stored is found, under the number of its entry.
LEMMA FindsStored ==
  ASSUME NEW d, DictOK(d), NEW i \in 1 .. Len(d.entries)
  PROVE  map_find_index(d, d.entries[i].key) = i - 1
<1>1. PICK key \in Keys : key = d.entries[i].key /\ Hash[key] \in Nat
  BY DictParts
<1>2. PICK p \in 0 .. Len(d.buckets) - 1 : Reaches(d.buckets, Hash[key], i, p)
  BY <1>1 DEF DictOK, IndexOK
<1>n. i \in Nat /\ i # 0 /\ p \in Nat
  BY DictParts
<1>3. p \in Stops(d, key)
  BY <1>1, <1>2 DEF Stops, Reaches
<1>4. PICK m : m = Min(Stops(d, key)) /\ m \in Stops(d, key) /\ m <= p
  BY <1>3, FirstStop
<1>5. m \in 0 .. Len(d.buckets) - 1
  BY <1>4 DEF Stops
<1>6. Probe(d.buckets, Hash[key], m) # 0
  <2>1. CASE m = p
    BY <1>2, <1>n, <2>1 DEF Reaches
  <2>2. CASE m # p
    <3>1. m \in 0 .. p - 1
      BY <1>4, <1>5, <1>n, <2>2
    <3> QED
      BY <1>2, <3>1 DEF Reaches
  <2> QED
    BY <2>1, <2>2
<1>7. PICK j \in 1 .. Len(d.entries) : j = Probe(d.buckets, Hash[key], m)
  <2>1. Probe(d.buckets, Hash[key], m) \in 0 .. Len(d.entries)
    BY <1>1, <1>5, ProbeValue
  <2> QED
    BY <1>6, <2>1, DictParts
<1>8. d.entries[j].key = key
  BY <1>4, <1>6, <1>7 DEF Stops
<1>9. j = i
  BY <1>1, <1>8, DictParts DEF DictOK, DistinctKeys
<1> QED
  <2>1. map_find_index(d, key) = IF Stops(d, key) = {} \/ Probe(d.buckets, Hash[key], m) = 0
                                 THEN NoIndex ELSE Probe(d.buckets, Hash[key], m) - 1
    BY <1>4 DEF map_find_index, Stops
  <2> QED
    BY <1>1, <1>3, <1>6, <1>7, <1>9, <2>1

\* A key that is not stored is not found.
LEMMA FindsNoOther ==
  ASSUME NEW d, DictOK(d), NEW key \in Keys,
         \A i \in 1 .. Len(d.entries) : d.entries[i].key # key
  PROVE  map_find_index(d, key) = NoIndex
<1>h. Hash[key] \in Nat
  BY HashAssumption DEF Keys
<1>1. map_find_index(d, key) =
        IF Stops(d, key) = {} \/ Probe(d.buckets, Hash[key], Min(Stops(d, key))) = 0
        THEN NoIndex ELSE Probe(d.buckets, Hash[key], Min(Stops(d, key))) - 1
  BY DEF map_find_index, Stops
<1>2. ASSUME Stops(d, key) # {}
      PROVE  Probe(d.buckets, Hash[key], Min(Stops(d, key))) = 0
  <2>1. PICK m : m = Min(Stops(d, key)) /\ m \in Stops(d, key)
    BY <1>2, FirstStop
  <2>2. m \in 0 .. Len(d.buckets) - 1
    BY <2>1 DEF Stops
  <2>3. Probe(d.buckets, Hash[key], m) \in 0 .. Len(d.entries)
    BY <1>h, <2>2, ProbeValue
  <2>4. Probe(d.buckets, Hash[key], m) # 0 => Probe(d.buckets, Hash[key], m) \in 1 .. Len(d.entries)
    BY <2>3, DictParts
  <2> QED
    BY <2>1, <2>4 DEF Stops
<1> QED
  BY <1>1, <1>2

\* With the same keys, a table stays an index.
LEMMA KeepsIndex ==
  ASSUME NEW es, NEW fs, NEW t, NEW m \in Nat, IndexOK(es, t, m), SameKeys(es, fs, m)
  PROVE  IndexOK(fs, t, m)
<1>1. \A i \in 1 .. m : Hash[fs[i].key] = Hash[es[i].key]
  BY DEF SameKeys
<1> QED
  BY <1>1 DEF IndexOK

\* The conditions of DictOK for a dict given by its parts.
LEMMA MakesDict ==
  ASSUME NEW c \in Nat, NEW es \in Seq(Entry), NEW t, DistinctKeys(es),
         IndexOK(es, t, Len(es)), 2 * Len(es) <= Len(t), Len(es) <= c
  PROVE  DictOK([capacity |-> c, entries |-> es, buckets |-> t])
<1>1. t \in Seq(Nat)
  <2>1. t \in Seq(0 .. Len(es)) /\ Len(es) \in Nat
    BY LenProperties DEF IndexOK
  <2>2. 0 .. Len(es) \subseteq Nat
    BY <2>1
  <2> QED
    BY <2>1, <2>2, SeqMonotonic
<1> QED
  BY <1>1 DEF DictOK

\* The table map_insert stores into.
Table(d) ==
  IF Len(d.buckets) = 0 \/ crowded(Len(d.entries), Len(d.buckets))
  THEN map_rebuild_index(d.entries, IF Len(d.buckets) = 0 THEN 8 ELSE 2 * Len(d.buckets))
  ELSE d.buckets

\* It is an index of the entries, and at most half full with one entry more.
LEMMA TableHasRoom ==
  ASSUME NEW d, DictOK(d)
  PROVE  IndexOK(d.entries, Table(d), Len(d.entries)) /\ 2 * (Len(d.entries) + 1) <= Len(Table(d))
<1>1. PICK n \in Nat : n = Len(d.entries)
  BY DictParts
<1>2. PICK s \in Nat : s = Len(d.buckets)
  BY DictParts
<1>3. 2 * n <= s
  BY <1>1, <1>2 DEF DictOK
<1>4. CASE s = 0 \/ crowded(n, s)
  <2>1. PICK cap \in Nat : cap = (IF s = 0 THEN 8 ELSE 2 * s)
    OBVIOUS
  <2>2. n <= cap /\ 2 * (n + 1) <= cap
    <3>1. CASE s = 0
      BY <1>3, <2>1, <3>1
    <3>2. CASE s # 0
      BY <1>3, <2>1, <3>2
    <3> QED
      BY <3>1, <3>2
  <2>3. Table(d) = map_rebuild_index(d.entries, cap)
    BY <1>1, <1>2, <1>4, <2>1 DEF Table
  <2>4. IndexOK(d.entries, Table(d), n) /\ Len(Table(d)) = cap
    BY <1>1, <2>2, <2>3, DictParts, Rebuilt
  <2> QED
    BY <1>1, <2>2, <2>4
<1>5. CASE ~(s = 0 \/ crowded(n, s))
  <2>1. 2 * (n + 1) <= s
    BY <1>5 DEF crowded
  <2>2. Table(d) = d.buckets
    BY <1>1, <1>2, <1>5 DEF Table
  <2> QED
    BY <1>1, <1>2, <2>1, <2>2 DEF DictOK
<1> QED
  BY <1>4, <1>5

\* map_insert keeps the index.
LEMMA InsertOK ==
  ASSUME NEW d, DictOK(d), NEW key \in Keys, NEW value \in Values,
         \A i \in 1 .. Len(d.entries) : d.entries[i].key # key
  PROVE  DictOK(map_insert(d, key, value))
<1>1. PICK n \in Nat : n = Len(d.entries)
  BY DictParts
<1>2. PICK es : es = d.entries /\ es \in Seq(Entry) /\ Len(es) = n /\ DOMAIN es = 1 .. n
  BY <1>1, DictParts
<1>3. PICK new \in Entry : new = [key |-> key, value |-> value] /\ new.key = key
  <2>1. [key |-> key, value |-> value] \in Entry
    BY DEF Entry
  <2>2. [key |-> key, value |-> value].key = key
    OBVIOUS
  <2> QED
    BY <2>1, <2>2
<1>4. PICK fs : fs = Append(es, new)
  OBVIOUS
<1>5. /\ fs \in Seq(Entry) /\ Len(fs) = n + 1 /\ fs[n + 1] = new
      /\ DOMAIN fs = 1 .. n + 1 /\ \A i \in 1 .. n : fs[i] = es[i]
  <2>1. fs \in Seq(Entry) /\ Len(fs) = n + 1
    BY <1>2, <1>4, AppendProperties
  <2> QED
    BY <1>2, <1>4, <2>1, AppendProperties, LenProperties
<1>h. PICK h \in Nat : h = Hash[key]
  BY HashAssumption DEF Keys
<1>6. SameKeys(es, fs, n)
  BY <1>1, <1>2, <1>5, DictParts DEF SameKeys
<1>7. PICK t : t = Table(d) /\ IndexOK(es, t, n) /\ 2 * (n + 1) <= Len(t)
  BY <1>1, <1>2, TableHasRoom
<1>t. Len(t) \in Nat /\ n < Len(t)
  <2>1. t \in Seq(0 .. n)
    BY <1>7 DEF IndexOK
  <2>2. Len(t) \in Nat
    BY <2>1, LenProperties
  <2> QED
    BY <1>7, <2>2
<1>8. PICK u : u = [t EXCEPT ![free_bucket(t, h) + 1] = n + 1]
  OBVIOUS
<1>9. IndexOK(fs, u, n + 1) /\ Len(u) = Len(t)
  <2>1. Placed(t, u, h, n + 1)
    <3>1. Placed(t, [t EXCEPT ![free_bucket(t, h) + 1] = n + 1], h, n + 1)
      BY <1>7, <1>t, FreeBucketPlaces
    <3> QED
      BY <1>8, <3>1
  <2>2. Hash[fs[n + 1].key] = h
    BY <1>3, <1>5, <1>h
  <2>3. Hash[fs[n + 1].key] \in Nat /\ Placed(t, u, Hash[fs[n + 1].key], n + 1)
    BY <2>1, <2>2
  <2> QED
    BY ONLY <1>6, <1>7, <1>t, <2>3, n \in Nat, PlaceOne
<1>10. DistinctKeys(fs)
  <2>1. \A i \in 1 .. n : fs[i].key = es[i].key /\ fs[i].key # fs[n + 1].key
    BY <1>1, <1>2, <1>3, <1>5
  <2>2. \A i, j \in 1 .. n : fs[i].key = fs[j].key => i = j
    <3>1. DistinctKeys(es)
      BY <1>2 DEF DictOK
    <3>2. \A i, j \in 1 .. n : es[i].key = es[j].key => i = j
      BY <1>2, <3>1 DEF DistinctKeys
    <3> QED
      BY ONLY <2>1, <3>2
  <2>3. \A i \in 1 .. n + 1 : i \in 1 .. n \/ i = n + 1
    OBVIOUS
  <2>4. \A i, j \in 1 .. n + 1 : fs[i].key = fs[j].key => i = j
    BY <2>1, <2>2, <2>3
  <2> QED
    BY <1>5, <2>4 DEF DistinctKeys
<1>11. PICK c \in Nat : c = entry_capacity(d.capacity, n) /\ n + 1 <= c
  <2>1. d.capacity \in Nat /\ n <= d.capacity
    BY <1>1 DEF DictOK
  <2> QED
    BY <2>1 DEF entry_capacity
<1>12. map_insert(d, key, value) = [capacity |-> c, entries |-> fs, buckets |-> u]
  BY <1>1, <1>2, <1>3, <1>4, <1>h, <1>7, <1>8, <1>11 DEF map_insert, Table
<1>13. IndexOK(fs, u, Len(fs)) /\ 2 * Len(fs) <= Len(u) /\ Len(fs) <= c
  BY <1>5, <1>7, <1>9, <1>11
<1> QED
  BY <1>5, <1>10, <1>12, <1>13, MakesDict

\* Storing over a key leaves the index as it is.
LEMMA OverwriteOK ==
  ASSUME NEW d, DictOK(d), NEW j \in 1 .. Len(d.entries), NEW value \in Values
  PROVE  DictOK([d EXCEPT !.entries[j].value = value])
<1>1. PICK n \in Nat : n = Len(d.entries)
  BY DictParts
<1>2. PICK es : es = d.entries /\ es \in Seq(Entry) /\ Len(es) = n /\ DOMAIN es = 1 .. n
  BY <1>1, DictParts
<1>3. j \in 1 .. n
  BY <1>1
<1>4. PICK new \in Entry : new = [es[j] EXCEPT !.value = value] /\ new.key = es[j].key
  <2>1. PICK e \in Entry : e = es[j]
    BY <1>2, <1>3, ElementOfSeq
  <2>2. e = [key |-> e.key, value |-> e.value] /\ e.key \in Keys /\ e.value \in Values
    BY DEF Entry
  <2>3. [e EXCEPT !.value = value] = [key |-> e.key, value |-> value]
    BY <2>2
  <2>4. [key |-> e.key, value |-> value] \in Entry /\ [key |-> e.key, value |-> value].key = e.key
    BY <2>2 DEF Entry
  <2> QED
    BY <2>1, <2>3, <2>4
<1>5. PICK fs : fs = [es EXCEPT ![j] = new]
  OBVIOUS
<1>6. /\ fs \in Seq(Entry) /\ Len(fs) = n /\ DOMAIN fs = 1 .. n
      /\ \A i \in 1 .. n : fs[i] = IF i = j THEN new ELSE es[i]
  <2>1. fs \in Seq(Entry) /\ Len(fs) = n
    BY <1>2, <1>3, <1>5, ExceptSeq
  <2>2. \A i \in 1 .. n : fs[i] = IF i = j THEN new ELSE es[i]
    BY <1>2, <1>3, <1>5, ExceptSeq
  <2> QED
    BY <2>1, <2>2, LenProperties
<1>7. \A i \in 1 .. n : fs[i].key = es[i].key
  BY <1>4, <1>6
<1>8. SameKeys(es, fs, n)
  BY <1>1, <1>2, <1>7, DictParts DEF SameKeys
<1>9. DistinctKeys(fs)
  <2>1. \A i, k \in 1 .. n : es[i].key = es[k].key => i = k
    BY <1>2 DEF DictOK, DistinctKeys
  <2> QED
    BY <1>6, <1>7, <2>1 DEF DistinctKeys
<1>10. PICK t : t = d.buckets /\ IndexOK(es, t, n) /\ 2 * n <= Len(t)
  BY <1>1, <1>2 DEF DictOK
<1>11. IndexOK(fs, t, n)
  BY <1>8, <1>10, KeepsIndex
<1>12. PICK c \in Nat : c = d.capacity /\ n <= c
  BY <1>1 DEF DictOK
<1>13. DictOK([capacity |-> c, entries |-> fs, buckets |-> t])
  BY <1>6, <1>9, <1>10, <1>11, <1>12, MakesDict
<1>14. [d EXCEPT !.entries[j].value = value] = [capacity |-> c, entries |-> fs, buckets |-> t]
  <2>1. d = [capacity |-> c, entries |-> es, buckets |-> t]
    BY <1>2, <1>10, <1>12 DEF DictOK
  <2> QED
    <3>1. [d EXCEPT !.entries[j].value = value] = [d EXCEPT !.entries = fs]
      BY <1>4, <1>5, <2>1
    <3>2. [d EXCEPT !.entries = fs] = [capacity |-> c, entries |-> fs, buckets |-> t]
      BY ONLY <2>1
    <3> QED
      BY <3>1, <3>2
<1> QED
  BY <1>13, <1>14

\* cwhip_map_set keeps the index.
LEMMA SetOK ==
  ASSUME NEW d, DictOK(d), NEW key \in Keys, NEW value \in Values
  PROVE  DictOK(map_set(d, key, value).obj)
<1>1. CASE \E i \in 1 .. Len(d.entries) : d.entries[i].key = key
  <2>1. PICK j \in 1 .. Len(d.entries) : d.entries[j].key = key
    BY <1>1
  <2>2. map_find_index(d, key) = j - 1
    BY <2>1, FindsStored
  <2>3. j \in Nat \ {0}
    BY DictParts
  <2>4. map_find_index(d, key) # NoIndex /\ map_find_index(d, key) + 1 = j
    BY <2>2, <2>3 DEF NoIndex
  <2>5. map_set(d, key, value).obj = [d EXCEPT !.entries[j].value = value]
    BY <2>4 DEF map_set
  <2> QED
    BY <2>5, OverwriteOK
<1>2. CASE \A i \in 1 .. Len(d.entries) : d.entries[i].key # key
  <2>1. map_find_index(d, key) = NoIndex
    BY <1>2, FindsNoOther
  <2>2. map_set(d, key, value).obj = d \/ map_set(d, key, value).obj = map_insert(d, key, value)
    BY <2>1 DEF map_set, Fails
  <2>3. DictOK(map_insert(d, key, value))
    BY <1>2, InsertOK
  <2> QED
    BY <2>2, <2>3
<1> QED
  BY <1>1, <1>2

\* The entries without the one at j.
LEMMA CutOne ==
  ASSUME NEW es \in Seq(Entry), NEW n \in Nat, n = Len(es), NEW j \in 1 .. n, NEW left,
         left = SubSeq(es, 1, j - 1) \o SubSeq(es, j + 1, n)
  PROVE  /\ left \in Seq(Entry) /\ Len(left) = n - 1
         /\ \A i \in 1 .. n - 1 : left[i] = es[IF i < j THEN i ELSE i + 1]
<1>0. \A i \in 1 .. n : es[i] \in Entry
  BY ElementOfSeq
<1>1. PICK a : a = SubSeq(es, 1, j - 1)
  OBVIOUS
<1>2. a \in Seq(Entry) /\ Len(a) = j - 1 /\ \A i \in 1 .. j - 1 : a[i] = es[i]
  <2>1. 1 \in Int /\ j - 1 \in Int /\ \A i \in 1 .. j - 1 : es[i] \in Entry
    BY <1>0
  <2>2. /\ a \in Seq(Entry)
        /\ Len(a) = IF 1 <= j - 1 THEN j - 1 - 1 + 1 ELSE 0
        /\ \A i \in 1 .. j - 1 - 1 + 1 : a[i] = es[1 + i - 1]
    BY <1>1, <2>1, SubSeqProperties
  <2> QED
    BY <2>2
<1>3. PICK b : b = SubSeq(es, j + 1, n)
  OBVIOUS
<1>4. b \in Seq(Entry) /\ Len(b) = n - j /\ \A i \in 1 .. n - j : b[i] = es[j + i]
  <2>1. j + 1 \in Int /\ n \in Int /\ \A i \in j + 1 .. n : es[i] \in Entry
    BY <1>0
  <2>2. /\ b \in Seq(Entry)
        /\ Len(b) = IF j + 1 <= n THEN n - (j + 1) + 1 ELSE 0
        /\ \A i \in 1 .. n - (j + 1) + 1 : b[i] = es[j + 1 + i - 1]
    BY <1>3, <2>1, SubSeqProperties
  <2> QED
    BY <2>2
<1>5. /\ left \in Seq(Entry) /\ Len(left) = Len(a) + Len(b)
      /\ \A i \in 1 .. Len(a) + Len(b) : left[i] = IF i <= Len(a) THEN a[i] ELSE b[i - Len(a)]
  <2>1. left = a \o b
    BY <1>1, <1>3
  <2>2. a \in Seq(Entry) /\ b \in Seq(Entry)
    BY <1>2, <1>4
  <2> QED
    BY ONLY <2>1, <2>2, ConcatProperties
<1>n. n \in Nat /\ j \in 1 .. n
  OBVIOUS
<1>6. Len(left) = n - 1
  BY ONLY <1>n, <1>2, <1>4, <1>5
<1>7. ASSUME NEW i \in 1 .. n - 1 PROVE left[i] = es[IF i < j THEN i ELSE i + 1]
  <2>1. i \in 1 .. Len(a) + Len(b)
    BY <1>2, <1>4
  <2>2. CASE i < j
    BY ONLY <1>n, <1>2, <1>5, <2>1, <2>2, i \in 1 .. n - 1
  <2>3. CASE ~(i < j)
    <3>1. i - (j - 1) \in 1 .. n - j /\ ~(i <= j - 1) /\ j + (i - (j - 1)) = i + 1
      BY <2>3
    <3> QED
      BY ONLY <1>n, <1>2, <1>4, <1>5, <2>1, <2>3, <3>1, i \in 1 .. n - 1
  <2> QED
    BY <2>2, <2>3
<1> QED
  BY <1>5, <1>6, <1>7

\* cwhip_map_remove keeps the index.
LEMMA RemoveOK ==
  ASSUME NEW d, DictOK(d), NEW key \in Keys
  PROVE  DictOK(map_remove(d, key).obj)
<1>1. CASE \A i \in 1 .. Len(d.entries) : d.entries[i].key # key
  BY <1>1, FindsNoOther DEF map_remove
<1>2. CASE \E i \in 1 .. Len(d.entries) : d.entries[i].key = key
  <2>1. PICK n \in Nat : n = Len(d.entries)
    BY DictParts
  <2>2. PICK es : es = d.entries /\ es \in Seq(Entry) /\ Len(es) = n /\ DOMAIN es = 1 .. n
    BY <2>1, DictParts
  <2>3. PICK j \in 1 .. n : d.entries[j].key = key
    BY <1>2, <2>1
  <2>4. map_find_index(d, key) = j - 1 /\ j - 1 # NoIndex
    BY <2>1, <2>3, FindsStored DEF NoIndex
  <2>5. PICK left : left = SubSeq(es, 1, j - 1) \o SubSeq(es, j + 1, n)
    OBVIOUS
  <2>6. /\ left \in Seq(Entry) /\ Len(left) = n - 1
        /\ \A i \in 1 .. n - 1 : left[i] = es[IF i < j THEN i ELSE i + 1]
    BY <2>2, <2>5, CutOne
  <2>7. DistinctKeys(left)
    <3>1. \A i, k \in 1 .. n : es[i].key = es[k].key => i = k
      BY <2>2 DEF DictOK, DistinctKeys
    <3>2. DOMAIN left = 1 .. n - 1
      BY <2>6, LenProperties
    <3> SUFFICES ASSUME NEW i \in 1 .. n - 1, NEW k \in 1 .. n - 1, left[i].key = left[k].key
                 PROVE  i = k
      BY <3>2 DEF DistinctKeys
    <3>3. PICK x \in 1 .. n : x = IF i < j THEN i ELSE i + 1
      OBVIOUS
    <3>4. PICK y \in 1 .. n : y = IF k < j THEN k ELSE k + 1
      OBVIOUS
    <3>5. x = y
      BY <2>6, <3>1, <3>3, <3>4
    <3> QED
      BY <3>3, <3>4, <3>5
  <2>8. PICK s \in Nat : s = Len(d.buckets) /\ 2 * n <= s
    BY <2>1, DictParts DEF DictOK
  <2>9. PICK t : t = map_rebuild_index(left, s)
    OBVIOUS
  <2>10. IndexOK(left, t, Len(left)) /\ Len(t) = s
    <3>1. Len(left) <= s
      BY <2>6, <2>8
    <3> QED
      BY <2>6, <2>9, <3>1, Rebuilt
  <2>11. PICK c \in Nat : c = d.capacity /\ n <= c
    BY <2>1 DEF DictOK
  <2>12. 2 * Len(left) <= Len(t) /\ Len(left) <= c
    BY <2>6, <2>8, <2>10, <2>11
  <2>13. DictOK([capacity |-> c, entries |-> left, buckets |-> t])
    BY <2>6, <2>7, <2>10, <2>12, MakesDict
  <2>14. map_remove(d, key).obj = [d EXCEPT !.entries = left, !.buckets = t]
    <3>1. (j - 1) + 2 = j + 1
      BY <2>1
    <3> QED
      BY <2>1, <2>2, <2>4, <2>5, <2>8, <2>9, <3>1 DEF map_remove
  <2>15. [d EXCEPT !.entries = left, !.buckets = t] = [capacity |-> c, entries |-> left, buckets |-> t]
    <3>1. PICK es0, t0 : d = [capacity |-> c, entries |-> es0, buckets |-> t0]
      <4>1. d = [capacity |-> c, entries |-> d.entries, buckets |-> d.buckets]
        BY <2>11 DEF DictOK
      <4> QED
        BY <4>1
    <3>2. PICK e : e = [d EXCEPT !.entries = left]
      OBVIOUS
    <3>3. e = [capacity |-> c, entries |-> left, buckets |-> t0]
      BY ONLY <3>1, <3>2
    <3>4. e \in [capacity : {c}, entries : {left}, buckets : {t0}]
      BY ONLY <3>3
    <3>5. [e EXCEPT !.buckets = t] = [capacity |-> c, entries |-> left, buckets |-> t]
      BY ONLY <3>4
    <3>6. [d EXCEPT !.entries = left, !.buckets = t] = [e EXCEPT !.buckets = t]
      BY ONLY <3>2
    <3> QED
      BY ONLY <3>5, <3>6
  <2> QED
    BY <2>13, <2>14, <2>15
<1> QED
  BY <1>1, <1>2

\* A slice bound is inside the dict, whatever number the program passes.
LEMMA BoundInside ==
  ASSUME NEW n \in Nat, NEW b \in OptBounds, NEW is_start \in BOOLEAN
  PROVE  normalize_slice_bound(b, n, 1, is_start) \in 0 .. n
<1>1. CASE b = <<>>
  BY <1>1 DEF normalize_slice_bound
<1>2. CASE b # <<>>
  <2>1. PICK x \in Int : b = <<x>>
    BY <1>2, BoundsAssumption DEF OptBounds
  <2>2. b[1] = x
    BY <2>1
  <2>3. PICK m \in Int : m = IF b[1] < 0 THEN b[1] + n ELSE b[1]
    BY <2>2
  <2>4. normalize_slice_bound(b, n, 1, is_start) = IF m < 0 THEN 0 ELSE IF m > n THEN n ELSE m
    BY <1>2, <2>3 DEF normalize_slice_bound
  <2> QED
    BY <2>4
<1> QED
  BY <1>1, <1>2

\* Max is the greater of two numbers.
LEMMA MaxOfTwo ==
  ASSUME NEW a \in Int, NEW b \in Int
  PROVE  Max({a, b}) = IF a >= b THEN a ELSE b
<1>1. \E x \in {a, b} : \A y \in {a, b} : x >= y
  OBVIOUS
<1>2. Max({a, b}) \in {a, b} /\ \A y \in {a, b} : Max({a, b}) >= y
  BY <1>1 DEF Max
<1> QED
  BY <1>2

\* An empty dict has an index.
LEMMA EmptyOK == DictOK(EmptyDict)
<1>1. <<>> \in Seq(Entry) /\ <<>> \in Seq(0 .. 0) /\ <<>> \in Seq(Nat) /\ Len(<<>>) = 0
  OBVIOUS
<1>2. DistinctKeys(<<>>)
  BY DEF DistinctKeys
<1>3. IndexOK(<<>>, <<>>, 0)
  BY <1>1 DEF IndexOK
<1>4. DictOK([capacity |-> 0, entries |-> <<>>, buckets |-> <<>>])
  <2>1. PICK no : no = <<>> /\ no \in Seq(Entry) /\ Len(no) = 0
    BY <1>1
  <2>2. DistinctKeys(no) /\ IndexOK(no, no, Len(no)) /\ 2 * Len(no) <= Len(no) /\ Len(no) <= 0
    BY <1>2, <1>3, <2>1
  <2>3. DictOK([capacity |-> 0, entries |-> no, buckets |-> no])
    BY <2>1, <2>2, MakesDict
  <2> QED
    BY <2>1, <2>3
<1> QED
  BY <1>4 DEF EmptyDict

\* The dicts with an index.
IndexedDicts == {d \in [capacity : Nat, entries : Seq(Entry), buckets : Seq(Nat)] : DictOK(d)}

\* cwhip_map_slice makes a dict with an index: it stores entry by entry.
LEMMA SliceOK ==
  ASSUME NEW d, DictOK(d), NEW s \in OptBounds, NEW e \in OptBounds
  PROVE  DictOK(map_slice(d, s, e).obj)
<1>1. PICK n \in Nat : n = Len(d.entries)
  BY DictParts
<1>2. PICK lo \in 0 .. n : lo = normalize_slice_bound(s, n, 1, TRUE)
  BY BoundInside
<1>3. PICK last \in 0 .. n : last = normalize_slice_bound(e, n, 1, FALSE)
  BY BoundInside
<1>4. PICK hi \in 0 .. n : hi = Max({lo, last}) /\ lo <= hi
  <2>1. lo \in Int /\ last \in Int
    OBVIOUS
  <2>2. Max({lo, last}) = IF lo >= last THEN lo ELSE last
    BY <2>1, MaxOfTwo
  <2> QED
    BY <2>2
<1> DEFINE Step(i, t) == map_set(t, d.entries[i].key, d.entries[i].value).obj
           G == [i \in lo + 1 .. hi |-> [t \in IndexedDicts |-> Step(i, t)]]
           Eq(f) == f = [i \in lo .. hi |-> IF i = lo THEN EmptyDict ELSE Step(i, f[i - 1])]
           copy == CHOOSE f : Eq(f)
<1>5. \A i \in lo + 1 .. hi, t \in IndexedDicts : G[i][t] = Step(i, t) /\ G[i][t] \in IndexedDicts
  <2> SUFFICES ASSUME NEW i \in lo + 1 .. hi, NEW t \in IndexedDicts PROVE Step(i, t) \in IndexedDicts
    OBVIOUS
  <2>1. i \in 1 .. n
    OBVIOUS
  <2>2. PICK entry \in Entry : entry = d.entries[i]
    <3>1. d.entries \in Seq(Entry)
      BY DictParts
    <3> QED
      BY <1>1, <2>1, <3>1, ElementOfSeq
  <2>3. entry.key \in Keys /\ entry.value \in Values
    BY DEF Entry
  <2>4. DictOK(Step(i, t))
    BY <2>2, <2>3, SetOK DEF IndexedDicts
  <2> QED
    BY <2>4 DEF IndexedDicts, DictOK
<1>6. PICK f : Recursion(f, G, lo, hi, IndexedDicts, EmptyDict)
  <2> HIDE DEF G
  <2>1. StepsWithin(G, lo, hi, IndexedDicts)
    BY <1>5 DEF StepsWithin
  <2>2. EmptyDict \in IndexedDicts
    BY EmptyOK DEF IndexedDicts, DictOK
  <2>3. lo \in Nat /\ hi \in Nat
    OBVIOUS
  <2> QED
    BY <1>4, <2>1, <2>2, <2>3, RecursionExists, Zenon
<1>7. /\ \A i \in lo .. hi : f[i] \in IndexedDicts
      /\ f = [i \in lo .. hi |-> f[i]] /\ f[lo] = EmptyDict
      /\ \A i \in lo + 1 .. hi : f[i] = G[i][f[i - 1]]
  <2> HIDE DEF G
  <2> QED
    BY <1>6 DEF Recursion
<1>8. Eq(f)
  <2>1. \A i \in lo .. hi : i # lo => i \in lo + 1 .. hi /\ i - 1 \in lo .. hi
    OBVIOUS
  <2> HIDE DEF G, Step
  <2>2. \A i \in lo .. hi : i # lo => f[i] = Step(i, f[i - 1])
    BY <1>5, <1>7, <2>1
  <2>3. \A i \in lo .. hi : f[i] = IF i = lo THEN EmptyDict ELSE Step(i, f[i - 1])
    BY <1>7, <2>2
  <2> QED
    BY <1>7, <2>3
<1>9. Eq(copy)
  <2> HIDE DEF Eq
  <2> QED
    BY <1>8
<1>10. map_slice(d, s, e).obj = copy[hi]
  BY <1>1, <1>2, <1>3, <1>4 DEF map_slice
<1> HIDE DEF copy
<1>11. \A i \in lo .. hi : copy[i] = IF i = lo THEN EmptyDict ELSE Step(i, copy[i - 1])
  <2> HIDE DEF Step
  <2> QED
    BY <1>9
<1> DEFINE Bad == {i \in lo .. hi : copy[i] # f[i]}
<1>12. Bad = {}
  <2> SUFFICES ASSUME Bad # {} PROVE FALSE
    OBVIOUS
  <2>1. PICK m \in Bad : \A k \in Bad : m <= k
    <3>1. Bad \subseteq Nat
      OBVIOUS
    <3> HIDE DEF Bad
    <3> QED
      BY <3>1, LeastNatural
  <2>2. m \in lo .. hi /\ copy[m] # f[m]
    OBVIOUS
  <2>3. m # lo
    BY <1>7, <1>11, <2>2
  <2>4. m \in lo + 1 .. hi /\ m - 1 \in lo .. hi /\ m - 1 < m
    BY <2>2, <2>3
  <2>5. copy[m - 1] = f[m - 1]
    BY <2>1, <2>4
  <2> HIDE DEF G, Step
  <2>6. f[m] = Step(m, f[m - 1])
    BY <1>5, <1>7, <2>4
  <2>7. copy[m] = Step(m, copy[m - 1])
    BY <1>11, <2>2, <2>3
  <2> QED
    BY <2>2, <2>5, <2>6, <2>7
<1>13. hi \in lo .. hi
  BY <1>4
<1>14. copy[hi] = f[hi] /\ f[hi] \in IndexedDicts
  BY <1>7, <1>12, <1>13
<1> QED
  BY <1>10, <1>14 DEF IndexedDicts

----------------------------------------------------------------------------
(* The invariant.                                                          *)

\* If the object is a dict, it has an index.
DictInv == kind = "dict" => DictOK(obj)

\* DictOK says of the index what DictIndexExact says.
LEMMA IndexIsExact ==
  ASSUME DictInv
  PROVE  DictIndexExact
<1> SUFFICES ASSUME kind = "dict", DictOK(obj)
             PROVE  DictIndexExact
  BY DEF DictInv, DictIndexExact
<1>1. ASSUME NEW i \in DOMAIN obj.entries
      PROVE  Cardinality({b \in DOMAIN obj.buckets : obj.buckets[b] = i}) = 1
  <2>1. i \in 1 .. Len(obj.entries) /\ i # 0 /\ DOMAIN obj.buckets = 1 .. Len(obj.buckets)
    BY DictParts
  <2>2. PICK h \in Nat : h = Hash[obj.entries[i].key]
    BY <2>1, DictParts
  <2>3. PICK p \in 0 .. Len(obj.buckets) - 1 : Probe(obj.buckets, h, p) = i
    BY <2>1, <2>2 DEF DictOK, IndexOK, Reaches
  <2>4. Len(obj.buckets) \in Nat \ {0} /\ p \in Nat
    BY DictParts
  <2>5. PICK b \in 1 .. Len(obj.buckets) : obj.buckets[b] = i
    BY <2>2, <2>3, <2>4, ProbeInTable DEF Probe
  <2>6. \A c \in 1 .. Len(obj.buckets) : obj.buckets[c] = i => c = b
    BY <2>1, <2>5 DEF DictOK, IndexOK
  <2>7. {c \in DOMAIN obj.buckets : obj.buckets[c] = i} = {b}
    BY <2>1, <2>5, <2>6
  <2> QED
    BY <2>7, FS_Singleton
<1>2. \A i \in DOMAIN obj.entries : map_find_index(obj, obj.entries[i].key) = i - 1
  BY DictParts, FindsStored
<1>3. ASSUME NEW k \in Keys, \A i \in DOMAIN obj.entries : obj.entries[i].key # k
      PROVE  map_find_index(obj, k) = NoIndex
  BY <1>3, DictParts, FindsNoOther
<1>4. \A b \in DOMAIN obj.buckets : obj.buckets[b] <= Len(obj.entries)
  BY DictParts, ElementOfSeq
<1>5. 2 * Len(obj.entries) <= Len(obj.buckets)
  BY DEF DictOK
<1> QED
  BY <1>1, <1>2, <1>3, <1>4, <1>5 DEF DictIndexExact

\* The first dict of a program is empty.
LEMMA InitDict == Init => DictInv
<1> SUFFICES ASSUME Init, kind = "dict" PROVE DictOK(obj)
  BY DEF DictInv
<1>1. obj = EmptyDict
  BY DEF Init, InitialObject
<1> QED
  BY <1>1, EmptyOK

\* Every call keeps the index of a dict and the kind of an object.
LEMMA NextDict == DictInv /\ [Next]_vars => DictInv'
<1> SUFFICES ASSUME DictInv, [Next]_vars PROVE DictInv'
  OBVIOUS
<1>1. CASE WrongKind
  <2>1. obj' = obj /\ kind' = kind
    BY <1>1 DEF WrongKind, Returns, Fails
  <2> QED
    BY <2>1 DEF DictInv
<1>2. CASE DictCalls
  <2>1. kind = "dict" /\ DictOK(obj) /\ kind' = kind
    BY <1>2 DEF DictCalls, DictInv, checked, Returns
  <2>2. CASE \E k \in Keys, v \in Values : Returns(map_set(obj, k, v))
    BY <2>1, <2>2, SetOK DEF Returns, DictInv
  <2>3. CASE \E k \in Keys : Returns([obj |-> map_remove(obj, k).obj, res |-> None])
    BY <2>1, <2>3, RemoveOK DEF Returns, DictInv
  <2>4. CASE \E s, e \in OptBounds : Returns(map_slice(obj, s, e))
    BY <2>1, <2>4, SliceOK DEF Returns, DictInv
  <2> QED
    BY <1>2, <2>2, <2>3, <2>4 DEF DictCalls
<1>3. CASE ListCalls \/ BufferCalls \/ StringCalls
  <2>1. kind # "dict" /\ kind' = kind
    BY <1>3 DEF ListCalls, BufferCalls, StringCalls, checked, Returns
  <2> QED
    BY <2>1 DEF DictInv
<1>4. CASE decoder_finish \/ \E n \in 1 .. MaxOutput : decoder_feed(n)
  <2>1. kind # "dict" /\ kind' = kind
    BY <1>4 DEF decoder_finish, decoder_feed
  <2> QED
    BY <2>1 DEF DictInv
<1>5. CASE UNCHANGED vars
  BY <1>5 DEF vars, DictInv
<1> QED
  BY <1>1, <1>2, <1>3, <1>4, <1>5 DEF Next

\* RuntimeGc.c, cwhip_map_set, cwhip_map_remove, cwhip_map_slice: for any set
\* of keys, any hash, however many collide, any number of entries and any
\* order of calls, the index of a dict finds every key that is stored, under
\* the entry that holds it, finds no other key, and is at most half full.
THEOREM DictIndexIsExact == Spec => []DictIndexExact
<1>1. Spec => []DictInv
  BY InitDict, NextDict, PTL DEF Spec
<1>2. DictInv => DictIndexExact
  BY IndexIsExact
<1> QED
  BY <1>1, <1>2, PTL

----------------------------------------------------------------------------
(* What the calls do to the mapping.                                       *)

\* A pair of the mapping is the key and the value of an entry.
LEMMA MappingIs ==
  ASSUME NEW d, NEW p
  PROVE  p \in Mapping(d) <=>
           \E i \in DOMAIN d.entries : p = <<d.entries[i].key, d.entries[i].value>>
  BY DEF Mapping

\* A key has a value when an entry has the key, and which entry is unique.
LEMMA HasIs ==
  ASSUME NEW d, DictOK(d), NEW k
  PROVE  Has(d, k) <=> \E i \in 1 .. Len(d.entries) : d.entries[i].key = k
<1>1. \A i \in 1 .. Len(d.entries) : d.entries[i].value \in Values
  <2>1. \A i \in 1 .. Len(d.entries) : d.entries[i] \in Entry
    BY DictParts, ElementOfSeq
  <2>2. \A e \in Entry : e.value \in Values
    BY DEF Entry
  <2> QED
    BY <2>1, <2>2
<1>2. ASSUME Has(d, k) PROVE \E i \in 1 .. Len(d.entries) : d.entries[i].key = k
  <2>1. PICK v \in Values : <<k, v>> \in Mapping(d)
    BY <1>2 DEF Has
  <2>2. PICK i \in DOMAIN d.entries : <<k, v>> = <<d.entries[i].key, d.entries[i].value>>
    BY <2>1, MappingIs
  <2> QED
    BY <2>2, DictParts
<1>3. ASSUME NEW i \in 1 .. Len(d.entries), d.entries[i].key = k PROVE Has(d, k)
  <2>1. <<k, d.entries[i].value>> \in Mapping(d)
    BY <1>3, MappingIs, DictParts
  <2> QED
    BY <1>1, <2>1 DEF Has
<1> QED
  BY <1>2, <1>3

\* cwhip_map_find and cwhip_map_contains look up what the mapping says.
LEMMA Looked ==
  ASSUME DictOK(obj), NEW k \in Keys
  PROVE  LookupExact(k)
<1>1. CASE \E i \in 1 .. Len(obj.entries) : obj.entries[i].key = k
  <2>1. PICK j \in 1 .. Len(obj.entries) : obj.entries[j].key = k
    BY <1>1
  <2>2. map_find_index(obj, k) = j - 1
    BY <2>1, FindsStored
  <2>3. j \in Nat \ {0}
    BY DictParts
  <2>4. map_find_index(obj, k) # NoIndex /\ map_find_index(obj, k) + 1 = j
    BY <2>2, <2>3 DEF NoIndex
  <2>5. map_contains(obj, k).res = TRUE /\ map_get(obj, k).res = obj.entries[j].value
    BY <2>4 DEF map_contains, map_get
  <2>6. <<k, obj.entries[j].value>> \in Mapping(obj)
    BY <2>1, MappingIs, DictParts
  <2> QED
    BY <1>1, <2>5, <2>6, HasIs DEF LookupExact
<1>2. CASE \A i \in 1 .. Len(obj.entries) : obj.entries[i].key # k
  <2>1. map_find_index(obj, k) = NoIndex
    BY <1>2, FindsNoOther
  <2>2. map_contains(obj, k).res = FALSE /\ map_get(obj, k).res = Raise
    BY <2>1 DEF map_contains, map_get
  <2>3. ~Has(obj, k)
    BY <1>2, HasIs
  <2>4. map_contains(obj, k).res = Has(obj, k)
    BY <2>2, <2>3 DEF Has
  <2> QED
    BY <2>2, <2>3, <2>4 DEF LookupExact
<1> QED
  BY <1>1, <1>2

\* What cwhip_map_set makes of the entries when the key is stored.
LEMMA Overwritten ==
  ASSUME NEW d, DictOK(d), NEW k \in Keys, NEW v \in Values,
         NEW j \in 1 .. Len(d.entries), d.entries[j].key = k,
         NEW e, e = map_set(d, k, v).obj.entries
  PROVE  /\ DOMAIN e = 1 .. Len(d.entries)
         /\ \A i \in 1 .. Len(d.entries) :
              /\ e[i].key = d.entries[i].key
              /\ e[i].value = IF i = j THEN v ELSE d.entries[i].value
<1>1. PICK es : es = d.entries /\ es \in Seq(Entry) /\ DOMAIN es = 1 .. Len(d.entries)
  BY DictParts
<1>2. map_find_index(d, k) = j - 1 /\ j \in Nat \ {0}
  BY FindsStored, DictParts
<1>3. map_find_index(d, k) # NoIndex /\ map_find_index(d, k) + 1 = j
  BY <1>2 DEF NoIndex
<1>4. e = [d EXCEPT !.entries[j].value = v].entries
  BY <1>3 DEF map_set
<1>5. d = [capacity |-> d.capacity, entries |-> es, buckets |-> d.buckets]
  BY <1>1 DEF DictOK
<1>6. e = [es EXCEPT ![j].value = v]
  <2>1. PICK new : new = [es EXCEPT ![j].value = v]
    OBVIOUS
  <2>2. [d EXCEPT !.entries[j].value = v] = [d EXCEPT !.entries = new]
    BY <1>1, <2>1
  <2>3. [d EXCEPT !.entries = new].entries = new
    BY ONLY <1>5
  <2> QED
    BY ONLY <1>4, <2>1, <2>2, <2>3
<1>7. ASSUME NEW i \in 1 .. Len(d.entries)
      PROVE  /\ e[i].key = es[i].key
             /\ e[i].value = IF i = j THEN v ELSE es[i].value
  <2>1. CASE i # j
    BY <1>1, <1>6, <2>1
  <2>2. CASE i = j
    <3>1. PICK x \in Entry : x = es[j]
      BY <1>1, ElementOfSeq
    <3>2. x = [key |-> x.key, value |-> x.value]
      BY DEF Entry
    <3>3. e[j] = [x EXCEPT !.value = v]
      BY <1>1, <1>6, <3>1
    <3>4. e[j] = [key |-> x.key, value |-> v]
      BY <3>2, <3>3
    <3> QED
      BY <2>2, <3>1, <3>4
  <2> QED
    BY <2>1, <2>2
<1> QED
  BY <1>1, <1>6, <1>7

\* What it makes of them when it is not.
LEMMA Inserted ==
  ASSUME NEW d, DictOK(d), NEW k \in Keys, NEW v \in Values, Len(d.entries) < IntMax,
         \A i \in 1 .. Len(d.entries) : d.entries[i].key # k,
         NEW e, e = map_set(d, k, v).obj.entries
  PROVE  /\ DOMAIN e = 1 .. Len(d.entries) + 1
         /\ \A i \in 1 .. Len(d.entries) : e[i] = d.entries[i]
         /\ e[Len(d.entries) + 1] = [key |-> k, value |-> v]
<1>1. map_find_index(d, k) = NoIndex
  BY FindsNoOther
<1>2. ~(Len(d.entries) >= IntMax)
  BY DictParts, IntMaxIsNat
<1>3. PICK new \in Entry : new = [key |-> k, value |-> v]
  <2>1. [key |-> k, value |-> v] \in Entry
    BY DEF Entry
  <2> QED
    BY <2>1
<1>4. e = Append(d.entries, new)
  BY <1>1, <1>2, <1>3 DEF map_set, map_insert
<1>5. PICK es : es = d.entries /\ es \in Seq(Entry) /\ Len(es) \in Nat
  BY DictParts
<1>6. e = Append(es, new)
  BY <1>4, <1>5
<1>7. /\ e \in Seq(Entry) /\ Len(e) = Len(es) + 1
      /\ \A i \in 1 .. Len(es) : e[i] = es[i]
      /\ e[Len(es) + 1] = new
  BY ONLY <1>3, <1>5, <1>6, AppendProperties
<1>8. DOMAIN e = 1 .. Len(es) + 1
  BY ONLY <1>7, LenProperties
<1> QED
  BY <1>3, <1>5, <1>7, <1>8

\* cwhip_map_set changes the value of one key.
LEMMA Stored ==
  ASSUME DictOK(obj), NEW k \in Keys, NEW v \in Values
  PROVE  StoreExact(k, v)
<1> DEFINE D == map_set(obj, k, v).obj
           es == obj.entries
           e == D.entries
           n == Len(es)
<1>0. n \in Nat /\ DOMAIN es = 1 .. n /\ \A i, j \in 1 .. n : es[i].key = es[j].key => i = j
  BY DictParts DEF DictOK, DistinctKeys
<1>1. CASE \E i \in 1 .. n : es[i].key = k
  <2>1. PICK j \in 1 .. n : es[j].key = k
    BY <1>1
  <2>2. /\ DOMAIN e = 1 .. n
        /\ \A i \in 1 .. n : e[i].key = es[i].key /\ e[i].value = IF i = j THEN v ELSE es[i].value
    BY <2>1, Overwritten
  <2> HIDE DEF D, e
  <2>3. ASSUME NEW p
        PROVE  p \in Mapping(D) <=> p \in {q \in Mapping(obj) : q[1] # k} \cup {<<k, v>>}
    <3>1. ASSUME p \in Mapping(D)
          PROVE  p \in {q \in Mapping(obj) : q[1] # k} \cup {<<k, v>>}
      <4>1. PICK i \in 1 .. n : p = <<e[i].key, e[i].value>>
        BY <2>2, <3>1, MappingIs DEF e
      <4>2. CASE i = j
        BY <2>1, <2>2, <4>1, <4>2
      <4>3. CASE i # j
        <5>1. p = <<es[i].key, es[i].value>> /\ es[i].key # k
          BY <1>0, <2>1, <2>2, <4>1, <4>3
        <5>2. p \in Mapping(obj) /\ p[1] # k
          BY <1>0, <5>1, MappingIs
        <5> QED
          BY <5>2
      <4> QED
        BY <4>2, <4>3
    <3>2. ASSUME p \in Mapping(obj), p[1] # k
          PROVE  p \in Mapping(D)
      <4>1. PICK i \in 1 .. n : p = <<es[i].key, es[i].value>>
        BY <1>0, <3>2, MappingIs
      <4>2. i # j
        BY <2>1, <3>2, <4>1
      <4>3. p = <<e[i].key, e[i].value>>
        BY <2>2, <4>1, <4>2
      <4> QED
        BY <2>2, <4>3, MappingIs DEF e
    <3>3. <<k, v>> \in Mapping(D)
      <4>1. <<k, v>> = <<e[j].key, e[j].value>>
        BY <2>1, <2>2
      <4> QED
        BY <2>2, <4>1, MappingIs DEF e
    <3> QED
      BY <3>1, <3>2, <3>3
  <2>4. KeyOrder(D) = KeyOrder(obj)
    BY <1>0, <2>2 DEF KeyOrder, e
  <2>5. Has(obj, k)
    BY <2>1, HasIs
  <2> QED
    BY <2>3, <2>4, <2>5 DEF StoreExact, D
<1>2. CASE \A i \in 1 .. n : es[i].key # k
  <2>1. ~Has(obj, k)
    BY <1>2, HasIs
  <2> SUFFICES ASSUME n < IntMax
               PROVE  /\ Mapping(D) = {p \in Mapping(obj) : p[1] # k} \cup {<<k, v>>}
                      /\ KeyOrder(D) = Append(KeyOrder(obj), k)
    BY <2>1 DEF StoreExact
  <2>2. /\ DOMAIN e = 1 .. n + 1 /\ \A i \in 1 .. n : e[i] = es[i]
        /\ e[n + 1] = [key |-> k, value |-> v]
    BY <1>2, Inserted
  <2> HIDE DEF D, e
  <2>3. ASSUME NEW p
        PROVE  p \in Mapping(D) <=> p \in {q \in Mapping(obj) : q[1] # k} \cup {<<k, v>>}
    <3>1. ASSUME p \in Mapping(D)
          PROVE  p \in {q \in Mapping(obj) : q[1] # k} \cup {<<k, v>>}
      <4>1. PICK i \in 1 .. n + 1 : p = <<e[i].key, e[i].value>>
        BY <2>2, <3>1, MappingIs DEF e
      <4>2. CASE i = n + 1
        BY <2>2, <4>1, <4>2
      <4>3. CASE i # n + 1
        <5>1. i \in 1 .. n
          BY <1>0, <4>3
        <5>2. p = <<es[i].key, es[i].value>> /\ es[i].key # k
          BY <1>2, <2>2, <4>1, <5>1
        <5>3. p \in Mapping(obj) /\ p[1] # k
          BY <1>0, <5>1, <5>2, MappingIs
        <5> QED
          BY <5>3
      <4> QED
        BY <4>2, <4>3
    <3>2. ASSUME p \in Mapping(obj)
          PROVE  p \in Mapping(D)
      <4>1. PICK i \in 1 .. n : p = <<es[i].key, es[i].value>>
        BY <1>0, <3>2, MappingIs
      <4>2. i \in 1 .. n + 1 /\ p = <<e[i].key, e[i].value>>
        BY <1>0, <2>2, <4>1
      <4> QED
        BY <2>2, <4>2, MappingIs DEF e
    <3>3. <<k, v>> \in Mapping(D)
      <4>1. n + 1 \in 1 .. n + 1 /\ <<k, v>> = <<e[n + 1].key, e[n + 1].value>>
        BY <1>0, <2>2
      <4> QED
        BY <2>2, <4>1, MappingIs DEF e
    <3> QED
      BY <3>1, <3>2, <3>3
  <2>4. KeyOrder(D) = Append(KeyOrder(obj), k)
    <3>1. PICK K : K = KeyOrder(obj) /\ K = [i \in 1 .. n |-> es[i].key]
      BY <1>0 DEF KeyOrder
    <3>2. K \in Seq(Keys) /\ Len(K) = n
      <4>1. \A i \in 1 .. n : es[i].key \in Keys
        BY DictParts
      <4>2. K \in [1 .. n -> Keys]
        BY <3>1, <4>1
      <4> QED
        BY <1>0, <4>2, IsASeq, LenProperties
    <3>3. PICK A : A = Append(K, k)
      OBVIOUS
    <3>4. /\ A \in Seq(Keys) /\ Len(A) = n + 1 /\ A[n + 1] = k
          /\ \A i \in 1 .. n : A[i] = K[i]
      BY <3>2, <3>3, AppendProperties
    <3>5. PICK L : L = KeyOrder(D) /\ L = [i \in 1 .. n + 1 |-> e[i].key]
      BY <2>2 DEF KeyOrder, e
    <3>6. A = [i \in 1 .. n + 1 |-> A[i]]
      BY <3>4, LenProperties
    <3>7. \A i \in 1 .. n + 1 : A[i] = e[i].key
      <4>1. \A i \in 1 .. n : A[i] = e[i].key
        BY <2>2, <3>1, <3>4
      <4>2. A[n + 1] = e[n + 1].key
        BY <2>2, <3>4
      <4>3. \A i \in 1 .. n + 1 : i \in 1 .. n \/ i = n + 1
        BY <1>0
      <4> QED
        BY <4>1, <4>2, <4>3
    <3> QED
      BY <3>1, <3>3, <3>5, <3>6, <3>7
  <2> QED
    BY <2>3, <2>4
<1> QED
  BY <1>1, <1>2

\* e is es without its entry at j.
Without(es, e, j) ==
  /\ DOMAIN e = 1 .. Len(es) - 1
  /\ \A i \in 1 .. Len(es) - 1 : e[i] = es[IF i < j THEN i ELSE i + 1]

\* What cwhip_map_remove makes of the entries when the key is stored.
LEMMA Shortened ==
  ASSUME NEW d, DictOK(d), NEW k \in Keys,
         NEW j \in 1 .. Len(d.entries), d.entries[j].key = k,
         NEW e, e = map_remove(d, k).obj.entries
  PROVE  map_remove(d, k).res = TRUE /\ Without(d.entries, e, j)
<1>1. PICK n \in Nat : n = Len(d.entries)
  BY DictParts
<1>2. PICK es : es = d.entries /\ es \in Seq(Entry) /\ Len(es) = n /\ DOMAIN es = 1 .. n
  BY <1>1, DictParts
<1>3. PICK x \in 1 .. n : x = j
  BY <1>1
<1>4. map_find_index(d, k) = x - 1 /\ x - 1 # NoIndex /\ (x - 1) + 2 = x + 1
  BY <1>1, <1>3, FindsStored DEF NoIndex
<1>5. PICK left : left = SubSeq(es, 1, x - 1) \o SubSeq(es, x + 1, n)
  OBVIOUS
<1>6. /\ left \in Seq(Entry) /\ Len(left) = n - 1
      /\ \A i \in 1 .. n - 1 : left[i] = es[IF i < x THEN i ELSE i + 1]
  BY <1>2, <1>5, CutOne
<1>7. DOMAIN left = 1 .. n - 1
  BY <1>6, LenProperties
<1>8. PICK t : t = map_rebuild_index(left, Len(d.buckets))
  OBVIOUS
<1>9. PICK o : o = [d EXCEPT !.entries = left, !.buckets = t]
  OBVIOUS
<1>10. map_remove(d, k) = [obj |-> o, res |-> TRUE]
  BY <1>1, <1>2, <1>4, <1>5, <1>8, <1>9 DEF map_remove
<1>11. o.entries = left
  <2>1. PICK b : b = [d EXCEPT !.entries = left]
    OBVIOUS
  <2>2. d = [capacity |-> d.capacity, entries |-> es, buckets |-> d.buckets]
    BY <1>2 DEF DictOK
  <2>3. b = [capacity |-> d.capacity, entries |-> left, buckets |-> d.buckets]
    BY ONLY <2>1, <2>2
  <2>4. o = [b EXCEPT !.buckets = t]
    BY ONLY <1>9, <2>1
  <2> QED
    BY ONLY <2>3, <2>4
<1>12. e = left /\ map_remove(d, k).res = TRUE
  BY <1>10, <1>11
<1>13. Without(es, left, x)
  BY <1>2, <1>6, <1>7 DEF Without
<1> QED
  BY <1>2, <1>3, <1>12, <1>13

\* cwhip_map_remove takes one key out and keeps the order of the others.
LEMMA Removed ==
  ASSUME DictOK(obj), NEW k \in Keys
  PROVE  RemovalExact(k)
<1> DEFINE r == map_remove(obj, k)
           es == obj.entries
           n == Len(es)
<1>0. n \in Nat /\ DOMAIN es = 1 .. n /\ \A i, j \in 1 .. n : es[i].key = es[j].key => i = j
  BY DictParts DEF DictOK, DistinctKeys
<1>1. CASE \A i \in 1 .. n : es[i].key # k
  <2>1. r = [obj |-> obj, res |-> FALSE]
    BY <1>1, FindsNoOther DEF map_remove
  <2>2. ~Has(obj, k)
    BY <1>1, HasIs
  <2>3. r.res = Has(obj, k) /\ r.obj = obj
    BY <2>1, <2>2 DEF Has
  <2>4. \A p \in Mapping(obj) : p[1] # k
    BY <1>0, <1>1, MappingIs
  <2>5. InOrderOf(KeyOrder(obj), KeyOrder(obj))
    BY DEF InOrderOf
  <2>6. Mapping(obj) = {p \in Mapping(obj) : p[1] # k}
    BY <2>4
  <2> QED
    BY <2>3, <2>5, <2>6 DEF RemovalExact
<1>2. CASE \E i \in 1 .. n : es[i].key = k
  <2>1. PICK j \in 1 .. n : es[j].key = k
    BY <1>2
  <2>2. PICK left : left = r.obj.entries
    OBVIOUS
  <2>4. /\ DOMAIN left = 1 .. n - 1 /\ r.res = TRUE
        /\ \A i \in 1 .. n - 1 : left[i] = es[IF i < j THEN i ELSE i + 1]
    <3>1. j \in 1 .. Len(obj.entries) /\ obj.entries[j].key = k /\ left = map_remove(obj, k).obj.entries
      BY <2>1, <2>2
    <3>2. map_remove(obj, k).res = TRUE /\ Without(obj.entries, left, j)
      <4> HIDE DEF r, es, n
      <4> QED
        BY <3>1, Shortened, Zenon
    <3> QED
      BY <3>2 DEF Without
  <2>5. r.res = TRUE /\ r.obj.entries = left
    BY <2>2, <2>4
  <2> DEFINE D == r.obj
  <2>e. D.entries = left /\ DOMAIN D.entries = 1 .. n - 1
    BY <2>4, <2>5
  <2> HIDE DEF D, r
  <2>6. ASSUME NEW p
        PROVE  p \in Mapping(D) <=> p \in {q \in Mapping(obj) : q[1] # k}
    <3>1. ASSUME p \in Mapping(D)
          PROVE  p \in {q \in Mapping(obj) : q[1] # k}
      <4>1. PICK i \in 1 .. n - 1 : p = <<left[i].key, left[i].value>>
        BY <2>e, <3>1, MappingIs
      <4>2. PICK x \in 1 .. n : x = (IF i < j THEN i ELSE i + 1) /\ x # j
        BY <1>0
      <4>3. p = <<es[x].key, es[x].value>> /\ es[x].key # k
        BY <1>0, <2>1, <2>4, <4>1, <4>2
      <4>4. p \in Mapping(obj) /\ p[1] # k
        BY <1>0, <4>3, MappingIs
      <4> QED
        BY <4>4
    <3>2. ASSUME p \in Mapping(obj), p[1] # k
          PROVE  p \in Mapping(D)
      <4>1. PICK x \in 1 .. n : p = <<es[x].key, es[x].value>>
        BY <1>0, <3>2, MappingIs
      <4>2. x # j
        BY <2>1, <3>2, <4>1
      <4>3. PICK i \in 1 .. n - 1 : x = (IF i < j THEN i ELSE i + 1)
        <5>1. CASE x < j
          BY <1>0, <5>1
        <5>2. CASE ~(x < j)
          <6>1. x - 1 \in 1 .. n - 1 /\ x = (IF x - 1 < j THEN x - 1 ELSE (x - 1) + 1)
            BY <1>0, <4>2, <5>2
          <6> QED
            BY <6>1
        <5> QED
          BY <5>1, <5>2
      <4>4. p = <<left[i].key, left[i].value>>
        BY <2>4, <4>1, <4>3
      <4> QED
        BY <2>e, <4>4, MappingIs
    <3> QED
      BY <3>1, <3>2
  <2>7. InOrderOf(KeyOrder(D), KeyOrder(obj))
    <3>1. PICK L : L = KeyOrder(D) /\ L = [i \in 1 .. n - 1 |-> left[i].key]
      BY <2>e DEF KeyOrder
    <3>2. PICK K : K = KeyOrder(obj) /\ K = [i \in 1 .. n |-> es[i].key]
      BY <1>0 DEF KeyOrder
    <3>3. ASSUME NEW a \in 1 .. n - 1, NEW b \in 1 .. n - 1, a < b
          PROVE  \E x, y \in 1 .. n : x < y /\ K[x] = L[a] /\ K[y] = L[b]
      <4>1. PICK x \in 1 .. n : x = IF a < j THEN a ELSE a + 1
        BY <1>0
      <4>2. PICK y \in 1 .. n : y = IF b < j THEN b ELSE b + 1
        BY <1>0
      <4>3. x < y
        BY <1>0, <3>3, <4>1, <4>2
      <4>4. K[x] = L[a] /\ K[y] = L[b]
        BY <2>4, <3>1, <3>2, <4>1, <4>2
      <4> QED
        BY <4>3, <4>4
    <3>4. DOMAIN L = 1 .. n - 1 /\ DOMAIN K = 1 .. n
      BY <3>1, <3>2
    <3>5. InOrderOf(L, K)
      <4>1. \A a, b \in DOMAIN L :
              a < b => \E x, y \in DOMAIN K : x < y /\ K[x] = L[a] /\ K[y] = L[b]
        <5> SUFFICES ASSUME NEW a \in DOMAIN L, NEW b \in DOMAIN L, a < b
                     PROVE  \E x, y \in DOMAIN K : x < y /\ K[x] = L[a] /\ K[y] = L[b]
          OBVIOUS
        <5>1. a \in 1 .. n - 1 /\ b \in 1 .. n - 1
          BY <3>4
        <5>2. PICK x, y \in 1 .. n : x < y /\ K[x] = L[a] /\ K[y] = L[b]
          BY <3>3, <5>1
        <5>3. x \in DOMAIN K /\ y \in DOMAIN K
          BY <3>4
        <5> QED
          BY <5>2, <5>3
      <4> QED
        BY <4>1 DEF InOrderOf
    <3> QED
      BY ONLY <3>1, <3>2, <3>5
  <2>8. Has(obj, k)
    BY <2>1, HasIs
  <2>9. r.res = Has(obj, k)
    BY <2>5, <2>8 DEF Has
  <2>10. Mapping(D) = {q \in Mapping(obj) : q[1] # k}
    BY <2>6
  <2> QED
    BY <2>7, <2>9, <2>10 DEF RemovalExact, D, r
<1> QED
  BY <1>1, <1>2

\* RuntimeGc.c, cwhip_map_find, cwhip_map_set, cwhip_map_remove: for any keys,
\* values, hash and size, a dict is the mapping its entries say: a lookup gives
\* the value under the key or throws, storing changes one key and keeps its
\* place or appends it, removing takes one key out and leaves the order.
THEOREM DictIsMapping == Spec => []DictMeetsMapping
<1>1. Spec => []DictInv
  BY InitDict, NextDict, PTL DEF Spec
<1>2. DictInv => DictMeetsMapping
  <2> SUFFICES ASSUME kind = "dict", DictOK(obj)
               PROVE  DictMeetsMapping
    BY DEF DictInv, DictMeetsMapping
  <2>1. \A i, j \in DOMAIN obj.entries : i # j => KeyOrder(obj)[i] # KeyOrder(obj)[j]
    BY DEF KeyOrder, DictOK, DistinctKeys
  <2>2. \A k \in Keys : LookupExact(k) /\ RemovalExact(k) /\ \A v \in Values : StoreExact(k, v)
    BY Looked, Removed, Stored
  <2> QED
    BY <2>1, <2>2 DEF DictMeetsMapping
<1> QED
  BY <1>1, <1>2, PTL

\* Both together: what DictExact says of cwhip_map_set, cwhip_map_remove,
\* cwhip_map_find and the index they share holds for dicts of any size.
THEOREM DictIsExact == Spec => []DictExact
<1>1. DictIndexExact /\ DictMeetsMapping => DictExact
  BY DEF DictExact
<1> QED
  BY <1>1, DictIndexIsExact, DictIsMapping, PTL
=============================================================================
