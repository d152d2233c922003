------------------------------ MODULE Classes ------------------------------
(***************************************************************************)
(* Class hierarchies in the compiler: what the analyzer accepts and        *)
(* resolves (SemanticAnalyzer.cpp, SemanticInheritance.cpp), the layout,   *)
(* the method tables and the code the generator emits for them             *)
(* (CodeGeneratorLayout.cpp, CodeGeneratorDispatch.cpp,                    *)
(* CodeGeneratorModule.cpp) and the casts of the runtime (RuntimeGc.c).    *)
(* A class is declared after the other, the program is analyzed, an object *)
(* of some class is constructed and destroyed.                             *)
(*                                                                         *)
(* An address is the sequence of field indices that leads to it from the   *)
(* start of the object.                                                    *)
(***************************************************************************)
EXTENDS Integers, Sequences, FiniteSets, SequencesExt

CONSTANTS ClassNames,   \* the classes, in the order of their declaration
          Families,     \* for each kind of program, the declarations each class may have
          NoClass       \* the context of code outside every class

ASSUME ClassesAssumption ==
  /\ ClassNames \in Seq(STRING) /\ IsInjective(ClassNames)
  /\ NoClass \notin Range(ClassNames)

VARIABLES
  family,     \* the kind of this program
  classes,    \* the declarations read so far
  phase,      \* "declaring", "accepted", "rejected", "overflow", "constructed", "destroyed"
  object      \* the object: its class, slots, headers, constructor and destructor calls

vars == <<family, classes, phase, object>>

NoObject == [owner |-> NoClass, slots |-> <<>>, views |-> <<>>, built |-> <<>>, undone |-> <<>>]
Wild == <<-1>>      \* what a slot of fresh memory holds

------------------------------------------------------------------------------
(* Declarations *)

Bases(c) == classes[c].bases
BaseIndex(c, b) == CHOOSE i \in DOMAIN Bases(c) : Bases(c)[i].name = b
BaseNames(c) == {Bases(c)[i].name : i \in DOMAIN Bases(c)}
Edges == UNION {{<<c, i>> : i \in DOMAIN Bases(c)} : c \in DOMAIN classes}

Ancestors(c) ==
  LET up[n \in 0 .. Len(ClassNames)] ==
        IF n = 0 THEN {c}
        ELSE up[n - 1] \cup UNION {BaseNames(a) : a \in up[n - 1] \cap DOMAIN classes}
  IN up[Len(ClassNames)]

isSubclassOf(c, base) == base \in Ancestors(c)

Plain(m) == m.kind = "plain"
MethodsOf(c, kind) == SelectSeq(classes[c].methods, LAMBDA m : m.kind = kind)
HasConstructor(c) == MethodsOf(c, "constructor") # <<>>
sameParameterTypes(m, n) == m.parameters = n.parameters

\* The members of c of one kind and one name; fields and enum members are the
\* "values" of a class, which share their names.
Members(c, what) == IF what = "values" THEN classes[c].fields \o classes[c].enums ELSE classes[c][what]
Declared(c, what, name) == SelectSeq(Members(c, what), LAMBDA m : m.name = name)
Declaring(what, name) == {c \in DOMAIN classes : Declared(c, what, name) # <<>>}

\* The walk of the base classes that every lookup and the layout share: depth
\* first, left to right, along the given edges, not below the classes of stop,
\* a virtual base once.  The result is the sequence of the paths it visits.
RECURSIVE Walk(_, _, _, _)
Walk(todo, seen, stop, edges) ==
  IF todo = <<>> THEN <<>>
  ELSE LET top == Head(todo)
           c == Last(top.path)
           below == IF c \in stop THEN <<>>
                    ELSE [i \in DOMAIN Bases(c) |->
                            [path |-> Append(top.path, Bases(c)[i].name),
                             virtual |-> Bases(c)[i].virtual,
                             crossed |-> <<c, i>> \in edges]]
       IN IF ~top.crossed \/ (top.virtual /\ c \in seen)
          THEN Walk(Tail(todo), seen, stop, edges)
          ELSE <<top.path>> \o Walk(below \o Tail(todo),
                                    IF top.virtual THEN seen \cup {c} ELSE seen, stop, edges)

WalkFrom(c, stop, edges) ==
  Walk(<<[path |-> <<c>>, virtual |-> FALSE, crossed |-> TRUE]>>, {}, stop, edges)

\* Every path from c to a base, a shared base along each of its paths.
RECURSIVE PathsFrom(_)
PathsFrom(c) == {<<c>>} \cup {<<c>> \o p : p \in UNION {PathsFrom(b) : b \in BaseNames(c)}}

------------------------------------------------------------------------------
(* The analyzer: access.  context is the class whose method is analyzed.   *)

\* Access levels along a path: a private edge restricts to its class, and the
\* last one wins; a protected edge restricts when nothing did before.
EdgeAccess(path, i) == Bases(path[i])[BaseIndex(path[i], path[i + 1])].access
Restricted(steps) ==        \* steps: <<level, class>> in the order they are met
  LET at(level) == {i \in DOMAIN steps : steps[i][1] = level}
  IN IF at("private") # {}
     THEN steps[CHOOSE i \in at("private") : \A j \in at("private") : j <= i]
     ELSE IF at("protected") # {}
     THEN steps[CHOOSE i \in at("protected") : \A j \in at("protected") : i <= j]
     ELSE <<"public", NoClass>>

Permits(context, level, at) ==
  \/ level = "public"
  \/ level = "private" /\ context = at
  \/ level = "protected" /\ context # NoClass /\ isSubclassOf(context, at)

basePathAccessible(context, path) ==
  LET r == Restricted([i \in 1 .. Len(path) - 1 |-> <<EdgeAccess(path, i), path[i]>>])
  IN Permits(context, r[1], r[2])

EdgesFor(context) ==
  {e \in Edges : Permits(context, Bases(e[1])[e[2]].access, e[1])}

\* The path, followed from the declaring class outwards, may be used.
MemberPathAccessible(context, path, level) ==
  LET n == Len(path)
      r == Restricted(<<<<level, path[n]>>>> \o
                      [i \in 1 .. n - 1 |-> <<EdgeAccess(path, n - i), path[n - i]>>])
  IN Permits(context, level, path[n]) /\ Permits(context, r[1], r[2])

memberAccessible(context, c, what, name) ==
  \E p \in PathsFrom(c) :
    /\ Last(p) \in Declaring(what, name)
    /\ \A i \in 1 .. Len(p) - 1 : p[i] \notin Declaring(what, name)
    /\ MemberPathAccessible(context, p, Declared(Last(p), what, name)[1].access)

memberAccessibleThrough(context, c, declarer, m) ==
  \E p \in PathsFrom(c) :
    Last(p) = declarer /\ Permits(context, m.access, declarer) /\ basePathAccessible(context, p)

------------------------------------------------------------------------------
(* The analyzer: lookup *)

\* The paths at which a lookup from c stops because the class declares the name.
Found(c, what, name, edges) ==
  SelectSeq(WalkFrom(c, Declaring(what, name), edges), LAMBDA p : Last(p) \in Declaring(what, name))

countMembers(c, what, name) == Len(Found(c, what, name, Edges))

\* Mutant: the access of the bases on the way is not looked at.
accessibleMemberCount_mut(context, c, what, name) ==
  Len(SelectSeq(Found(c, what, name, Edges),
        LAMBDA p : Permits(context, Declared(Last(p), what, name)[1].access, Last(p))))

accessibleMemberCount(context, c, what, name) ==
  Len(SelectSeq(Found(c, what, name, EdgesFor(context)),
        LAMBDA p : Permits(context, Declared(Last(p), what, name)[1].access, Last(p))))

\* The class whose member a lookup along the edges takes, or NoClass: a branch
\* with two of them gives none.
RECURSIVE FindIn(_, _, _, _, _)
FindIn(edges, c, what, name, seen) ==
  IF c \in Declaring(what, name) THEN [found |-> c, seen |-> seen]
  ELSE LET step[i \in 0 .. Len(Bases(c))] ==
             IF i = 0 THEN [found |-> {}, seen |-> seen]
             ELSE LET b == Bases(c)[i]
                      before == step[i - 1]
                      inner == FindIn(edges, b.name, what, name,
                                      before.seen \cup (IF b.virtual THEN {b.name} ELSE {}))
                  IN IF \/ <<c, i>> \notin edges
                        \/ b.virtual /\ b.name \in before.seen
                        \/ Cardinality(before.found) > 1
                     THEN before
                     ELSE [found |-> before.found
                                     \cup (IF inner.found = NoClass THEN {} ELSE {<<i, inner.found>>}),
                           seen |-> inner.seen]
           all == step[Len(Bases(c))]
       IN [found |-> IF Cardinality(all.found) = 1 THEN (CHOOSE x \in all.found : TRUE)[2] ELSE NoClass,
           seen |-> all.seen]

\* A base through which the name is not accessible is not entered.
findField(context, c, name) ==
  FindIn({e \in EdgesFor(context) : memberAccessible(context, Bases(e[1])[e[2]].name, "values", name)},
         c, "fields", name, {}).found

\* The class whose method the analyzer takes for a name with one signature.
RECURSIVE findMethod(_, _, _)
findMethod(context, c, name) ==
  LET ways == {i \in DOMAIN Bases(c) : /\ <<c, i>> \in EdgesFor(context)
                                       /\ accessibleMemberCount(context, Bases(c)[i].name, "methods", name) # 0}
  IN IF c \in Declaring("methods", name) THEN c
     ELSE IF accessibleMemberCount(context, c, "methods", name) # 1 \/ ways = {} THEN NoClass
     ELSE findMethod(context, Bases(c)[CHOOSE i \in ways : \A j \in ways : i <= j].name, name)

\* obj.f as an expression of the context is accepted and has a type.
FieldAccepted(context, c, name) ==
  /\ countMembers(c, "fields", name) # 0
  /\ accessibleMemberCount(context, c, "values", name) = 1
  /\ findField(context, c, name) # NoClass

MethodAccepted(context, c, name) ==
  /\ accessibleMemberCount(context, c, "methods", name) = 1
  /\ LET d == findMethod(context, c, name)
     IN d # NoClass /\ memberAccessibleThrough(context, c, d, Declared(d, "methods", name)[1])

\* How many subobjects of class target an object of class c has, as isAssignable counts.
countPaths(c, target) ==
  Len(SelectSeq(WalkFrom(c, {target}, Edges), LAMBDA p : Last(p) = target))

\* Mutant: two distinct subobjects of the target class are no obstacle.
isAssignable_mut(context, target, c) ==
  target = c \/ isSubclassOf(c, target)

\* The first path from c to target, depth first and left to right.
RECURSIVE FirstPath(_, _)
FirstPath(c, target) ==
  IF c = target THEN <<c>>
  ELSE LET ways == {i \in DOMAIN Bases(c) : isSubclassOf(Bases(c)[i].name, target)}
       IN <<c>> \o FirstPath(Bases(c)[CHOOSE i \in ways : \A j \in ways : i <= j].name, target)

isAssignable(context, target, c) ==
  \/ target = c
  \/ /\ isSubclassOf(c, target)
     /\ countPaths(c, target) = 1
     /\ basePathAccessible(context, FirstPath(c, target))

\* The cost of passing a value of class c for a parameter of class target, -1
\* when it cannot be: the length of the path found from the last base on.
RECURSIVE Distance(_, _, _)
Distance(pending, visited, target) ==
  LET top == Last(pending)
      rest == Front(pending)
  IN IF top.class \in visited THEN Distance(rest, visited, target)
     ELSE IF top.class = target THEN top.length
     ELSE Distance(rest \o [i \in DOMAIN Bases(top.class) |->
                             [class |-> Bases(top.class)[i].name, length |-> top.length + 1]],
                   visited \cup {top.class}, target)

conversionRank(context, target, c) ==
  IF target = c THEN 0
  ELSE IF ~isAssignable(context, target, c) THEN -1
  ELSE 2 + Distance(<<[class |-> c, length |-> 0]>>, {}, target)

\* The overloads of a name in c and its bases, of equal signatures the first.
findOverloads(c, name) ==
  LET all == FlattenSeq([i \in DOMAIN WalkFrom(c, {}, Edges) |->
               SelectSeq(Declared(Last(WalkFrom(c, {}, Edges)[i]), "methods", name), Plain)])
      first == {i \in DOMAIN all : \A j \in 1 .. i - 1 : ~sameParameterTypes(all[i], all[j])}
  IN {all[i] : i \in first}

\* The candidates no other candidate dominates; a call needs exactly one.
Best(context, candidates, arguments) ==
  LET Rank(m, i) == conversionRank(context, m.parameters[i], arguments[i])
      viable == {m \in candidates : /\ Len(m.parameters) = Len(arguments)
                                    /\ \A i \in DOMAIN arguments : Rank(m, i) >= 0}
  IN {m \in viable : ~\E n \in viable :
        /\ \A i \in DOMAIN arguments : Rank(n, i) <= Rank(m, i)
        /\ \E i \in DOMAIN arguments : Rank(n, i) < Rank(m, i)}

------------------------------------------------------------------------------
(* The analyzer: declarations *)

\* Virtual bases, each after the virtual bases of its own.
RECURSIVE VirtualBases(_, _)
VirtualBases(c, seen) ==
  LET step[i \in 0 .. Len(Bases(c))] ==
        IF i = 0 THEN <<>>
        ELSE LET b == Bases(c)[i]
                 before == step[i - 1]
                 inner == VirtualBases(b.name, seen \cup Range(before)
                                               \cup (IF b.virtual THEN {b.name} ELSE {}))
             IN IF b.virtual /\ b.name \in seen \cup Range(before) THEN before
                ELSE before \o inner \o (IF b.virtual THEN <<b.name>> ELSE <<>>)
  IN step[Len(Bases(c))]

virtualBaseNames(c) == VirtualBases(c, {})

NoDuplicates(s) == \A i, j \in DOMAIN s : s[i].name = s[j].name => i = j

FieldsValid(c) ==
  /\ NoDuplicates(classes[c].fields)
  /\ \A i \in DOMAIN classes[c].fields, b \in BaseNames(c) :
       LET name == classes[c].fields[i].name
       IN countMembers(b, "fields", name) = 0 /\ countMembers(b, "enums", name) = 0

EnumsValid(c) ==
  /\ NoDuplicates(classes[c].enums)
  /\ \A i \in DOMAIN classes[c].enums :
       LET name == classes[c].enums[i].name
       IN /\ c \notin Declaring("fields", name) /\ c \notin Declaring("methods", name)
          /\ \A b \in BaseNames(c), what \in {"fields", "enums", "methods"} :
               countMembers(b, what, name) = 0

\* An override keeps the return type; a signature is declared once in a class.
MethodsValid(c) ==
  \A i \in DOMAIN classes[c].methods :
    LET m == classes[c].methods[i]
    IN /\ \A j \in DOMAIN classes[c].methods :
            LET n == classes[c].methods[j]
            IN i # j => ~(m.name = n.name /\ sameParameterTypes(m, n))
       /\ m.kind # "constructor" =>
            \A b \in BaseNames(c) :
              /\ countMembers(b, "enums", m.name) = 0
              /\ \A n \in findOverloads(b, m.name) : sameParameterTypes(m, n) => n.returns = m.returns

\* The initializers a constructor starts with: virtual bases first, each at
\* most once and in construction order, then the direct bases in declared
\* order, none that has a constructor left out.
Direct(c) == SelectSeq(Bases(c), LAMBDA b : ~b.virtual)
InitializersValid(c, inits) ==
  LET Places(s, names) == [i \in DOMAIN s |-> IF s[i].name \in Range(names)
                                              THEN CHOOSE k \in DOMAIN names : names[k] = s[i].name ELSE 0]
      Rising(p) == \A i \in DOMAIN p : p[i] > 0 /\ \A j \in 1 .. i - 1 : p[j] < p[i]
      direct == SelectSeq(inits, LAMBDA s : ~s.virtual)
      names == [i \in DOMAIN Direct(c) |-> Direct(c)[i].name]
  IN /\ \A i \in DOMAIN inits : inits[i].virtual => \A j \in 1 .. i - 1 : inits[j].virtual
     /\ Rising(Places(SelectSeq(inits, LAMBDA s : s.virtual), virtualBaseNames(c)))
     /\ Rising(Places(direct, names))
     /\ \A i \in DOMAIN names : HasConstructor(names[i]) =>
          \E j \in DOMAIN direct : direct[j].name = names[i]

\* A class without a constructor has no direct base with one.
ImplicitConstructor(c) ==
  HasConstructor(c) \/ \A i \in DOMAIN Direct(c) : ~HasConstructor(Direct(c)[i].name)

HierarchyValid(c) ==
  /\ NoDuplicates(Bases(c)) /\ BaseNames(c) \subseteq DOMAIN classes
  /\ c \notin UNION {Ancestors(b) : b \in BaseNames(c)}

\* A search for a name from the bases of c does not end when it enters a cycle
\* of classes that do not declare it; a virtual base is entered only once.
Circles(c, what, name) ==
  LET Up(S, virtual) == UNION {{Bases(a)[i].name : i \in {j \in DOMAIN Bases(a) : Bases(a)[j].virtual => virtual}}
                                 : a \in (S \cap DOMAIN classes) \ Declaring(what, name)}
      Reached(S, virtual) == LET up[n \in 0 .. Len(ClassNames)] ==
                                   IF n = 0 THEN S ELSE up[n - 1] \cup Up(up[n - 1], virtual)
                             IN up[Len(ClassNames)]
  IN \E a \in Reached(BaseNames(c), TRUE) : a \in Reached(Up({a}, FALSE), FALSE)

\* The first searches for each member: of a field or enum member among the
\* fields of the bases, of a method among their enum members.
Endless(c) ==
  \/ \E i \in DOMAIN Members(c, "values") : Circles(c, "fields", Members(c, "values")[i].name)
  \/ \E i \in DOMAIN classes[c].methods :
       /\ classes[c].methods[i].kind # "constructor"
       /\ Circles(c, "enums", classes[c].methods[i].name)

\* analyze() checks the classes in the order of their declaration and stops at
\* the first it rejects; the bodies of the constructors come after all classes.
Checked(c) == HierarchyValid(c) /\ ~Endless(c) /\ FieldsValid(c) /\ EnumsValid(c)
              /\ MethodsValid(c) /\ ImplicitConstructor(c)
Verdict ==
  LET failing == SelectSeq(ClassNames, LAMBDA c : ~Checked(c))
  IN IF \E c \in DOMAIN classes : ~(BaseNames(c) \subseteq DOMAIN classes) THEN "rejected"
     ELSE IF failing # <<>>
     THEN IF HierarchyValid(failing[1]) /\ Endless(failing[1]) THEN "overflow" ELSE "rejected"
     ELSE IF \A c \in DOMAIN classes : HasConstructor(c) =>
               InitializersValid(c, MethodsOf(c, "constructor")[1].inits)
     THEN "accepted" ELSE "rejected"

------------------------------------------------------------------------------
(* The generator: layout.  Index 0 is the metadata, 1 the link to the      *)
(* complete object, then the bases, the pointers to the virtual bases, the *)
(* fields and the storage of the virtual bases.                            *)

IndexOf(s, x) == CHOOSE i \in DOMAIN s : s[i] = x
virtualBasePointerIndex(c, b) == Len(Bases(c)) + 1 + IndexOf(virtualBaseNames(c), b)
fieldIndex(c, k) == Len(Bases(c)) + 1 + Len(virtualBaseNames(c)) + k
virtualBaseStorageIndex(c, b) ==
  Len(Bases(c)) + 1 + Len(virtualBaseNames(c)) + Len(classes[c].fields) + IndexOf(virtualBaseNames(c), b)

subobjects(c) == WalkFrom(c, {}, Edges)

\* The address the emitted code computes for a path: a virtual base is found
\* through the pointer stored in the subobject that names it.
RECURSIVE SubobjectAddress(_, _, _)
SubobjectAddress(slots, at, path) ==
  IF Len(path) = 1 THEN at
  ELSE LET c == path[1]
           i == BaseIndex(c, path[2])
           slot == Append(at, virtualBasePointerIndex(c, path[2]))
       IN SubobjectAddress(slots,
            IF ~Bases(c)[i].virtual THEN Append(at, i + 1)
            ELSE IF slot \in DOMAIN slots THEN slots[slot] ELSE Wild,
            Tail(path))

\* The constant the metadata holds for a path: from the last virtual edge on,
\* a virtual base lies in the storage of the complete object.
subobjectOffset(path) ==
  LET virtual == {i \in 1 .. Len(path) - 1 : Bases(path[i])[BaseIndex(path[i], path[i + 1])].virtual}
      from == IF virtual = {} THEN 1 ELSE 1 + CHOOSE i \in virtual : \A j \in virtual : j <= i
  IN (IF virtual = {} THEN <<>> ELSE <<virtualBaseStorageIndex(path[1], path[from])>>)
     \o [k \in 1 .. Len(path) - from |-> BaseIndex(path[from + k - 1], path[from + k]) + 1]

\* The field the generator takes: depth first, the bases before the class.
RECURSIVE fieldPath(_, _)
fieldPath(c, name) ==
  LET ways == {i \in DOMAIN Bases(c) : Ancestors(Bases(c)[i].name) \cap Declaring("fields", name) # {}}
  IN IF ways # {}
     THEN <<c>> \o fieldPath(Bases(c)[CHOOSE i \in ways : \A j \in ways : i <= j].name, name)
     ELSE <<c>>

FieldAt(at, c, name) ==
  Append(at, fieldIndex(c, CHOOSE k \in DOMAIN classes[c].fields : classes[c].fields[k].name = name))

emitFieldAddress(slots, at, c, name) ==
  LET p == fieldPath(c, name) IN FieldAt(SubobjectAddress(slots, at, p), Last(p), name)

\* Mutant: a shared base is listed once for every path to it.
referenceOffsets_mut(c) ==
  FlattenSeq(SetToSeq({[k \in DOMAIN classes[Last(p)].fields |->
    <<p, Append(subobjectOffset(p), fieldIndex(Last(p), k))>>] : p \in PathsFrom(c)}))

\* The offsets the collector traces in an object of class c, each with the path
\* of the subobject.
referenceOffsets(c) ==
  FlattenSeq([i \in DOMAIN subobjects(c) |->
    LET p == subobjects(c)[i]
    IN [k \in DOMAIN classes[Last(p)].fields |-> <<p, Append(subobjectOffset(p), fieldIndex(Last(p), k))>>]])

------------------------------------------------------------------------------
(* The generator: methods *)

\* Method slots of a class: those of the bases, an override in the place of
\* what it overrides.
Override(slots, c) ==
  LET own == MethodsOf(c, "plain")
      Same(m, n) == m.name = n.name /\ sameParameterTypes(m, n)
      fresh == SelectSeq(own, LAMBDA m : \A i \in DOMAIN slots : ~Same(slots[i].method, m))
  IN [i \in DOMAIN slots |->
        IF \E k \in DOMAIN own : Same(slots[i].method, own[k])
        THEN [method |-> own[CHOOSE k \in DOMAIN own : Same(slots[i].method, own[k])], owner |-> c]
        ELSE slots[i]]
     \o [k \in DOMAIN fresh |-> [method |-> fresh[k], owner |-> c]]

RECURSIVE SlotsAfter(_, _)
SlotsAfter(slots, c) ==
  LET step[i \in 0 .. Len(Bases(c))] ==
        IF i = 0 THEN slots ELSE SlotsAfter(step[i - 1], Bases(c)[i].name)
  IN Override(step[Len(Bases(c))], c)

methodSlots(c) == SlotsAfter(<<>>, c)
methodSlot(c, m) == CHOOSE i \in DOMAIN methodSlots(c) :
                      methodSlots(c)[i].method.name = m.name /\ sameParameterTypes(methodSlots(c)[i].method, m)

\* The path of the method a slot of a view calls: of the first class that has
\* the signature among the complete class, the classes of the view's path, and
\* the view's own bases.
\* Mutant: the view's own bases come first.
Implementation_mut(view, m) ==
  LET nested == subobjects(Last(view))
      candidates == [i \in DOMAIN nested |-> view \o Tail(nested[i])]
                    \o [i \in 1 .. Len(view) - 1 |-> SubSeq(view, 1, i)]
      Has(p) == \E i \in DOMAIN classes[Last(p)].methods :
                  LET n == classes[Last(p)].methods[i]
                  IN Plain(n) /\ n.name = m.name /\ sameParameterTypes(m, n)
  IN SelectSeq(candidates, Has)[1]

Implementation(view, m) ==
  LET nested == subobjects(Last(view))
      candidates == [i \in 1 .. Len(view) - 1 |-> SubSeq(view, 1, i)]
                    \o [i \in DOMAIN nested |-> view \o Tail(nested[i])]
      Has(p) == \E i \in DOMAIN classes[Last(p)].methods :
                  LET n == classes[Last(p)].methods[i]
                  IN Plain(n) /\ n.name = m.name /\ sameParameterTypes(m, n)
  IN SelectSeq(candidates, Has)[1]

\* The class of the method the generator resolves a call to, or NoClass.
generatorMethod(c, name) == FindIn(Edges, c, "methods", name, {}).found

------------------------------------------------------------------------------
(* The generator: construction and destruction of a complete object *)

\* The pointers to virtual bases, stored view by view through the addresses
\* computed from the pointers already stored.
StoredSlots(c) ==
  LET views == subobjects(c)
      step[k \in 0 .. Len(views)] ==
        IF k = 0 THEN <<>>
        ELSE LET at == SubobjectAddress(step[k - 1], <<>>, views[k])
                 v == Last(views[k])
             IN [a \in {Append(at, virtualBasePointerIndex(v, b)) : b \in Range(virtualBaseNames(v))} |->
                   <<virtualBaseStorageIndex(c, CHOOSE b \in Range(virtualBaseNames(v)) :
                        a = Append(at, virtualBasePointerIndex(v, b)))>>]
                @@ step[k - 1]
  IN step[Len(views)]

\* The headers: the view whose metadata is stored at each address.
StoredViews(c, slots) ==
  LET views == subobjects(c)
  IN [a \in {SubobjectAddress(slots, <<>>, views[k]) : k \in DOMAIN views} |->
        views[CHOOSE k \in DOMAIN views :
          /\ SubobjectAddress(slots, <<>>, views[k]) = a
          /\ \A j \in k + 1 .. Len(views) : SubobjectAddress(slots, <<>>, views[j]) # a]]

\* The constructors that run for the subobject of class c at an address, in
\* order; only the complete object initializes the virtual bases.
\* Mutant: every constructor initializes its virtual bases.
RECURSIVE Constructors_mut(_, _, _)
Constructors_mut(c, at, complete) ==
  LET vs == virtualBaseNames(c)
      inits == SelectSeq(MethodsOf(c, "constructor")[1].inits, LAMBDA s : ~s.virtual)
  IN IF ~HasConstructor(c) THEN <<>>
     ELSE FlattenSeq([i \in DOMAIN vs |-> Constructors_mut(vs[i], <<virtualBaseStorageIndex(c, vs[i])>>, FALSE)])
          \o FlattenSeq([i \in DOMAIN inits |->
               Constructors_mut(inits[i].name, Append(at, BaseIndex(c, inits[i].name) + 1), FALSE)])
          \o <<[class |-> c, at |-> at]>>

RECURSIVE Constructors(_, _, _)
Constructors(c, at, complete) ==
  LET vs == IF complete THEN virtualBaseNames(c) ELSE <<>>
      shared == FlattenSeq([i \in DOMAIN vs |-> Constructors(vs[i], <<virtualBaseStorageIndex(c, vs[i])>>, FALSE)])
      inits == SelectSeq(MethodsOf(c, "constructor")[1].inits, LAMBDA s : ~s.virtual)
  IN IF ~HasConstructor(c) THEN shared
     ELSE shared
          \o FlattenSeq([i \in DOMAIN inits |->
               Constructors(inits[i].name, Append(at, BaseIndex(c, inits[i].name) + 1), FALSE)])
          \o <<[class |-> c, at |-> at]>>

\* The destructor chain: the class and its direct bases in reverse, then each
\* virtual base in the reverse of its construction.
RECURSIVE collectNonVirtual(_)
collectNonVirtual(path) ==
  LET c == Last(path)
      direct == Reverse(Direct(c))
  IN (IF MethodsOf(c, "destructor") = <<>> THEN <<>> ELSE <<path>>)
     \o FlattenSeq([i \in DOMAIN direct |-> collectNonVirtual(Append(path, direct[i].name))])

\* The first path to a virtual base that ends in a virtual edge.
virtualPath(c, target) ==
  SelectSeq(subobjects(c), LAMBDA p :
    Last(p) = target /\ Bases(p[Len(p) - 1])[BaseIndex(p[Len(p) - 1], target)].virtual)[1]

destructorChain(c) ==
  LET vs == Reverse(virtualBaseNames(c))
  IN collectNonVirtual(<<c>>) \o FlattenSeq([i \in DOMAIN vs |-> collectNonVirtual(virtualPath(c, vs[i]))])

------------------------------------------------------------------------------
(* The runtime: casts.  base_classes lists the subobjects of the class. *)

baseClasses(c) == [i \in 1 .. Len(subobjects(c)) - 1 |->
                     [name |-> Last(subobjects(c)[i + 1]), at |-> subobjectOffset(subobjects(c)[i + 1])]]

\* The address of the checked cast, or Wild when it raises.
cast_class(c, expected) ==
  LET hits == SelectSeq(baseClasses(c), LAMBDA b : b.name = expected)
  IN IF c = expected THEN <<>> ELSE IF Len(hits) = 1 THEN hits[1].at ELSE Wild

------------------------------------------------------------------------------

Init ==
  /\ family \in DOMAIN Families
  /\ classes = <<>> /\ phase = "declaring" /\ object = NoObject

declare ==
  /\ phase = "declaring" /\ Cardinality(DOMAIN classes) < Len(ClassNames)
  /\ \E d \in Families[family][Cardinality(DOMAIN classes) + 1] :
       classes' = (ClassNames[Cardinality(DOMAIN classes) + 1] :> d) @@ classes
  /\ UNCHANGED <<family, phase, object>>

analyze ==
  /\ phase = "declaring" /\ Cardinality(DOMAIN classes) = Len(ClassNames)
  /\ phase' = Verdict
  /\ UNCHANGED <<family, classes, object>>

\* A constructor call of the last class; its virtual bases need a constructor
\* without parameters, which every constructor of the model is.
construct ==
  /\ phase = "accepted"
  /\ LET c == Last(ClassNames)
     IN \E slots \in {StoredSlots(c)} :
          object' = [owner |-> c, slots |-> slots, views |-> StoredViews(c, slots),
                     built |-> Constructors(c, <<>>, TRUE), undone |-> <<>>]
  /\ phase' = "constructed"
  /\ UNCHANGED <<family, classes>>

\* The finalizer of the complete class calls its destructor chain.
destroy ==
  /\ phase = "constructed"
  /\ LET chain == destructorChain(object.owner)
     IN object' = [object EXCEPT !.undone =
          [i \in DOMAIN chain |-> [class |-> Last(chain[i]),
                                   at |-> SubobjectAddress(object.slots, <<>>, chain[i])]]]
  /\ phase' = "destroyed"
  /\ UNCHANGED <<family, classes>>

Next == declare \/ analyze \/ construct \/ destroy

Spec == Init /\ [][Next]_vars

------------------------------------------------------------------------------
(* Properties *)

Accepted == phase = "accepted"
Built == phase = "constructed"
Contexts == DOMAIN classes \cup {NoClass}
NamesOf(what) == UNION {{classes[c][what][i].name : i \in DOMAIN classes[c][what]} : c \in DOMAIN classes}
Plainly == UNION {Range(SelectSeq(classes[c].methods, Plain)) : c \in DOMAIN classes}
AddressOf(p) == SubobjectAddress(object.slots, <<>>, p)

\* Types of the state; every header of an object was stored at an address that
\* the code could compute when it was stored.
TypeOK ==
  /\ phase \in {"declaring", "accepted", "rejected", "overflow", "constructed", "destroyed"}
  /\ DOMAIN classes = {ClassNames[i] : i \in 1 .. Cardinality(DOMAIN classes)}
  /\ object.owner \in {NoClass, Last(ClassNames)}
  /\ Wild \notin DOMAIN object.views /\ Len(object.undone) <= Len(ClassNames) * 4

\* Subobjects are shared exactly where the bases are virtual: the code that walks
\* the stored pointers (subobjectAddressSequence) reaches, along every path, the
\* place the metadata records for it (subobjectFieldOffset), and a header of that
\* class lies there, one for each entry of subobjects().
LayoutShared ==
  Built =>
    /\ Cardinality(DOMAIN object.views) = Len(subobjects(object.owner))
    /\ \A p \in PathsFrom(object.owner) :
         /\ AddressOf(p) = subobjectOffset(p)
         /\ AddressOf(p) \in DOMAIN object.views
         /\ Last(object.views[AddressOf(p)]) = Last(p)

\* The collector's offsets (emitClassTypesAndMetadata) are exactly the places at
\* which compiled code reads and writes fields, along whatever path, each once.
OffsetsExact ==
  Built =>
    LET offsets == referenceOffsets(object.owner)
    IN /\ {offsets[i][2] : i \in DOMAIN offsets} =
            {FieldAt(AddressOf(q[1]), Last(q[1]), q[2]) :
               q \in UNION {{<<p, classes[Last(p)].fields[k].name>> : k \in DOMAIN classes[Last(p)].fields} :
                            p \in PathsFrom(object.owner)}}
       /\ \A i, j \in DOMAIN offsets : offsets[i][2] = offsets[j][2] => i = j
       /\ \A name \in NamesOf("fields") :
            countMembers(object.owner, "fields", name) = 1 =>
              emitFieldAddress(object.slots, <<>>, object.owner, name) \in {offsets[i][2] : i \in DOMAIN offsets}

\* A conversion the analyzer allows (isAssignable) has one possible result: the
\* emitted walk along the first path and the checked cast of the runtime give the
\* same subobject; where it does not because there are several, the cast raises.
CastAgrees ==
  Built =>
    \A target \in Ancestors(object.owner) :
      /\ \A context \in Contexts : isAssignable(context, target, object.owner) =>
           cast_class(object.owner, target) = AddressOf(FirstPath(object.owner, target))
      /\ target # object.owner =>
           (countPaths(object.owner, target) = 1 <=> cast_class(object.owner, target) # Wild)

\* The subobject q lies in the subobject p.
Within(q, p) == \E r \in PathsFrom(Last(p)) : AddressOf(p \o Tail(r)) = AddressOf(q)
FinalOverriders(q, m) ==
  LET declaring == {p \in Range(subobjects(object.owner)) : Within(q, p) /\
                      \E n \in Range(classes[Last(p)].methods) :
                        Plain(n) /\ n.name = m.name /\ sameParameterTypes(m, n)}
  IN {AddressOf(p) : p \in {d \in declaring : ~\E e \in declaring \ {d} : Within(d, e)}}

\* A call through the view names one method; one that two bases declare is
\* refused by generatorMethod().  Then: the subobject that declares it, and the
\* address of the one whose method the slot calls.
Named(view, m) ==
  MethodAccepted(Last(view), Last(view), m.name) /\ countMembers(Last(view), "methods", m.name) = 1
DeclaredAt(view, m) == view \o Tail(Found(Last(view), "methods", m.name, Edges)[1])
DeclarationOf(view, m) == Declared(Last(DeclaredAt(view, m)), "methods", m.name)[1]
Runs(view, m) ==
  LET c == Last(view)
  IN AddressOf(Implementation(view, methodSlots(c)[methodSlot(c, DeclarationOf(view, m))].method))

\* A call through a view of an object, a secondary base included, runs the final
\* override: no subobject that contains the called method's declares it again
\* further out (methodSlots, thunks of emitClassMethods).  The one exception is
\* an override off the path of the view: emitClassMethods looks along this path
\* alone, while a virtual base has another branch above it.
DispatchFinal ==
  Built =>
    \A view \in Range(subobjects(object.owner)), m \in Plainly :
      Named(view, m) =>
        LET path == DeclaredAt(view, m)
            final == FinalOverriders(path, DeclarationOf(view, m))
            along == {AddressOf(SubSeq(path, 1, i)) : i \in DOMAIN path}
        IN Runs(view, m) \in final \/ final \cap along = {}

\* Does not hold.  What the notes say of virtual bases too: dispatch selects
\* the run-time override, whatever path of the inheritance the call takes.
OverrideReached ==
  Built =>
    \A view \in Range(subobjects(object.owner)), m \in Plainly :
      Named(view, m) => Runs(view, m) \in FinalOverriders(DeclaredAt(view, m), DeclarationOf(view, m))

\* Access of inherited fields follows the documented mapping: public inheritance
\* keeps the level, protected and private inheritance make public and protected
\* members protected and private, private members stop.
RECURSIVE LevelIn(_, _)
LevelIn(p, level) ==
  IF Len(p) = 1 THEN level
  ELSE LET inner == LevelIn(Tail(p), level)
       IN IF inner \in {"private", "none"} THEN "none"
          ELSE IF EdgeAccess(p, 1) = "public" THEN inner ELSE EdgeAccess(p, 1)
May(context, p, level) ==
  LET usable[k \in 1 .. Len(p)] ==
        k = 1 \/ \E j \in 1 .. k - 1 : usable[j] /\ Permits(context, LevelIn(SubSeq(p, j, k), "public"), p[j])
  IN \E k \in 1 .. Len(p) : usable[k] /\ Permits(context, LevelIn(SubSeq(p, k, Len(p)), level), p[k])

\* A subobject is named by its path from the last shared base on.
Identity(p) ==
  LET virtual == {i \in 1 .. Len(p) - 1 : Bases(p[i])[BaseIndex(p[i], p[i + 1])].virtual}
  IN SubSeq(p, 1 + (IF virtual = {} THEN 0 ELSE CHOOSE i \in virtual : \A j \in virtual : j <= i), Len(p))

\* The subobjects whose member of this name code of the context may use.
Usable(context, c, name) ==
  {Identity(p) : p \in {q \in PathsFrom(c) :
     /\ Last(q) \in Declaring("values", name)
     /\ May(context, q, Declared(Last(q), "values", name)[1].access)}}

\* accessibleMemberCount() counts exactly the field subobjects that code of the
\* context may use along some path.
AccessExact ==
  Accepted =>
    \A context \in Contexts, c \in DOMAIN classes, name \in NamesOf("fields") :
      accessibleMemberCount(context, c, "values", name) = Cardinality(Usable(context, c, name))

\* The two lookups agree on every accepted obj.name and obj.name().  The
\* generator, which ignores access, takes the field the analyzer resolved, or
\* one that the context may not use, which lies in an earlier base; of a method
\* it takes the analyzer's, or it reports that several bases declare it.
LookupAgrees ==
  Accepted =>
    \A context \in Contexts, c \in DOMAIN classes :
      /\ \A name \in NamesOf("fields") :
           FieldAccepted(context, c, name) =>
             \/ Last(fieldPath(c, name)) = findField(context, c, name)
             \/ Identity(fieldPath(c, name)) \notin Usable(context, c, name)
      /\ \A m \in Plainly :
           MethodAccepted(context, c, m.name) =>
             \/ generatorMethod(c, m.name) = findMethod(context, c, m.name)
             \/ generatorMethod(c, m.name) = NoClass /\ countMembers(c, "methods", m.name) > 1

\* Does not hold.  What the notes say of accepted accesses: a name that is
\* ambiguous among the bases is an error, and a member that may not be used
\* stays out of reach; the code emitted for an accepted obj.name reads a field
\* the context may use.
AccessedIsAccessible ==
  Accepted =>
    \A context \in Contexts, c \in DOMAIN classes, name \in NamesOf("fields") :
      FieldAccepted(context, c, name) =>
        Identity(fieldPath(c, name)) \in Usable(context, c, name)

\* An overload whose parameters have exactly the types of the arguments is the one
\* selected, whatever the hierarchy adds (selectOverload).
ExactOverloadWins ==
  Accepted =>
    \A c, a \in DOMAIN classes : \A m \in findOverloads(c, "m") :
      m.parameters = <<a>> => Best(c, findOverloads(c, "m"), <<a>>) = {m}

\* Every subobject whose class has a constructor is constructed once, after the
\* subobjects it contains: only the complete object initializes virtual bases.
ConstructedOnce ==
  Built =>
    /\ {<<b.class, b.at>> : b \in Range(object.built)} =
         {<<Last(p), AddressOf(p)>> : p \in {q \in Range(subobjects(object.owner)) : HasConstructor(Last(q))}}
    /\ \A i, j \in DOMAIN object.built :
         /\ object.built[i].at = object.built[j].at => i = j
         /\ Within(object.views[object.built[j].at], object.views[object.built[i].at]) => j <= i

\* Every subobject whose class has a destructor is destroyed once, before the
\* subobjects it contains, and in the reverse of the order of construction.
DestroyedReverse ==
  phase = "destroyed" =>
    LET At(s, x) == {i \in DOMAIN s : s[i] = x}
        u == object.undone
    IN /\ {<<b.class, b.at>> : b \in Range(u)} =
            {<<Last(p), AddressOf(p)>> : p \in {q \in Range(subobjects(object.owner)) :
                                                MethodsOf(Last(q), "destructor") # <<>>}}
       /\ \A i, j \in DOMAIN u :
            /\ u[i].at = u[j].at => i = j
            /\ Within(object.views[u[j].at], object.views[u[i].at]) => i <= j
            /\ i < j => \A a \in At(object.built, u[i]), b \in At(object.built, u[j]) : b < a


\* The object that compiled code walks, the collector scans and the metadata
\* describes is one and the same.
LayoutExact == TypeOK /\ LayoutShared /\ OffsetsExact

\* A name stands for the member that the access rules and the overload rules
\* of the language give it, in the analyzer and in the generated code.
NamesResolve == LookupAgrees /\ AccessExact /\ ExactOverloadWins

\* Does not hold.  What the test of inheritance cycles says of them: the
\* analyzer rejects classes whose bases form a cycle, also when a class
\* outside the cycle comes first.
CyclesAreReported == phase # "overflow"

\* Constructors run once for every subobject, inside out, and destructors once
\* in the opposite order.
LifecycleOrdered == ConstructedOnce /\ DestroyedReverse
=============================================================================
