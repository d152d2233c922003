----------------------------- MODULE MCClasses -----------------------------
(* Programs of four classes: every shape of inheritance among them, access  *)
(* levels, and declarations the analyzer has to reject.                     *)
EXTENDS Classes

Base(n, v, a) == [name |-> n, virtual |-> v, access |-> a]
Field(n, a) == [name |-> n, access |-> a]
Method(n, params, ret) == [kind |-> "plain", name |-> n, parameters |-> params, returns |-> ret,
                           access |-> "public", inits |-> <<>>]
Ctor(inits) == [kind |-> "constructor", name |-> "init", parameters |-> <<>>, returns |-> "void",
                access |-> "public", inits |-> inits]
Dtor == [kind |-> "destructor", name |-> "destroy", parameters |-> <<>>, returns |-> "void",
         access |-> "public", inits |-> <<>>]
Class(bases, fields, methods) == [bases |-> bases, fields |-> fields, methods |-> methods, enums |-> <<>>]
Enum(bases, names) == [bases |-> bases, fields |-> <<>>, methods |-> <<>>, enums |-> names]
M == Method("m", <<>>, "int")

\* Initializers of every direct base that is not virtual.
Inits(bases) == SelectSeq([i \in DOMAIN bases |-> [name |-> bases[i].name, virtual |-> bases[i].virtual]],
                          LAMBDA s : ~s.virtual)

\* Every list of different bases, at most n of them, each virtual or not.
Lists(names, n) ==
  {s \in UNION {[1 .. k -> {Base(c, v, "public") : c \in names, v \in BOOLEAN}] : k \in 0 .. n} :
     \A i, j \in DOMAIN s : s[i].name = s[j].name => i = j}

Shape(own, lists, bodies) ==
  {Class(b, <<Field(own, "public")>>, <<Ctor(Inits(b)), Dtor>> \o m) : b \in lists, m \in bodies}

Levels == {"public", "protected", "private"}
One(n) == {<<Base(n, FALSE, a)>> : a \in Levels}
Bare(lists) == {Class(b, <<>>, <<>>) : b \in lists}

MCClassNames == <<"A", "B", "C", "D">>
MCFamilies ==
  << \* the shapes
    <<Shape("a", {<<>>}, {<<M>>}), Shape("b", Lists({"A"}, 1), {<<>>, <<M>>}),
      Shape("c", Lists({"A", "B"}, 2), {<<>>, <<M>>}), Shape("d", Lists({"A", "B", "C"}, 2), {<<>>})>>,
    \* access levels
    <<{Class(<<>>, <<Field("f", a)>>, <<M>>) : a \in Levels},
      Bare(One("A")) \cup {Class(<<>>, <<Field("f", "public")>>, <<>>)},
      Bare(One("A") \cup One("B") \cup {<<Base("B", TRUE, a)>> : a \in Levels}),
      Bare(One("C") \cup {<<Base("B", v, a), Base("C", FALSE, b)>> : a, b \in Levels, v \in BOOLEAN})>>,
    \* declarations to reject
    <<{Class(<<>>, <<Field("f", "public")>>, <<Ctor(<<>>), M>>), Class(<<Base("C", FALSE, "public")>>, <<Field("f", "public")>>, <<>>),
       Class(<<Base("B", FALSE, "public")>>, <<>>, <<>>)},
      {Class(<<Base("A", v, "public")>>, fs, ms) : v \in BOOLEAN,
         fs \in {<<>>, <<Field("f", "public")>>, <<Field("b", "public"), Field("b", "public")>>},
         ms \in {<<>>, <<Ctor(<<>>)>>, <<Ctor(<<[name |-> "A", virtual |-> FALSE]>>)>>,
                 <<Ctor(<<[name |-> "A", virtual |-> TRUE]>>)>>, <<Method("m", <<>>, "bool")>>, <<M, M>>}}
      \cup {Enum(<<Base("A", FALSE, "public")>>, <<Field(n, "public")>>) : n \in {"e", "f", "m"}}
      \cup Bare({<<Base("C", FALSE, "public")>>, <<Base("X", FALSE, "public")>>}),
      Bare({<<Base("B", FALSE, "public")>>, <<Base("B", TRUE, "public")>>,
            <<Base("A", FALSE, "public"), Base("A", TRUE, "public")>>}),
      Bare({<<Base("B", FALSE, "public"), Base("C", FALSE, "public")>>}) \cup
        Shape("d", {<<Base("C", FALSE, "public"), Base("A", TRUE, "public")>>}, {<<M>>})>>,
    \* overloads
    <<{Class(<<>>, <<>>, <<Method("m", <<"A">>, "int")>>)},
      {Class(b, <<>>, m) : b \in Lists({"A"}, 1), m \in {<<>>, <<Method("m", <<"B">>, "int")>>}},
      {Class(b, <<>>, m) : b \in Lists({"A", "B"}, 2), m \in {<<>>, <<Method("m", <<"B">>, "int"), Method("m", <<"C">>, "int")>>}},
      Bare(Lists({"B", "C"}, 2))>> >>
=============================================================================
