------------------------------ MODULE MCLowering ------------------------------
(* Bodies for Lowering: two families filled from leaves, and single bodies.  *)
EXTENDS Lowering

X == [k |-> "assign", n |-> "x", t |-> "assigned"]
R(t) == [k |-> "read", n |-> "x", t |-> t]
N(n, t) == [k |-> "read", n |-> n, t |-> t]
D(n, t) == [k |-> "declare", n |-> n, t |-> t, initialized |-> TRUE]
U(n) == [k |-> "declare", n |-> n, t |-> "none", initialized |-> FALSE]
C(t) == [k |-> "call", t |-> t]
Return(t) == [k |-> "return", t |-> t]
Break == [k |-> "break"]
Continue == [k |-> "continue"]
Raise(e) == [k |-> "raise", type |-> e]
Rethrow == [k |-> "rethrow"]
Block(b) == [k |-> "block", body |-> b]
If(b) == [k |-> "if", body |-> b, hasAlternate |-> FALSE, alternate |-> <<>>]
IfElse(b, c) == [k |-> "if", body |-> b, hasAlternate |-> TRUE, alternate |-> c]
While(b) == [k |-> "while", body |-> b]
Do(b) == [k |-> "do", body |-> b]
Each(n, b) == [k |-> "each", n |-> n, t |-> "element", count |-> 2, body |-> b]
Except(type, n, b) == [type |-> type, n |-> n, body |-> b]
Try(b, hs) == [k |-> "try", body |-> b, handlers |-> hs, hasCleanup |-> FALSE, cleanup |-> <<>>]
TryFinally(b, hs, c) == [k |-> "try", body |-> b, handlers |-> hs, hasCleanup |-> TRUE, cleanup |-> c]

Leaves(t) == <<X, C(t), Return(t), Break, Continue, Raise("F"), If(<<Break>>)>>

\* A loop around try/except/finally, every place filled by every leaf.
Loops == [i \in 1..343 |->
  LET a == Leaves("body")[((i - 1) % 7) + 1]
      b == Leaves("handler")[(((i - 1) \div 7) % 7) + 1]
      c == Leaves("cleanup")[((i - 1) \div 49) + 1]
  IN  [kind |-> "void", body |->
        <<D("x", "first"),
          While(<<TryFinally(<<C("before"), a, R("body")>>, <<Except("E", "", <<b, R("handler")>>)>>, <<R("cleanup"), c>>)>>),
          R("end")>>]]

\* A try inside a handler or a body of another one, in a method with a result.
Nests == [i \in 1..98 |->
  LET a == Leaves("inner")[((i - 1) % 7) + 1]
      b == (<<Rethrow>> \o Tail(Leaves("second")))[(((i - 1) \div 7) % 7) + 1]
      inner == TryFinally(<<C("call"), a>>, <<Except("F", "e", <<N("e", "bound"), b>>)>>, <<R("inner cleanup")>>)
  IN  [kind |-> "value", body |->
        <<D("x", "first"),
          Do(<<IF i <= 49 THEN TryFinally(<<inner>>, <<Except("", "m", <<N("m", "message"), X>>)>>, <<R("outer cleanup")>>)
               ELSE TryFinally(<<Raise("E")>>, <<Except("E", "", <<inner>>)>>, <<R("outer cleanup")>>)>>),
          R("end"), Return("last")>>]]

Void(b) == [kind |-> "void", body |-> b]
Value(b) == [kind |-> "value", body |-> b]
Main(b) == [kind |-> "main", body |-> b]
Handlers(ts) == [i \in 1..Len(ts) |-> Except(ts[i], "", <<C("handler")>>)]

Singles == <<
  Value(<<Try(<<Return("one")>>, <<Except("E", "", <<Return("two")>>)>>)>>),
  Value(<<IfElse(<<Return("then")>>, <<Raise("E")>>), C("dead")>>),
  Value(<<If(<<Return("then")>>)>>),
  Value(<<While(<<Return("body")>>)>>),
  Value(<<Return("one"), While(<<C("dead")>>)>>),
  Value(<<TryFinally(<<Return("one")>>, <<Except("E", "", <<C("handler")>>)>>, <<>>)>>),
  Value(<<TryFinally(<<C("one")>>, <<>>, <<Raise("F")>>)>>),
  Void(<<U("y"), IfElse(<<[k |-> "assign", n |-> "y", t |-> "one"]>>, <<[k |-> "assign", n |-> "y", t |-> "two"]>>), N("y", "after")>>),
  Void(<<U("y"), If(<<[k |-> "assign", n |-> "y", t |-> "one"]>>), N("y", "after")>>),
  Void(<<U("y"), Try(<<C("call"), [k |-> "assign", n |-> "y", t |-> "one"]>>, <<Except("E", "", <<C("handler")>>)>>), N("y", "after")>>),
  Void(<<U("y"), Try(<<C("call"), [k |-> "assign", n |-> "y", t |-> "one"]>>,
                     <<Except("E", "", <<[k |-> "assign", n |-> "y", t |-> "two"]>>)>>), N("y", "after")>>),
  Void(<<U("y"), TryFinally(<<C("call"), [k |-> "assign", n |-> "y", t |-> "one"]>>, <<>>, <<N("y", "cleanup")>>)>>),
  Void(<<D("x", "outer"), Block(<<D("x", "inner"), X, R("in")>>), R("out"), D("x", "again")>>),
  Void(<<D("x", "outer"), Block(<<D("x", "inner"), X, R("in")>>), R("out")>>),
  Void(<<D("x", "outer"), TryFinally(<<D("x", "inner"), Return("early")>>, <<>>, <<R("cleanup")>>)>>),
  Void(<<D("x", "outer"), Each("x", <<R("element"), If(<<Continue>>), Try(<<C("call"), Break>>, <<Except("", "", <<Continue>>)>>)>>), R("end")>>),
  Void(<<While(<<TryFinally(<<While(<<Return("inner")>>)>>, <<>>, <<Break>>)>>), C("end")>>),
  Void(<<Try(<<Raise("E")>>, <<Except("E", "", <<Try(<<Rethrow>>, <<Except("E", "", <<C("caught")>>)>>), Rethrow>>)>>)>>),
  Void(<<Try(<<Raise("F")>>, <<Except("E", "e", <<[k |-> "assign", n |-> "e", t |-> "no"]>>)>>)>>),
  Void(<<TryFinally(<<C("call")>>, <<>>, <<Return("no")>>)>>),
  Void(<<Break>>), Void(<<Rethrow>>), Main(<<Return("no")>>),
  Void(<<Do(<<If(<<Continue>>)>>)>>),
  Void(<<D("x", "outer"), TryFinally(<<D("x", "inner"), C("call"), X>>, <<>>, <<R("cleanup")>>), R("end")>>),
  Value(<<While(<<TryFinally(<<While(<<If(<<Continue>>), Return("inner")>>)>>, <<>>, <<C("cleanup")>>)>>), Return("end")>>),
  Main(<<Do(<<TryFinally(<<C("one")>>, <<Except("F", "", <<C("two")>>)>>, <<C("three"), Continue>>)>>), Raise("E")>>),
  Void(<<Try(<<C("call")>>, Handlers(<<"F", "E", "Exception">>))>>),
  Void(<<Try(<<C("call")>>, Handlers(<<"F", "E", "">>))>>),
  Void(<<Try(<<C("call")>>, Handlers(<<"E", "Exception", "F">>))>>),
  Void(<<Try(<<C("call")>>, Handlers(<<"F", "Exception", "">>))>>),
  Void(<<Try(<<C("call")>>, Handlers(<<"", "E">>))>>),
  Void(<<Try(<<C("call")>>, Handlers(<<"", "">>))>>),
  Void(<<Try(<<C("call")>>, Handlers(<<"E", "F">>))>>) >>

MCPrograms == Loops \o Nests \o Singles
===============================================================================
