---------------------------- MODULE MCExpressions ----------------------------
(* Statements over small vocabularies, one for each part of the grammar.     *)
EXTENDS Expressions

V(prefix, words, length) == [prefix |-> prefix, words |-> words, length |-> length]

MCVocabularies ==
  { V(<<>>, {"true", "false", "or", "and", "!", "==", "(", ")"}, 5),
    V(<<>>, {"1", "8", "-", "/", "*", "(", ")"}, 5),
    V(<<"-", "8">>, {"1", "0", "2", "-", "+", "/", "%", "*"}, 6),
    V(<<"15u">>, {"2", "1u", "15u", "/", "%", "-", "<"}, 5),
    V(<<>>, {"unsigned", "int", "bool", "(", ")", "-", "1"}, 6),
    V(<<>>, {"1", "<", ">=", "is", "null", "int", "+", "=="}, 5),
    V(<<"id">>, {"as", ".", "id", "int", "null", "(", ")", "is"}, 6),
    V(<<"id", "[">>, {"1", ":", "]", "[", "{", "}"}, 7),
    V(<<>>, {"[", "]", "{", "}", ",", ":", "1"}, 5),
    V(<<>>, {"type", "int", "strg", "buffer", "(", ")", "[", "]"}, 5),
    V(<<"format", "(">>, {"str", "str{}", "str{}{}", "str{id}", "str{id}{}", "str{", "id", ")"}, 4),
    V(<<"format", "(", "str{id}">>, {"id", "format", "=", ",", ")", "1"}, 8),
    V(<<"format", "(", "str{}{}", ",">>, {"id", "=", ",", ")", "1"}, 8),
    V(<<>>, {"1", "+", "-"}, 7),
    V(<<>>, {"1", "+"}, 9),
    V(<<"(", "(">>, {"(", ")", "!", "1", "-"}, 8) }
================================================================================
