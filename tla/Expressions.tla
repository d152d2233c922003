----------------------------- MODULE Expressions -----------------------------
(***************************************************************************)
(* Expressions: the recursive descent parser, the analyzer's types and     *)
(* compile-time evaluation, and the arithmetic of the generated code.      *)
(* Tokens are their classes: "id" is an identifier, "format" the one with  *)
(* a meaning of its own, "strg" stands for the type keywords that are    *)
(* no scalars, a string literal for its placeholders, numerals  *)
(* for integer literals of Width bits, "end" for the end of the statement. *)
(* The references are the grammar of doc/GRAMMAR.md as a derivation        *)
(* relation, and integer arithmetic.                                       *)
(***************************************************************************)
EXTENDS Integers, Sequences, SequencesExt, FiniteSets, FiniteSetsExt

CONSTANTS Vocabularies,     \* [prefix |-> tokens, words |-> a set of tokens, length |-> tokens in all]
          maximumNesting,   \* Parser::maximumNesting
          Width             \* bits of an integer

ASSUME ExpressionsAssumption ==
  /\ maximumNesting \in Nat \ {0} /\ Width \in 2..8
  /\ \A v \in Vocabularies : v.length \in Nat /\ Len(v.prefix) <= v.length

Range64 == 2 ^ Width
Minimum == -(2 ^ (Width - 1))
Maximum == 2 ^ (Width - 1) - 1

\* The magnitude of a literal; 7 and 8 are the greatest int and the magnitude of the least.
Magnitude == [w \in {"0", "1", "2", "7", "8", "1u", "15u"} |->
                CASE w = "0" -> 0 [] w \in {"1", "1u"} -> 1 [] w = "2" -> 2
                  [] w = "7" -> Maximum [] w = "8" -> Maximum + 1 [] w = "15u" -> Range64 - 1]

\* The placeholders of a string literal used as a template: "" is a positional one.
Placeholders == [w \in {"str", "str{}", "str{}{}", "str{id}", "str{id}{}", "str{"} |->
                   CASE w \in {"str", "str{"} -> <<>> [] w = "str{}" -> <<"">> [] w = "str{}{}" -> <<"", "">>
                     [] w = "str{id}" -> <<"id">> [] w = "str{id}{}" -> <<"id", "">>]
Strings == DOMAIN Placeholders
Identifiers == {"id", "format"}
Scalars == {"int", "unsigned", "bool"}

\* The kind of expression a single token is.
LeafKind(w) ==
  CASE w \in {"0", "1", "2", "7", "8"} -> "integer" [] w \in {"1u", "15u"} -> "unsigned"
    [] w \in {"true", "false"} -> "boolean" [] w \in Strings -> "string"
    [] w \in Identifiers -> "identifier" [] w = "null" -> "null" [] OTHER -> "none"

Node(k, v, a) == [k |-> k, v |-> v, a |-> a]
Leaf(w) == Node(LeafKind(w), w, <<>>)

\* The depth of an expression; the name of a type is part of its node.
RECURSIVE Depth(_)
Depth(e) == IF e.k = "name" THEN 0 ELSE 1 + Max({0} \cup {Depth(e.a[i]) : i \in 1..Len(e.a)})

\* The operators of a level: 1 or, 2 and, 4 equality, 5 relational, 6 addition, 7 multiplication.
Operators(l) == CASE l = 1 -> {"or", "||"} [] l = 2 -> {"and", "&&"} [] l = 4 -> {"==", "!="}
                  [] l = 5 -> {"is", "<", ">="} [] l = 6 -> {"+", "-"} [] l = 7 -> {"*", "/", "%"}
Spelling(w) == IF w = "or" THEN "||" ELSE IF w = "and" THEN "&&" ELSE w

-------------------------------------------------------------------------------
(* The parser.  Its state s: the tokens t, the position p, nestingDepth_ d, *)
(* whether no diagnostic was raised, and the expression e just parsed.      *)

Fail(s) == [s EXCEPT !.ok = FALSE]
check(s, ws) == s.ok /\ s.t[s.p] \in ws
Skip(s) == [s EXCEPT !.p = @ + 1]
consume(s, ws) == IF check(s, ws) THEN Skip(s) ELSE Fail(s)
Found(s, e) == IF s.ok THEN [s EXCEPT !.e = e] ELSE s
validateExpressionDepth(s) == IF s.ok /\ Depth(s.e) > maximumNesting THEN Fail(s) ELSE s

\* NestingGuard: its constructor and its destructor.
Enter(s) == IF s.d >= maximumNesting THEN Fail(s) ELSE [s EXCEPT !.d = @ + 1]
Leave(s, d) == [s EXCEPT !.d = d]

RECURSIVE parseExpression(_)
RECURSIVE parseRest(_, _)
RECURSIVE parseNot(_)
RECURSIVE parseUnary(_)
RECURSIVE parsePostfix(_)

\* id { "." id }: one node for every name of the path.
RECURSIVE QualifiedRest(_)
QualifiedRest(s) ==
  IF check(s, {"."}) THEN QualifiedRest(Found(consume(Skip(s), Identifiers), Node("name", "id", <<s.e>>))) ELSE s
parseQualifiedIdentifier(s) == QualifiedRest(Found(consume(s, Identifiers), Node("name", "id", <<>>)))

parseTypeTestName(s, operator) ==
  IF check(s, Identifiers) THEN parseQualifiedIdentifier(s)
  ELSE IF check(s, {"strg", "buffer", "type", "void"} \cup Scalars \cup (IF operator = "as" THEN {"null"} ELSE {}))
    THEN Found(Skip(s), Node("name", s.t[s.p], <<>>))
  ELSE Fail(s)

\* What stands to the right of an operator of a level.
Operand(l, s) ==
  CASE l = 1 -> parseRest(2, parseNot(s))
    [] l = 2 -> parseNot(s)
    [] l = 4 -> parseRest(5, parseRest(6, parseRest(7, parseUnary(s))))
    [] l = 5 -> parseRest(6, parseRest(7, parseUnary(s)))
    [] l = 6 -> parseRest(7, parseUnary(s))
    [] l = 7 -> parseUnary(s)

\* Mutant: the operators of a level associate to the right.
parseRest_mut(l, s) ==
  IF ~check(s, Operators(l)) THEN s
  ELSE IF s.t[s.p] = "is" THEN LET r == parseTypeTestName(Skip(s), "is")
                               IN  parseRest(l, validateExpressionDepth(Found(r, Node("is", "", <<s.e, r.e>>))))
  ELSE LET r == parseRest(l, Operand(l, Skip(s)))
       IN  validateExpressionDepth(Found(r, Node("binary", Spelling(s.t[s.p]), <<s.e, r.e>>)))

\* The loop of a level: further operators and operands, combined to the left.
parseRest(l, s) ==
  IF ~check(s, Operators(l)) THEN s
  ELSE IF s.t[s.p] = "is" THEN LET r == parseTypeTestName(Skip(s), "is")
                               IN  parseRest(l, validateExpressionDepth(Found(r, Node("is", "", <<s.e, r.e>>))))
  ELSE LET r == Operand(l, Skip(s))
       IN  parseRest(l, validateExpressionDepth(Found(r, Node("binary", Spelling(s.t[s.p]), <<s.e, r.e>>))))

parseMultiplication(s) == parseRest(7, parseUnary(s))
parseAddition(s) == parseRest(6, parseMultiplication(s))
parseRelational(s) == parseRest(5, parseAddition(s))
parseComparison(s) == parseRest(4, parseRelational(s))
parseAnd(s) == parseRest(2, parseNot(s))
parseOr(s) == parseRest(1, parseAnd(s))

parseNot(s) ==
  IF ~check(s, {"!"}) THEN parseComparison(s)
  ELSE LET r == parseNot(Skip(Enter(s))) IN Leave(validateExpressionDepth(Found(r, Node("unary", "!", <<r.e>>))), s.d)

\* Expressions separated by commas up to a closing token.
RECURSIVE parseList(_, _, _)
parseList(s, close, sofar) ==
  LET r == parseExpression(s)
      all == Append(sofar, r.e)
  IN  IF ~r.ok THEN r
      ELSE IF check(r, {","}) THEN parseList(Skip(r), close, all)
      ELSE Found(consume(r, {close}), Node("arguments", "", all))
parseArguments(s, close) ==
  IF check(s, {close}) THEN Found(Skip(s), Node("arguments", "", <<>>)) ELSE parseList(s, close, <<>>)

RECURSIVE parseEntries(_, _)
parseEntries(s, sofar) ==
  LET key == parseExpression(s)
      value == parseExpression(consume(key, {":"}))
      all == sofar \o <<key.e, value.e>>
  IN  IF ~value.ok THEN value
      ELSE IF check(value, {","}) THEN parseEntries(Skip(value), all)
      ELSE Found(consume(value, {"}"}), Node("dict", "", all))

parsePrimary(s) ==
  LET w == s.t[s.p]
      then == IF w = "end" THEN "end" ELSE s.t[s.p + 1]
  IN
  CASE ~s.ok -> s
    [] w = "type" -> LET r == parseExpression(consume(Skip(s), {"("})) IN Found(consume(r, {")"}), Node("typeof", "", <<r.e>>))
    [] w \in Scalars /\ then # "(" -> Found(Skip(s), Node("typename", w, <<>>))
    [] w = "strg" -> Found(Skip(s), Node("typename", w, <<>>))
    [] w = "buffer" /\ then = "[" -> LET r == parseArguments(Skip(Skip(s)), "]") IN Found(r, Node("bufferliteral", "", r.e.a))
    [] w = "buffer" /\ then \notin {"(", "["} -> Found(Skip(s), Node("typename", w, <<>>))
    [] w = "buffer" /\ then = "(" -> LET r == parseArguments(Skip(Skip(s)), ")") IN Found(r, Node("buffer", "", r.e.a))
    [] w \in Scalars /\ then = "(" -> LET r == parseExpression(Skip(Skip(s))) IN Found(consume(r, {")"}), Node("cast", w, <<r.e>>))
    [] LeafKind(w) # "none" -> Found(Skip(s), Leaf(w))
    [] w = "(" -> consume(parseExpression(Skip(s)), {")"})
    [] w = "[" -> LET r == parseArguments(Skip(s), "]") IN Found(r, Node("list", "", r.e.a))
    [] w = "{" -> IF then = "}" THEN Found(Skip(Skip(s)), Node("dict", "", <<>>)) ELSE parseEntries(Skip(s), <<>>)
    [] OTHER -> Fail(s)

parseUnary(s) ==
  IF ~check(s, {"-", "+"}) THEN parsePostfix(parsePrimary(s))
  ELSE LET r == parseUnary(Skip(Enter(s))) IN Leave(validateExpressionDepth(Found(r, Node("unary", s.t[s.p], <<r.e>>))), s.d)

Omitted == Node("omitted", "", <<>>)

\* The end and the step of a slice whose first colon was just read.
parseSlice(s, object, start) ==
  LET end  == IF check(s, {":", "]"}) THEN Found(s, Omitted) ELSE parseExpression(s)
      more == check(end, {":"})
      step == IF more /\ ~check(Skip(end), {"]"}) THEN parseExpression(Skip(end))
              ELSE Found(IF more THEN Skip(end) ELSE end, Omitted)
  IN  Found(consume(step, {"]"}), Node("slice", IF more THEN "step" ELSE "", <<object, start, end.e, step.e>>))

\* The arguments of a format, each under its name or "".
RECURSIVE parseFormatArguments(_, _)
parseFormatArguments(s, sofar) ==
  LET named == check(s, Identifiers) /\ s.t[s.p + 1] = "="
      r     == parseExpression(IF named THEN Skip(Skip(s)) ELSE s)
      all   == Append(sofar, Node("named", IF named THEN s.t[s.p] ELSE "", <<r.e>>))
  IN  IF ~r.ok \/ (named /\ \E i \in 1..Len(sofar) : sofar[i].v = s.t[s.p]) THEN Fail(r)
      ELSE IF check(r, {","}) THEN parseFormatArguments(Skip(r), all)
      ELSE Found(r, Node("arguments", "", all))

\* A template against its arguments, which the expression keeps in the order of the placeholders.
validateFormatString(s, template, given) ==
  LET wanted     == Placeholders[template]
      Has(names, named) == \E i \in 1..Len(names) : (names[i] # "") = named
      names      == [i \in 1..Len(given) |-> given[i].v]
      First(n)   == Min({i \in 1..Len(names) : names[i] = n})
      indices    == [i \in 1..Len(wanted) |-> IF Has(wanted, TRUE) THEN First(wanted[i]) ELSE i]
      malformed  == template = "str{" \/ (Has(wanted, TRUE) /\ Has(wanted, FALSE)) \/ (Has(names, TRUE) /\ Has(names, FALSE))
      mismatched == IF Has(wanted, TRUE) THEN Has(names, FALSE) \/ ToSet(names) # ToSet(wanted)
                    ELSE Has(names, TRUE) \/ Len(wanted) # Len(given)
  IN  IF ~s.ok \/ malformed \/ mismatched THEN Fail(s)
      ELSE Found(s, Node("format", template, [i \in 1..Len(wanted) |-> given[indices[i]].a[1]]))

\* A format after its opening parenthesis.
parseFormat(s) ==
  LET template == parseExpression(s)
      more     == check(template, {","})
      given    == IF more THEN parseFormatArguments(Skip(template), <<>>) ELSE template
  IN  IF ~template.ok \/ template.e.k # "string" THEN Fail(template)
      ELSE validateFormatString(consume(given, {")"}), template.e.v, IF more THEN given.e.a ELSE <<>>)

\* One suffix of the expression s.e, whose first token is the current one.
Suffix(s) ==
  LET w == s.t[s.p]
      object == s.e
  IN  CASE w = "as" -> LET r == parseTypeTestName(Skip(s), "as") IN Found(r, Node("as", "", <<object, r.e>>))
        [] w = "[" /\ s.t[s.p + 1] = ":" -> parseSlice(Skip(Skip(s)), object, Omitted)
        [] w = "[" /\ s.t[s.p + 1] # ":" ->
             LET r == parseExpression(Skip(s))
             IN  IF check(r, {":"}) THEN parseSlice(Skip(r), object, r.e)
                 ELSE Found(consume(r, {"]"}), Node("index", "", <<object, r.e>>))
        [] w = "." -> Found(consume(Skip(s), Identifiers), Node("member", "", <<object>>))
        [] w = "(" /\ object.k = "string" -> Fail(s)
        [] w = "(" /\ object.k = "identifier" /\ object.v = "format" -> parseFormat(Skip(s))
        [] OTHER -> LET r == parseArguments(Skip(s), ")")
                    IN  Found(r, IF object.k = "identifier" THEN Node("construct", "", r.e.a)
                                 ELSE Node("call", "", <<object>> \o r.e.a))

parsePostfix(s) ==
  LET v == validateExpressionDepth(s)
  IN  IF check(v, {"as", "[", ".", "("}) THEN parsePostfix(Suffix(v)) ELSE v

parseExpression(s) ==
  IF ~s.ok THEN s ELSE Leave(validateExpressionDepth(parseOr(Enter(s))), s.d)

-------------------------------------------------------------------------------
(* The analyzer: the type of an expression and compile-time evaluation.    *)

isMinimumIntegerMagnitude(e) == e.k = "integer" /\ Magnitude[e.v] = Maximum + 1
ScalarType(t) == t \in Scalars

\* The type of equality and ordering, of logic and of arithmetic, "error" for a diagnostic.
binaryType(op, left, right) ==
  CASE "error" \in {left, right} -> "error"
    [] op \in {"&&", "||"} -> IF left = "bool" /\ right = "bool" THEN "bool" ELSE "error"
    [] op \in {"==", "!="} -> IF \/ ScalarType(left) /\ right \in {left, "null"}
                                 \/ left = "null" /\ ScalarType(right)
                                 \/ left = "type" /\ right = "type"
                              THEN "bool" ELSE "error"
    [] op \in {"<", ">="} -> IF left = right /\ left \in {"int", "unsigned"} THEN "bool" ELSE "error"
    [] OTHER -> IF left = right /\ left \in {"int", "unsigned"} THEN left ELSE "error"

unaryType(op, operand) ==
  IF \/ op = "!" /\ operand = "bool"
     \/ op = "+" /\ operand \in {"int", "unsigned"}
     \/ op = "-" /\ operand = "int"
  THEN operand ELSE "error"

RECURSIVE analyzeExpression(_, _)
analyzeExpression(e, expectedType) ==
  CASE e.k = "integer" -> IF expectedType = "unsigned" THEN "unsigned"
                          ELSE IF Magnitude[e.v] > Maximum THEN "error" ELSE "int"
    [] e.k = "unsigned" -> "unsigned"
    [] e.k = "boolean" -> "bool"
    [] e.k = "null" -> "null"
    [] e.k = "typename" -> "type"
    [] e.k = "typeof" -> IF analyzeExpression(e.a[1], "") = "error" THEN "error" ELSE "type"
    [] e.k = "cast" -> IF ScalarType(analyzeExpression(e.a[1], "")) THEN e.v ELSE "error"
    [] e.k = "unary" -> IF e.v = "-" /\ isMinimumIntegerMagnitude(e.a[1]) THEN "int"
                        ELSE unaryType(e.v, analyzeExpression(e.a[1], ""))
    [] e.k = "binary" -> binaryType(e.v, analyzeExpression(e.a[1], ""), analyzeExpression(e.a[2], ""))

None == [ok |-> FALSE, z |-> 0]
Some(z) == [ok |-> TRUE, z |-> z]
Fits(z) == IF z \in Minimum..Maximum THEN Some(z) ELSE None

\* Division as the processor does it: the quotient is truncated toward zero.
Abs(z) == IF z < 0 THEN -z ELSE z
Quotient(a, b) == (IF (a < 0) = (b < 0) THEN 1 ELSE -1) * (Abs(a) \div Abs(b))
Remainder(a, b) == a - (b * Quotient(a, b))

\* Binary operators in constantInteger: overflow and a zero divisor have no value.
constantBinary(op, a, b) ==
  CASE op = "+" -> Fits(a + b) [] op = "-" -> Fits(a - b) [] op = "*" -> Fits(a * b)
    [] op = "/" /\ b # 0 /\ ~(a = Minimum /\ b = -1) -> Some(Quotient(a, b))
    [] op = "%" /\ b # 0 /\ ~(a = Minimum /\ b = -1) -> Some(Remainder(a, b))
    [] OTHER -> None

\* Mutant: the quotient of the least integer by -1 is not refused.
enumBinary_mut(op, a, b) ==
  IF op \in {"+", "-", "*"} THEN Fits(IF op = "+" THEN a + b ELSE IF op = "-" THEN a - b ELSE a * b)
  ELSE IF op \notin {"/", "%"} \/ b = 0 THEN None
  ELSE Some(IF op = "/" THEN Quotient(a, b) ELSE Remainder(a, b))

\* Binary operators in evaluateEnumExpression, a copy with diagnostics.
enumBinary(op, a, b) ==
  IF op \in {"+", "-", "*"} THEN Fits(IF op = "+" THEN a + b ELSE IF op = "-" THEN a - b ELSE a * b)
  ELSE IF op \notin {"/", "%"} \/ b = 0 \/ (a = Minimum /\ b = -1) THEN None
  ELSE Some(IF op = "/" THEN Quotient(a, b) ELSE Remainder(a, b))

RECURSIVE constantInteger(_)
constantInteger(e) ==
  CASE e.k = "unary" /\ e.v = "-" /\ isMinimumIntegerMagnitude(e.a[1]) -> Some(Minimum)
    [] e.k = "integer" -> Fits(Magnitude[e.v])
    [] e.k = "unary" /\ ~(e.v = "-" /\ isMinimumIntegerMagnitude(e.a[1])) ->
         LET o == constantInteger(e.a[1])
         IN  IF ~o.ok \/ (e.v = "-" /\ o.z = Minimum) \/ e.v = "!" THEN None
             ELSE Some(IF e.v = "-" THEN -o.z ELSE o.z)
    [] e.k = "binary" -> LET l == constantInteger(e.a[1])
                             r == constantInteger(e.a[2])
                         IN  IF l.ok /\ r.ok THEN constantBinary(e.v, l.z, r.z) ELSE None
    [] OTHER -> None

\* The value of an enum initializer without names; None is a diagnostic.
RECURSIVE evaluateEnumExpression(_)
evaluateEnumExpression(e) ==
  CASE e.k = "integer" -> constantInteger(e)
    [] e.k = "unary" /\ e.v = "-" /\ isMinimumIntegerMagnitude(e.a[1]) -> Some(Minimum)
    [] e.k = "unary" /\ ~(e.v = "-" /\ isMinimumIntegerMagnitude(e.a[1])) ->
         LET o == evaluateEnumExpression(e.a[1])
         IN  CASE ~o.ok -> None
               [] o.ok /\ e.v = "+" -> o
               [] o.ok /\ e.v = "-" -> Fits(-o.z)
               [] OTHER -> None
    [] e.k = "binary" -> LET l == evaluateEnumExpression(e.a[1])
                             r == evaluateEnumExpression(e.a[2])
                         IN  IF l.ok /\ r.ok THEN enumBinary(e.v, l.z, r.z) ELSE None
    [] OTHER -> None

-------------------------------------------------------------------------------
(* The generated code, run: a value is a type and Width bits, or an        *)
(* exception that cwhip_exception_raise throws.                            *)

Val(type, bits) == [type |-> type, bits |-> bits % Range64, raised |-> FALSE]
Raise(type) == [type |-> type, bits |-> 0, raised |-> TRUE]
Signed(bits) == IF bits > Maximum THEN bits - Range64 ELSE bits
Bit(b) == IF b THEN 1 ELSE 0

\* Mutant: unsigned operands are divided by sdiv and srem.
emitArithmeticOperation_mut(op, l, r) ==
  CASE op = "+" -> Val(l.type, l.bits + r.bits)
    [] op = "-" -> Val(l.type, l.bits - r.bits)
    [] op = "*" -> Val(l.type, l.bits * r.bits)
    [] op \in {"/", "%"} /\ (r.bits = 0 \/ (l.type = "int" /\ Signed(l.bits) = Minimum /\ Signed(r.bits) = -1)) -> Raise(l.type)
    [] op = "/" -> Val(l.type, Quotient(Signed(l.bits), Signed(r.bits)))
    [] op = "%" -> Val(l.type, Remainder(Signed(l.bits), Signed(r.bits)))

\* add, sub and mul of the bits; udiv, urem, sdiv and srem behind their checks.
emitArithmeticOperation(op, l, r) ==
  CASE op = "+" -> Val(l.type, l.bits + r.bits)
    [] op = "-" -> Val(l.type, l.bits - r.bits)
    [] op = "*" -> Val(l.type, l.bits * r.bits)
    [] op \in {"/", "%"} /\ (r.bits = 0 \/ (l.type = "int" /\ Signed(l.bits) = Minimum /\ Signed(r.bits) = -1)) -> Raise(l.type)
    [] op = "/" /\ l.type = "unsigned" -> Val(l.type, l.bits \div r.bits)
    [] op = "%" /\ l.type = "unsigned" -> Val(l.type, l.bits % r.bits)
    [] op = "/" /\ l.type # "unsigned" -> Val(l.type, Quotient(Signed(l.bits), Signed(r.bits)))
    [] op = "%" /\ l.type # "unsigned" -> Val(l.type, Remainder(Signed(l.bits), Signed(r.bits)))

\* icmp with the predicate of the left operand's type.
emitComparison(op, l, r) ==
  LET ordered == IF l.type = "unsigned" THEN l.bits < r.bits ELSE Signed(l.bits) < Signed(r.bits)
  IN  Val("bool", Bit(CASE op = "==" -> l.bits = r.bits [] op = "!=" -> l.bits # r.bits
                        [] op = "<" -> ordered [] op = ">=" -> ~ordered))

emitCast(target, o) ==
  CASE target = o.type -> o
    [] target # o.type /\ target = "bool" -> Val("bool", Bit(o.bits # 0))
    [] target # o.type /\ o.type = "bool" -> Val(target, o.bits)
    [] target = "unsigned" /\ o.type = "int" -> Val(target, o.bits)
    [] target = "int" /\ o.type = "unsigned" -> IF o.bits <= Maximum THEN Val(target, o.bits) ELSE Raise(target)

emitUnary(op, o) ==
  CASE op = "+" -> o [] op = "-" -> Val(o.type, 0 - o.bits) [] op = "!" -> Val("bool", 1 - o.bits)

RECURSIVE emitExpression(_, _)
\* A binary operation: the right operand of && and || runs only if the left one leaves the result open.
emitBinary(e) ==
  LET l == emitExpression(e.a[1], "")
      r == emitExpression(e.a[2], "")
      op == e.v
      nullTest == op \in {"==", "!="} /\ ((e.a[1].k = "null") # (e.a[2].k = "null"))
  IN  IF op \in {"&&", "||"} THEN
        IF l.raised THEN Raise("bool") ELSE IF l.bits = Bit(op = "||") THEN Val("bool", l.bits) ELSE r
      ELSE IF l.raised \/ r.raised THEN Raise(IF op \in Operators(4) \cup Operators(5) THEN "bool" ELSE l.type)
      ELSE IF op \in Operators(6) \cup Operators(7) THEN emitArithmeticOperation(op, l, r)
      ELSE IF nullTest THEN Val("bool", Bit(op = "!="))      \* a value without a null flag is not null
      ELSE emitComparison(op, l, r)

emitExpression(e, expectedType) ==
  CASE e.k = "integer" -> Val(IF expectedType = "unsigned" THEN "unsigned" ELSE "int", Magnitude[e.v])
    [] e.k = "unsigned" -> Val("unsigned", Magnitude[e.v])
    [] e.k = "boolean" -> Val("bool", Bit(e.v = "true"))
    [] e.k = "null" -> Val("null", 0)
    [] e.k = "cast" -> LET o == emitExpression(e.a[1], "") IN IF o.raised THEN Raise(e.v) ELSE emitCast(e.v, o)
    [] e.k = "unary" -> LET o == emitExpression(e.a[1], "")
                        IN  IF e.v = "-" /\ isMinimumIntegerMagnitude(e.a[1]) THEN Val("int", Minimum)
                            ELSE IF o.raised THEN o ELSE emitUnary(e.v, o)
    [] e.k = "binary" -> emitBinary(e)

-------------------------------------------------------------------------------
VARIABLES vocabulary,   \* the words of this text
          tokens,       \* Parser::tokens_, without the end
          phase,        \* "scan", or "parsed" once the parser has run
          parsed        \* the state the parser ended in

vars == <<vocabulary, tokens, phase, parsed>>

Start(t) == [t |-> Append(t, "end"), p |-> 1, d |-> 0, ok |-> TRUE, e |-> Node("none", "", <<>>)]

\* An expression statement: consumeStatementTerminator wants its end.
parseStatement(t) ==
  LET r == parseExpression(Start(t)) IN IF check(r, {"end"}) THEN r ELSE Fail(r)

Init ==
  /\ vocabulary \in Vocabularies
  /\ tokens = vocabulary.prefix
  /\ phase = "scan"
  /\ parsed = Start(<<>>)

scan ==
  /\ phase = "scan" /\ Len(tokens) < vocabulary.length
  /\ \E w \in vocabulary.words : tokens' = Append(tokens, w)
  /\ UNCHANGED <<vocabulary, phase, parsed>>

parse ==
  /\ phase = "scan" /\ tokens # <<>>
  /\ parsed' = parseStatement(tokens)
  /\ phase' = "parsed"
  /\ UNCHANGED <<vocabulary, tokens>>

Next == scan \/ parse

Spec == Init /\ [][Next]_vars

-------------------------------------------------------------------------------
(* The reference grammar: the derivations of tokens i..j at a level, each  *)
(* an expression e and the number n of nested expressions and prefix       *)
(* operators.  0 is expression, 3 not-expression, 8 unary, 9 postfix.      *)

RECURSIVE G(_, _, _, _)

Deeper(g) == [g EXCEPT !.n = @ + 1]
Derived(e, ns) == [e |-> e, n |-> Max(ns \cup {0})]
Join2(k, v, as, bs) == {Derived(Node(k, v, <<a.e, b.e>>), {a.n, b.n}) : a \in as, b \in bs}

\* The names of types: a path of identifiers or a keyword.
RECURSIVE Names(_, _, _, _)
Names(t, i, j, keywords) ==
  IF i = j THEN (IF t[i] \in Identifiers THEN {Derived(Node("name", "id", <<>>), {})} ELSE {})
                \cup (IF t[i] \in keywords THEN {Derived(Node("name", t[i], <<>>), {})} ELSE {})
  ELSE IF i < j /\ t[j] \in Identifiers /\ t[j - 1] = "."
    THEN {Derived(Node("name", "id", <<g.e>>), {}) : g \in Names(t, i, j - 2, {})}
  ELSE {}
TypeKeywords == {"strg", "buffer", "type", "void"} \cup Scalars

\* The derivations of comma-separated expressions, as the arguments of one node.
RECURSIVE Lists(_, _, _)
Lists(t, i, j) ==
  {Derived(Node("arguments", "", <<g.e>>), {g.n}) : g \in G(t, 0, i, j)}
  \cup UNION {{Derived(Node("arguments", "", l.e.a \o <<g.e>>), {l.n, g.n}) : l \in Lists(t, i, k - 1), g \in G(t, 0, k + 1, j)}
               : k \in {k \in (i + 1)..(j - 1) : t[k] = ","}}
ArgumentLists(t, i, j) == IF i > j THEN {Derived(Node("arguments", "", <<>>), {})} ELSE Lists(t, i, j)
Listed(k, ls) == {Derived(Node(k, "", l.e.a), {l.n}) : l \in ls}

RECURSIVE Entries(_, _, _)
Entry(t, i, j) ==
  UNION {Join2("arguments", "", G(t, 0, i, k - 1), G(t, 0, k + 1, j)) : k \in {k \in (i + 1)..(j - 1) : t[k] = ":"}}
Entries(t, i, j) ==
  Entry(t, i, j)
  \cup UNION {{Derived(Node("arguments", "", l.e.a \o g.e.a), {l.n, g.n}) : l \in Entries(t, i, k - 1), g \in Entry(t, k + 1, j)}
               : k \in {k \in (i + 1)..(j - 1) : t[k] = ","}}

Primaries(t, i, j) ==
  LET then == IF i < Len(t) THEN t[i + 1] ELSE "end"
      inside == t[j]
  IN  IF i = j THEN
        IF LeafKind(t[i]) # "none" THEN {Derived(Leaf(t[i]), {})}
        ELSE IF \/ t[i] = "strg" \/ (t[i] \in Scalars /\ then # "(") \/ (t[i] = "buffer" /\ then \notin {"(", "["})
          THEN {Derived(Node("typename", t[i], <<>>), {})}
        ELSE {}
      ELSE CASE t[i] = "(" /\ inside = ")" -> G(t, 0, i + 1, j - 1)
             [] t[i] = "[" /\ inside = "]" -> Listed("list", ArgumentLists(t, i + 1, j - 1))
             [] t[i] = "{" /\ inside = "}" -> IF j = i + 1 THEN {Derived(Node("dict", "", <<>>), {})}
                                              ELSE Listed("dict", Entries(t, i + 1, j - 1))
             [] t[i] = "type" /\ then = "(" /\ inside = ")" -> {Derived(Node("typeof", "", <<g.e>>), {g.n}) : g \in G(t, 0, i + 2, j - 1)}
             [] t[i] \in Scalars /\ then = "(" /\ inside = ")" -> {Derived(Node("cast", t[i], <<g.e>>), {g.n}) : g \in G(t, 0, i + 2, j - 1)}
             [] t[i] = "buffer" /\ then = "(" /\ inside = ")" /\ j > i + 1 -> Listed("buffer", ArgumentLists(t, i + 2, j - 1))
             [] t[i] = "buffer" /\ then = "[" /\ inside = "]" /\ j > i + 1 -> Listed("bufferliteral", ArgumentLists(t, i + 2, j - 1))
             [] OTHER -> {}

\* Format arguments under their names, and the formats whose arguments fill every placeholder.
RECURSIVE FormatLists(_, _, _)
FormatArgument(t, i, j) ==
  {Derived(Node("named", "", <<g.e>>), {g.n}) : g \in G(t, 0, i, j)}
  \cup (IF i + 1 < j /\ t[i] \in Identifiers /\ t[i + 1] = "=" THEN {Derived(Node("named", t[i], <<g.e>>), {g.n}) : g \in G(t, 0, i + 2, j)} ELSE {})
FormatLists(t, i, j) ==
  {Derived(Node("arguments", "", <<g.e>>), {g.n}) : g \in FormatArgument(t, i, j)}
  \cup UNION {{Derived(Node("arguments", "", l.e.a \o <<g.e>>), {l.n, g.n}) : l \in FormatLists(t, i, k - 1), g \in FormatArgument(t, k + 1, j)}
               : k \in {k \in (i + 1)..(j - 1) : t[k] = ","}}

Formatted(w, l) ==
  LET P == Placeholders[w]
      args == l.e.a
      Fill(f) == /\ \A i \in 1..Len(P) : args[f[i]].v = P[i]
                 /\ \A m \in 1..Len(args) : \E i \in 1..Len(P) : f[i] = m
                 /\ \A i, m \in 1..Len(P) : i < m => IF P[i] = "" THEN f[i] < f[m] ELSE P[m] # ""
                 /\ \A m, n \in 1..Len(args) : m # n /\ args[m].v # "" => args[m].v # args[n].v
  IN  IF w = "str{" \/ ({"", "id"} \subseteq ToSet(P)) THEN {}
      ELSE {Derived(Node("format", w, [i \in 1..Len(P) |-> args[f[i]].a[1]]), {l.n}) :
              f \in {f \in [1..Len(P) -> 1..Len(args)] : Fill(f)}}

Formats(t, i, j) ==
  UNION {UNION {{[g EXCEPT !.n = Max({g.n, s.n})] : g \in Formatted(s.e.v, l)} :
                  s \in {s \in G(t, 0, i, k - 1) : s.e.k = "string"},
                  l \in IF k = j + 1 THEN ArgumentLists(t, 1, 0) ELSE FormatLists(t, k + 1, j)}
          : k \in {k \in (i + 1)..(j + 1) : k = j + 1 \/ t[k] = ","}}

Optional(t, i, j) == IF i > j THEN {Derived(Omitted, {})} ELSE G(t, 0, i, j)
Slices(t, i, j, objects) ==
  LET colons == {k \in i..j : t[k] = ":"}
      Sliced(step, ss, es, ps) == {Derived(Node("slice", step, <<o.e, s.e, e.e, p.e>>), {o.n, s.n, e.n, p.n}) : o \in objects, s \in ss, e \in es, p \in ps}
  IN  UNION {Sliced("", Optional(t, i, c - 1), Optional(t, c + 1, j), Optional(t, 1, 0)) : c \in colons}
      \cup UNION {UNION {Sliced("step", Optional(t, i, c - 1), Optional(t, c + 1, d - 1), Optional(t, d + 1, j)) :
                           d \in {d \in colons : d > c}} : c \in colons}

Calls(t, i, j, objects) ==
  UNION {IF o.e.k = "string" THEN {}
         ELSE IF o.e = Leaf("format") THEN Formats(t, i, j)
         ELSE {Derived(IF o.e.k = "identifier" THEN Node("construct", "", l.e.a) ELSE Node("call", "", <<o.e>> \o l.e.a), {o.n, l.n}) :
                 l \in ArgumentLists(t, i, j)} : o \in objects}

Suffixed(t, i, j) ==
  UNION {Join2("as", "", G(t, 9, i, k - 1), Names(t, k + 1, j, TypeKeywords \cup {"null"})) : k \in {k \in (i + 1)..(j - 1) : t[k] = "as"}}
  \cup (IF i + 1 < j /\ t[j] \in Identifiers /\ t[j - 1] = "."
        THEN {Derived(Node("member", "", <<o.e>>), {o.n}) : o \in {o \in G(t, 9, i, j - 2) : ~(o.e.k = "as" /\ t[j - 2] \in Identifiers)}}
        ELSE {})
  \cup (IF t[j] = "]" THEN UNION {LET objects == G(t, 9, i, k - 1)
                                  IN  IF objects = {} THEN {} ELSE Join2("index", "", objects, G(t, 0, k + 1, j - 1)) \cup Slices(t, k + 1, j - 1, objects)
                                   : k \in {k \in (i + 1)..(j - 1) : t[k] = "["}} ELSE {})
  \cup (IF t[j] = ")" THEN UNION {LET objects == G(t, 9, i, k - 1) IN IF objects = {} THEN {} ELSE Calls(t, k + 1, j - 1, objects)
                                   : k \in {k \in (i + 1)..(j - 1) : t[k] = "("}} ELSE {})

Prefixed(t, l, i, j, ops) ==
  IF t[i] \in ops THEN {Deeper(Derived(Node("unary", t[i], <<g.e>>), {g.n})) : g \in G(t, l, i + 1, j)} ELSE {}

G(t, l, i, j) ==
  IF i > j THEN {}
  ELSE CASE l = 0 -> {Deeper(g) : g \in G(t, 1, i, j)}
         [] l \in {1, 2, 4, 5, 6, 7} ->
              G(t, l + 1, i, j)
              \cup UNION {IF t[k] = "is" THEN Join2("is", "", G(t, l, i, k - 1), Names(t, k + 1, j, TypeKeywords))
                          ELSE LET right == G(t, l + 1, k + 1, j)
                               IN  IF right = {} THEN {} ELSE Join2("binary", Spelling(t[k]), G(t, l, i, k - 1), right)
                           : k \in {k \in (i + 1)..(j - 1) : t[k] \in Operators(l)}}
         [] l = 3 -> G(t, 4, i, j) \cup Prefixed(t, 3, i, j, {"!"})
         [] l = 8 -> G(t, 9, i, j) \cup Prefixed(t, 8, i, j, {"-", "+"})
         [] l = 9 -> Primaries(t, i, j) \cup Suffixed(t, i, j)

Derivations(t) == G(t, 0, 1, Len(t))

\* Whether the model runs an expression: literals, casts and operators of any depth.
RECURSIVE Scalar(_)
Scalar(e) == e.k \in {"integer", "unsigned", "boolean", "null", "cast", "unary", "binary"}
             /\ \A i \in 1..Len(e.a) : Scalar(e.a[i])

\* What an expression means: an integer (a bool is 0 or 1), whether it raises, and whether it wrapped.
Wrapped(type, z) == IF type = "unsigned" THEN z % Range64 ELSE ((z - Minimum) % Range64) + Minimum
Result(type, z, wrapped) == [z |-> Wrapped(type, z), raised |-> FALSE, wrapped |-> wrapped \/ Wrapped(type, z) # z]
Raised == [z |-> 0, raised |-> TRUE, wrapped |-> FALSE]
Divided(a, b) == CHOOSE d \in {<<q, a - (q * b)>> : q \in -(2 * Range64)..(2 * Range64)} :
                   Abs(d[2]) < Abs(b) /\ (d[2] = 0 \/ ((d[2] < 0) = (a < 0)))

RECURSIVE Meaning(_, _)
Meaning(e, expectedType) ==
  LET type == analyzeExpression(e, expectedType)
      l == Meaning(e.a[1], "")
      r == Meaning(e.a[2], "")
      w == l.wrapped \/ r.wrapped
  IN
  CASE e.k \in {"integer", "unsigned"} -> Result(type, Magnitude[e.v], FALSE)
    [] e.k = "boolean" -> Result("bool", Bit(e.v = "true"), FALSE)
    [] e.k = "null" -> Result("int", 0, FALSE)
    [] e.k = "unary" /\ e.v = "-" /\ e.a[1] = Leaf("8") -> Result("int", Minimum, FALSE)
    [] e.k = "unary" /\ ~(e.v = "-" /\ e.a[1] = Leaf("8")) ->
         IF l.raised THEN l ELSE Result(type, CASE e.v = "-" -> -l.z [] e.v = "+" -> l.z [] e.v = "!" -> 1 - l.z, l.wrapped)
    [] e.k = "cast" ->
         IF l.raised \/ (type = "int" /\ l.z > Maximum) THEN Raised
         ELSE Result(type, IF type = "bool" THEN Bit(l.z # 0) ELSE l.z, l.wrapped)
    [] e.k = "binary" /\ e.v \in {"&&", "||"} -> IF l.raised \/ l.z = Bit(e.v = "||") THEN l ELSE r
    [] e.k = "binary" /\ e.v \notin {"&&", "||"} ->
         IF l.raised \/ r.raised \/ (e.v \in {"/", "%"} /\ (r.z = 0 \/ (type = "int" /\ l.z = Minimum /\ r.z = -1))) THEN Raised
         ELSE IF "null" \in {e.a[1].k, e.a[2].k} THEN Result(type, Bit(e.v = "!="), w)
         ELSE Result(type, CASE e.v = "+" -> l.z + r.z [] e.v = "-" -> l.z - r.z [] e.v = "*" -> l.z * r.z
                             [] e.v = "/" -> Divided(l.z, r.z)[1] [] e.v = "%" -> Divided(l.z, r.z)[2]
                             [] e.v = "==" -> Bit(l.z = r.z) [] e.v = "!=" -> Bit(l.z # r.z)
                             [] e.v = "<" -> Bit(l.z < r.z) [] e.v = ">=" -> Bit(l.z >= r.z), w)

-------------------------------------------------------------------------------
(* Properties *)

\* The parser's nesting counter is back at zero whatever the statement, and what it accepted it read to the end.
TypeOK ==
  /\ vocabulary \in Vocabularies /\ phase \in {"scan", "parsed"}
  /\ Len(tokens) <= vocabulary.length
  /\ parsed.d = 0
  /\ phase = "parsed" /\ parsed.ok => parsed.p = Len(tokens) + 1

\* A statement the parser accepts has exactly one derivation in the grammar of doc/GRAMMAR.md, and the
\* parser built that one (precedence, associativity, greedy type names, calls against casts).
BuildsDerivation ==
  phase = "parsed" /\ parsed.ok => {g.e : g \in Derivations(tokens)} = {parsed.e}

\* The parser refuses a statement of the grammar exactly if its nesting or its tree exceeds maximumNesting.
LimitExact ==
  phase = "parsed" =>
    (parsed.ok <=> \E g \in Derivations(tokens) : g.n <= maximumNesting /\ Depth(g.e) <= maximumNesting)

\* The parser is the documented grammar with the documented limit on nesting.
ParsesGrammar == TypeOK /\ BuildsDerivation /\ LimitExact

\* The instructions emitted for an expression the analyzer accepted compute a value of the analyzer's type
\* that is the integer result modulo 2^Width, and raise exactly where the operation has none.
ExecutesExactly ==
  phase = "parsed" /\ parsed.ok /\ Scalar(parsed.e) =>
    \A expectedType \in {"", "unsigned"} :
      LET type == analyzeExpression(parsed.e, expectedType)
          run  == emitExpression(parsed.e, expectedType)
          want == Meaning(parsed.e, expectedType)
      IN  type \notin {"error", "null"} =>
            /\ run.type = type
            /\ run.raised = want.raised
            /\ ~run.raised => (IF type = "unsigned" THEN run.bits ELSE Signed(run.bits)) = want.z

\* An expression of int literals and their operators.
RECURSIVE Integral(_)
Integral(e) == /\ e.k \in {"integer", "unary", "binary"}
               /\ e.v \in {"+", "-", "*", "/", "%"} \cup DOMAIN Magnitude
               /\ \A i \in 1..Len(e.a) : Integral(e.a[i])
\* The two compile-time evaluators agree with each other and with the program: they have a value exactly
\* if the expression is built from int literals and runs without exception and without wrapping.
FoldsExactly ==
  phase = "parsed" /\ parsed.ok =>
    LET folded == constantInteger(parsed.e)
        type == analyzeExpression(parsed.e, "")
        want == Meaning(parsed.e, "")
    IN  /\ evaluateEnumExpression(parsed.e) = folded
        /\ folded.ok <=> Integral(parsed.e) /\ type = "int" /\ ~want.raised /\ ~want.wrapped
        /\ folded.ok => folded.z = want.z
================================================================================
