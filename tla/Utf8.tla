-------------------------------- MODULE Utf8 --------------------------------
(***************************************************************************)
(* The two UTF-8 scanners of the runtime: valid_utf8, the gate of every    *)
(* String (src/src/RuntimeGc.c:1711-1730), and scan_utf8, the replacing    *)
(* decoder of process output (src/src/RuntimeProcessAsync.c:829-902).      *)
(* Bytes are numbers 0..255, texts sequences of bytes.  The last section   *)
(* defines the encoding itself, from code points, as the reference both    *)
(* are compared with.                                                      *)
(***************************************************************************)
EXTENDS Naturals, Sequences, FiniteSetsExt

Continuation == 128..191

\* The number of bytes valid_utf8 expects after the lead byte a; 4 for none.
trail_count(a) ==
  CASE a \in 0..127 -> 0
    [] a \in 194..223 -> 1
    [] a \in 224..239 -> 2
    [] a \in 240..244 -> 3
    [] OTHER -> 4

\* The extra tests of valid_utf8 on the second byte.
second_ok(a, b) ==
  ~ \/ a = 224 /\ b < 160
    \/ a = 237 /\ b > 159
    \/ a = 240 /\ b < 144
    \/ a = 244 /\ b > 143

valid_utf8(s) ==
  LET from[i \in 1 .. Len(s) + 1] ==
        \/ i > Len(s)
        \/ LET n == trail_count(s[i])
           IN /\ n < 4 /\ i + n <= Len(s)
              /\ \A j \in 1..n : s[i + j] \in Continuation
              /\ n > 0 => second_ok(s[i], s[i + 1])
              /\ from[i + n + 1]
  IN from[1]

utf8_boundary(s, index) ==
  index = Len(s) \/ (index < Len(s) /\ s[index + 1] \notin Continuation)

-----------------------------------------------------------------------------
Replacement == <<239, 191, 189>>   \* U+FFFD

\* What scan_utf8 allows after a lead byte: how many bytes, and the range of
\* the first of them.
lead_class(a) ==
  CASE a \in 194..223            -> [need |-> 1, low |-> 128, high |-> 191]
    [] a = 224                   -> [need |-> 2, low |-> 160, high |-> 191]
    [] a = 237                   -> [need |-> 2, low |-> 128, high |-> 159]
    [] a \in 225..239 \ {237}    -> [need |-> 2, low |-> 128, high |-> 191]
    [] a = 240                   -> [need |-> 3, low |-> 144, high |-> 191]
    [] a \in 241..243            -> [need |-> 3, low |-> 128, high |-> 191]
    [] a = 244                   -> [need |-> 3, low |-> 128, high |-> 143]
    [] OTHER                     -> [need |-> 0, low |-> 128, high |-> 191]

\* One round of the loop at s[i]: the bytes taken and whether they are a
\* character, an invalid subpart or a prefix cut off by the end of the input.
subpart(s, i) ==
  LET c == lead_class(s[i])
      Fits(k) == IF k = 1 THEN s[i + 1] \in c.low..c.high
                          ELSE s[i + k] \in Continuation
      n == Max({k \in 0..c.need : \A j \in 1..k : i + j <= Len(s) /\ Fits(j)})
  IN IF s[i] < 128 THEN [taken |-> 1, valid |-> TRUE, truncated |-> FALSE]
     ELSE [taken |-> 1 + n,
           valid |-> c.need > 0 /\ n = c.need,
           truncated |-> n < c.need /\ i + n = Len(s)]

\* The whole scan: the decoded text and the length of a truncated tail.
scan_utf8(s) ==
  LET from[i \in 1 .. Len(s) + 1] ==
        IF i > Len(s) THEN [text |-> <<>>, tail |-> 0]
        ELSE LET p == subpart(s, i)
                 rest == from[i + p.taken]
             IN [text |-> (IF p.valid THEN SubSeq(s, i, i + p.taken - 1) ELSE Replacement)
                            \o rest.text,
                 tail |-> IF p.truncated THEN p.taken ELSE rest.tail]
  IN from[1]

-----------------------------------------------------------------------------
(* The encoding form: a scalar value in 0..10FFFF outside the surrogates,  *)
(* written in the fewest bytes.                                            *)

\* The bits a sequence of n bytes carries, whatever its value.
Payload(c) ==
  LET lead == CASE Len(c) = 1 -> c[1] [] Len(c) = 2 -> c[1] - 192
                [] Len(c) = 3 -> c[1] - 224 [] Len(c) = 4 -> c[1] - 240
      acc[k \in 1..Len(c)] == IF k = 1 THEN lead ELSE acc[k - 1] * 64 + (c[k] - 128)
  IN acc[Len(c)]

IsCharacter(c) ==
  /\ Len(c) \in 1..4
  /\ c[1] \in (CASE Len(c) = 1 -> 0..127 [] Len(c) = 2 -> 192..223
                 [] Len(c) = 3 -> 224..239 [] Len(c) = 4 -> 240..247)
  /\ \A k \in 2..Len(c) : c[k] \in Continuation
  /\ Payload(c) >= <<0, 128, 2048, 65536>>[Len(c)]
  /\ Payload(c) <= 1114111
  /\ Payload(c) \notin 55296..57343

\* p starts some character: completing it with the smallest or the largest
\* continuation bytes gives one.
StartsCharacter(p) ==
  \E n \in 0..3, b \in {128, 191} : IsCharacter(p \o [k \in 1..n |-> b])

\* The reference decoder: take a character where there is one, otherwise
\* replace the longest start of a character, or one byte.
RefDecode(s) ==
  LET Longest(i, P(_)) ==
        LET L == {n \in 1..4 : i + n - 1 <= Len(s) /\ P(SubSeq(s, i, i + n - 1))}
        IN IF L = {} THEN 0 ELSE Max(L)
      from[i \in 1 .. Len(s) + 1] ==
        IF i > Len(s) THEN <<>>
        ELSE LET whole == Longest(i, IsCharacter)
                 part == Longest(i, StartsCharacter)
             IN IF whole > 0 THEN SubSeq(s, i, i + whole - 1) \o from[i + whole]
                ELSE Replacement \o from[i + (IF part > 0 THEN part ELSE 1)]
  IN from[1]

\* s is a sequence of whole characters.
WellFormed(s) ==
  LET from[i \in 1 .. Len(s) + 1] ==
        \/ i > Len(s)
        \/ \E n \in 1..4 : /\ i + n - 1 <= Len(s)
                           /\ IsCharacter(SubSeq(s, i, i + n - 1))
                           /\ from[i + n]
  IN from[1]
=============================================================================
