------------------------------ MODULE Versions ------------------------------
(***************************************************************************)
(* SemVer versions as the package registry reads and orders them           *)
(* (PackageRegistry.cpp).  A version is its text, a sequence of character  *)
(* codes; the fields of a version stay texts, so numbers have any length.  *)
(***************************************************************************)
EXTENDS Integers, Sequences, FiniteSets

Dash == 45
Dot == 46
Plus == 43
IsDigit(c) == c \in 48..57
IsAlnum(c) == IsDigit(c) \/ c \in 65..90 \/ c \in 97..122
Numeric(s) == \A i \in DOMAIN s : IsDigit(s[i])
After(s, n) == SubSeq(s, n + 1, Len(s))

\* The place of the first c in s, or 0.
FindFirst(s, c) ==
  IF \E i \in DOMAIN s : s[i] = c
  THEN CHOOSE i \in DOMAIN s : s[i] = c /\ \A j \in 1 .. i - 1 : s[j] # c
  ELSE 0

\* The parts of s between its dots.
Dots(s) == {i \in DOMAIN s : s[i] = Dot}
Fields(s) ==
  LET Cut(k) == CHOOSE i \in {0, Len(s) + 1} \cup Dots(s) :
                  Cardinality({j \in {0} \cup Dots(s) : j < i}) = k
  IN [k \in 1 .. Cardinality(Dots(s)) + 1 |-> SubSeq(s, Cut(k - 1) + 1, Cut(k) - 1)]

validCoreNumber(s) == s # <<>> /\ (Len(s) = 1 \/ s[1] # 48) /\ Numeric(s)

validIdentifiers(s, rejectLeadingZero) ==
  \A i \in DOMAIN Fields(s) :
    LET part == Fields(s)[i]
    IN /\ part # <<>>
       /\ \A k \in DOMAIN part : IsAlnum(part[k]) \/ part[k] = Dash
       /\ ~(rejectLeadingZero /\ Numeric(part) /\ Len(part) > 1 /\ part[1] = 48)

parseVersion(text) ==
  LET plus == FindFirst(text, Plus)
      withoutBuild == IF plus = 0 THEN text ELSE SubSeq(text, 1, plus - 1)
      build == IF plus = 0 THEN <<>> ELSE After(text, plus)
      dash == FindFirst(withoutBuild, Dash)
      core == Fields(IF dash = 0 THEN withoutBuild ELSE SubSeq(withoutBuild, 1, dash - 1))
      pre == IF dash = 0 THEN <<>> ELSE After(withoutBuild, dash)
  IN [ok |-> /\ plus # 0 => validIdentifiers(build, FALSE)
             /\ dash # 0 => validIdentifiers(pre, TRUE)
             /\ Len(core) = 3
             /\ \A i \in DOMAIN core : validCoreNumber(core[i]),
      core |-> core, prerelease |-> pre, build |-> build]

\* The comparisons return -1, 0 or 1.
Sign(less, equal) == IF equal THEN 0 ELSE IF less THEN -1 ELSE 1

\* std::string's order.
LexLess(l, r) ==
  \E i \in 1 .. Len(r) :
    /\ i <= Len(l) + 1
    /\ SubSeq(l, 1, i - 1) = SubSeq(r, 1, i - 1)
    /\ i <= Len(l) => l[i] < r[i]
compareNumeric(l, r) ==
  IF Len(l) # Len(r) THEN Sign(Len(l) < Len(r), FALSE) ELSE Sign(LexLess(l, r), l = r)

compareField(l, r) ==
  IF Numeric(l) /\ Numeric(r) THEN compareNumeric(l, r)
  ELSE IF Numeric(l) # Numeric(r) THEN Sign(Numeric(l), FALSE)
  ELSE Sign(LexLess(l, r), l = r)

\* The first difference of two rows of fields decides, and then their length.
compareFields(L, R, Compare(_, _)) ==
  LET common == 1 .. (IF Len(L) < Len(R) THEN Len(L) ELSE Len(R))
      differ == {i \in common : Compare(L[i], R[i]) # 0}
      first == CHOOSE i \in differ : \A j \in differ : i <= j
  IN IF differ # {} THEN Compare(L[first], R[first])
     ELSE Sign(Len(L) < Len(R), Len(L) = Len(R))

comparePrerelease(l, r) ==
  IF l = <<>> THEN (IF r = <<>> THEN 0 ELSE 1)
  ELSE IF r = <<>> THEN -1
  ELSE compareFields(Fields(l), Fields(r), compareField)

compareVersion(a, b) ==
  LET core == compareFields(a.core, b.core, compareNumeric)
  IN IF core # 0 THEN core ELSE comparePrerelease(a.prerelease, b.prerelease)

-----------------------------------------------------------------------------
\* The grammar of SemVer 2.0.0.
Dotted(s, Part(_)) ==
  \A i \in 1 .. Len(s) + 1, j \in 1 .. Len(s) + 1 :
    /\ i <= j
    /\ i = 1 \/ s[i - 1] = Dot
    /\ j = Len(s) + 1 \/ s[j] = Dot
    /\ \A k \in i .. j - 1 : s[k] # Dot
    => Part(SubSeq(s, i, j - 1))
NoLeadingZero(p) == Numeric(p) /\ Len(p) > 1 => p[1] # 48
CorePart(p) == p # <<>> /\ Numeric(p) /\ NoLeadingZero(p)
BuildPart(p) == p # <<>> /\ \A k \in DOMAIN p : IsAlnum(p[k]) \/ p[k] = Dash
PrePart(p) == BuildPart(p) /\ NoLeadingZero(p)
IsSemVer(t) ==
  \E i, j \in 0 .. Len(t) :
    LET core == SubSeq(t, 1, i) pre == SubSeq(t, i + 1, j) build == After(t, j) IN
    /\ i <= j
    /\ \E a, b \in Dots(core) : a < b /\ Dots(core) = {a, b}
    /\ Dotted(core, CorePart)
    /\ pre = <<>> \/ (pre[1] = Dash /\ Dotted(Tail(pre), PrePart))
    /\ build = <<>> \/ (build[1] = Plus /\ Dotted(Tail(build), BuildPart))
=============================================================================
