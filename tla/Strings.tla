------------------------------ MODULE Strings ------------------------------
(***************************************************************************)
(* The buffer and the String of src/src/RuntimeGc.c: a growing block of    *)
(* bytes, and a class over it whose bytes are always UTF-8.  Both are      *)
(* [length, cells] as in Lists, indexes are byte offsets from 0.           *)
(***************************************************************************)
EXTENDS Lists, Utf8

CONSTANTS ParseMax,     \* stands for INT64_MAX in a conversion
          UnsignedMax   \* stands for UINT64_MAX in a conversion

ASSUME ParseLimits == ParseMax \in Nat /\ UnsignedMax \in Nat /\ ParseMax > 9 /\ UnsignedMax > 9

Holds(b) == SubSeq(b.cells, 1, b.length)
Exactly(bytes) == [length |-> Len(bytes), cells |-> bytes]
\* Drop n bytes.
From(s, n) == SubSeq(s, n + 1, Len(s))

buffer_reserve(b, capacity) ==
  IF capacity <= Len(b.cells) THEN b
  ELSE [b EXCEPT !.cells = Realloc(@, grown(IF @ = <<>> THEN 8 ELSE Len(@),
                                            capacity, 2 * IntMax))]

buffer_resize(b, n) ==
  LET room == buffer_reserve(b, n)
  IN IF n < 0 \/ n > IntMax THEN Fails(b, Raise)
     ELSE IF n <= b.length THEN [obj |-> [b EXCEPT !.length = n], res |-> None]
     ELSE [obj |-> [length |-> n,
                    cells |-> [i \in DOMAIN room.cells |->
                                 IF i \in b.length + 1 .. n THEN 0 ELSE room.cells[i]]],
           res |-> None]

buffer_append(b, value) ==
  LET room == buffer_reserve(b, b.length + 1)
  IN IF b.length >= IntMax THEN Fails(b, Raise)
     ELSE [obj |-> [length |-> b.length + 1,
                    cells |-> [room.cells EXCEPT ![b.length + 1] = value % 256]],
           res |-> None]

buffer_new(n) == Exactly([i \in 1..n |-> 0])

buffer_copy(b) == [obj |-> Exactly(Holds(b)), res |-> None]

buffer_get(b, index) == array_get(b, index)
buffer_set(b, index, value) == array_set(b, index, value % 256)

buffer_slice(b, start, end) ==
  LET first == normalize_slice_bound(start, b.length, 1, TRUE)
      last == normalize_slice_bound(end, b.length, 1, FALSE)
  IN [obj |-> Exactly(SubSeq(b.cells, first + 1, last)), res |-> None]

-----------------------------------------------------------------------------
string_new(s, bytes) ==
  IF Len(bytes) > IntMax \/ ~valid_utf8(bytes) THEN Fails(s, Raise)
  ELSE [obj |-> Exactly(bytes), res |-> None]

\* self: the bytes are the receiver's own, read again after the reserve.
string_append(s, bytes, self) ==
  LET room == buffer_reserve(s, s.length + Len(bytes))
      source == IF self THEN SubSeq(room.cells, 1, Len(bytes)) ELSE bytes
  IN IF Len(bytes) > IntMax - s.length \/ ~valid_utf8(bytes) THEN Fails(s, Raise)
     ELSE IF bytes = <<>> THEN [obj |-> s, res |-> None]
     ELSE [obj |-> [length |-> s.length + Len(bytes),
                    cells |-> [i \in DOMAIN room.cells |->
                                 IF i - s.length \in DOMAIN bytes THEN source[i - s.length]
                                 ELSE room.cells[i]]],
           res |-> None]

normalize_string_bound(bound, length) ==
  LET n == IF bound < 0 THEN bound + length ELSE bound
  IN IF n < 0 THEN 0 ELSE IF n > length THEN length ELSE n

byte_at(s, index) ==
  LET i == normalize_collection_index(index, s.length)
  IN [obj |-> s, res |-> IF i \in 0 .. s.length - 1 THEN s.cells[i + 1] ELSE Raise]

\* Mutant: a range may cut a character.
range_ok_mut(s, start, end) == start <= end \/ end <= start

\* slice and removeRange refuse a range that cuts a character.
range_ok(s, start, end) ==
  utf8_boundary(Holds(s), start) /\ utf8_boundary(Holds(s), end)

string_slice(s, first, last) ==
  LET start == normalize_string_bound(first, s.length)
      end == normalize_string_bound(last, s.length)
  IN IF ~range_ok(s, start, end) THEN Fails(s, Raise)
     ELSE string_new(s, SubSeq(s.cells, start + 1, end))

remove_range(s, first, last) ==
  LET start == normalize_string_bound(first, s.length)
      end == normalize_string_bound(last, s.length)
      left == SubSeq(s.cells, 1, start) \o SubSeq(s.cells, end + 1, s.length)
  IN IF ~range_ok(s, start, end) THEN Fails(s, Raise)
     ELSE IF end <= start THEN [obj |-> s, res |-> None]
     ELSE [obj |-> [length |-> Len(left), cells |-> left \o From(s.cells, Len(left))],
           res |-> None]

string_insert(s, index, other) ==
  LET at == normalize_collection_index(index, s.length)
      text == SubSeq(s.cells, 1, at) \o other \o SubSeq(s.cells, at + 1, s.length)
      room == buffer_reserve(s, Len(text))
  IN IF at \notin 0 .. s.length \/ ~utf8_boundary(Holds(s), at) THEN Fails(s, Raise)
     ELSE IF Len(other) > IntMax - s.length THEN Fails(s, Raise)
     ELSE IF other = <<>> THEN [obj |-> s, res |-> None]
     ELSE [obj |-> [length |-> Len(text), cells |-> text \o From(room.cells, Len(text))],
           res |-> None]

string_clear(s) == [obj |-> [s EXCEPT !.length = 0], res |-> None]

\* The first match of the needle at or after start, -1 for UINT64_MAX.
find_bytes(data, needle, start) ==
  LET At(i) == SubSeq(data, i + 1, i + Len(needle)) = needle
      L == {i \in start .. Len(data) - Len(needle) : At(i)}
  IN IF L = {} THEN -1 ELSE Min(L)

starts_with(s, prefix) ==
  Len(prefix) <= s.length /\ SubSeq(s.cells, 1, Len(prefix)) = prefix
ends_with(s, suffix) ==
  Len(suffix) <= s.length /\ SubSeq(s.cells, s.length - Len(suffix) + 1, s.length) = suffix

next_search(found, needle) == found + Len(needle)

\* The fields between the separators, left to right.
split(s, separator) ==
  LET from[start \in 0 .. s.length] ==
        LET found == find_bytes(Holds(s), separator, start)
        IN IF found = -1 THEN << From(Holds(s), start) >>
           ELSE << SubSeq(Holds(s), start + 1, found) >>
                \o from[next_search(found, separator)]
  IN IF separator = <<>> THEN [ok |-> FALSE, fields |-> <<>>]
     ELSE [ok |-> TRUE, fields |-> from[0]]

\* result_length is computed from the number of matches before the copying,
\* and refused when it does not fit; the copy then fills exactly that much.
replace(s, target, replacement) ==
  LET matches[p \in 0 .. s.length] ==
        LET found == find_bytes(Holds(s), target, p)
        IN IF found = -1 THEN 0 ELSE 1 + matches[next_search(found, target)]
      growth == Len(replacement) - Len(target)
      copy[p \in 0 .. s.length] ==
        LET found == find_bytes(Holds(s), target, p)
        IN IF found = -1 THEN From(Holds(s), p)
           ELSE SubSeq(Holds(s), p + 1, found) \o replacement
                \o copy[next_search(found, target)]
  IN IF target = <<>> THEN Fails(s, Raise)
     ELSE IF growth > 0 /\ matches[0] > (IntMax - s.length) \div growth THEN Fails(s, Raise)
     ELSE string_new(s, copy[0])

ascii_whitespace(byte) == byte = 32 \/ byte \in 9..13

trim(s) ==
  LET ink == {i \in 1 .. s.length : ~ascii_whitespace(s.cells[i])}
  IN string_new(s, IF ink = {} THEN <<>> ELSE SubSeq(s.cells, Min(ink), Max(ink)))

convert_ascii_case(s, uppercase) ==
  string_new(s, [i \in 1 .. s.length |->
                   IF uppercase /\ s.cells[i] \in 97..122 THEN s.cells[i] - 32
                   ELSE IF ~uppercase /\ s.cells[i] \in 65..90 THEN s.cells[i] + 32
                   ELSE s.cells[i]])

-----------------------------------------------------------------------------
Failed == [ok |-> FALSE, value |-> 0]

\* The loop of both conversions: digits up to the limit, tested before each
\* multiplication.
digits(data, limit) ==
  LET acc[i \in 0 .. Len(data)] ==
        IF i = 0 THEN [ok |-> data # <<>>, value |-> 0]
        ELSE LET before == acc[i - 1]
                 addend == data[i] - 48
             IN IF ~before.ok \/ addend \notin 0..9 \/ before.value > (limit - addend) \div 10
                THEN Failed
                ELSE [ok |-> TRUE, value |-> before.value * 10 + addend]
  IN acc[Len(data)]

string_to_int(data) ==
  LET negative == data # <<>> /\ data[1] = 45
      signed == data # <<>> /\ data[1] \in {43, 45}
      d == digits(IF signed THEN Tail(data) ELSE data,
                  IF negative THEN ParseMax + 1 ELSE ParseMax)
  IN IF d.ok /\ negative THEN [d EXCEPT !.value = -@] ELSE d

string_to_unsigned(data) ==
  digits(IF data # <<>> /\ data[1] = 43 THEN Tail(data) ELSE data, UnsignedMax)

\* The characters of a text, as the format padding counts them.
Characters(data) == Cardinality({i \in DOMAIN data : data[i] \notin Continuation})

\* cwhip_string_format_spec_append, from the text of the value on: numeric is
\* an int, an unsigned or a float; align is 60 '<', 62 '>', 94 '^' or 0.
format_append(s, data, numeric, width, align, zero) ==
  LET field == IF numeric THEN Len(data) ELSE Characters(data)
      padding == IF width > field THEN width - field ELSE 0
      side == IF align # 0 THEN align ELSE IF numeric THEN 62 ELSE 60
      before == CASE side = 60 -> 0 [] side = 94 -> padding \div 2 [] OTHER -> padding
      Fill(n) == [i \in 1..n |-> IF zero THEN 48 ELSE 32]
      sign == IF zero /\ data # <<>> /\ data[1] = 45 THEN 1 ELSE 0
      parts == << SubSeq(data, 1, sign), Fill(before), From(data, sign),
                  Fill(padding - before) >>
      add[n \in 0..4] == IF n = 0 THEN [obj |-> s, res |-> None]
                         ELSE IF add[n - 1].res = Raise THEN add[n - 1]
                         ELSE string_append(add[n - 1].obj, parts[n], FALSE)
  IN add[4]
=============================================================================
