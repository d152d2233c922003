---------------------------- MODULE Collections ----------------------------
(***************************************************************************)
(* One object of a program, a list, a dict, a buffer, a String or the      *)
(* decoder of a child's output (process.cw), and every operation the       *)
(* runtime has for it, in any order.  The properties compare what an       *)
(* operation does to the blocks of memory with what it means for the       *)
(* sequence, the mapping or the text the object stands for.  A call whose  *)
(* result is a new object stores it over the old one (x = x[1:3]).         *)
(***************************************************************************)
EXTENDS Strings, Dicts, SequencesExt, TLC

CONSTANTS Kinds,        \* the kinds of object this instance explores
          Values,       \* what a program stores
          Bounds,       \* indexes and slice bounds a program passes
          Steps,        \* slice steps
          InitialTexts, \* the Strings a program starts from
          ArgTexts,     \* the Strings it passes
          OutputBytes,  \* the bytes a child writes
          MaxOutput,    \* how many of them
          MaxBytes      \* bound on the length of a String or buffer

ASSUME BoundsAssumption == Bounds \subseteq Int

VARIABLES kind, obj, status
vars == <<kind, obj, status>>

Keys == DOMAIN Hash
OptBounds == {<<>>} \cup {<<b>> : b \in Bounds}

\* A decoder, with the bytes a child writes: fed of them were read.  text is
\* what the calls have returned since the last one that threw (lost are the
\* bytes it was about), for the bytes after the first since ones.
NewDecoder(input) ==
  [input |-> input, fed |-> 0, pending |-> <<>>, since |-> 0, text |-> <<>>, lost |-> <<>>]

InitialObject(k) ==
  CASE k = "list"    -> {alloc_array(n) : n \in 0..ListLimit}
    [] k = "dict"    -> {EmptyDict}
    [] k = "buffer"  -> {buffer_new(n) : n \in 0..2}
    [] k = "string"  -> {Exactly(t) : t \in InitialTexts}
    [] k = "decoder" -> {NewDecoder(s) : s \in UNION {[1..n -> OutputBytes] : n \in 0..MaxOutput}}

Init ==
  /\ kind \in Kinds
  /\ obj \in InitialObject(kind)
  /\ status = "ok"

\* The call r of an operation returns, throws (the program catches it) or
\* ends the process.
Returns(r) ==
  /\ status # "aborted"
  /\ obj' = r.obj
  /\ status' = IF r.res = Abort THEN "aborted" ELSE "ok"
  /\ UNCHANGED kind

\* checked_array, checked_map, checked_buffer: what an operation asks of its
\* receiver.
checked(wanted) == kind = wanted

\* An operation of another kind of object throws and touches nothing.
WrongKind ==
  /\ \E k \in Kinds : ~checked(k)
  /\ kind # "decoder"
  /\ Returns(Fails(obj, Raise))

ListCalls ==
  /\ checked("list")
  /\ \/ \E n \in Bounds : Returns(array_resize(obj, n))
     \/ \E v \in Values : Returns(array_append(obj, v))
     \/ \E i \in Bounds, v \in Values : Returns(array_set(obj, i, v))
     \/ \E s, e \in OptBounds, st \in Steps : Returns(array_slice(obj, s, e, st))

DictCalls ==
  /\ checked("dict")
  /\ \/ \E k \in Keys, v \in Values : Returns(map_set(obj, k, v))
     \/ \E k \in Keys : Returns([obj |-> map_remove(obj, k).obj, res |-> None])
     \/ \E s, e \in OptBounds : Returns(map_slice(obj, s, e))

BufferCalls ==
  /\ checked("buffer")
  /\ \/ \E n \in Bounds : Returns(buffer_resize(obj, n))
     \/ \E v \in Values : Returns(buffer_append(obj, v))
     \/ \E i \in Bounds, v \in Values : Returns(buffer_set(obj, i, v))
     \/ Returns(buffer_copy(obj))
     \/ \E s, e \in OptBounds : Returns(buffer_slice(obj, s, e))
  /\ obj'.length <= MaxBytes

StringCalls ==
  /\ checked("string")
  /\ \/ \E t \in ArgTexts : Returns(string_append(obj, t, FALSE))
     \/ Returns(string_append(obj, Holds(obj), TRUE))
     \/ \E i \in Bounds, t \in ArgTexts : Returns(string_insert(obj, i, t))
     \/ \E f, l \in Bounds : Returns(string_slice(obj, f, l)) \/ Returns(remove_range(obj, f, l))
     \/ \E t, r \in ArgTexts : Returns(replace(obj, t, r))
     \/ Returns(string_clear(obj))
     \/ Returns(trim(obj))
     \/ \E u \in BOOLEAN : Returns(convert_ascii_case(obj, u))
     \/ \E t \in ArgTexts, w \in 0..3, al \in {0, 94} :
          Returns(format_append(obj, t, FALSE, w, al, FALSE))
  /\ obj'.length <= MaxBytes

\* cwhip_process_text_decode: the text is taken as it is when the decoded
\* length is its length.
text_decode(bytes) ==
  LET decoded == scan_utf8(bytes).text
      text == IF Len(decoded) = Len(bytes) THEN bytes ELSE decoded
  IN [ok |-> valid_utf8(text), text |-> text]

\* A call that read up to byte fed, keeps the bytes kept and decodes bytes.
Decodes(fed, kept, bytes) ==
  LET ready == text_decode(bytes)
  IN obj' = IF ready.ok
            THEN [obj EXCEPT !.fed = fed, !.pending = kept, !.text = @ \o ready.text]
            ELSE [obj EXCEPT !.fed = fed, !.pending = kept, !.lost = bytes,
                             !.text = <<>>, !.since = fed - Len(kept)]

\* Mutant: a chunk is decoded to its end, nothing is kept back.
decoder_feed_mut(n) ==
  LET all == obj.pending \o SubSeq(obj.input, obj.fed + 1, obj.fed + n)
  IN /\ kind = "decoder" /\ obj.fed + n <= Len(obj.input) /\ status # "finished"
     /\ Decodes(obj.fed + n, <<>>, all)
     /\ UNCHANGED <<kind, status>>

\* OutputDecoder.decode with the next n bytes: the complete part leaves
\* _pending before it is decoded.
decoder_feed(n) ==
  LET all == obj.pending \o SubSeq(obj.input, obj.fed + 1, obj.fed + n)
      complete == Len(all) - scan_utf8(all).tail
  IN /\ kind = "decoder" /\ obj.fed + n <= Len(obj.input) /\ status # "finished"
     /\ Decodes(obj.fed + n, From(all, complete), SubSeq(all, 1, complete))
     /\ UNCHANGED <<kind, status>>

\* OutputDecoder.finish: _pending is emptied after it was decoded, and stays
\* as it is when that throws.
decoder_finish ==
  LET rest == text_decode(obj.pending)
  IN /\ kind = "decoder" /\ obj.fed = Len(obj.input) /\ status # "finished"
     /\ obj' = IF rest.ok THEN [obj EXCEPT !.text = @ \o rest.text, !.pending = <<>>]
               ELSE [obj EXCEPT !.lost = obj.pending]
     /\ status' = "finished"
     /\ UNCHANGED kind

Next ==
  \/ WrongKind
  \/ ListCalls
  \/ DictCalls
  \/ BufferCalls
  \/ StringCalls
  \/ \E n \in 1..MaxOutput : decoder_feed(n)
  \/ decoder_finish

Spec == Init /\ [][Next]_vars

-----------------------------------------------------------------------------
TypeOK ==
  /\ kind \in Kinds
  /\ status \in {"ok", "aborted", "finished"}
  /\ kind \in {"list", "buffer", "string"} => obj.length <= Len(obj.cells)
  /\ kind = "dict" => Len(obj.entries) <= obj.capacity

\* r is refused: the content stays as it was.
Refused(r) == r.res = Raise /\ Holds(r.obj) = Holds(obj)
Gives(r, content) == r.res \notin {Raise, Abort} /\ Holds(r.obj) = content

\* The positions a slice selects, in its order, from the meaning of the three
\* numbers: start where the bound says (inside the list), go on by step,
\* stop before the other bound or where the list ends.
Selected(length, start, end, step) ==
  LET Place(b) == IF b[1] < 0 THEN b[1] + length ELSE b[1]
      up == {i \in 0 .. length - 1 :
               /\ start # <<>> => i >= Place(start)
               /\ end # <<>> => i < Place(end)}
      down == {i \in 0 .. length - 1 :
               /\ start # <<>> => i <= Place(start)
               /\ end # <<>> => i > Place(end)}
      lowest == IF start = <<>> \/ Place(start) < 0 THEN 0 ELSE Place(start)
      highest == IF start = <<>> \/ Place(start) >= length THEN length - 1 ELSE Place(start)
  IN IF step > 0
     THEN SetToSortSeq({i \in up : (i - lowest) % step = 0}, LAMBDA x, y : x < y)
     ELSE SetToSortSeq({i \in down : (highest - i) % (-step) = 0}, LAMBDA x, y : x > y)

At(s, positions) == [k \in DOMAIN positions |-> s[positions[k] + 1]]

\* Every list operation does to the sequence of values what its name says,
\* whatever earlier operations left in the unused cells; a call that is
\* refused changes nothing; a slice is the one its three numbers select, also
\* for the most negative step.
ListMeetsSequence ==
  kind = "list" /\ status # "aborted" =>
    LET L == Holds(obj) n == Len(L) IN
    /\ \A k \in Bounds :
         IF k \in 0..ListLimit
         THEN Gives(array_resize(obj, k), [i \in 1..k |-> IF i <= n THEN L[i] ELSE NullCell])
         ELSE Refused(array_resize(obj, k))
    /\ \A v \in Values :
         IF n < ListLimit THEN Gives(array_append(obj, v), Append(L, v))
                          ELSE Refused(array_append(obj, v))
    /\ \A i \in Bounds :
         LET p == i % n IN   \* Python's rule: -n..n-1 name the elements
         IF i \in -n .. n - 1
         THEN /\ array_get(obj, i).res = L[p + 1]
              /\ \A v \in Values : Gives(array_set(obj, i, v), [L EXCEPT ![p + 1] = v])
         ELSE array_get(obj, i).res = Raise /\ \A v \in Values : Refused(array_set(obj, i, v))
    /\ \A s, e \in OptBounds, st \in Steps :
         IF st = 0 THEN Refused(array_slice(obj, s, e, st))
         ELSE Gives(array_slice(obj, s, e, st), At(L, Selected(n, s, e, st)))

\* The mapping a dict stands for, and the order of its keys.
Mapping(d) == {<<d.entries[i].key, d.entries[i].value>> : i \in DOMAIN d.entries}
KeyOrder(d) == [i \in DOMAIN d.entries |-> d.entries[i].key]

\* The index of a dict names every entry exactly once, at most half of it is
\* used, a probe from a key's hash reaches its entry and no other key is found:
\* no order of insertions, removals, slices, collisions and growth loses a key
\* or finds one that is gone.
DictIndexExact ==
  kind = "dict" =>
    /\ \A i \in DOMAIN obj.entries :
         /\ Cardinality({b \in DOMAIN obj.buckets : obj.buckets[b] = i}) = 1
         /\ map_find_index(obj, obj.entries[i].key) = i - 1
    /\ \A k \in Keys : (\A i \in DOMAIN obj.entries : obj.entries[i].key # k)
                        => map_find_index(obj, k) = NoIndex
    /\ \A b \in DOMAIN obj.buckets : obj.buckets[b] <= Len(obj.entries)
    /\ 2 * Len(obj.entries) <= Len(obj.buckets)

\* The dict d holds a value under k.
Has(d, k) == \E v \in Values : <<k, v>> \in Mapping(d)

\* What is in L is in K, in the same order.
InOrderOf(L, K) ==
  \A i, j \in DOMAIN L :
    i < j => \E x, y \in DOMAIN K : x < y /\ K[x] = L[i] /\ K[y] = L[j]

LookupExact(k) ==
  /\ map_contains(obj, k).res = Has(obj, k)
  /\ IF Has(obj, k) THEN <<k, map_get(obj, k).res>> \in Mapping(obj)
                    ELSE map_get(obj, k).res = Raise

StoreExact(k, v) ==
  LET d == map_set(obj, k, v).obj IN
  Has(obj, k) \/ Len(obj.entries) < IntMax =>
    /\ Mapping(d) = {p \in Mapping(obj) : p[1] # k} \cup {<<k, v>>}
    /\ KeyOrder(d) = IF Has(obj, k) THEN KeyOrder(obj) ELSE Append(KeyOrder(obj), k)

RemovalExact(k) ==
  LET r == map_remove(obj, k) IN
  /\ r.res = Has(obj, k)
  /\ Mapping(r.obj) = {p \in Mapping(obj) : p[1] # k}
  /\ InOrderOf(KeyOrder(r.obj), KeyOrder(obj))

\* A dict is a mapping that remembers the order of first insertion: a key is
\* looked up to the value under it and to no other; storing over a key changes
\* nothing else and keeps its place, a new one goes to the end; removing a key
\* leaves all others, in their order.
DictMeetsMapping ==
  kind = "dict" =>
    /\ \A i, j \in DOMAIN obj.entries : i # j => KeyOrder(obj)[i] # KeyOrder(obj)[j]
    /\ \A k \in Keys :
         LookupExact(k) /\ RemovalExact(k) /\ \A v \in Values : StoreExact(k, v)

\* The entry at a position is that one, a slice is a dict of a run of them.
DictRunsExact ==
  kind = "dict" =>
    /\ \A i \in 0 .. Len(obj.entries) - 1 : map_entry_at(obj, i).res = obj.entries[i + 1]
    /\ \A s, e \in OptBounds :
         map_slice(obj, s, e).obj.entries =
           At(obj.entries, Selected(Len(obj.entries), s, e, 1))

\* A buffer is a sequence of bytes: what grows is zero, also where bytes were
\* dropped before, a stored value is taken modulo 256.
BufferMeetsSequence ==
  kind = "buffer" =>
    LET L == Holds(obj) n == Len(L) IN
    /\ \A k \in Bounds :
         IF k \in 0..IntMax
         THEN Gives(buffer_resize(obj, k), [i \in 1..k |-> IF i <= n THEN L[i] ELSE 0])
         ELSE Refused(buffer_resize(obj, k))
    /\ \A v \in Values :
         IF n < IntMax THEN Gives(buffer_append(obj, v), Append(L, v % 256))
                       ELSE Refused(buffer_append(obj, v))
    /\ \A i \in -n .. n - 1 :
         /\ buffer_get(obj, i).res = L[(i % n) + 1]
         /\ \A v \in Values : Gives(buffer_set(obj, i, v), [L EXCEPT ![(i % n) + 1] = v % 256])
    /\ Gives(buffer_copy(obj), L)
    /\ \A s, e \in OptBounds :
         Gives(buffer_slice(obj, s, e), At(L, Selected(n, s, e, 1)))

\* A String holds whole UTF-8 characters whatever operations made it.
StringIsUtf8 == kind = "string" => WellFormed(Holds(obj))

Joined(fields, separator) ==
  FoldLeft(LAMBDA acc, f : acc \o separator \o f, Head(fields), Tail(fields))

\* No field holds a separator, nor does one start inside a field and end in
\* the separator after it.
Leftmost(fields, separator) ==
  \A i \in DOMAIN fields :
    LET run == IF i < Len(fields) THEN fields[i] \o separator ELSE fields[i]
    IN \A k \in 0 .. Len(run) - Len(separator) :
         k < Len(fields[i]) => SubSeq(run, k + 1, k + Len(separator)) # separator

\* The String operations against the text they stand for: joining what split
\* gives returns the text and no field holds a separator; replace is split
\* and join; append and insert also when a String is appended to itself and
\* its bytes move; a call throws when the result is too long or the place of
\* an insertion cuts a character, and then the text is as before.
StringMeetsText ==
  kind = "string" =>
    LET T == Holds(obj) n == Len(T)
        Cuts(i) == i \in 1 .. n - 1 /\ T[i + 1] \in Continuation
        Clamp(b) == LET p == IF b < 0 THEN b + n ELSE b
                    IN IF p < 0 THEN 0 ELSE IF p > n THEN n ELSE p
        Fits(r, content) == IF Len(content) > IntMax THEN Refused(r) ELSE Gives(r, content) IN
    /\ Fits(string_append(obj, T, TRUE), T \o T)
    /\ \A t \in ArgTexts :
         /\ Fits(string_append(obj, t, FALSE), T \o t)
         /\ starts_with(obj, t) = IsPrefix(t, T)
         /\ ends_with(obj, t) = IsSuffix(t, T)
         /\ t # <<>> => /\ split(obj, t).ok
                        /\ Joined(split(obj, t).fields, t) = T
                        /\ Leftmost(split(obj, t).fields, t)
                        /\ \A r \in ArgTexts :
                             Fits(replace(obj, t, r), Joined(split(obj, t).fields, r))
         /\ \A i \in Bounds :
              LET p == IF i < 0 THEN i + n ELSE i IN
              IF p \notin 0..n \/ Cuts(p) THEN Refused(string_insert(obj, i, t))
              ELSE Fits(string_insert(obj, i, t), SubSeq(T, 1, p) \o t \o From(T, p))
    /\ \A i \in Bounds :
         byte_at(obj, i).res = IF i \in -n .. n - 1 THEN T[(i % n) + 1] ELSE Raise
    /\ \A f, l \in Bounds :
         ~Cuts(Clamp(f)) /\ ~Cuts(Clamp(l)) =>
              /\ Gives(string_slice(obj, f, l), SubSeq(T, Clamp(f) + 1, Clamp(l)))
              /\ Gives(remove_range(obj, f, l),
                       IF Clamp(f) < Clamp(l) THEN SubSeq(T, 1, Clamp(f)) \o From(T, Clamp(l))
                                              ELSE T)

\* The value of a row of digits.
Decimal(d) == FoldLeft(LAMBDA acc, x : acc * 10 + (x - 48), 0, d)
AllDigits(d) == d # <<>> /\ \A i \in DOMAIN d : d[i] \in 48..57

\* A text converts to an integer exactly when it is an optional sign and
\* digits whose value is in range, and to that value: the last value in range
\* on either side is accepted, the next one refused.
ConversionExact ==
  kind = "string" =>
    LET T == Holds(obj)
        body == IF T # <<>> /\ T[1] \in {43, 45} THEN Tail(T) ELSE T
        minus == T # <<>> /\ T[1] = 45
        v == IF minus THEN -Decimal(body) ELSE Decimal(body) IN
    /\ string_to_int(T) =
         IF AllDigits(body) /\ v \in -(ParseMax + 1) .. ParseMax
         THEN [ok |-> TRUE, value |-> v] ELSE Failed
    /\ string_to_unsigned(T) =
         IF AllDigits(body) /\ ~minus /\ v \in 0..UnsignedMax
         THEN [ok |-> TRUE, value |-> v] ELSE Failed

\* The gate of every String accepts exactly the well-formed texts.
GateIsUtf8 == kind = "decoder" => valid_utf8(obj.input) = WellFormed(obj.input)

\* However the output of a child is cut into chunks, the text decoded and the
\* decoding of the bytes kept back are the decoding of all bytes seen since a
\* call last threw; at most three bytes are kept back.  A call throws for bytes
\* that are as long as their replaced text without being a text, and for no
\* others: all their invalid parts have the three bytes of U+FFFD.
DecoderStreams ==
  kind = "decoder" =>
    /\ obj.text \o RefDecode(obj.pending) = RefDecode(SubSeq(obj.input, obj.since + 1, obj.fed))
    /\ Len(obj.pending) <= 3
    /\ obj.lost # <<>> => /\ ~WellFormed(obj.lost)
                          /\ Len(RefDecode(obj.lost)) = Len(obj.lost)

\* The text that a child's output becomes is the one its bytes encode: the
\* gate of Strings is exact and chunks do not change the decoding.
DecoderExact == GateIsUtf8 /\ DecoderStreams

\* Does not hold (STDLIB.md:634, "Invalid bytes, and a sequence still incomplete at
\* `finish()`, become U+FFFD (one per maximal invalid subpart)"): decode and
\* finish return a text for any bytes.  Where every invalid part has three
\* bytes the bytes are taken for a text, and the String constructor throws.
InvalidBytesAreReplaced == kind = "decoder" => obj.lost = <<>>

\* A dict is the mapping it stands for, and its index finds what is in it.
DictExact == DictIndexExact /\ DictMeetsMapping

\* Lists, slices of dicts, buffers, Strings and conversions do what their names
\* say to the value they stand for, in every state a sequence of calls reaches,
\* and a String is always whole UTF-8.
ContentExact ==
  /\ TypeOK /\ ListMeetsSequence /\ DictRunsExact
  /\ BufferMeetsSequence /\ StringIsUtf8 /\ StringMeetsText /\ ConversionExact
=============================================================================
