------------------------------- MODULE Lists -------------------------------
(***************************************************************************)
(* The list of src/src/RuntimeGc.c: a counted block of cells.  A list is   *)
(* [length, cells], cells having one entry per allocated cell, so that     *)
(* Len(cells) is the capacity.  An operation yields [obj, res]: the list   *)
(* after it and what it returns, Raise when it throws, Abort when the      *)
(* process ends.                                                           *)
(***************************************************************************)
EXTENDS Integers, Sequences, FiniteSetsExt

CONSTANTS IntMax,    \* stands for INT64_MAX
          ListLimit  \* stands for SIZE_MAX / sizeof(CwhipArrayValue)

ASSUME IntMaxIsNat == IntMax \in Nat
ASSUME ListLimitIsNat == ListLimit \in Nat \ {0}

\* Outcomes and cell contents that are not values are negative numbers.
Raise == -10
Abort == -11
None == -12       \* the result of a procedure
NullCell == -2    \* CWHIP_ARRAY_OBJECT with a NULL pointer
ZeroCell == -3    \* what memset leaves
Junk == -1        \* memory realloc has not initialised

Fails(obj, how) == [obj |-> obj, res |-> how]

\* int64_t arithmetic: two's complement at the model's width.
Wrap(x) == ((x + IntMax + 1) % (2 * (IntMax + 1))) - (IntMax + 1)

\* The doubling loop shared by lists and buffers.
grown(from, need, limit) ==
  LET g[c \in 1 .. IntMax + 8] ==
        IF c >= need THEN c
        ELSE IF c > IntMax \div 2 \/ c > limit \div 2 THEN need
        ELSE g[2 * c]
  IN g[from]

Realloc(cells, capacity) ==
  [i \in 1..capacity |-> IF i <= Len(cells) THEN cells[i] ELSE Junk]

alloc_array(n) == [length |-> n, cells |-> [i \in 1..n |-> NullCell]]

array_resize(a, n) ==
  IF n < 0 \/ n > ListLimit THEN Fails(a, Raise)
  ELSE LET c == IF n > Len(a.cells)
                THEN grown(IF a.cells = <<>> THEN 1 ELSE Len(a.cells), n, ListLimit)
                ELSE Len(a.cells)
           room == Realloc(a.cells, IF c > ListLimit THEN n ELSE c)
       IN [obj |-> [length |-> n,
                    cells |-> [i \in DOMAIN room |->
                                 IF i \in n + 1 .. a.length THEN ZeroCell
                                 ELSE IF i \in a.length + 1 .. n THEN NullCell
                                 ELSE room[i]]],
           res |-> None]

array_append(a, v) ==
  LET bigger == array_resize(a, a.length + 1)
  IN IF a.length >= IntMax THEN Fails(a, Raise)
     ELSE IF bigger.res = Raise THEN bigger
     ELSE [bigger EXCEPT !.obj.cells[a.length + 1] = v]

normalize_collection_index(index, length) ==
  IF index < 0 THEN index + length ELSE index

array_get(a, index) ==
  LET i == normalize_collection_index(index, a.length)
  IN [obj |-> a, res |-> IF i \in 0 .. a.length - 1 THEN a.cells[i + 1] ELSE Raise]

\* A store through the address cwhip_array_index returns.
array_set(a, index, v) ==
  LET i == normalize_collection_index(index, a.length)
  IN IF i \in 0 .. a.length - 1
     THEN [obj |-> [a EXCEPT !.cells[i + 1] = v], res |-> None]
     ELSE Fails(a, Raise)

\* A slice bound is a sequence: of one number, or empty when it is omitted.
normalize_slice_bound(bound, length, step, is_start) ==
  LET n == IF bound[1] < 0 THEN bound[1] + length ELSE bound[1]
  IN IF bound = <<>>
     THEN IF is_start THEN (IF step > 0 THEN 0 ELSE length - 1)
                      ELSE (IF step > 0 THEN length ELSE -1)
     ELSE IF step > 0 THEN (IF n < 0 THEN 0 ELSE IF n > length THEN length ELSE n)
     ELSE IF n < -1 THEN -1 ELSE IF n >= length THEN length - 1 ELSE n

slice_stride(step) == IF step > 0 THEN step ELSE Wrap(-Wrap(step + 1)) + 1

array_slice(a, start, end, step) ==
  LET first == normalize_slice_bound(start, a.length, step, TRUE)
      last == normalize_slice_bound(end, a.length, step, FALSE)
      distance == IF step > 0 THEN last - first ELSE first - last
      length == IF distance > 0 THEN 1 + (distance - 1) \div slice_stride(step) ELSE 0
      index[k \in 1..length] == IF k = 1 THEN first ELSE Wrap(index[k - 1] + step)
  IN IF step = 0 THEN Fails(a, Raise)
     ELSE IF length > ListLimit THEN Fails(a, Abort)
     ELSE [obj |-> [length |-> length,
                    cells |-> [k \in 1..length |-> a.cells[index[k] + 1]]],
           res |-> None]
=============================================================================
