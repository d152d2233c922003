------------------------------- MODULE Dicts -------------------------------
(***************************************************************************)
(* The dict of src/src/RuntimeGc.c: entries in insertion order and an      *)
(* open-addressing index of entry numbers, rebuilt when an entry leaves or *)
(* the table is more than half full.  A dict is [capacity, entries,        *)
(* buckets]; a bucket holds the number of an entry plus one, 0 when free.  *)
(***************************************************************************)
EXTENDS Lists

CONSTANT Hash   \* map_key_hash: key -> Nat, chosen so that keys collide

ASSUME HashAssumption == \A k \in DOMAIN Hash : Hash[k] \in Nat

NoIndex == -1
EmptyDict == [capacity |-> 0, entries |-> <<>>, buckets |-> <<>>]

Mask(buckets, h) == h % Len(buckets)    \* hash & (capacity - 1)

\* What probe number p from the hash h finds.
Probe(buckets, h, p) == buckets[Mask(buckets, h + p) + 1]

\* The bucket a new entry with hash h takes: the first free one from its own.
free_bucket(buckets, h) ==
  Mask(buckets, h + Min({p \in 0 .. Len(buckets) - 1 : Probe(buckets, h, p) = 0}))

\* Mutant: the search gives up at the first bucket of another key.
map_find_index_mut(d, key) ==
  LET b == Mask(d.buckets, Hash[key])
  IN IF d.buckets = <<>> \/ d.buckets[b + 1] = 0 THEN NoIndex
     ELSE IF d.entries[d.buckets[b + 1]].key = key THEN d.buckets[b + 1] - 1
     ELSE NoIndex

\* The search ends at a free bucket, at the key, or when all buckets were seen.
map_find_index(d, key) ==
  LET Stored(p) == Probe(d.buckets, Hash[key], p)
      stops == {p \in 0 .. Len(d.buckets) - 1 :
                  Stored(p) = 0 \/ d.entries[Stored(p)].key = key}
  IN IF stops = {} \/ Stored(Min(stops)) = 0 THEN NoIndex ELSE Stored(Min(stops)) - 1

map_rebuild_index(entries, capacity) ==
  LET fill[i \in 0 .. Len(entries)] ==
        IF i = 0 THEN [b \in 1..capacity |-> 0]
        ELSE LET t == fill[i - 1]
             IN [t EXCEPT ![free_bucket(t, Hash[entries[i].key]) + 1] = i]
  IN fill[Len(entries)]

map_get(d, key) ==
  LET i == map_find_index(d, key)
  IN [obj |-> d, res |-> IF i = NoIndex THEN Raise ELSE d.entries[i + 1].value]

map_contains(d, key) == [obj |-> d, res |-> map_find_index(d, key) # NoIndex]

map_entry_at(d, index) ==
  [obj |-> d, res |-> IF index < Len(d.entries) THEN d.entries[index + 1] ELSE Raise]

entry_capacity(capacity, length) ==
  IF length < capacity THEN capacity ELSE IF capacity = 0 THEN 4 ELSE 2 * capacity

crowded(length, size) == length + 1 > size \div 2

map_insert(d, key, value) ==
  LET length == Len(d.entries)
      size == Len(d.buckets)
      table == IF size = 0 \/ crowded(length, size)
               THEN map_rebuild_index(d.entries, IF size = 0 THEN 8 ELSE 2 * size)
               ELSE d.buckets
  IN [capacity |-> entry_capacity(d.capacity, length),
      entries |-> Append(d.entries, [key |-> key, value |-> value]),
      buckets |-> [table EXCEPT ![free_bucket(table, Hash[key]) + 1] = length + 1]]

map_set(d, key, value) ==
  LET i == map_find_index(d, key)
  IN IF i # NoIndex
     THEN [obj |-> [d EXCEPT !.entries[i + 1].value = value], res |-> None]
     ELSE IF Len(d.entries) >= IntMax THEN Fails(d, Abort)
     ELSE [obj |-> map_insert(d, key, value), res |-> None]

map_remove(d, key) ==
  LET i == map_find_index(d, key)
      left == SubSeq(d.entries, 1, i) \o SubSeq(d.entries, i + 2, Len(d.entries))
  IN IF i = NoIndex THEN [obj |-> d, res |-> FALSE]
     ELSE [obj |-> [d EXCEPT !.entries = left,
                             !.buckets = map_rebuild_index(left, Len(@))],
           res |-> TRUE]

\* The copy is filled with cwhip_map_set, entry by entry.
map_slice(d, start, end) ==
  LET first == normalize_slice_bound(start, Len(d.entries), 1, TRUE)
      last == normalize_slice_bound(end, Len(d.entries), 1, FALSE)
      copy[n \in first .. Max({first, last})] ==
        IF n = first THEN EmptyDict
        ELSE map_set(copy[n - 1], d.entries[n].key, d.entries[n].value).obj
  IN [obj |-> copy[Max({first, last})], res |-> None]
=============================================================================
