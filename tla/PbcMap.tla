------------------------------- MODULE PbcMap -------------------------------
(* The hash tables of lualib-src/pbc/src/map.c, as operators on records.     *)
(*                                                                           *)
(* A table's slots are numbered from 0; ->next is the number of the next     *)
(* slot of the chain plus one, and 0 ends it.  calc_hash is a function hash  *)
(* from names to numbers, given to every operation: it may collide as it     *)
(* likes.  An integer key hashes as an unsigned int, whose width is scaled   *)
(* down.  A query for a name that is not there compares NULL with strcmp     *)
(* only for the empty name, which nobody asks for.                           *)
EXTENDS Integers, Sequences, SequencesExt

CONSTANT NULL  \* the null pointer

UInt == 65536  \* unsigned arithmetic is modulo this number

(* The chain that starts in slot s: the slots a query looks at, in order.    *)
Walk(slot, s) ==
  FoldLeft(LAMBDA path, k : IF slot[Last(path)].next = 0 THEN path
                            ELSE Append(path, slot[Last(path)].next - 1),
           <<s>>, [k \in DOMAIN slot \ {0} |-> k])

(* The first slot of the chain that passes the test, or -1.                  *)
FirstOn(slot, s, Test(_)) ==
  LET first(found) == IF found = <<>> THEN -1 ELSE found[1]
  IN  first(SelectSeq(Walk(slot, s), LAMBDA i : Test(slot[i])))

(* A new entry in slot e is linked right behind slot s.                      *)
Link(slot, s, e, entry) ==
  [slot EXCEPT ![e] = entry @@ [next |-> slot[s].next], ![s].next = e + 1]

-----------------------------------------------------------------------------
(* map_si: a closed table from names to numbers, as many slots as entries.   *)

SiFree == [key |-> NULL, id |-> 0, next |-> 0]

SiPut(hash, slot, kv) ==
  LET home == hash[kv.pointer] % Cardinality(DOMAIN slot)
      free == {i \in DOMAIN slot : slot[i].key = NULL}
      entry == [key |-> kv.pointer, id |-> kv.id]
  IN  IF home \in free
      THEN [slot EXCEPT ![home] = entry @@ SiFree]
      ELSE Link(slot, home, Min(free), entry)

_pbcM_si_new(hash, table) ==
  FoldLeft(LAMBDA slot, kv : SiPut(hash, slot, kv),
           [i \in 0..(Len(table) - 1) |-> SiFree], table)

(* The slot of a name, or -1.                                                *)
SiFind(hash, slot, name) ==
  FirstOn(slot, hash[name] % Cardinality(DOMAIN slot),
          LAMBDA s : s.key = name)

-----------------------------------------------------------------------------
(* map_ip: a table from numbers to pointers, built once: an array when the   *)
(* numbers are small, chained slots otherwise.                               *)

IpFree == [id |-> 0, pointer |-> NULL, next |-> 0]

IpPut(slot, kv) ==
  LET home == (kv.id % UInt) % Cardinality(DOMAIN slot)
      free == {i \in DOMAIN slot : slot[i].pointer = NULL}
      entry == [id |-> kv.id, pointer |-> kv.pointer]
  IN  IF home \in free
      THEN [slot EXCEPT ![home] = entry @@ IpFree]
      ELSE Link(slot, home, Min(free), entry)

_pbcM_ip_new_hash(table) ==
  FoldLeft(IpPut, [i \in 0..(Len(table) - 1) |-> IpFree], table)

(* The last entry of an id is the one the array keeps.                       *)
_pbcM_ip_new(table) ==
  LET ids == {table[i].id : i \in DOMAIN table}
      last(id) == Max({i \in DOMAIN table : table[i].id = id})
  IN  IF \E id \in ids : id < 0 \/ id > 2 * Len(table)
      THEN [array |-> <<>>, slot |-> _pbcM_ip_new_hash(table)]
      ELSE [array |-> [id \in 0..Max(ids) |->
                         IF id \in ids THEN table[last(id)].pointer ELSE NULL],
            slot |-> <<>>]

_pbcM_ip_query(map, id) ==
  IF map = NULL THEN NULL
  ELSE IF map.slot = <<>>
  THEN IF id \in DOMAIN map.array THEN map.array[id] ELSE NULL
  ELSE LET s == FirstOn(map.slot, (id % UInt) % Cardinality(DOMAIN map.slot),
                        LAMBDA e : e.id = id)
       IN  IF s = -1 THEN NULL ELSE map.slot[s].pointer

-----------------------------------------------------------------------------
(* map_sp: a growing table from names to pointers.                           *)

SpFree == [key |-> NULL, pointer |-> NULL, next |-> 0]

_pbcM_sp_new(max) ==
  LET cap == Min({2^k : k \in {k \in 0..16 : 2^k >= max}})
  IN  [size |-> 0, slot |-> [i \in 0..(cap - 1) |-> SpFree]]

Cap(map) == Cardinality(DOMAIN map.slot)
Home(hash, map, key) == hash[key] % Cap(map)

(* _pbcM_sp_insert_hash with room left: the home slot, or the next free one  *)
(* after it, round the end.  It does not look whether the key is there.      *)
SpPlace(hash, map, key, value) ==
  LET home == Home(hash, map, key)
      free(n) == (home + n) % Cap(map)
      n == Min({k \in 0..(Cap(map) - 1) : map.slot[free(k)].key = NULL})
      entry == [key |-> key, pointer |-> value]
  IN  [size |-> map.size + 1,
       slot |-> IF n = 0 THEN [map.slot EXCEPT ![home] = entry @@ SpFree]
                         ELSE Link(map.slot, home, free(n), entry)]

_pbcM_sp_rehash(hash, map) ==
  FoldLeft(LAMBDA m, e : SpPlace(hash, m, e.key, e.pointer),
           [size |-> 0, slot |-> [i \in 0..(2 * Cap(map) - 1) |-> SpFree]],
           [i \in 1..map.size |-> map.slot[i - 1]])

SpRoom(hash, map) ==
  IF Cap(map) > map.size THEN map ELSE _pbcM_sp_rehash(hash, map)

_pbcM_sp_insert(hash, map, key, value) ==
  SpPlace(hash, SpRoom(hash, map), key, value)

(* The slot of a key, or -1.                                                 *)
SpFind(hash, map, key) ==
  FirstOn(map.slot, Home(hash, map, key), LAMBDA e : e.key = key)

_pbcM_sp_query(hash, map, key) ==
  LET pointer(s) == IF s = -1 THEN NULL ELSE map.slot[s].pointer
  IN  pointer(SpFind(hash, map, key))

(* The map with the key in it; the caller writes through the pointer.        *)
_pbcM_sp_query_insert(hash, map, key, value) ==
  LET s == SpFind(hash, map, key)
  IN  IF s # -1 THEN [map EXCEPT !.slot[s].pointer = value]
                ELSE _pbcM_sp_insert(hash, map, key, value)

(* What _pbcM_sp_foreach visits, in its order.                               *)
_pbcM_sp_foreach(map) ==
  SelectSeq([i \in 1..Cap(map) |-> map.slot[i - 1].pointer],
            LAMBDA p : p # NULL)

(* _pbcM_sp_next: the key of the first pointer behind the given key's slot.  *)
_pbcM_sp_next(hash, map, key) ==
  LET from == IF key = NULL THEN 0 ELSE SpFind(hash, map, key) + 1
      more == {i \in DOMAIN map.slot : i >= from /\ map.slot[i].pointer # NULL}
  IN  IF more = {} THEN NULL ELSE map.slot[Min(more)].key
=============================================================================
