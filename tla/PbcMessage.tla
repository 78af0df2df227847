----------------------------- MODULE PbcMessage -----------------------------
(* Messages of lualib-src/pbc/src: one side encodes a table field by field   *)
(* (wmessage.c, called by protobuf.encode), the other reads the bytes, all   *)
(* or the beginning of them, with a pbc_rmessage (rmessage.c) and with       *)
(* pbc_decode (decode.c), knowing every field or only those of an older      *)
(* version of the message.                                                   *)
(*                                                                           *)
(* A field is [name, id, type, label, default, of], of being the message     *)
(* type or the values of the enum; it is found by name and by number as      *)
(* PbcRegistry shows.  A number is a LongLong, as the binding splits a Lua   *)
(* integer; a real stands for its bits; an enum is written by name; a string *)
(* is a sequence of bytes.  Buffers and arrays are sequences, and a buffer's *)
(* cap is what is allocated for it.  Left out: packed arrays of 32-bit fixed *)
(* and float, whose bytes _pack_packed_32 leaves in the wrong places.        *)
EXTENDS PbcWire

CONSTANTS
  Hashes,         \* what calc_hash may be
  Types,          \* the fields of each message type
  Versions,       \* the types a reader may take a Root to be
  Root,           \* the type of the message that is sent
  Values(_),      \* for a field, the arrays of values it may be given
  WMESSAGE_SIZE,  \* the size of a new buffer
  MaxEntries      \* how many entries a table has at most, those inside it too

VARIABLES
  hash,   \* calc_hash
  w,      \* the pbc_wmessages; the first is the Root, the others inside it
  table,  \* for each, what the Lua table gives: key -> values or messages
  pc,     \* "encode", "failed", "sent" or "received"
  got,    \* the bytes the reader has
  type    \* what the reader takes them for

vars == <<hash, w, table, pc, got, type>>

LABEL_OPTIONAL == 0
LABEL_REPEATED == 2
LABEL_PACKED == 3
Arrays == {LABEL_REPEATED, LABEL_PACKED}

Integers64 == {"int64", "uint64", "sint64", "fixed64", "sfixed64"}
Integers32 == {"int32", "uint32", "sint32", "bool", "sfixed32", "fixed32"}
Reals == {"float", "double"}
Texts == {"enum", "string", "bytes"}

FieldNumber(t, id) ==
  LET fs == SelectSeq(Types[t], LAMBDA f : f.id = id)
  IN  IF fs = <<>> THEN NULL ELSE fs[1]
EnumId(f, name) ==
  LET vs == SelectSeq(f.of, LAMBDA v : v.pointer = name)
  IN  IF vs = <<>> THEN -1 ELSE vs[1].id
EnumName(f, id) ==
  LET vs == SelectSeq(f.of, LAMBDA v : v.id = id)
  IN  IF vs = <<>> THEN NULL ELSE vs[1].pointer

-----------------------------------------------------------------------------
(* wmessage.c                                                                *)

_wmessage_new(t) ==
  [type |-> t, buffer |-> <<>>, cap |-> WMESSAGE_SIZE, over |-> FALSE,
   sub |-> <<>>, packed |-> NULL, data |-> <<>>]

(* mutant: the buffer becomes as long as what is needed now                  *)
ExpandExactly(m, sz) ==
  [m EXCEPT !.cap = Max({@, Len(m.buffer) + sz})]

(* mutant: the capacity doubles once                                         *)
ExpandOnce(m, sz) ==
  [m EXCEPT !.cap = IF Len(m.buffer) + sz <= @ THEN @ ELSE 2 * @]

(* The capacity doubles until sz more bytes have room.                       *)
_expand_message(m, sz) ==
  [m EXCEPT !.cap = Min({c \in {@ * 2^k : k \in 0..9} :
                           Len(m.buffer) + sz <= c})]

(* Bytes written behind m->ptr; over when there is no room for them.         *)
Write(m, bytes) ==
  [m EXCEPT !.buffer = @ \o bytes,
            !.over = @ \/ Len(m.buffer) + Len(bytes) > m.cap]

Wiretype(ptype) ==
  IF ptype \in Fixed64 THEN WT_BIT64
  ELSE IF ptype \in Fixed32 THEN WT_BIT32
  ELSE IF ptype \in {"string", "bytes", "message"} THEN WT_LEND
  ELSE WT_VARINT

Tag(f, wiretype) == _pbcV_encode32(f.id * 8 + wiretype)

(* The bytes of a number, by the type of its field.                          *)
Number(ptype, v) ==
  CASE ptype \in Fixed64 -> int64_encode(v.low, v.hi)
    [] ptype \in Fixed32 -> int32_encode(v.low)
    [] ptype = "sint32" -> _pbcV_zigzag32(v.low)
    [] ptype = "sint64" -> _pbcV_zigzag(v.low, v.hi)
    [] ptype \in {"int64", "uint64", "int32"} -> _pbcV_encode(v.low, v.hi)
    [] OTHER -> _pbcV_encode32(v.low)

(* _get_packed and _packed_integer, _packed_real                             *)
PushPacked(m, f, v) ==
  LET map == IF m.packed = NULL THEN _pbcM_sp_new(4) ELSE m.packed
      p == _pbcM_sp_query(hash, map, f.name)
  IN  IF p # NULL
      THEN [m EXCEPT !.packed = map, !.data[p].data = Append(@, v)]
      ELSE [m EXCEPT !.packed = _pbcM_sp_query_insert(hash, map, f.name,
                                                      Len(m.data) + 1),
                     !.data = Append(@, [field |-> f, data |-> <<v>>])]

pbc_wmessage_integer(m, f, v) ==
  IF f.label = LABEL_PACKED THEN PushPacked(m, f, v)
  ELSE IF f.label = LABEL_OPTIONAL /\ v = f.default THEN m
  ELSE Write(_expand_message(m, 20), Tag(f, Wiretype(f.type))
                                       \o Number(f.type, v))

pbc_wmessage_real(m, f, v) ==
  IF f.label = LABEL_PACKED THEN PushPacked(m, f, v)
  ELSE IF f.label = LABEL_OPTIONAL /\ v = f.default THEN m
  ELSE Write(_expand_message(m, 18), Tag(f, Wiretype(f.type))
                                       \o Number(f.type, v))

(* NULL is the error of a name that the enum does not have.                  *)
pbc_wmessage_string(m, f, v) ==
  LET id == EnumId(f, v)
      room == _expand_message(m, 20)
      head == Write(room, Tag(f, WT_LEND) \o _pbcV_encode32(Len(v)))
  IN  IF f.label = LABEL_PACKED /\ f.type # "enum" THEN m
      ELSE IF f.label = LABEL_OPTIONAL
              /\ v = (IF f.type = "bytes" THEN <<>> ELSE f.default) THEN m
      ELSE IF f.type = "enum"
      THEN IF id = -1 THEN NULL
           ELSE IF f.label = LABEL_PACKED
           THEN PushPacked(m, f, LongLong(id, 0))
           ELSE Write(room, Tag(f, WT_VARINT) \o _pbcV_encode32(id))
      ELSE Write(_expand_message(head, Len(v)), v)

pbc_wmessage_message(m, f, new) ==
  [m EXCEPT !.sub = Append(@, [message |-> new, field |-> f])]

_pack_packed_64(m, p) ==
  LET bytes == FlattenSeq([i \in DOMAIN p.data |->
                             int64_encode(p.data[i].low, p.data[i].hi)])
  IN  Write(_expand_message(m, 10 + Len(bytes)),
            _pbcV_encode32(Len(bytes)) \o bytes)

(* The length is written before the numbers, as a guess of their size, and   *)
(* corrected at the end: the numbers move when it takes more or fewer bytes. *)
(* An int32 is written as its low word alone.                                *)
_pack_packed_varint(m, p) ==
  LET n == Len(p.data)
      guess == _pbcV_encode32(IF p.field.type = "bool" THEN n ELSE n * 2)
      offset == Len(m.buffer)
      ptype == IF p.field.type = "int32" THEN "uint32" ELSE p.field.type
      numbers == FoldLeft(LAMBDA x, v : Write(_expand_message(x, 10),
                                              Number(ptype, v)),
                          Write(_expand_message(
                                  m, 10 + (IF ptype = "bool" THEN n
                                                             ELSE n * 2)),
                                guess),
                          p.data)
      end_len == Len(numbers.buffer) - offset - Len(guess)
      len == _pbcV_encode32(end_len)
      room == IF Len(len) = Len(guess) THEN numbers
              ELSE _expand_message(numbers, Len(len))
      bytes == From(numbers.buffer, offset + Len(guess))
  IN  Write([room EXCEPT !.buffer = SubSeq(@, 1, offset)], len \o bytes)

_pack_packed(m, p) ==
  LET head == Write(_expand_message(m, 10), Tag(p.field, WT_LEND))
  IN  IF p.field.type \in Fixed64 THEN _pack_packed_64(head, p)
                                  ELSE _pack_packed_varint(head, p)

RECURSIVE pbc_wmessage_buffer(_)
(* The packed arrays come behind the fields, in the order of their map, and  *)
(* the messages inside behind those.                                         *)
pbc_wmessage_buffer(i) ==
  LET m == w[i]
      ps == IF m.packed = NULL THEN <<>> ELSE _pbcM_sp_foreach(m.packed)
      packed == FoldLeft(LAMBDA x, p : _pack_packed(x, m.data[p]), m, ps)
      add(x, s) ==
        LET b == pbc_wmessage_buffer(s.message)
            len == Len(b.buffer)
            y == Write(_expand_message(x, 20 + len),
                       Tag(s.field, WT_LEND) \o _pbcV_encode32(len)
                         \o b.buffer)
        IN  [y EXCEPT !.over = @ \/ b.over]
  IN  FoldLeft(add, packed, m.sub)

-----------------------------------------------------------------------------
(* rmessage.c                                                                *)

Wired(f, a) ==
  f.type \in {"string", "bytes", "message"} => a.wire_id % 8 = WT_LEND

Slice(buffer, a) == SubSeq(buffer, a.start + 1, a.end)

Enum(f, id) == [id |-> id, name |-> EnumName(f, id)]

(* What a field that is neither packed nor a message reads as.               *)
Scalar(f, a, buffer) ==
  IF f.type = "enum" THEN Enum(f, a.low)
  ELSE IF f.type \in {"string", "bytes"} THEN Slice(buffer, a)
  ELSE Dezigzag(f.type, a)

push_value_packed(f, a, buffer) ==
  LET pushed(u) == IF u.n > 0 /\ f.type = "enum"
                   THEN [i \in DOMAIN u.array |-> Enum(f, u.array[i].low)]
                   ELSE u.array
  IN  pushed(_pbcP_unpack_packed(Slice(buffer, a), f.type))

RECURSIVE _pbc_rmessage_new(_, _)

read_value(f, a, buffer) ==
  IF f.type = "message" THEN _pbc_rmessage_new(f.of, Slice(buffer, a))
                        ELSE Scalar(f, a, buffer)

(* A message inside that cannot be read is not pushed.                       *)
push_value_array(f, a, buffer) ==
  LET pushed(v) == IF f.type = "message" /\ v = NULL THEN <<>> ELSE <<v>>
  IN  IF Wired(f, a) THEN pushed(read_value(f, a, buffer)) ELSE <<>>

(* The values by key: those of an array together, a single one as it comes.  *)
(* An array that has no value keeps its key, with NULL.                      *)
_pbc_rmessage_new(t, buffer) ==
  LET stored(r, f, p, new) ==
        IF p # NULL THEN [r EXCEPT !.value[p] = @ \o new]
        ELSE [r EXCEPT
                !.index = _pbcM_sp_query_insert(hash, @, f.name,
                            IF new = <<>> THEN NULL ELSE Len(r.value) + 1),
                !.value = IF new = <<>> THEN @ ELSE Append(@, new)]
      values(f, a) == IF f.label = LABEL_PACKED
                      THEN push_value_packed(f, a, buffer)
                      ELSE push_value_array(f, a, buffer)
      field(r, f, a) ==
        IF f = NULL THEN r
        ELSE IF f.label \in Arrays
        THEN stored(r, f, _pbcM_sp_query(hash, r.index, f.name), values(f, a))
        ELSE IF ~Wired(f, a) THEN r
        ELSE [r EXCEPT !.index = _pbcM_sp_insert(hash, @, f.name,
                                                 Len(r.value) + 1),
                       !.value = Append(@, read_value(f, a, buffer))]
      step(r, a) == field(r, FieldNumber(t, a.wire_id \div 8), a)
      opened(ctx) ==
        IF ctx.count <= 0 THEN NULL
        ELSE FoldLeft(step, [msg |-> t, index |-> _pbcM_sp_new(ctx.count),
                             value |-> <<>>], ctx.a)
  IN  IF buffer = <<>>
      THEN [msg |-> t, index |-> _pbcM_sp_new(0), value |-> <<>>]
      ELSE opened(_pbcC_open(buffer))

(* The value of a key, or NULL.  The message that stands for one that is not *)
(* there has no index.                                                       *)
Find(r, f) ==
  IF r.index = NULL THEN NULL ELSE _pbcM_sp_query(hash, r.index, f.name)

Var(r, f, i) ==
  LET var(p) ==
        IF p # NULL
        THEN IF f.label \in Arrays THEN r.value[p][i + 1] ELSE r.value[p]
        ELSE IF f.type = "enum" THEN [id |-> EnumId(f, f.default),
                                      name |-> f.default]
        ELSE IF f.type = "bytes" THEN <<>> ELSE f.default
  IN  var(Find(r, f))

pbc_rmessage_string(r, f, i) ==
  IF f.type = "enum" THEN Var(r, f, i).name ELSE Var(r, f, i)
pbc_rmessage_integer(r, f, i) ==
  IF f.type = "enum" THEN LongLong(Var(r, f, i).id, 0) ELSE Var(r, f, i)
pbc_rmessage_real(r, f, i) == Var(r, f, i)
pbc_rmessage_message(r, f, i) ==
  IF Find(r, f) = NULL THEN [msg |-> f.of, index |-> NULL, value |-> <<>>]
                       ELSE Var(r, f, i)
pbc_rmessage_size(r, f) ==
  LET size(p) == IF p = NULL THEN 0
                 ELSE IF f.label \in Arrays THEN Len(r.value[p]) ELSE 1
  IN  size(Find(r, f))

(* The keys that pbc_rmessage_next goes through, from NULL to NULL.          *)
pbc_rmessage_next(r) ==
  LET step(keys, i) ==
        IF keys # <<>> /\ Last(keys) = NULL THEN keys
        ELSE Append(keys, _pbcM_sp_next(hash, r.index,
                            IF keys = <<>> THEN NULL ELSE Last(keys)))
  IN  Front(FoldLeftDomain(step, <<>>, [k \in 1..(Cap(r.index) + 1) |-> k]))

-----------------------------------------------------------------------------
(* decode.c: what the callback is given, [id, key, v].                       *)

call_unknown(a, buffer) ==
  [id |-> a.wire_id \div 8, key |-> NULL,
   v |-> IF a.wire_id % 8 = WT_LEND THEN Slice(buffer, a)
                                    ELSE LongLong(a.low, a.hi)]

(* mutant: a sint64 is given as it is on the wire                            *)
CallTypeRaw(f, a, buffer) ==
  [id |-> f.id, key |-> f.name,
   v |-> IF f.type = "message" THEN Slice(buffer, a)
         ELSE IF f.type = "enum" THEN Enum(f, a.low)
         ELSE IF f.type \in {"string", "bytes"} THEN Slice(buffer, a)
         ELSE IF f.type = "sint32" THEN _pbcV_dezigzag32(a)
         ELSE IF f.type \in Integers32 \cup {"float"} THEN LongLong(a.low, 0)
         ELSE LongLong(a.low, a.hi)]

(* A message inside is given as its bytes, and a number of 32 bits without   *)
(* the high word; only what dezigzag32 makes of a sint32 has one.            *)
call_type(f, a, buffer) ==
  [id |-> f.id, key |-> f.name,
   v |-> IF f.type = "message" THEN Slice(buffer, a)
         ELSE IF f.type \in (Integers32 \ {"sint32"}) \cup {"float"}
         THEN LongLong(a.low, 0)
         ELSE Scalar(f, a, buffer)]

call_array(f, a, buffer) ==
  LET called(u) ==
        [n |-> u.n,
         event |-> [i \in DOMAIN u.array |->
                      [id |-> f.id, key |-> f.name,
                       v |-> IF f.type = "enum" THEN Enum(f, u.array[i].low)
                                                ELSE u.array[i]]]]
  IN  called(_pbcP_unpack_packed(Slice(buffer, a), f.type))

(* The result is the number of fields, or below 0 for an error.              *)
pbc_decode(t, buffer) ==
  LET array(d, i, u) == [(IF u.n < 0 THEN [d EXCEPT !.ret = -i] ELSE d)
                           EXCEPT !.event = @ \o u.event]
      field(d, i, f, a) ==
        IF d.ret < 0 THEN d
        ELSE IF f = NULL
        THEN [d EXCEPT !.event = Append(@, call_unknown(a, buffer))]
        ELSE IF f.label = LABEL_PACKED
        THEN array(d, i, call_array(f, a, buffer))
        ELSE IF ~Wired(f, a) THEN [d EXCEPT !.ret = -i]
        ELSE [d EXCEPT !.event = Append(@, call_type(f, a, buffer))]
      decoded(ctx) ==
        LET step(d, i) ==
              field(d, i, FieldNumber(t, ctx.a[i].wire_id \div 8), ctx.a[i])
        IN  IF ctx.count <= 0 THEN [ret |-> ctx.count - 1, event |-> <<>>]
            ELSE FoldLeftDomain(step, [ret |-> ctx.count, event |-> <<>>],
                                ctx.a)
  IN  IF buffer = <<>> THEN [ret |-> 0, event |-> <<>>]
      ELSE decoded(_pbcC_open(buffer))

-----------------------------------------------------------------------------
(* protobuf.encode of a table, one entry at a time, and the two readers.     *)

Init ==
  /\ hash \in Hashes
  /\ w = <<_wmessage_new(Root)>> /\ table = << <<>> >>
  /\ pc = "encode" /\ got = <<>> /\ type = Root

Entries == MapThenSumSet(LAMBDA i : Cardinality(DOMAIN table[i]), DOMAIN w)

(* An entry of table i that is not written yet, in any order.                *)
Entry(i, f) ==
  /\ pc = "encode" /\ Entries < MaxEntries
  /\ i \in DOMAIN w /\ f \in ToSet(Types[w[i].type])
  /\ f.name \notin DOMAIN table[i]

Given(i, f, vs) == [table EXCEPT ![i] = @ @@ (f.name :> vs)]

(* _writer.int, bool and their arrays.                                       *)
WriteIntegers ==
  \E i \in DOMAIN w : \E f \in ToSet(Types[w[i].type]) :
    /\ Entry(i, f) /\ f.type \in Integers32 \cup Integers64
    /\ \E vs \in Values(f) :
         /\ w' = [w EXCEPT ![i] = FoldLeft(LAMBDA m, v :
                                      pbc_wmessage_integer(m, f, v), @, vs)]
         /\ table' = Given(i, f, vs)
    /\ UNCHANGED <<hash, pc, got, type>>

(* _writer.real and its array.                                               *)
WriteReals ==
  \E i \in DOMAIN w : \E f \in ToSet(Types[w[i].type]) :
    /\ Entry(i, f) /\ f.type \in Reals
    /\ \E vs \in Values(f) :
         /\ w' = [w EXCEPT ![i] = FoldLeft(LAMBDA m, v :
                                      pbc_wmessage_real(m, f, v), @, vs)]
         /\ table' = Given(i, f, vs)
    /\ UNCHANGED <<hash, pc, got, type>>

(* _writer.string, enum and their arrays; an error of pbc_wmessage_string    *)
(* ends the encoding.                                                        *)
WriteStrings ==
  \E i \in DOMAIN w : \E f \in ToSet(Types[w[i].type]) :
    /\ Entry(i, f) /\ f.type \in Texts
    /\ \E vs \in Values(f) :
         LET m == FoldLeft(LAMBDA x, v : IF x = NULL THEN NULL
                                         ELSE pbc_wmessage_string(x, f, v),
                           w[i], vs)
         IN  IF m = NULL THEN pc' = "failed" /\ UNCHANGED <<w, table>>
             ELSE /\ w' = [w EXCEPT ![i] = m] /\ table' = Given(i, f, vs)
                  /\ UNCHANGED pc
    /\ UNCHANGED <<hash, got, type>>

(* _writer.message and its array; the entries inside follow.                 *)
WriteMessages ==
  \E i \in DOMAIN w : \E f \in ToSet(Types[w[i].type]) :
    /\ Entry(i, f) /\ f.type = "message"
    /\ \E vs \in Values(f) :
         LET new == [k \in DOMAIN vs |-> Len(w) + k]
         IN  /\ w' = [w EXCEPT ![i] = FoldLeft(LAMBDA m, k :
                                        pbc_wmessage_message(m, f, k), @, new)]
                       \o [k \in DOMAIN vs |-> _wmessage_new(f.of)]
             /\ table' = Given(i, f, new) \o [k \in DOMAIN vs |-> <<>>]
    /\ UNCHANGED <<hash, pc, got, type>>

Send ==
  /\ pc = "encode"
  /\ w' = [w EXCEPT ![1] = pbc_wmessage_buffer(1)]
  /\ pc' = "sent"
  /\ UNCHANGED <<hash, table, got, type>>

(* The reader has a slice that may end anywhere.                             *)
Receive ==
  /\ pc = "sent"
  /\ \E n \in 0..Len(w[1].buffer) : got' = SubSeq(w[1].buffer, 1, n)
  /\ type' \in Versions
  /\ pc' = "received"
  /\ UNCHANGED <<hash, w, table>>

Next == WriteIntegers \/ WriteReals \/ WriteStrings \/ WriteMessages
        \/ Send \/ Receive

Spec == Init /\ [][Next]_vars

-----------------------------------------------------------------------------
(* The state has its type; a capacity is always a new buffer's, doubled.     *)
TypeOK ==
  /\ \A i \in DOMAIN w :
       /\ ToSet(w[i].buffer) \subseteq 0..(Byte - 1)
       /\ \E k \in 0..9 : w[i].cap = WMESSAGE_SIZE * 2^k
       /\ \A s \in ToSet(w[i].sub) : s.message \in (i + 1)..Len(w)
  /\ DOMAIN table = DOMAIN w
  /\ pc \in {"encode", "failed", "sent", "received"}
  /\ ToSet(got) \subseteq 0..(Byte - 1)
  /\ type \in DOMAIN Types

(* Nothing is written behind the end of a buffer: the room that each writer  *)
(* asks for beforehand is enough for what it writes, for the packed arrays   *)
(* whose length is corrected and the messages inside too.                    *)
NoOverrun == \A i \in DOMAIN w : ~w[i].over

(* v was written and x is read: of a number of 32 bits, the low word counts. *)
Same(f, v, x) ==
  IF f.type \in Integers32 \cup {"float"} THEN v.low = x.low ELSE v = x

Read(r, f, i) ==
  CASE f.type \in Integers32 \cup Integers64 -> pbc_rmessage_integer(r, f, i)
    [] f.type \in Reals -> pbc_rmessage_real(r, f, i)
    [] f.type \in Texts -> pbc_rmessage_string(r, f, i)

RECURSIVE Reads(_, _)
(* The pbc_rmessage reads as table i does, in the fields its type knows.     *)
Reads(r, i) ==
  /\ r # NULL
  /\ \A f \in ToSet(Types[r.msg]) :
       LET given == f.name \in DOMAIN table[i]
           vs == IF given THEN table[i][f.name] ELSE <<>>
           default == IF f.type = "bytes" THEN <<>> ELSE f.default
       IN  IF f.type = "message"
           THEN /\ pbc_rmessage_size(r, f) = Len(vs)
                /\ \A k \in DOMAIN vs :
                     Reads(pbc_rmessage_message(r, f, k - 1), vs[k])
                /\ vs = <<>> => pbc_rmessage_message(r, f, 0).msg = f.of
           ELSE IF f.label \in Arrays
           THEN /\ pbc_rmessage_size(r, f) = Len(vs)
                /\ \A k \in DOMAIN vs : Same(f, vs[k], Read(r, f, k - 1))
           ELSE Same(f, IF given THEN vs[1] ELSE default, Read(r, f, 0))

(* A message that arrives whole reads as the table it was written from: the  *)
(* values given, in order, and the defaults of those that were not given or  *)
(* that the writer left out.                                                 *)
RoundTrip ==
  pc = "received" /\ got = w[1].buffer => Reads(_pbc_rmessage_new(type, got), 1)

(* What the one has called back and what the other has stored under its keys.*)
Agree(d, r, keys) ==
  LET agree(f, v, i) ==
        IF f.type = "message"
        THEN _pbc_rmessage_new(f.of, v) = pbc_rmessage_message(r, f, i)
        ELSE Same(f, IF f.type = "enum" THEN v.name ELSE v, Read(r, f, i))
  IN  /\ \A f \in ToSet(Types[type]) :
           LET es == SelectSeq(d.event, LAMBDA e : e.key = f.name)
           IN  /\ pbc_rmessage_size(r, f) = Len(es)
               /\ \A k \in DOMAIN es : agree(f, es[k].v, k - 1)
      /\ IsInjective(keys)
      /\ ToSet(keys) = {e.key : e \in ToSet(d.event)} \ {NULL}

(* pbc_decode and pbc_rmessage accept the same bytes, and give the same      *)
(* values for the same keys.                                                 *)
DecodersAgree ==
  pc = "received" =>
    LET both(d, r) == /\ d.ret < 0 <=> r = NULL
                      /\ r # NULL => Agree(d, r, pbc_rmessage_next(r))
    IN  both(pbc_decode(type, got), _pbc_rmessage_new(type, got))

(* A message that is cut short is refused, unless the cut is between two of  *)
(* its fields.                                                               *)
CutBetweenFields ==
  pc = "received" =>
    (pbc_decode(type, got).ret >= 0 <=>
       Len(got) \in {0} \cup {a.next : a \in ToSet(_pbcC_open(w[1].buffer).a)})
=============================================================================
