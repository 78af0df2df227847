------------------------------ MODULE PbcWire ------------------------------
(* The wire format of lualib-src/pbc/src (varint.c, context.c and the packed *)
(* arrays of pattern.c), as operators on sequences of bytes.                 *)
(*                                                                           *)
(* The numbers are scaled down so that every constant of the code keeps its  *)
(* value: a byte carries 3 bits of a varint and not 7, a word has 14 bits    *)
(* and not 32.  A word is then still four bytes or at most five groups of a  *)
(* varint, four of which leave bits over that share a group with the high    *)
(* word, and two words are still at most ten groups.  A 64-bit number is the *)
(* record of its two words, as in struct longlong.                           *)
EXTENDS PbcMap

Group == 8         \* 128
Byte == 2 * Group  \* 256
Word == 16384      \* 2^32

LongLong(low, hi) == [low |-> low, hi |-> hi]

WT_VARINT == 0
WT_BIT64 == 1
WT_LEND == 2
WT_BIT32 == 5

Fixed64 == {"double", "fixed64", "sfixed64"}
Fixed32 == {"float", "fixed32", "sfixed32"}

From(s, start) == SubSeq(s, start + 1, Len(s))

-----------------------------------------------------------------------------
(* The groups from the lowest; all but the last have the high bit set.       *)
_pbcV_encode(low, hi) ==
  LET n == hi * Word + low
      len == Max({1} \cup {i \in 2..10 : n >= Group^(i - 1)})
  IN  [i \in 1..len |-> ((n \div Group^(i - 1)) % Group)
                          + (IF i < len THEN Group ELSE 0)]

_pbcV_encode32(number) == _pbcV_encode(number, 0)

(* The number that groups i to j make.                                       *)
Groups(buffer, i, j) ==
  MapThenSumSet(LAMBDA k : (buffer[k] % Group) * Group^(k - i), i..j)

(* mutant: all of the fifth group goes to the low word                       *)
DecodeFifth(buffer) ==
  LET ends == {i \in 1..Min({10, Len(buffer)}) : buffer[i] < Group}
      read(len, lr) ==
        [len |-> len,
         low |-> (Groups(buffer, 1, Min({4, len})) + lr * Group^4) % Word,
         hi |-> (lr \div Group) % Word]
  IN  IF ends = {}
      THEN [len |-> Min({10, Len(buffer) + 1}), low |-> 0, hi |-> 0]
      ELSE read(Min(ends), Groups(buffer, 5, Min(ends)))

(* The low word is the first four groups and the bits of the fifth that it   *)
(* has room for.  A number that does not end within a shorter buffer is read *)
(* on into whatever follows, and so is longer than the buffer.               *)
_pbcV_decode(buffer) ==
  LET ends == {i \in 1..Min({10, Len(buffer)}) : buffer[i] < Group}
      room == Word \div Group^4
      read(len, lr) ==
        [len |-> len,
         low |-> Groups(buffer, 1, Min({4, len})) + (lr % room) * Group^4,
         hi |-> (lr \div room) % Word]
  IN  IF ends = {}
      THEN [len |-> Min({10, Len(buffer) + 1}), low |-> 0, hi |-> 0]
      ELSE read(Min(ends), Groups(buffer, 5, Min(ends)))

(* (n << 1) ^ (n >> 31), and the same with two words.                        *)
_pbcV_zigzag32(n) ==
  _pbcV_encode32(IF n < Word \div 2 THEN 2 * n ELSE 2 * (Word - n) - 1)

_pbcV_zigzag(low, hi) ==
  LET n == hi * Word + low
      z == IF hi < Word \div 2 THEN 2 * n ELSE 2 * (Word * Word - n) - 1
  IN  _pbcV_encode(z % Word, z \div Word)

(* Exclusive or with - (low & 1).                                            *)
Signed(n, low) == IF low % 2 = 1 THEN Word - 1 - n ELSE n

_pbcV_dezigzag64(r) ==
  LongLong(Signed((r.low \div 2) + (r.hi % 2) * (Word \div 2), r.low),
      Signed(r.hi \div 2, r.low))

(* The high word is that of the number before it is decoded.                 *)
_pbcV_dezigzag32(r) ==
  LongLong(Signed(r.low \div 2, r.low),
      IF r.low >= Word \div 2 THEN Word - 1 ELSE 0)

Dezigzag(type, r) ==
  IF type = "sint32" THEN _pbcV_dezigzag32(r)
  ELSE IF type = "sint64" THEN _pbcV_dezigzag64(r) ELSE LongLong(r.low, r.hi)

(* Four bytes, the lowest first; float_encode, double_encode likewise.       *)
int32_encode(low) == [i \in 1..4 |-> (low \div Byte^(i - 1)) % Byte]
int64_encode(low, hi) == int32_encode(low) \o int32_encode(hi)

ReadWord(buffer, start) ==
  MapThenSumSet(LAMBDA i : buffer[start + i] * Byte^(i - 1), 1..4)

-----------------------------------------------------------------------------
(* mutant: the length of the slice alone is held against what is left        *)
WiretypeForgetsLength(buffer, start) ==
  LET value(tag, from, cap, n) ==
        LET wiretype == tag.low % 8
            atom(low, hi, first, end, next) ==
              [wire_id |-> tag.low, low |-> low, hi |-> hi, start |-> first,
               end |-> end, next |-> next]
        IN  IF wiretype = WT_VARINT /\ n.len <= cap
            THEN atom(n.low, n.hi, 0, 0, from + n.len)
            ELSE IF wiretype = WT_BIT64 /\ 8 <= cap
            THEN atom(ReadWord(buffer, from), ReadWord(buffer, from + 4), 0, 0,
                      from + 8)
            ELSE IF wiretype = WT_LEND /\ n.low <= cap /\ n.hi = 0
            THEN atom(0, 0, from + n.len, from + n.len + n.low,
                      Min({Len(buffer), from + n.len + n.low}))
            ELSE IF wiretype = WT_BIT32 /\ 4 <= cap
            THEN atom(ReadWord(buffer, from), 0, 0, 0, from + 4)
            ELSE NULL
      behind(tag, from) ==
        IF from > Len(buffer) \/ tag.hi # 0 THEN NULL
        ELSE value(tag, from, Len(buffer) - from,
                   _pbcV_decode(From(buffer, from)))
      tagged(tag) == behind(tag, start + tag.len)
  IN  tagged(_pbcV_decode(From(buffer, start)))

(* The field that starts behind start bytes, and where the next one does;    *)
(* NULL when it is cut short.  A slice so long that its end wraps around the *)
(* word is left out: nothing here writes one.                                *)
wiretype_decode(buffer, start) ==
  LET value(tag, from, cap, n) ==
        LET wiretype == tag.low % 8
            atom(low, hi, first, end, next) ==
              [wire_id |-> tag.low, low |-> low, hi |-> hi, start |-> first,
               end |-> end, next |-> next]
        IN  IF wiretype = WT_VARINT /\ n.len <= cap
            THEN atom(n.low, n.hi, 0, 0, from + n.len)
            ELSE IF wiretype = WT_BIT64 /\ 8 <= cap
            THEN atom(ReadWord(buffer, from), ReadWord(buffer, from + 4), 0, 0,
                      from + 8)
            ELSE IF wiretype = WT_LEND /\ n.len + n.low <= cap /\ n.hi = 0
            THEN atom(0, 0, from + n.len, from + n.len + n.low,
                      from + n.len + n.low)
            ELSE IF wiretype = WT_BIT32 /\ 4 <= cap
            THEN atom(ReadWord(buffer, from), 0, 0, 0, from + 4)
            ELSE NULL
      behind(tag, from) ==
        IF from > Len(buffer) \/ tag.hi # 0 THEN NULL
        ELSE value(tag, from, Len(buffer) - from,
                   _pbcV_decode(From(buffer, from)))
      tagged(tag) == behind(tag, start + tag.len)
  IN  tagged(_pbcV_decode(From(buffer, start)))

(* The fields of a buffer, in order.  The first one that is cut short makes  *)
(* the count their number, negated: not positive is a failure.               *)
_pbcC_open(buffer) ==
  LET push(c, a) == IF a = NULL THEN [c EXCEPT !.failed = TRUE]
                    ELSE [c EXCEPT !.a = Append(@, a), !.at = a.next]
      step(c, i) == IF c.failed \/ c.at = Len(buffer) THEN c
                    ELSE push(c, wiretype_decode(buffer, c.at))
      opened(c) == [count |-> IF c.failed THEN -Len(c.a) ELSE Len(c.a),
                    a |-> c.a]
  IN  opened(FoldLeftDomain(step, [a |-> <<>>, at |-> 0, failed |-> FALSE],
                            buffer))

(* The numbers of a packed array, n of them, or -1 and those before one that *)
(* is cut short; call_array of decode.c goes the same way.                   *)
_pbcP_unpack_packed(buffer, ptype) ==
  LET size == IF ptype \in Fixed64 THEN 8 ELSE 4
      fixed(start) ==
        LongLong(ReadWord(buffer, start),
                 IF size = 8 THEN ReadWord(buffer, start + 4) ELSE 0)
      push(c, r) ==
        IF c.at + r.len > Len(buffer) THEN [c EXCEPT !.n = -1]
        ELSE [n |-> c.n + 1, at |-> c.at + r.len,
              array |-> Append(c.array, Dezigzag(ptype, r))]
      step(c, i) == IF c.n = -1 \/ c.at = Len(buffer) THEN c
                    ELSE push(c, _pbcV_decode(From(buffer, c.at)))
  IN  IF ptype \notin Fixed64 \cup Fixed32
      THEN FoldLeftDomain(step, [n |-> 0, at |-> 0, array |-> <<>>], buffer)
      ELSE IF Len(buffer) % size # 0 THEN [n |-> -1, array |-> <<>>]
      ELSE [n |-> Len(buffer) \div size,
            array |-> [i \in 1..(Len(buffer) \div size) |->
                         fixed((i - 1) * size)]]
=============================================================================
