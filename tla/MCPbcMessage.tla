---------------------------- MODULE MCPbcMessage ----------------------------
(* A message with fields of every kind, numbers whose tags take one, two and *)
(* five bytes, values at the boundaries of the words and of the groups, and  *)
(* an older version of it that lacks half of the fields.                     *)
EXTENDS PbcMessage

MCField(name, id, ptype, label, default, of) ==
  [name |-> name, id |-> id, type |-> ptype, label |-> label,
   default |-> default, of |-> of]

Zero == LongLong(0, 0)
MinusOne == LongLong(Word - 1, Word - 1)
Least32 == LongLong(Word \div 2, Word - 1)
Least64 == LongLong(0, Word \div 2)
Shared == LongLong(Word - 1, 1)  \* a group holds bits of both words

MCEnum == <<[id |-> 0, pointer |-> "zero"], [id |-> 9, pointer |-> "nine"]>>

MCFields ==
  << MCField("i32", 1, "int32", 0, MinusOne, NULL),
     MCField("s32", 2, "sint32", 1, Zero, NULL),
     MCField("s64", 16, "sint64", 0, Zero, NULL),
     MCField("p64", 3, "int64", 3, Zero, NULL),
     MCField("p32", 4, "sint32", 3, Zero, NULL),
     MCField("pb", 5, "bool", 3, Zero, NULL),
     MCField("pd", 6, "double", 3, Zero, NULL),
     MCField("f32", 7, "sfixed32", 2, Zero, NULL),
     MCField("d", 1000, "double", 0, Shared, NULL),
     MCField("e", 9, "enum", 0, "nine", MCEnum),
     MCField("pe", 10, "enum", 3, "zero", MCEnum),
     MCField("s", 11, "string", 0, <<1>>, NULL),
     MCField("ss", 12, "string", 2, <<>>, NULL),
     MCField("m", 13, "message", 0, NULL, "Part"),
     MCField("ms", 14, "message", 2, NULL, "Part") >>

MCTypes ==
  [Whole |-> MCFields,
   Old |-> SelectSeq(MCFields, LAMBDA f : f.id % 2 = 1),
   Part |-> << MCField("b", 1, "bytes", 0, <<>>, NULL),
               MCField("u", 2, "uint32", 2, Zero, NULL) >>]

Long == [k \in 1..30 |-> 7]

MCValues(f) ==
  CASE f.name = "i32" -> {<<MinusOne>>, <<Zero>>, <<Least32>>}
    [] f.name = "s32" -> {<<Zero>>, <<MinusOne>>, <<Least32>>}
    [] f.name = "s64" -> {<<Zero>>, <<MinusOne>>, <<Least64>>, <<Shared>>}
    [] f.name = "p64" -> {<<>>, <<MinusOne>>, <<Zero, Shared, Zero>>,
                          [k \in 1..4 |-> Zero]}
    [] f.name = "p32" -> {<<MinusOne, Least32>>}
    [] f.name = "pb" -> {[k \in 1..8 |-> LongLong(1, 0)]}
    [] f.name = "pd" -> {<<Shared, Zero>>}
    [] f.name = "f32" -> {<<MinusOne, Zero>>}
    [] f.name = "d" -> {<<Shared>>, <<Least64>>}
    [] f.name = "e" -> {<<"nine">>, <<"zero">>, <<"none">>}
    [] f.name = "pe" -> {<<"nine", "zero">>, <<"nine", "none">>}
    [] f.name = "s" -> {<<<<>>>>, <<<<1>>>>, <<<<1, 0>>>>, <<Long>>}
    [] f.name = "ss" -> {<<<<>>, <<0>>, <<1>>>>}
    [] f.name = "m" -> {<<NULL>>}
    [] f.name = "ms" -> {<<NULL, NULL>>}
    [] f.name = "b" -> {<<<<>>>>, <<<<2, 0>>>>}
    [] f.name = "u" -> {<<Zero, LongLong(Word - 1, 0)>>}

(* Two places for the keys, and one for all of them.                         *)
MCHashes ==
  LET keys == {f.name : f \in UNION {ToSet(MCTypes[t]) : t \in DOMAIN MCTypes}}
      number(k) == CHOOSE n \in {f.id : f \in UNION {ToSet(MCTypes[t]) :
                                                    t \in DOMAIN MCTypes}} :
                     \E f \in UNION {ToSet(MCTypes[t]) : t \in DOMAIN MCTypes} :
                       f.name = k /\ f.id = n
  IN  {[k \in keys |-> number(k)], [k \in keys |-> 0]}
=============================================================================
