--------------------------- MODULE MCPbcRegistry ---------------------------
(* Small files for PbcRegistry: numbers that make the maps arrays and hash   *)
(* tables, a nested message and enum, extensions that alternate between two  *)
(* messages, dependencies in both orders, one on a file nobody has, and one  *)
(* on the descriptor's own file.                                             *)
EXTENDS PbcRegistry

MCField(name, number, type, label, packed, type_name, default) ==
  [name |-> name, number |-> number, type |-> type, label |-> label,
   packed |-> packed, type_name |-> type_name, default |-> default]
MCValue(name, id) == [id |-> id, pointer |-> <<name>>]

MCDescriptor ==
  [name |-> <<"descriptor">>, dependency |-> <<>>, package |-> <<"google">>,
   enum |-> <<[name |-> "Label",
               value |-> <<MCValue("one", 1), MCValue("two", 2)>>]>>,
   message |-> <<[name |-> "Set",
                  field |-> <<MCField("file", 1, "message", 3, FALSE,
                                      <<"google", "File">>, NULL)>>,
                  extension |-> <<>>, enum |-> <<>>, nested |-> <<>>],
                 [name |-> "File",
                  field |-> <<MCField("label", 2, "enum", 1, FALSE,
                                      <<"google", "Label">>, NULL)>>,
                  extension |-> <<>>, enum |-> <<>>, nested |-> <<>>]>>,
   extension |-> <<>>]

MCBase ==
  [name |-> <<"base">>, dependency |-> <<>>, package |-> <<"p">>,
   enum |-> <<[name |-> "E", value |-> <<MCValue("x", 0), MCValue("y", 9),
                                         MCValue("z", -1)>>]>>,
   message |->
     <<[name |-> "M",
        field |-> <<MCField("a", 1, "int32", 1, FALSE, NULL, <<"7">>),
                    MCField("e", 2, "enum", 1, FALSE, <<"p", "E">>, <<"y">>),
                    MCField("n", 3, "message", 1, FALSE, <<"p", "M", "N">>,
                            NULL)>>,
        extension |-> <<>>,
        enum |-> <<[name |-> "F", value |-> <<MCValue("u", 3),
                                              MCValue("v", 1)>>]>>,
        nested |-> <<[name |-> "N",
                      field |-> <<MCField("f", 8, "enum", 3, TRUE,
                                          <<"p", "M", "F">>, NULL)>>,
                      extension |-> <<>>, enum |-> <<>>, nested |-> <<>>]>>],
       [name |-> "Q", field |-> <<>>, extension |-> <<>>, enum |-> <<>>,
        nested |-> <<>>]>>,
   extension |-> <<>>]

MCUser ==
  [name |-> <<"user">>, dependency |-> <<<<"base">>>>, package |-> <<>>,
   enum |-> <<>>,
   message |->
     <<[name |-> "U",
        field |-> <<MCField("m", 1, "message", 3, FALSE, <<"p", "M">>, NULL)>>,
        extension |-> <<<<<<"p", "M">>,
                          MCField("s", 100, "string", 1, FALSE, NULL, NULL)>>,
                        <<<<"p", "Q">>,
                          MCField("t", 4, "bool", 1, FALSE, NULL, NULL)>>,
                        <<<<"p", "M">>,
                          MCField("w", 5, "message", 1, FALSE, <<"U">>,
                                  NULL)>>>>,
        enum |-> <<>>, nested |-> <<>>]>>,
   extension |-> <<<<<<"p", "Q">>,
                     MCField("g", 6, "enum", 1, FALSE, <<"p", "E">>, NULL)>>>>]

MCTop ==
  [name |-> <<"top">>, dependency |-> <<<<"base">>, <<"user">>>>,
   package |-> <<"t">>, enum |-> <<>>,
   message |-> <<[name |-> "T",
                  field |-> <<MCField("u", 300, "message", 2, FALSE, <<"U">>,
                                      NULL)>>,
                  extension |-> <<>>, enum |-> <<>>, nested |-> <<>>]>>,
   extension |-> <<>>]

MCPlain(name, needs) ==
  [name |-> <<name>>, dependency |-> <<<<needs>>>>, package |-> <<>>,
   enum |-> <<>>, message |-> <<>>, extension |-> <<>>]
MCOrphan == MCPlain("orphan", "missing")
MCOption == MCPlain("option", "descriptor")

MCFiles == {MCBase, MCUser, MCTop, MCOrphan}
MCRequests ==
  {<<>>, <<MCOption, MCBase>>} \cup {<<f>> : f \in MCFiles}
  \cup {<<f, g>> : f, g \in MCFiles}
  \cup {<<MCTop, f, g>> : f, g \in MCFiles}

(* Every name that is looked up in a map.                                    *)
MCNames ==
  {f.name : f \in MCFiles \cup {MCDescriptor, MCOption}}
  \cup {<<"missing">>}
  \cup UNION {{m[1] : m \in Messages(f)} \cup {d[1] : d \in FieldsOf(f)}
               \cup {d[2] : d \in FieldsOf(f)} \cup {e[1] : e \in EnumsOf(f)}
               \cup UNION {{v.pointer : v \in ToSet(e[2])} : e \in EnumsOf(f)}
                 : f \in MCFiles \cup {MCDescriptor}}

(* All names collide, those of a length do, and more or less of a map does.  *)
MCHashes ==
  LET number == FoldSet(LAMBDA n, g : (n :> Cardinality(DOMAIN g)) @@ g, <<>>,
                        MCNames)
  IN  {[n \in MCNames |-> 5], [n \in MCNames |-> Len(n)]}
      \cup {[n \in MCNames |-> k * number[n]] : k \in {1, 2, 5}}
=============================================================================
