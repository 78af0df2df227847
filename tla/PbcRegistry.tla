---------------------------- MODULE PbcRegistry ----------------------------
(* The registry of message types of lualib-src/pbc/src (proto.c, bootstrap.c *)
(* and register.c): pbc_register is given a set of file descriptors, which   *)
(* it registers in whatever order their dependencies allow.                  *)
(*                                                                           *)
(* A name is the sequence of its parts, joined by '.' in the code; a name of *)
(* one part is not qualified.  A descriptor is what pbc_rmessage finds in    *)
(* the FileDescriptorProto:                                                  *)
(*   file    [name, dependency, package, enum, message, extension]           *)
(*   message [name, field, extension, enum, nested]                          *)
(*   enum    [name, value], its values [id, pointer]                         *)
(*   field   [name, number, type, label, packed, type_name, default]         *)
(* an extension being <<extendee, field>>.  Every type and every value that  *)
(* a field names is declared, as protoc sees to.  The registered enums,      *)
(* messages and fields are numbered in the order of their malloc: the number *)
(* is the pointer.  A file is registered in steps, one per descriptor it     *)
(* holds: work is what _register has before it.                              *)
EXTENDS PbcMap

CONSTANTS
  Hashes,      \* what calc_hash may be
  Descriptor,  \* pbc_descriptor, the file the registry starts with
  Requests     \* the descriptor sets given to pbc_register

VARIABLES
  hash,     \* calc_hash
  files,    \* p->files: NULL for the descriptor, a string pool for the others
  enums,    \* p->enums
  msgs,     \* p->msgs
  enum,     \* the struct _enum
  msg,      \* the struct _message
  field,    \* the struct _field
  pc,       \* where pbc_register is, "idle" outside of it
  request,  \* its files; NULL for one that is done
  at,       \* the file it looks at
  r,        \* the files that had to wait in the previous pass
  rr,       \* the same, counted in this pass
  work,     \* what is left of _register
  queue,    \* the fields whose type is to be looked up
  result    \* what pbc_register returned last

maps == <<files, enums, msgs>>
objs == <<enum, msg, field>>
vars == <<hash, files, enums, msgs, enum, msg, field, pc, request, at, r, rr,
          work, queue, result>>

Pool == 1  \* a string pool: any pointer that is not NULL

Strings == {"string", "bytes"}
Typed == {"message", "enum"}

_concat_name(prefix, name) == Append(prefix, name)

-----------------------------------------------------------------------------
(* What is left to do, in the order of the code.                             *)
EnumWork(prefix, es) ==
  [i \in DOMAIN es |-> [do |-> "enum", prefix |-> prefix, desc |-> es[i]]]
MessageWork(prefix, ms) ==
  [i \in DOMAIN ms |-> [do |-> "message", prefix |-> prefix, desc |-> ms[i]]]
ExtensionWork(prefix, xs) ==
  <<[do |-> "extension", prefix |-> prefix, desc |-> xs]>>
FieldsWork == <<[do |-> "fields"]>>

(* _register                                                                 *)
FileWork(file) ==
  EnumWork(file.package, file.enum) \o MessageWork(file.package, file.message)
    \o ExtensionWork(file.package, file.extension) \o FieldsWork

(* register_internal: the descriptor's file is known by a NULL pointer; its  *)
(* enums and messages are listed under their full names.                     *)
Init ==
  /\ hash \in Hashes
  /\ files = _pbcM_sp_insert(hash, _pbcM_sp_new(0), Descriptor.name, NULL)
  /\ enums = _pbcM_sp_new(0) /\ msgs = _pbcM_sp_new(0)
  /\ enum = <<>> /\ msg = <<>> /\ field = <<>>
  /\ pc = "boot" /\ request = <<>> /\ at = 1 /\ r = 0 /\ rr = 0
  /\ work = FileWork(Descriptor)
  /\ queue = <<>> /\ result = "none"

(* _pbcP_push_enum: a name that is taken keeps its first enum.               *)
PushEnum(name, values) ==
  IF _pbcM_sp_query(hash, enums, name) # NULL
  THEN UNCHANGED <<enums, enum>>
  ELSE /\ enum' = Append(enum, [key |-> name,
                                id |-> _pbcM_ip_new(values),
                                name |-> _pbcM_si_new(hash, values),
                                default |-> values[1].pointer])
       /\ enums' = _pbcM_sp_insert(hash, enums, name, Len(enum'))

(* The maps and objects while one step changes them.                         *)
State == [msgs |-> msgs, msg |-> msg, field |-> field, queue |-> queue]

NewMessage(s, name) ==
  [s EXCEPT !.msg = Append(@, [key |-> name, id |-> NULL,
                               name |-> _pbcM_sp_new(0)]),
            !.msgs = _pbcM_sp_insert(hash, @, name, Len(s.msg) + 1)]

(* _set_default: nothing given is "" or 0, and bytes have none.  The name of *)
(* an enum's value is kept until set_field_one knows the enum.               *)
_set_default(f) ==
  IF f.default # NULL /\ f.type # "bytes" THEN f.default
  ELSE IF f.type \in Strings \cup Typed THEN NULL ELSE <<"0">>

(* _register_field: the label counts from 0, and packed is one of them.      *)
LABEL_OPTIONAL == 0
LABEL_REPEATED == 2
LABEL_PACKED == 3

_register_field(name, f) ==
  [id |-> f.number, name |-> name, type |-> f.type,
   label |-> IF f.packed THEN LABEL_PACKED ELSE f.label - 1,
   type_name |-> f.type_name, pointer |-> NULL, default |-> _set_default(f)]

(* mutant: the caller's field is queued, not the copy that is kept           *)
PushQueuesCaller(s, name, f) ==
  LET t == IF _pbcM_sp_query(hash, s.msgs, name) = NULL THEN NewMessage(s, name)
                                                       ELSE s
      m == _pbcM_sp_query(hash, t.msgs, name)
      new == Len(t.field) + 1
  IN  [t EXCEPT !.field = Append(@, f),
                !.msg[m].name = _pbcM_sp_insert(hash, @, f.name, new),
                !.queue = IF f.type \in Typed THEN Append(@, new + 1) ELSE @]

(* _pbcP_push_message                                                        *)
_pbcP_push_message(s, name, f) ==
  LET t == IF _pbcM_sp_query(hash, s.msgs, name) = NULL THEN NewMessage(s, name)
                                                       ELSE s
      m == _pbcM_sp_query(hash, t.msgs, name)
      new == Len(t.field) + 1
  IN  [t EXCEPT !.field = Append(@, f),
                !.msg[m].name = _pbcM_sp_insert(hash, @, f.name, new),
                !.queue = IF f.type \in Typed THEN Append(@, new) ELSE @]

(* _pbcP_init_message: the fields by number, rebuilt from those by name.     *)
_pbcP_init_message(s, name) ==
  LET m == _pbcM_sp_query(hash, s.msgs, name)
      fs == _pbcM_sp_foreach(s.msg[m].name)
      table == [i \in DOMAIN fs |-> [id |-> s.field[fs[i]].id,
                                     pointer |-> fs[i]]]
  IN  IF m = NULL THEN NewMessage(s, name)
      ELSE [s EXCEPT !.msg[m].id = _pbcM_ip_new(table)]

Becomes(s) ==
  /\ msgs' = s.msgs /\ msg' = s.msg /\ field' = s.field /\ queue' = s.queue

-----------------------------------------------------------------------------
Doing(what) == pc \in {"boot", "work"} /\ work[1].do = what

(* _register_enum, set_enum_one                                              *)
_register_enum ==
  /\ Doing("enum")
  /\ PushEnum(_concat_name(work[1].prefix, work[1].desc.name),
              work[1].desc.value)
  /\ work' = Tail(work)
  /\ UNCHANGED <<hash, files, msgs, msg, field, pc, request, at, r, rr, queue,
                 result>>

(* _register_message up to its extensions, set_msg_one.                      *)
_register_message ==
  /\ Doing("message")
  /\ LET desc == work[1].desc
         name == _concat_name(work[1].prefix, desc.name)
         pushed == FoldLeft(LAMBDA s, f : _pbcP_push_message(
                              s, name, _register_field(<<f.name>>, f)),
                            State, desc.field)
     IN  /\ Becomes(_pbcP_init_message(pushed, name))
         /\ work' = ExtensionWork(name, desc.extension)
                      \o EnumWork(name, desc.enum)
                      \o MessageWork(name, desc.nested) \o Tail(work)
  /\ UNCHANGED <<hash, files, enums, enum, pc, request, at, r, rr, result>>

(* mutant: only the last message that is extended is initialised again       *)
ExtendLast(s, prefix, xs) ==
  LET push(t, x) ==
        _pbcP_push_message(t, x[1], _register_field(
                                      _concat_name(prefix, x[2].name), x[2]))
  IN  IF xs = <<>> THEN s
      ELSE _pbcP_init_message(FoldLeft(push, s, xs), Last(xs)[1])

(* A message is initialised again when the next one is extended, and the     *)
(* last one at the end.                                                      *)
Extend(s, prefix, xs) ==
  LET step(t, i) ==
        LET f == _register_field(_concat_name(prefix, xs[i][2].name), xs[i][2])
            u == _pbcP_push_message(t, xs[i][1], f)
        IN  IF i > 1 /\ xs[i][1] # xs[i - 1][1]
            THEN _pbcP_init_message(u, xs[i - 1][1]) ELSE u
  IN  IF xs = <<>> THEN s
      ELSE _pbcP_init_message(FoldLeftDomain(step, s, xs), Last(xs)[1])

_register_extension ==
  /\ Doing("extension")
  /\ Becomes(Extend(State, work[1].prefix, work[1].desc))
  /\ work' = Tail(work)
  /\ UNCHANGED <<hash, files, enums, enum, pc, request, at, r, rr, result>>

(* mutant: the default an enum is given is not looked up                     *)
set_field_one_first(f) ==
  IF f.type = "message"
  THEN [f EXCEPT !.pointer = _pbcM_sp_query(hash, msgs, f.type_name)]
  ELSE LET e == _pbcM_sp_query(hash, enums, f.type_name)
       IN  [f EXCEPT !.pointer = e, !.default = enum[e].default]

(* set_field_one: a type that is not there leaves NULL; the default of an    *)
(* enum is the value of that name, or the enum's first.                      *)
set_field_one(f) ==
  IF f.type = "message"
  THEN [f EXCEPT !.pointer = _pbcM_sp_query(hash, msgs, f.type_name)]
  ELSE LET e == _pbcM_sp_query(hash, enums, f.type_name)
           names == enum[e].name
           id == names[SiFind(hash, names, f.default)].id
       IN  [f EXCEPT !.pointer = e,
                     !.default = IF f.default = NULL THEN enum[e].default
                                 ELSE _pbcM_ip_query(enum[e].id, id)]

(* _pbcB_register_fields, the end of _register and of register_internal.     *)
_pbcB_register_fields ==
  /\ Doing("fields")
  /\ field' = [p \in DOMAIN field |-> IF p \in ToSet(queue)
                                      THEN set_field_one(field[p])
                                      ELSE field[p]]
  /\ queue' = <<>> /\ work' = <<>>
  /\ pc' = IF pc = "boot" THEN "idle" ELSE "file"
  /\ at' = (IF pc = "boot" THEN at ELSE at + 1)
  /\ UNCHANGED <<hash, maps, enum, msg, request, r, rr, result>>

-----------------------------------------------------------------------------
Known(name) == _pbcM_sp_query(hash, files, name) # NULL

(* pbc_register up to its loop.                                              *)
pbc_register ==
  /\ pc = "idle"
  /\ \E files0 \in Requests :
       IF files0 = <<>>
       THEN /\ result' = "register empty"
            /\ UNCHANGED <<pc, request, at, r, rr>>
       ELSE /\ request' = files0 /\ r' = Len(files0) /\ rr' = 0 /\ at' = 1
            /\ pc' = "file" /\ result' = "none"
  /\ UNCHANGED <<hash, maps, objs, work, queue>>

(* pbc_register of a slice that is not a descriptor set.                     *)
pbc_register_refused ==
  /\ pc = "idle"
  /\ \E why \in {"register open google.protobuf.FileDescriptorSet fail",
                 "register open fail"} : result' = why
  /\ UNCHANGED <<hash, maps, objs, pc, request, at, r, rr, work, queue>>

Looking == pc = "file" /\ at <= Len(request)

(* mutant: only the first dependency is looked at                            *)
MissesFirst(file) ==
  file.dependency # <<>> /\ ~Known(file.dependency[1])

(* _check_file_name                                                          *)
Misses(file) == \E d \in ToSet(file.dependency) : ~Known(d)

Done == request[at] = NULL
CHECK_FILE_EXIST == ~Done /\ Known(request[at].name)
CHECK_FILE_DEPENDENCY ==
  ~Done /\ ~Known(request[at].name) /\ Misses(request[at])
CHECK_FILE_OK == ~Done /\ ~Known(request[at].name) /\ ~Misses(request[at])

(* _register_no_dependency, one turn of its loop: a file that is done or was *)
(* registered before is passed over,                                         *)
SkipFile ==
  /\ Looking
  /\ Done \/ CHECK_FILE_EXIST
  /\ at' = at + 1
  /\ UNCHANGED <<hash, maps, objs, pc, request, r, rr, work, queue, result>>

(* one that misses a dependency is counted,                                  *)
DeferFile ==
  /\ Looking
  /\ CHECK_FILE_DEPENDENCY
  /\ rr' = rr + 1
  /\ at' = at + 1
  /\ UNCHANGED <<hash, maps, objs, pc, request, r, work, queue, result>>

(* and any other is registered.                                              *)
TakeFile ==
  /\ Looking
  /\ CHECK_FILE_OK
  /\ files' = _pbcM_sp_insert(hash, files, request[at].name, Pool)
  /\ work' = FileWork(request[at])
  /\ request' = [request EXCEPT ![at] = NULL]
  /\ pc' = "work"
  /\ UNCHANGED <<hash, enums, msgs, objs, at, r, rr, queue, result>>

(* mutant: a pass that leaves files waiting is taken for an error            *)
EndPassAtOnce ==
  /\ pc = "file" /\ at > Len(request)
  /\ pc' = "idle"
  /\ result' = IF rr > 0 THEN "register dependency error" ELSE "ok"
  /\ request' = <<>>
  /\ r' = 0 /\ rr' = 0 /\ at' = 1
  /\ UNCHANGED <<hash, maps, objs, work, queue>>

(* mutant: the passes go on while files wait                                 *)
EndPassRetry ==
  /\ pc = "file" /\ at > Len(request)
  /\ pc' = IF rr = 0 THEN "idle" ELSE "file"
  /\ result' = IF rr = 0 THEN "ok" ELSE result
  /\ request' = IF rr = 0 THEN <<>> ELSE request
  /\ r' = rr /\ rr' = 0 /\ at' = 1
  /\ UNCHANGED <<hash, maps, objs, work, queue>>

(* The end of a pass over the files: no file waits, or the same number as    *)
(* before, or there is another pass.                                         *)
EndPass ==
  /\ pc = "file" /\ at > Len(request)
  /\ LET over == rr = r \/ rr = 0
     IN  /\ pc' = IF over THEN "idle" ELSE "file"
         /\ result' = IF rr = r THEN "register dependency error"
                      ELSE IF rr = 0 THEN "ok" ELSE result
         /\ request' = IF over THEN <<>> ELSE request
         /\ r' = IF over THEN 0 ELSE rr
  /\ rr' = 0 /\ at' = 1
  /\ UNCHANGED <<hash, maps, objs, work, queue>>

_register == _register_enum \/ _register_message \/ _register_extension
             \/ _pbcB_register_fields
Step == SkipFile \/ DeferFile \/ TakeFile \/ EndPass \/ _register
Next == pbc_register \/ pbc_register_refused \/ Step

Spec == Init /\ [][Next]_vars

(* pbc_register runs to its end; nothing makes anyone call it.  A step can   *)
(* be taken exactly while pc is not "idle", so this is WF_vars(Step) without *)
(* its ENABLED, which costs TLC too much.                                    *)
FairSpec == Spec /\ ([]<>(pc = "idle") \/ []<><<pc # "idle" /\ Step>>_vars)

-----------------------------------------------------------------------------
(* What the registry answers.                                                *)

(* _pbcP_type: what a field holds, whether it repeats, the name of its type. *)
Holds ==
  [double |-> "real", float |-> "real", int64 |-> "int64", sint64 |-> "int64",
   int32 |-> "int", sint32 |-> "int", uint32 |-> "uint", uint64 |-> "uint",
   fixed32 |-> "fixed32", sfixed32 |-> "fixed32", fixed64 |-> "fixed64",
   sfixed64 |-> "fixed64", bool |-> "bool", string |-> "string",
   bytes |-> "bytes", enum |-> "enum", message |-> "message"]

_pbcP_type(f) ==
  [holds |-> Holds[f.type],
   repeated |-> f.label \in {LABEL_REPEATED, LABEL_PACKED},
   type |-> IF f.type = "message" THEN msg[f.pointer].key
            ELSE IF f.type = "enum" THEN enum[f.pointer].key ELSE NULL]

_pbcP_get_message(name) ==
  LET m == _pbcM_sp_query(hash, msgs, name) IN IF m = NULL THEN NULL ELSE msg[m]

pbc_type(type_name, key) ==
  LET m == _pbcP_get_message(type_name)
      f == IF m = NULL THEN NULL ELSE _pbcM_sp_query(hash, m.name, key)
  IN  IF f = NULL THEN NULL ELSE _pbcP_type(field[f])

pbc_enum_id(enum_type, enum_name) ==
  LET e == _pbcM_sp_query(hash, enums, enum_type)
      s == IF e = NULL THEN -1 ELSE SiFind(hash, enum[e].name, enum_name)
  IN  IF s = -1 THEN -1 ELSE enum[e].name[s].id

(* _pbcP_message_default                                                     *)
_pbcP_message_default(type_name, key) ==
  field[_pbcM_sp_query(hash, _pbcP_get_message(type_name).name, key)].default

-----------------------------------------------------------------------------
Catalogue == {Descriptor} \cup UNION {ToSet(q) : q \in Requests}
Registered(file) == file = Descriptor \/ Known(file.name)

RECURSIVE AllMessages(_, _)
(* The messages declared in ms, each with its full name, nested ones too.    *)
AllMessages(prefix, ms) ==
  UNION {LET name == Append(prefix, m.name)
         IN  {<<name, m>>} \cup AllMessages(name, m.nested) : m \in ToSet(ms)}

Messages(file) == AllMessages(file.package, file.message)

(* What a file declares: fields <<message, field name, declaration>> and     *)
(* enums <<name, values>>.                                                   *)
FieldsOf(file) ==
  UNION {{<<m[1], <<f.name>>, f>> : f \in ToSet(m[2].field)}
           : m \in Messages(file)}
  \cup UNION {{<<x[1], Append(m[1], x[2].name), x[2]>>
                 : x \in ToSet(m[2].extension)} : m \in Messages(file)}
  \cup {<<x[1], Append(file.package, x[2].name), x[2]>>
          : x \in ToSet(file.extension)}
EnumsOf(file) ==
  {<<Append(file.package, e.name), e.value>> : e \in ToSet(file.enum)}
  \cup UNION {{<<Append(m[1], e.name), e.value>> : e \in ToSet(m[2].enum)}
                : m \in Messages(file)}

TypeOK ==
  /\ \A i \in DOMAIN field :
       /\ field[i].id \in Int
       /\ field[i].label \in LABEL_OPTIONAL..LABEL_PACKED
       /\ field[i].type \in DOMAIN Holds
       /\ field[i].pointer \in {NULL} \cup DOMAIN msg \cup DOMAIN enum
  /\ \A p \in ToSet(_pbcM_sp_foreach(enums)) : p \in DOMAIN enum
  /\ \A p \in ToSet(_pbcM_sp_foreach(msgs)) : p \in DOMAIN msg
  /\ \A i \in DOMAIN msg :
       ToSet(_pbcM_sp_foreach(msg[i].name)) \subseteq DOMAIN field
  /\ ToSet(queue) \subseteq DOMAIN field
  /\ pc \in {"boot", "idle", "file", "work"}
  /\ at \in 1..(Len(request) + 1) /\ r \in Nat /\ rr \in 0..Len(request)

(* A file is registered only after every file it imports.                    *)
DependencyFirst ==
  \A file \in Catalogue :
    Known(file.name) => \A d \in ToSet(file.dependency) : Known(d)

(* The map of a message's fields by number, which is rebuilt now and then,   *)
(* and the one by name, which grows all the time, hold the same fields.      *)
IdAgreesName ==
  \A i \in DOMAIN msg :
    LET byname == ToSet(_pbcM_sp_foreach(msg[i].name))
        numbers == {field[p].id : p \in byname}
    IN  IF byname = {} THEN msg[i].id = NULL
        ELSE /\ \A n \in numbers :
                  LET p == _pbcM_ip_query(msg[i].id, n)
                  IN  p \in byname /\ field[p].id = n
             /\ \A n \in {field[p].id : p \in DOMAIN field} \cup 0..3 :
                  _pbcM_ip_query(msg[i].id, n) \in byname \cup {NULL}

(* When pbc_register has returned, with or without an error, every file that *)
(* is registered is wholly so: each field its messages declare or others     *)
(* extend them by is found with the declared type, whose own name is found,  *)
(* with the declared default (bytes have none), and each value of            *)
(* its enums is found by its name and by its number.                         *)
DeclaredTypeOf(f) ==
  [holds |-> Holds[f.type], repeated |-> f.packed \/ f.label = 3,
   type |-> IF f.type \in Typed THEN f.type_name ELSE NULL]

Answers ==
  pc = "idle" =>
    \A file \in {c \in Catalogue : Registered(c)} :
      /\ \A d \in FieldsOf(file) :
           /\ pbc_type(d[1], d[2]) = DeclaredTypeOf(d[3])
           /\ d[3].default # NULL /\ d[3].type # "bytes" =>
                _pbcP_message_default(d[1], d[2]) = d[3].default
      /\ \A e \in EnumsOf(file) : \A i \in DOMAIN e[2] :
           LET id == e[2][i].id
               found == _pbcM_sp_query(hash, enums, e[1])
           IN  /\ pbc_enum_id(e[1], e[2][i].pointer) = id
               /\ found # NULL
               /\ _pbcM_ip_query(enum[found].id, id) = e[2][i].pointer

(* pbc_register returns: its passes over the files end.                      *)
RegisterReturns == (pc # "idle") ~> (pc = "idle")

(* The files one by one, and the answer: see PbcFiles.                       *)
NamesOf(files0) == {f.name : f \in ToSet(files0) \ {NULL}}

Files == INSTANCE PbcFiles WITH
  known <- {f.name : f \in {c \in Catalogue : Known(c.name)}},
  asked <- NamesOf(request),
  busy <- pc \in {"file", "work"},
  answer <- result,
  Needs <- [n \in {f.name : f \in Catalogue} |->
              ToSet((CHOOSE f \in Catalogue : f.name = n).dependency)],
  Asks <- {NamesOf(q) : q \in Requests} \ {{}}

FilesSpec == Files!Spec
=============================================================================
