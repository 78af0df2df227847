---------------------------- MODULE RoomShape_proofs ----------------------------
(***************************************************************************)
(* What a table's coroutines still have to do, for any room: ShapeInv      *)
(* holds.                                                                  *)
(*                                                                         *)
(* ShapeInv says which steps a coroutine can have left beyond its next     *)
(* one, and how its next step fits the table: a status is only reported of *)
(* a player the table lists, and a player who has been reported FREE is    *)
(* taken off the table as soon as gamemgr has answered.  It also says what *)
(* the question a table has still to look at was asked for.                *)
(*                                                                         *)
(* A step of a table is one of five kinds (TableKind): Silent, which tells *)
(* gamemgr nothing of a player; Informs, which reports one; TakesAway,     *)
(* which takes one off the table; LetsIn, which lets one in; and Empties,  *)
(* which starts the table or cleans it up.  A step of gamemgr is either a  *)
(* tableevent, or it is one of a request: Requests says what that may ask  *)
(* and change.  The proofs after the kinds, and those of RoomSeats_proofs, *)
(* reason about the kinds and not about the actions.                       *)
(***************************************************************************)
EXTENDS RoomCalls_proofs

(* What is in a queue.                                                     *)
Elems(q) == {q[i] : i \in 1 .. Len(q)}

LEMMA ElemsAppend ==
  ASSUME NEW S, NEW q \in Seq(S), NEW e \in S
  PROVE  Elems(Append(q, e)) = Elems(q) \cup {e}
  <1>1. /\ Len(Append(q, e)) = Len(q) + 1 /\ Append(q, e)[Len(q) + 1] = e
        /\ \A i \in 1 .. Len(q) : Append(q, e)[i] = q[i]
    OBVIOUS
  <1>2. Len(q) \in Nat
    OBVIOUS
  <1> DEFINE a == Append(q, e)
  <1> HIDE DEF a
  <1>3. Elems(a) = Elems(q) \cup {e}
    <2>1. ASSUME NEW m \in Elems(a)
          PROVE  m \in Elems(q) \cup {e}
      <3>1. PICK i \in 1 .. Len(a) : m = a[i]
        BY DEF Elems
      <3>2. i \in 1 .. Len(q) \/ i = Len(q) + 1
        BY <1>1, <1>2 DEF a
      <3>3. QED
        BY <1>1, <3>1, <3>2 DEF a, Elems
    <2>2. e \in Elems(a)
      <3>1. Len(a) = Len(q) + 1 /\ a[Len(q) + 1] = e
        BY <1>1 DEF a
      <3>2. Len(q) + 1 \in 1 .. Len(a)
        BY <1>2, <3>1
      <3>3. QED
        BY <3>1, <3>2 DEF Elems
    <2>3. ASSUME NEW i \in 1 .. Len(q)
          PROVE  q[i] \in Elems(a)
      <3>1. i \in 1 .. Len(a) /\ a[i] = q[i]
        BY <1>1, <1>2 DEF a
      <3>2. QED
        BY <3>1 DEF Elems
    <2>4. QED
      BY <2>1, <2>2, <2>3 DEF Elems
  <1>4. QED
    BY <1>3 DEF a

LEMMA ElemsTail ==
  ASSUME NEW S, NEW q \in Seq(S), q # <<>>
  PROVE  /\ Head(q) \in Elems(q) /\ Elems(Tail(q)) \subseteq Elems(q)
         /\ Elems(q) = Elems(Tail(q)) \cup {Head(q)}
  <1>1. /\ Len(q) \in Nat \ {0} /\ Len(Tail(q)) = Len(q) - 1 /\ Head(q) = q[1]
        /\ \A i \in 1 .. (Len(q) - 1) : Tail(q)[i] = q[i + 1]
    OBVIOUS
  <1> DEFINE t == Tail(q)
             h == Head(q)
  <1>2. /\ Len(q) \in Nat \ {0} /\ Len(t) = Len(q) - 1 /\ h = q[1]
        /\ \A i \in 1 .. (Len(q) - 1) : t[i] = q[i + 1]
    BY <1>1
  <1> HIDE DEF t, h
  <1>3. h \in Elems(q)
    BY <1>2 DEF Elems
  <1>4. ASSUME NEW i \in 1 .. Len(t)
        PROVE  t[i] \in Elems(q)
    <2>1. i + 1 \in 1 .. Len(q) /\ t[i] = q[i + 1]
      BY <1>2
    <2>2. QED
      BY <2>1 DEF Elems
  <1>5. ASSUME NEW i \in 1 .. Len(q)
        PROVE  q[i] \in Elems(t) \cup {h}
    <2>1. CASE i = 1
      BY <1>2, <2>1
    <2>2. CASE i # 1
      <3>1. i - 1 \in 1 .. Len(t) /\ t[i - 1] = q[i]
        BY <1>2, <2>2
      <3>2. QED
        BY <3>1 DEF Elems
    <2>3. QED
      BY <2>1, <2>2
  <1>6. Elems(t) \subseteq Elems(q)
    BY <1>4 DEF Elems
  <1>7. Elems(q) \subseteq Elems(t) \cup {h}
    BY <1>5 DEF Elems
  <1>8. QED
    BY <1>3, <1>6, <1>7 DEF t, h

LEMMA ElemsType ==
  ASSUME NEW S, NEW q \in Seq(S)
  PROVE  Elems(q) \subseteq S /\ (q # <<>> => Elems(q) # {})
  <1>1. Len(q) \in Nat /\ (q # <<>> => Len(q) # 0) /\ \A i \in 1 .. Len(q) : q[i] \in S
    OBVIOUS
  <1>2. QED
    BY <1>1 DEF Elems

(* No message of a kind is counted where none is in the queue.             *)
LEMMA NoneIn ==
  ASSUME NEW S, NEW q \in Seq(S), NEW K
  PROVE  NumIn(q, K) = 0 <=> \A m \in Elems(q) : m \notin K
  <1>1. NumIn(q, K) = 0 <=> Positions(q, K) = {}
    BY NumInType, FS_EmptySet DEF NumIn
  <1>2. QED
    BY <1>1 DEF Positions, Elems

-----------------------------------------------------------------------------
(* Steps put in front of others.                                           *)
LEMMA ConsFacts ==
  ASSUME NEW S, NEW a \in S, NEW q \in Seq(S)
  PROVE  /\ <<a>> \o q \in Seq(S) /\ <<a>> \o q # <<>>
         /\ Head(<<a>> \o q) = a /\ Tail(<<a>> \o q) = q
         /\ Len(<<a>> \o q) = Len(q) + 1
  <1>1. /\ <<a>> \o q \in Seq(S) /\ Len(<<a>> \o q) = Len(q) + 1 /\ Len(q) \in Nat
        /\ (<<a>> \o q)[1] = a /\ \A i \in 1 .. Len(q) : (<<a>> \o q)[i + 1] = q[i]
    OBVIOUS
  <1> DEFINE k == <<a>> \o q
  <1>2. /\ k \in Seq(S) /\ Len(k) = Len(q) + 1 /\ Len(q) \in Nat
        /\ k[1] = a /\ \A i \in 1 .. Len(q) : k[i + 1] = q[i]
    BY <1>1
  <1> HIDE DEF k
  <1>3. k # <<>> /\ Head(k) = a
    BY <1>2
  <1>4. Tail(k) = q
    <2>1. Len(Tail(k)) = Len(q) /\ Tail(k) \in Seq(S)
      BY <1>2, <1>3
    <2>2. \A i \in 1 .. Len(q) : Tail(k)[i] = q[i]
      BY <1>2, <1>3
    <2>3. QED
      BY <2>1, <2>2
  <1>5. QED
    BY <1>2, <1>3, <1>4 DEF k

LEMMA ConsTwo ==
  ASSUME NEW S, NEW a \in S, NEW b \in S, NEW q \in Seq(S)
  PROVE  <<a, b>> \o q = <<a>> \o (<<b>> \o q)
  <1> DEFINE r == <<b>> \o q
             l == <<a, b>> \o q
             m == <<a>> \o r
  <1>1. /\ r \in Seq(S) /\ Len(r) = Len(q) + 1 /\ Len(q) \in Nat
        /\ r[1] = b /\ \A i \in 1 .. Len(q) : r[i + 1] = q[i]
    OBVIOUS
  <1>2. /\ l \in Seq(S) /\ Len(l) = Len(q) + 2 /\ l[1] = a /\ l[2] = b
        /\ \A i \in 1 .. Len(q) : l[i + 2] = q[i]
    OBVIOUS
  <1> HIDE DEF r, l
  <1>3. /\ m \in Seq(S) /\ Len(m) = Len(r) + 1 /\ m[1] = a
        /\ \A i \in 1 .. Len(r) : m[i + 1] = r[i]
    BY <1>1
  <1> HIDE DEF m
  <1>4. ASSUME NEW i \in 1 .. Len(l)
        PROVE  l[i] = m[i]
    <2>1. CASE i = 1
      BY <1>2, <1>3, <2>1
    <2>2. CASE i = 2
      <3>1. 1 \in 1 .. Len(r)
        BY <1>1
      <3>2. m[1 + 1] = r[1]
        BY <1>3, <3>1
      <3>3. QED
        BY <1>1, <1>2, <2>2, <3>2
    <2>3. CASE i # 1 /\ i # 2
      <3>1. i - 2 \in 1 .. Len(q) /\ i - 1 \in 1 .. Len(r)
        BY <1>1, <1>2, <2>3
      <3>2. l[i - 2 + 2] = q[i - 2] /\ r[i - 2 + 1] = q[i - 2] /\ m[i - 1 + 1] = r[i - 1]
        BY <1>1, <1>2, <1>3, <3>1
      <3>3. i - 2 + 2 = i /\ i - 2 + 1 = i - 1 /\ i - 1 + 1 = i
        BY <1>2
      <3>4. QED
        BY <3>2, <3>3
    <2>4. QED
      BY <2>1, <2>2, <2>3
  <1>5. l = m
    BY <1>1, <1>2, <1>3, <1>4
  <1>6. QED
    BY <1>5 DEF l, m, r

LEMMA ConsThree ==
  ASSUME NEW a \in Step, NEW b \in Step, NEW c \in Step, NEW q \in Seq(Step)
  PROVE  <<a, b, c>> \o q = <<a>> \o (<<b>> \o (<<c>> \o q))
  <1> DEFINE r == <<b, c>> \o q
             l == <<a, b, c>> \o q
             m == <<a>> \o r
  <1>1. /\ r \in Seq(Step) /\ Len(r) = Len(q) + 2 /\ Len(q) \in Nat
        /\ r[1] = b /\ r[2] = c /\ \A i \in 1 .. Len(q) : r[i + 2] = q[i]
    OBVIOUS
  <1>2. /\ l \in Seq(Step) /\ Len(l) = Len(q) + 3 /\ l[1] = a /\ l[2] = b /\ l[3] = c
        /\ \A i \in 1 .. Len(q) : l[i + 3] = q[i]
    OBVIOUS
  <1> HIDE DEF r, l
  <1>3. /\ m \in Seq(Step) /\ Len(m) = Len(r) + 1 /\ m[1] = a
        /\ \A i \in 1 .. Len(r) : m[i + 1] = r[i]
    BY <1>1
  <1> HIDE DEF m
  <1>4. ASSUME NEW i \in 1 .. Len(l)
        PROVE  l[i] = m[i]
    <2>1. CASE i = 1
      BY <1>2, <1>3, <2>1
    <2>2. CASE i = 2 \/ i = 3
      <3>1. 1 \in 1 .. Len(r) /\ 2 \in 1 .. Len(r)
        BY <1>1
      <3>2. m[1 + 1] = r[1] /\ m[2 + 1] = r[2]
        BY <1>3, <3>1
      <3>3. QED
        BY <1>1, <1>2, <2>2, <3>2
    <2>3. CASE i # 1 /\ i # 2 /\ i # 3
      <3>1. i - 3 \in 1 .. Len(q) /\ i - 1 \in 1 .. Len(r)
        BY <1>1, <1>2, <2>3
      <3>2. l[i - 3 + 3] = q[i - 3] /\ r[i - 3 + 2] = q[i - 3] /\ m[i - 1 + 1] = r[i - 1]
        BY <1>1, <1>2, <1>3, <3>1
      <3>3. i - 3 + 3 = i /\ i - 3 + 2 = i - 1 /\ i - 1 + 1 = i
        BY <1>2
      <3>4. QED
        BY <3>2, <3>3
    <2>4. QED
      BY <2>1, <2>2, <2>3
  <1>5. l = m
    BY <1>1, <1>2, <1>3, <1>4
  <1>6. <<b, c>> \o q = <<b>> \o (<<c>> \o q)
    BY ConsTwo
  <1>7. QED
    BY <1>5, <1>6 DEF l, m, r

LEMMA NoCons ==
  ASSUME NEW S, NEW q \in Seq(S)
  PROVE  <<>> \o q = q
  OBVIOUS

LEMMA SeqParts ==
  ASSUME NEW S, NEW q \in Seq(S), q # <<>>
  PROVE  /\ Head(q) \in S /\ Tail(q) \in Seq(S)
         /\ Len(q) \in Nat \ {0} /\ Len(Tail(q)) = Len(q) - 1
         /\ q = <<Head(q)>> \o Tail(q)
  OBVIOUS

-----------------------------------------------------------------------------
(* The request of a table makes another call before it returns, whatever   *)
(* happens meanwhile: one of its steps is a call that nothing stops it     *)
(* from coming to.                                                         *)
Calling == {"status", "tstatus"}
Surely  == {"vacate", "unwatch", "start", "seatplay", "gamestart"}

WillCall(q) ==
  \E k \in 1 .. Len(q) :
    q[k].op \in Calling /\ \A j \in 1 .. (k - 1) : q[j].op \in Surely

LEMMA CallComes ==
  ASSUME NEW q \in Seq(Step), q # <<>>, WillCall(q)
  PROVE  \/ Head(q).op \in Calling
         \/ Head(q).op \in Surely /\ WillCall(Tail(q))
  <1> DEFINE t == Tail(q)
             h == Head(q)
  <1>1. /\ Len(q) \in Nat \ {0} /\ Len(t) = Len(q) - 1 /\ h = q[1]
        /\ \A i \in 1 .. (Len(q) - 1) : t[i] = q[i + 1]
    OBVIOUS
  <1> HIDE DEF t, h
  <1>2. PICK k \in 1 .. Len(q) :
               q[k].op \in Calling /\ \A j \in 1 .. (k - 1) : q[j].op \in Surely
    BY DEF WillCall
  <1>3. CASE k = 1
    BY <1>1, <1>2, <1>3 DEF t, h
  <1>4. CASE k # 1
    <2>1. k - 1 \in 1 .. Len(t) /\ t[k - 1] = q[k] /\ 1 \in 1 .. (k - 1)
      BY <1>1, <1>4
    <2>2. ASSUME NEW j \in 1 .. (k - 1 - 1)
          PROVE  t[j].op \in Surely
      <3>1. j \in 1 .. (Len(q) - 1) /\ j + 1 \in 1 .. (k - 1)
        BY <1>1, <1>2
      <3>2. t[j] = q[j + 1]
        BY <1>1, <3>1
      <3>3. QED
        BY <1>2, <3>1, <3>2
    <2>3. WillCall(t)
      BY <1>2, <2>1, <2>2 DEF WillCall
    <2>4. h.op \in Surely
      BY <1>1, <1>2, <2>1
    <2>5. QED
      BY <2>3, <2>4 DEF t, h
  <1>5. QED
    BY <1>3, <1>4

LEMMA CallAhead ==
  ASSUME NEW a \in Step, NEW q \in Seq(Step),
         \/ a.op \in Calling
         \/ a.op \in Surely /\ WillCall(q)
  PROVE  WillCall(<<a>> \o q)
  <1> DEFINE k == <<a>> \o q
  <1>1. /\ Len(k) = Len(q) + 1 /\ Len(q) \in Nat
        /\ k[1] = a /\ \A i \in 1 .. Len(q) : k[i + 1] = q[i]
    OBVIOUS
  <1> HIDE DEF k
  <1>2. CASE a.op \in Calling
    <2>1. 1 \in 1 .. Len(k) /\ \A j \in 1 .. (1 - 1) : k[j].op \in Surely
      BY <1>1
    <2>2. k[1].op \in Calling
      BY <1>1, <1>2
    <2>3. QED
      BY <2>1, <2>2 DEF WillCall, k
  <1>3. CASE a.op \in Surely /\ WillCall(q)
    <2>1. PICK i \in 1 .. Len(q) :
                 q[i].op \in Calling /\ \A j \in 1 .. (i - 1) : q[j].op \in Surely
      BY <1>3 DEF WillCall
    <2>2. i + 1 \in 1 .. Len(k) /\ k[i + 1].op \in Calling
      BY <1>1, <2>1
    <2>3. ASSUME NEW j \in 1 .. (i + 1 - 1)
          PROVE  k[j].op \in Surely
      <3>1. CASE j = 1
        BY <1>1, <1>3, <3>1
      <3>2. CASE j # 1
        <4>1. j - 1 \in 1 .. Len(q) /\ j - 1 \in 1 .. (i - 1) /\ j - 1 + 1 = j
          BY <1>1, <2>1, <3>2
        <4>2. k[j - 1 + 1] = q[j - 1]
          BY <1>1, <4>1
        <4>3. QED
          BY <2>1, <4>1, <4>2
      <3>3. QED
        BY <3>1, <3>2
    <2>4. WillCall(k)
      BY <2>2, <2>3 DEF WillCall
    <2>5. QED
      BY <2>4 DEF k
  <1>4. QED
    BY <1>2, <1>3

LEMMA NoCallLeft == ~WillCall(<<>>)
  BY DEF WillCall

-----------------------------------------------------------------------------
(* Where a player is, for the table: on a chair or among the observers.    *)
Seated(s, u) == \E c \in Chair : tb[s].seat[c] = u
Here(s, u)   == u \in tb[s].ob \/ Seated(s, u)

(* Coroutine x is suspended in the report that u became FREE, and will     *)
(* take him off his chair, or off the observers.                           *)
LeaveOp == {"vacate", "unwatch"}
NextIs(s, x, op, u) == co[s][x] # <<>> /\ Top(s, x).op = op /\ Top(s, x).u = u

Vacates(s, x, u)   == x \in wt[s] /\ NextIs(s, x, "vacate", u)
Gives(s, x, u, c)  == Vacates(s, x, u) /\ Top(s, x).c = c
Unwatches(s, x, u) == x \in wt[s] /\ NextIs(s, x, "unwatch", u)
TakesOff(s, x, u)  == Vacates(s, x, u) \/ Unwatches(s, x, u)

(* He has just been let in: his status is about to be reported.            *)
Fresh(s, u) ==
  /\ Running(s, "R") /\ NextIs(s, "R", "status", u)
  /\ Len(co[s]["R"]) = 1 /\ Top(s, "R").st \in {"SIT", "OB"}

(* What coroutine x may have left beyond its next step.                    *)
Steady(x) == {q \in Step : /\ q.op \notin LeaveOp \cup {"status"}
                           /\ (x = "T" /\ q.op = "standup") => q.c \in Chair}

(* A status that is about to be reported is that of a player who sits on   *)
(* the chair it names, or who has just become an observer.                 *)
SitsAt(s, q) ==
  \E c \in Chair : /\ tb[s].seat[c] = q.u
                   /\ q.c = c \/ (q.c = cp[s][q.u].chair /\ q.st = "PLAYING")

Fits(s, q) == SitsAt(s, q) \/ (q.u \in tb[s].ob /\ Fresh(s, q.u) /\ q.st = "OB")

(* A player is reported FREE by step q, and taken off the table by r.      *)
Frees(s, x, q, r) ==
  /\ q.c = 0 /\ r.u = q.u /\ r.c = cp[s][q.u].chair
  /\ \/ r.op = "vacate" /\ Seated(s, q.u)
     \/ /\ r.op = "unwatch" /\ q.u \in tb[s].ob
        /\ x = "T" => Seated(s, q.u) \/ cp[s][q.u].tid # 0

Tells(k) == k # <<>> /\ Head(k).op = "tstatus"

(* The steps that only a running coroutine has next, with k after them,    *)
(* and those it only has next while it waits.                              *)
Leads(s, x, q, k) ==
  \/ q.op = "standup" /\ Seated(s, q.u) /\ k \in Seq(Steady(x))
  \/ q.op = "status" /\ q.st # "FREE" /\ Fits(s, q) /\ k \in Seq(Steady(x))
  \/ /\ q.op = "status" /\ q.st = "FREE"
     /\ k # <<>> /\ Frees(s, x, q, Head(k)) /\ Tail(k) \in Seq(Steady(x))
     /\ Head(k).op = "vacate" => Tells(Tail(k))

Follows(x, q, k) ==
  /\ k \in Seq(Steady(x))
  /\ q.op = "unwatch" \/ (q.op = "vacate" /\ Tells(k))

Rest(s, x) == Tail(co[s][x])

Shape(s, x) ==
  \/ co[s][x] \in Seq(Steady(x))
  \/ co[s][x] # <<>> /\ Running(s, x) /\ Leads(s, x, Top(s, x), Rest(s, x))
  \/ co[s][x] # <<>> /\ x \in wt[s] /\ Follows(x, Top(s, x), Rest(s, x))

(* The call a coroutine waits for before it takes a player off is the      *)
(* report that he is FREE.                                                 *)
Says(m, u) == m.k = "status" /\ m.u = u

Reports(s, x) ==
  \A u \in User : TakesOff(s, x, u) =>
    \A m \in Elems(toMgr[s]) : m \in CallsOf(x) => Says(m, u)

(* Who is at a table is at a table that has an id, and a copy that names   *)
(* no table names no chair.                                                *)
Copies(s) ==
  \A u \in User : /\ Here(s, u) => tb[s].tid # 0
                  /\ cp[s][u].tid = 0 => cp[s][u].chair = 0

(* There is a table that s runs.                                           *)
Targets(s) == \E t \in Live : gt[t] = s

(* What the question a table has still to look at was asked for.           *)
Sits(m) == m.op = "user_sitdown_ob" \/ (m.op = "user_sitdown" /\ m.tid = 0)

AskedFor(s, m) ==
  /\ Sits(m) => /\ tb[s].tid # 0 /\ m.u \in InRoom
                /\ m.op = "user_sitdown" => m.c \in Chair
  /\ m.op = "cleanup" => req.pc = "clean" /\ gt[req.t] = s
  /\ m.op = "start" => m.tid # 0 /\ m.tid = req.t /\ Starting(s)
  /\ m.op \notin {"start", "robot_standup"} => Targets(s)
  /\ req.pc = "start" => m.op = "start"
  /\ req.pc = "stand" => m.op = "user_standup" /\ m.u = req.u
  /\ req.pc = "info" => m.op = "get_table_info" /\ gt[req.t] = s
  /\ req.pc = "clean" => m.op = "cleanup"

AsksWell(s) == \A m \in Elems(toTab[s]) : m \in Asked => AskedFor(s, m)

(* What a request waits for when it goes on for a player of the room.      *)
Sitter == {"left", "try", "trychair", "start", "new", "change", "stand"}

(* A table that is open has an id, unless it is being removed, and one     *)
(* that is being started has its id or will be given it.                   *)
Open ==
  /\ req.pc \in Sitter => req.u \in InRoom
  /\ \A t \in Live : tb[gt[t]].tid # 0 \/ (req.pc = "clean" /\ req.t = t)
  /\ req.pc = "start" =>
       tb[req.svc].tid # 0 \/ \E m \in Elems(toTab[req.svc]) : m \in Asked

TableShape(s) ==
  /\ \A x \in Coroutine : Shape(s, x) /\ Reports(s, x)
  /\ Copies(s) /\ AsksWell(s)

ShapeInv == Open /\ \A s \in Service : TableShape(s)

-----------------------------------------------------------------------------
(* What a step of coroutine x of s leaves as it was.  Another coroutine    *)
(* may at most be made to miss a chair by the traversal it is in.          *)
Word(r) == [st |-> r.st, tid |-> r.tid, chair |-> r.chair]

Missed(k, l) ==
  /\ k # <<>> /\ Head(k).op \in SeatLoop
  /\ \E c \in Chair : l = <<Again(Head(k), c)>> \o Tail(k)

Untouched(s, x) ==
  /\ \A r \in Service, y \in Coroutine :
       (r # s \/ y # x) => co'[r][y] = co[r][y] \/ Missed(co[r][y], co'[r][y])
  /\ \A r \in Service \ {s} : tb'[r] = tb[r] /\ cp'[r] = cp[r] /\ res'[r] = res[r]

SamePlaces(s) ==
  tb'[s].seat = tb[s].seat /\ tb'[s].ob = tb[s].ob /\ tb'[s].tid = tb[s].tid

SameWords(s) == \A u \in User : Word(cp'[s][u]) = Word(cp[s][u])

NoStatusSent(s) ==
  \/ toMgr'[s] = toMgr[s]
  \/ \E m \in MgrMsg : m.k # "status" /\ toMgr'[s] = Append(toMgr[s], m)

(* A call that was to come has been made, or is still to come.             *)
CallStays(s) ==
  WillCall(co[s]["R"]) =>
    WillCall(co'[s]["R"]) \/ \E m \in CallsOf("R") : toMgr'[s] = Append(toMgr[s], m)

NextShape(s, x) ==
  \/ co'[s][x] \in Seq(Steady(x))
  \/ co'[s][x] # <<>> /\ Running(s, x)' /\ Leads(s, x, Top(s, x), Rest(s, x))'

(* A step that neither tells of a player nor takes one off: everybody is   *)
(* where he was, and the copies say the same.                              *)
Silent(s, x) ==
  /\ Untouched(s, x) /\ SamePlaces(s) /\ SameWords(s)
  /\ NoStatusSent(s) /\ CallStays(s) /\ NextShape(s, x)
  /\ \A q \in Elems(co[s][x]) : q.op \notin LeaveOp \cup {"status"}

(* A running step that puts one in front which only it may have.           *)
Opens(s, q) ==
  \/ q.op = "standup" /\ Seated(s, q.u)
  \/ q.op = "status" /\ q.st # "FREE" /\ SitsAt(s, q)

-----------------------------------------------------------------------------
LEMMA CoroutineNames == "R" \in Coroutine /\ "T" \in Coroutine /\ "R" # "T"
  BY DEF Coroutine

LEMMA SteadySteps ==
  ASSUME NEW x
  PROVE  /\ Steady(x) \subseteq Step /\ Seq(Steady(x)) \subseteq Seq(Step)
         /\ <<>> \in Seq(Steady(x))
         /\ \A q \in Steady(x) : <<q>> \in Seq(Steady(x))
         /\ \A q, r \in Steady(x) : <<q, r>> \in Seq(Steady(x))
         /\ \A q, r, w \in Steady(x) : <<q, r, w>> \in Seq(Steady(x))
  <1>1. Steady(x) \subseteq Step
    BY DEF Steady
  <1> HIDE DEF Steady
  <1>2. QED
    BY <1>1

(* The steps a coroutine adds to those it has left.                        *)
LEMMA SteadyKinds ==
  ASSUME NEW x
  PROVE  /\ \A op \in TableStep : Do(op) \in Steady(x)
         /\ \A op \in TableStep, c \in 0 .. MaxChair : DoFor(op, None, c) \in Steady(x)
         /\ \A op \in TableStep, seen \in SUBSET (0 .. MaxChair) :
              Loop(op, seen) \in Steady(x)
         /\ \A q \in Step : q.op \in TableStep =>
              \A c \in 0 .. MaxChair : Again(q, c) \in Steady(x)
         /\ \A u \in User, c \in Chair : DoFor("standup", u, c) \in Steady(x)
         /\ \A u \in User, c \in 0 .. MaxChair : DoFor("standup", u, c) \in Steady("R")
  <1>1. \A op \in TableStep : op \notin LeaveOp \cup {"status", "standup"}
    BY DEF TableStep, LeaveOp
  <1>2. Chair \subseteq 0 .. MaxChair /\ "standup" \in UserStep
    BY RoomAssumption DEF Chair, UserStep
  <1>3. /\ \A op : Do(op).op = op
        /\ \A op, u, c : DoFor(op, u, c).op = op /\ DoFor(op, u, c).c = c
        /\ \A op, seen : Loop(op, seen).op = op
        /\ \A q, c : Again(q, c).op = q.op
    BY DEF Do, DoFor, Loop, Again, StepOf
  <1>4. /\ \A op \in TableStep : Do(op) \in Step
        /\ \A op \in TableStep, c \in 0 .. MaxChair : DoFor(op, None, c) \in Step
        /\ \A op \in TableStep, seen \in SUBSET (0 .. MaxChair) : Loop(op, seen) \in Step
        /\ \A u \in User, c \in 0 .. MaxChair : DoFor("standup", u, c) \in Step
    BY <1>2, DoType
  <1>5. \A q \in Step : q.op \in TableStep =>
          \A c \in 0 .. MaxChair : Again(q, c) \in Step
    BY AgainType
  <1>6. ASSUME NEW u \in User, NEW c \in 0 .. MaxChair
        PROVE  DoFor("standup", u, c) \in Steady("R")
    BY <1>3, <1>4 DEF Steady, LeaveOp
  <1>7. ASSUME NEW u \in User, NEW c \in Chair
        PROVE  DoFor("standup", u, c) \in Steady(x)
    BY <1>2, <1>3, <1>4 DEF Steady, LeaveOp
  <1>8. \A q \in Step : q.op \in TableStep => q \in Steady(x)
    BY <1>1 DEF Steady
  <1>9. QED
    BY <1>3, <1>4, <1>5, <1>6, <1>7, <1>8

(* What is known of a step that is about to be done.                       *)
LEMMA AtShape ==
  ASSUME TabTypeOK, Waits, NEW s \in Service, NEW x \in Coroutine, NEW op,
         At(s, x, op), Shape(s, x)
  PROVE  /\ op \notin {"status"} \cup LeaveOp =>
              /\ Rest(s, x) \in Seq(Steady(x))
              /\ \A q \in Elems(co[s][x]) : q.op \notin LeaveOp \cup {"status"}
         /\ op = "standup" /\ x = "T" => Top(s, x).c \in Chair \/ Seated(s, Top(s, x).u)
         /\ op = "status" => Running(s, x) /\ Leads(s, x, Top(s, x), Rest(s, x))
         /\ op \in LeaveOp => /\ x \in wt[s] /\ cur = Idle /\ Answered(s, x)
                              /\ Follows(x, Top(s, x), Rest(s, x))
  <1>1. /\ Running(s, x) \/ Answered(s, x)
        /\ co[s][x] # <<>> /\ co[s][x] \in Seq(Step)
        /\ Top(s, x) \in Step /\ Top(s, x).op = op
    BY AtFacts
  <1>2. /\ Running(s, x) => x \notin wt[s]
        /\ Answered(s, x) => cur = Idle
        /\ Running(s, x) => cur # Idle
    BY WhoRuns DEF Waits, Answered, Running
  <1>3. co[s][x] \in Seq(Steady(x)) =>
           Top(s, x) \in Steady(x) /\ Rest(s, x) \in Seq(Steady(x))
    BY <1>1, SeqParts DEF Top, Rest
  <1>4. Elems(co[s][x]) = Elems(Rest(s, x)) \cup {Top(s, x)}
    BY <1>1, ElemsTail DEF Top, Rest
  <1>5. Rest(s, x) \in Seq(Steady(x)) => Elems(Rest(s, x)) \subseteq Steady(x)
    BY ElemsType
  <1> HIDE DEF Elems, Top, Rest
  <1>6. op \notin {"status"} \cup LeaveOp => Rest(s, x) \in Seq(Steady(x))
    BY <1>1, <1>3 DEF Shape, Leads, Follows, LeaveOp
  <1>7. op \notin {"status"} \cup LeaveOp =>
          \A q \in Elems(co[s][x]) : q.op \notin LeaveOp \cup {"status"}
    BY <1>1, <1>4, <1>5, <1>6 DEF Steady
  <1>8. op = "standup" /\ x = "T" => Top(s, x).c \in Chair \/ Seated(s, Top(s, x).u)
    BY <1>1, <1>3 DEF Shape, Leads, Follows, Steady
  <1>9. op = "status" => Running(s, x) /\ Leads(s, x, Top(s, x), Rest(s, x))
    BY <1>1, <1>3 DEF Shape, Follows, Steady
  <1>10. op \in LeaveOp => x \in wt[s] /\ Follows(x, Top(s, x), Rest(s, x))
    BY <1>1, <1>3 DEF Shape, Leads, Steady, LeaveOp
  <1>11. op \in LeaveOp => cur = Idle /\ Answered(s, x)
    BY <1>1, <1>2, <1>10
  <1>12. QED
    BY <1>6, <1>7, <1>8, <1>9, <1>10, <1>11

-----------------------------------------------------------------------------
(* The three ways a step is done, seen by what it leaves as it was.        *)

(* Every other coroutine has the steps it had.                             *)
SameCo(s, x) ==
  \A r \in Service, y \in Coroutine : (r # s \/ y # x) => co'[r][y] = co[r][y]

LEMMA ContinuesCo ==
  ASSUME ChanTypeOK, TabTypeOK, NEW s \in Service, NEW x \in Coroutine, NEW left,
         Continues(s, x, left)
  PROVE  /\ co'[s][x] = left /\ SameCo(s, x)
         /\ left = <<>> \/ Running(s, x)'
         /\ NoStatusSent(s)
  <1>1. co'[s][x] = left /\ SameCo(s, x)
    <2>1. co' = [co EXCEPT ![s][x] = left]
      BY DEF Continues
    <2>2. QED
      BY <2>1 DEF TabTypeOK, SameCo
  <1>2. left = <<>> \/ Running(s, x)'
    BY DEF Continues, Running
  <1>3. NoStatusSent(s)
    <2> DEFINE m == Return(TRUE, IF res'[s] THEN 1 ELSE 0)
    <2>1. m \in Returned /\ m.k # "status"
      BY MessageKinds DEF Returned
    <2>2. m \in MgrMsg
      BY <2>1 DEF Returned
    <2> HIDE DEF m
    <2>3. toMgr' = toMgr \/ toMgr' = [toMgr EXCEPT ![s] = Append(@, m)]
      BY DEF Continues, m
    <2>4. toMgr'[s] = toMgr[s] \/ toMgr'[s] = Append(toMgr[s], m)
      BY <2>3 DEF ChanTypeOK
    <2>5. QED
      BY <2>1, <2>2, <2>4 DEF NoStatusSent
  <1>4. QED
    BY <1>1, <1>2, <1>3

LEMMA ThenCo ==
  ASSUME ChanTypeOK, TabTypeOK, NEW s \in Service, NEW x \in Coroutine, NEW steps,
         Then(s, x, steps)
  PROVE  /\ co'[s][x] = steps \o Rest(s, x) /\ SameCo(s, x) /\ res' = res
         /\ co'[s][x] = <<>> \/ Running(s, x)'
         /\ NoStatusSent(s)
  <1>1. res' = res /\ Continues(s, x, steps \o Rest(s, x))
    BY DEF Then, Rest
  <1>2. QED
    BY <1>1, ContinuesCo

LEMMA CallCo ==
  ASSUME ChanTypeOK, TabTypeOK, NEW s \in Service, NEW x \in Coroutine, NEW ev, NEW steps,
         CallMgr(s, x, ev, steps)
  PROVE  /\ co'[s][x] = steps \o Rest(s, x) /\ SameCo(s, x) /\ res' = res
         /\ toMgr'[s] = Append(toMgr[s], ev) /\ x \in wt'[s]
  <1>1. /\ co' = [co EXCEPT ![s][x] = steps \o Tail(@)] /\ res' = res
        /\ toMgr' = [toMgr EXCEPT ![s] = Append(@, ev)]
        /\ wt' = [wt EXCEPT ![s] = @ \cup {x}]
    BY DEF CallMgr
  <1>2. co'[s][x] = steps \o Rest(s, x) /\ SameCo(s, x)
    BY <1>1 DEF TabTypeOK, SameCo, Rest
  <1>3. toMgr'[s] = Append(toMgr[s], ev) /\ x \in wt'[s]
    BY <1>1 DEF TabTypeOK, ChanTypeOK
  <1>4. QED
    BY <1>1, <1>2, <1>3

LEMMA CrashCo ==
  ASSUME ChanTypeOK, TabTypeOK, NEW s \in Service, NEW x \in Coroutine, Crash(s, x)
  PROVE  /\ co'[s][x] = <<>> /\ SameCo(s, x) /\ res' = res /\ NoStatusSent(s)
         /\ SamePlaces(s) /\ cp' = cp /\ \A r \in Service \ {s} : tb'[r] = tb[r]
  <1>1. /\ co' = [co EXCEPT ![s][x] = <<>>] /\ res' = res /\ cp' = cp
        /\ \/ toMgr' = [toMgr EXCEPT ![s] = Append(@, Return(FALSE, 0))]
           \/ toMgr' = toMgr
        /\ tb' = [tb EXCEPT ![s].alive = FALSE] \/ tb' = tb
    BY DEF Crash
  <1>2. co'[s][x] = <<>> /\ SameCo(s, x)
    BY <1>1 DEF TabTypeOK, SameCo
  <1>3. Return(FALSE, 0) \in MgrMsg /\ Return(FALSE, 0).k # "status"
    BY MessageKinds DEF Returned
  <1>4. NoStatusSent(s)
    <2>1. toMgr'[s] = toMgr[s] \/ toMgr'[s] = Append(toMgr[s], Return(FALSE, 0))
      BY <1>1 DEF ChanTypeOK
    <2>2. QED
      BY <1>3, <2>1 DEF NoStatusSent
  <1>5. SamePlaces(s) /\ \A r \in Service \ {s} : tb'[r] = tb[r]
    BY <1>1 DEF TabTypeOK, TableState, SamePlaces
  <1>6. QED
    BY <1>1, <1>2, <1>4, <1>5

(* Nothing else of another table changes, and nobody's place or word here. *)
Framed(s) ==
  /\ SamePlaces(s) /\ SameWords(s)
  /\ \A r \in Service \ {s} : tb'[r] = tb[r] /\ cp'[r] = cp[r]

LEMMA FramedUntouched ==
  ASSUME NEW s \in Service, NEW x \in Coroutine, Framed(s), SameCo(s, x),
         \A r \in Service \ {s} : res'[r] = res[r]
  PROVE  Untouched(s, x)
  BY DEF Framed, SameCo, Untouched

LEMMA SameFramed ==
  ASSUME NEW s \in Service, UNCHANGED <<tb, cp>>
  PROVE  Framed(s)
  BY DEF Framed, SamePlaces, SameWords

(* A step that is not one of those that surely go on to a call, nor a call *)
(* itself, has no call promised.                                           *)
LEMMA NoPromise ==
  ASSUME NEW s \in Service, NEW x \in Coroutine, TabTypeOK, SameCo(s, x),
         x = "R" => ~WillCall(co[s][x])
  PROVE  CallStays(s)
  BY CoroutineNames DEF CallStays, SameCo

LEMMA NoPromiseAt ==
  ASSUME TabTypeOK, NEW s \in Service, NEW x \in Coroutine, NEW op, At(s, x, op),
         op \notin Calling \cup Surely
  PROVE  ~WillCall(co[s][x])
  <1>1. co[s][x] # <<>> /\ co[s][x] \in Seq(Step) /\ Head(co[s][x]).op = op
    BY AtFacts DEF Top
  <1>2. QED
    BY <1>1, CallComes

(* What the steps of a coroutine may look like when it runs on.            *)
LEMMA OpensLeads ==
  ASSUME NEW s \in Service, NEW x \in Coroutine, Framed(s), NEW q, q.u \in User,
         Opens(s, q), NEW k \in Seq(Steady(x))
  PROVE  Leads(s, x, q, k)'
  <1>1. Word(cp'[s][q.u]) = Word(cp[s][q.u])
    BY DEF Framed, SameWords
  <1>2. cp'[s][q.u].chair = cp[s][q.u].chair /\ tb'[s].seat = tb[s].seat
    BY <1>1 DEF Word, Framed, SamePlaces
  <1>3. CASE q.op = "standup" /\ Seated(s, q.u)
    BY <1>2, <1>3 DEF Leads, Seated
  <1>4. CASE q.op = "status" /\ q.st # "FREE" /\ SitsAt(s, q)
    <2>1. SitsAt(s, q)'
      BY <1>2, <1>4 DEF SitsAt
    <2>2. QED
      BY <1>4, <2>1 DEF Leads, Fits
  <1>5. QED
    BY <1>3, <1>4 DEF Opens

LEMMA ThenSilent ==
  ASSUME ChanTypeOK, TabTypeOK, Waits, NEW s \in Service, NEW x \in Coroutine, NEW op,
         op \notin {"status"} \cup LeaveOp, At(s, x, op), Shape(s, x), Framed(s),
         NEW steps, Then(s, x, steps),
         \/ steps \in Seq(Steady(x))
         \/ \E q \in Step, k \in Seq(Steady(x)) :
              steps = <<q>> \o k /\ q.u \in User /\ Opens(s, q),
         WillCall(co[s][x]) => WillCall(steps \o Rest(s, x))
  PROVE  Silent(s, x) /\ res' = res
  <1>1. /\ co'[s][x] = steps \o Rest(s, x) /\ SameCo(s, x) /\ res' = res
        /\ (co'[s][x] = <<>> \/ Running(s, x)') /\ NoStatusSent(s)
    BY ThenCo
  <1>2. /\ Rest(s, x) \in Seq(Steady(x))
        /\ \A q \in Elems(co[s][x]) : q.op \notin LeaveOp \cup {"status"}
    BY AtShape
  <1>3. NextShape(s, x)
    <2> HIDE DEF Steady
    <2>1. CASE steps \in Seq(Steady(x))
      BY <1>1, <1>2, <2>1 DEF NextShape
    <2>2. ASSUME NEW q \in Step, NEW k \in Seq(Steady(x)),
                 steps = <<q>> \o k, q.u \in User, Opens(s, q)
          PROVE  NextShape(s, x)
      <3>0. k \o Rest(s, x) \in Seq(Steady(x))
        BY <1>2
      <3>1. PICK l \in Seq(Steady(x)) : l = k \o Rest(s, x)
        BY <3>0, Zenon
      <3>2. /\ Rest(s, x) \in Seq(Step) /\ k \in Seq(Step) /\ l \in Seq(Step)
            /\ co'[s][x] = <<q>> \o l
        BY <1>1, <1>2, <2>2, <3>1, SteadySteps
      <3>3. co'[s][x] # <<>> /\ Head(co'[s][x]) = q /\ Tail(co'[s][x]) = l
        BY <3>2, ConsFacts
      <3>4. Leads(s, x, q, l)'
        BY <2>2, OpensLeads
      <3>5. Top(s, x)' = q /\ Rest(s, x)' = l
        BY <3>3 DEF Top, Rest
      <3>6. Leads(s, x, Top(s, x), Rest(s, x))'
        BY <3>4, <3>5 DEF Leads
      <3>7. QED
        BY <1>1, <3>3, <3>6 DEF NextShape
    <2>3. QED
      BY <2>1, <2>2
  <1>4. CallStays(s)
    <2>1. CASE x = "R"
      BY <1>1, <2>1 DEF CallStays
    <2>2. CASE x # "R"
      BY <1>1, <2>2, NoPromise
    <2>3. QED
      BY <2>1, <2>2
  <1>5. Untouched(s, x)
    BY <1>1, FramedUntouched
  <1>6. QED
    BY <1>1, <1>2, <1>3, <1>4, <1>5 DEF Silent, Framed

LEMMA CallSilent ==
  ASSUME ChanTypeOK, TabTypeOK, Waits, NEW s \in Service, NEW x \in Coroutine, NEW op,
         op \notin {"status"} \cup LeaveOp, At(s, x, op), Shape(s, x), Framed(s),
         NEW ev \in CallsOf(x), ev.k # "status", NEW steps \in Seq(Steady(x)),
         CallMgr(s, x, ev, steps)
  PROVE  Silent(s, x) /\ res' = res
  <1>1. /\ co'[s][x] = steps \o Rest(s, x) /\ SameCo(s, x) /\ res' = res
        /\ toMgr'[s] = Append(toMgr[s], ev)
    BY CallCo
  <1>2. /\ Rest(s, x) \in Seq(Steady(x))
        /\ \A q \in Elems(co[s][x]) : q.op \notin LeaveOp \cup {"status"}
    BY AtShape
  <1>3. NextShape(s, x)
    BY <1>1, <1>2 DEF NextShape
  <1>4. NoStatusSent(s)
    <2>1. ev \in MgrMsg
      BY DEF CallsOf
    <2>2. QED
      BY <1>1, <2>1 DEF NoStatusSent
  <1>5. CallStays(s)
    <2>1. CASE x = "R"
      BY <1>1, <2>1 DEF CallStays
    <2>2. CASE x # "R"
      BY <1>1, <2>2, NoPromise
    <2>3. QED
      BY <2>1, <2>2
  <1>6. Untouched(s, x)
    BY <1>1, FramedUntouched
  <1>7. QED
    BY <1>1, <1>2, <1>3, <1>4, <1>5, <1>6 DEF Silent, Framed

LEMMA CrashSilent ==
  ASSUME ChanTypeOK, TabTypeOK, Waits, NEW s \in Service, NEW x \in Coroutine, NEW op,
         op \notin {"status"} \cup LeaveOp \cup Calling \cup Surely,
         At(s, x, op), Shape(s, x), Crash(s, x)
  PROVE  Silent(s, x) /\ res' = res
  <1>1. /\ co'[s][x] = <<>> /\ SameCo(s, x) /\ res' = res /\ NoStatusSent(s)
        /\ SamePlaces(s) /\ cp' = cp /\ \A r \in Service \ {s} : tb'[r] = tb[r]
    BY CrashCo
  <1>2. Framed(s)
    BY <1>1 DEF Framed, SameWords
  <1>3. NextShape(s, x)
    BY <1>1, SteadySteps DEF NextShape
  <1>4. \A q \in Elems(co[s][x]) : q.op \notin LeaveOp \cup {"status"}
    BY AtShape
  <1>5. CallStays(s)
    BY <1>1, NoPromise, NoPromiseAt
  <1>6. Untouched(s, x)
    BY <1>1, <1>2, FramedUntouched
  <1>7. QED
    BY <1>1, <1>2, <1>3, <1>4, <1>5, <1>6 DEF Silent, Framed

-----------------------------------------------------------------------------
(* The steps that neither report a player nor take one off.                *)
Other == {"standup", "gameend", "write", "endgame", "detail", "record", "clearrecs",
          "sitagain", "reset", "late", "rmtimer", "ready"}

LEMMA OtherOps ==
  \A op \in Other : op \notin {"status"} \cup LeaveOp \cup Calling \cup Surely
  BY DEF Other, LeaveOp, Calling, Surely

LEMMA OtherThen ==
  ASSUME ChanTypeOK, TabTypeOK, Waits, NEW s \in Service, NEW x \in Coroutine,
         NEW op \in Other, At(s, x, op), Shape(s, x), Framed(s),
         NEW steps, Then(s, x, steps),
         \/ steps \in Seq(Steady(x))
         \/ \E q \in Step, k \in Seq(Steady(x)) :
              steps = <<q>> \o k /\ q.u \in User /\ Opens(s, q)
  PROVE  Silent(s, x) /\ res' = res
  <1>1. op \notin {"status"} \cup LeaveOp /\ op \notin Calling \cup Surely
    BY OtherOps
  <1>2. ~WillCall(co[s][x])
    BY <1>1, NoPromiseAt
  <1>3. QED
    BY <1>1, <1>2, ThenSilent

(* The steps that surely go on to a call keep the promise.                 *)
LEMMA SurelyThen ==
  ASSUME ChanTypeOK, TabTypeOK, Waits, NEW s \in Service, NEW x \in Coroutine,
         NEW op \in {"start", "seatplay", "gamestart"}, At(s, x, op), Shape(s, x), Framed(s),
         NEW steps, Then(s, x, steps),
         \/ steps \in Seq(Steady(x))
         \/ \E q \in Step, k \in Seq(Steady(x)) :
              steps = <<q>> \o k /\ q.u \in User /\ Opens(s, q),
         \A k \in Seq(Step) : WillCall(k) => WillCall(steps \o k)
  PROVE  Silent(s, x) /\ res' = res
  <1>1. op \notin {"status"} \cup LeaveOp /\ op \notin Calling
    BY DEF LeaveOp, Calling
  <1>2. /\ co[s][x] # <<>> /\ co[s][x] \in Seq(Step) /\ Head(co[s][x]).op = op
        /\ Rest(s, x) \in Seq(Step) /\ Rest(s, x) = Tail(co[s][x])
    BY AtFacts DEF Top, Rest
  <1>3. WillCall(co[s][x]) => WillCall(Rest(s, x))
    BY <1>1, <1>2, CallComes
  <1>4. WillCall(co[s][x]) => WillCall(steps \o Rest(s, x))
    BY <1>2, <1>3
  <1>5. QED
    BY <1>1, <1>4, ThenSilent

LEMMA PromiseKinds ==
  /\ \A k \in Seq(Step) : WillCall(k) => WillCall(<<>> \o k)
  /\ \A a \in Step, k \in Seq(Step) :
       a.op \in Surely /\ WillCall(k) => WillCall(<<a>> \o k)
  /\ \A a, b \in Step, k \in Seq(Step) :
       a.op \in Calling => WillCall(<<a, b>> \o k)
  /\ \A a, b, c \in Step, k \in Seq(Step) :
       a.op \in Surely /\ b.op \in Calling => WillCall(<<a, b, c>> \o k)
  <1>1. \A k \in Seq(Step) : WillCall(k) => WillCall(<<>> \o k)
    BY NoCons
  <1>2. \A a \in Step, k \in Seq(Step) :
          a.op \in Surely /\ WillCall(k) => WillCall(<<a>> \o k)
    BY CallAhead
  <1>3. ASSUME NEW a \in Step, NEW b \in Step, NEW k \in Seq(Step), a.op \in Calling
        PROVE  WillCall(<<a, b>> \o k)
    <2>1. <<b>> \o k \in Seq(Step) /\ <<a, b>> \o k = <<a>> \o (<<b>> \o k)
      BY ConsTwo, ConsFacts
    <2>2. QED
      BY <1>3, <2>1, CallAhead
  <1>4. ASSUME NEW a \in Step, NEW b \in Step, NEW c \in Step, NEW k \in Seq(Step),
               a.op \in Surely, b.op \in Calling
        PROVE  WillCall(<<a, b, c>> \o k)
    <2> DEFINE l == <<c>> \o k
               m == <<b>> \o l
    <2>1. l \in Seq(Step)
      BY ConsFacts
    <2>2. <<a, b, c>> \o k = <<a>> \o m
      BY ConsThree, Zenon
    <2> HIDE DEF l
    <2>3. m \in Seq(Step)
      BY <2>1, ConsFacts
    <2>4. WillCall(m)
      BY <1>4, <2>1, CallAhead
    <2> HIDE DEF m
    <2>5. QED
      BY <1>4, <2>2, <2>3, <2>4, CallAhead
  <1>5. QED
    BY <1>1, <1>2, <1>3, <1>4

(* A report of a player on his chair may come first.                       *)
LEMMA OpensFirst ==
  ASSUME NEW s \in Service, NEW x, NEW c \in Occupied(tb[s].seat), TabTypeOK,
         NEW st \in Status, st # "FREE"
  PROVE  LET q == SetStatus(tb[s].seat[c], st, c) IN
         /\ q \in Step /\ q.u \in User /\ q.op = "status" /\ Opens(s, q)
         /\ <<q>> = <<q>> \o <<>>
         /\ \A r \in Steady(x) : <<q, r>> = <<q>> \o <<r>>
  <1> DEFINE q == SetStatus(tb[s].seat[c], st, c)
  <1>1. c \in Chair /\ c \in 0 .. MaxChair /\ tb[s].seat[c] \in User
    BY SeatType
  <1>2. q \in Step /\ q.op = "status" /\ q.u = tb[s].seat[c] /\ q.c = c /\ q.st = st
    BY <1>1, DoType DEF SetStatus, StepOf
  <1> HIDE DEF q
  <1>3. Opens(s, q)
    BY <1>1, <1>2 DEF Opens, SitsAt
  <1>4. <<q>> = <<q>> \o <<>> /\ \A r \in Steady(x) : <<q, r>> = <<q>> \o <<r>>
    OBVIOUS
  <1>5. QED
    BY <1>1, <1>2, <1>3, <1>4 DEF q

-----------------------------------------------------------------------------
(* Each of these steps.                                                    *)
LEMMA UpdateTableStatusSilent ==
  ASSUME ChanTypeOK, TabTypeOK, Waits, NEW s \in Service, NEW x \in Coroutine,
         Shape(s, x), update_table_status(s, x)
  PROVE  Silent(s, x) /\ res' = res
  <1> DEFINE ev == TableEvent(x, tb[s].tid, tb[s].started, Cardinality(Occupied(tb[s].seat)))
  <1>1. At(s, x, "tstatus") /\ CallMgr(s, x, ev, <<>>) /\ UNCHANGED <<tb, cp>>
    BY DEF update_table_status
  <1>2. ev \in CallsOf(x)
    BY CountType, MessageKinds DEF TabTypeOK, TableState
  <1>3. ev.k # "status"
    BY DEF TableEvent
  <1> HIDE DEF ev
  <1>4. "tstatus" \notin {"status"} \cup LeaveOp
    BY DEF LeaveOp
  <1>5. QED
    BY <1>1, <1>2, <1>3, <1>4, SameFramed, SteadySteps, CallSilent

LEMMA StartGameSilent ==
  ASSUME ChanTypeOK, TabTypeOK, Waits, NEW s \in Service, NEW x \in Coroutine,
         Shape(s, x), start_game(s, x)
  PROVE  Silent(s, x) /\ res' = res
  <1> DEFINE a == Loop("seatplay", {})
             b == Do("tstatus")
             c == Do("gamestart")
  <1>1. /\ At(s, x, "start") /\ cp' = cp
        /\ tb' = [tb EXCEPT ![s].started = TRUE]
        /\ Then(s, x, <<>>) \/ Then(s, x, <<a, b, c>>)
    BY DEF start_game
  <1>2. Framed(s)
    BY <1>1 DEF TabTypeOK, TableState, Framed, SamePlaces, SameWords
  <1>3. /\ a \in Steady(x) /\ b \in Steady(x) /\ c \in Steady(x)
        /\ a.op \in Surely /\ b.op \in Calling
    BY SteadyKinds DEF TableStep, Surely, Calling, Loop, Do, StepOf
  <1> HIDE DEF a, b, c
  <1>4. /\ <<>> \in Seq(Steady(x)) /\ <<a, b, c>> \in Seq(Steady(x))
        /\ a \in Step /\ b \in Step /\ c \in Step
    BY <1>3, SteadySteps
  <1>5. \A k \in Seq(Step) : WillCall(k) => WillCall(<<a, b, c>> \o k)
    BY <1>3, <1>4, PromiseKinds
  <1>6. QED
    BY <1>1, <1>2, <1>4, <1>5, PromiseKinds, SurelyThen

LEMMA StartGameSeatSilent ==
  ASSUME ChanTypeOK, TabTypeOK, Waits, NEW s \in Service, NEW x \in Coroutine,
         Shape(s, x), start_game_seat(s, x)
  PROVE  Silent(s, x) /\ res' = res
  <1> DEFINE q == Top(s, x)
  <1>1. At(s, x, "seatplay") /\ Framed(s)
    BY SameFramed DEF start_game_seat
  <1>2. q \in Step /\ q.op = "seatplay"
    BY <1>1, AtFacts
  <1>3. CASE Then(s, x, <<>>)
    BY <1>1, <1>3, SteadySteps, PromiseKinds, SurelyThen
  <1>4. ASSUME NEW c \in ToVisit(s, q)
        PROVE  /\ c \in Occupied(tb[s].seat) /\ c \in 0 .. MaxChair
               /\ Again(q, c) \in Steady(x) /\ Again(q, c).op \in Surely
    <2>1. c \in Occupied(tb[s].seat) /\ c \in 0 .. MaxChair
      BY <1>4, SeatType DEF ToVisit
    <2>2. q.op \in TableStep /\ q.op \in Surely
      BY <1>2 DEF TableStep, Surely
    <2>3. Again(q, c).op = q.op
      BY DEF Again, Loop, StepOf
    <2>4. QED
      BY <1>2, <2>1, <2>2, <2>3, SteadyKinds
  <1>5. ASSUME NEW c \in ToVisit(s, q), Then(s, x, <<Again(q, c)>>)
        PROVE  Silent(s, x) /\ res' = res
    <2>1. PICK r \in Steady(x) : r = Again(q, c) /\ r.op \in Surely
      BY <1>4
    <2>2. <<r>> \in Seq(Steady(x)) /\ r \in Step /\ Then(s, x, <<r>>)
      BY <1>5, <2>1, SteadySteps
    <2>3. \A k \in Seq(Step) : WillCall(k) => WillCall(<<r>> \o k)
      BY <2>1, <2>2, PromiseKinds
    <2>4. QED
      BY <1>1, <2>2, <2>3, SurelyThen
  <1>6. ASSUME NEW c \in ToVisit(s, q),
               Then(s, x, <<SetStatus(tb[s].seat[c], "PLAYING", c), Again(q, c)>>)
        PROVE  Silent(s, x) /\ res' = res
    <2>1. PICK r \in Steady(x) : r = Again(q, c)
      BY <1>4
    <2>2. PICK a \in Step : /\ a = SetStatus(tb[s].seat[c], "PLAYING", c)
                            /\ a.u \in User /\ a.op = "status" /\ Opens(s, a)
                            /\ <<a, r>> = <<a>> \o <<r>>
      BY <1>4, OpensFirst DEF Status
    <2>3. <<r>> \in Seq(Steady(x)) /\ r \in Step /\ Then(s, x, <<a, r>>)
      BY <1>6, <2>1, <2>2, SteadySteps
    <2>4. \A k \in Seq(Step) : WillCall(k) => WillCall(<<a, r>> \o k)
      BY <2>2, <2>3, PromiseKinds DEF Calling
    <2>5. QED
      BY <1>1, <2>2, <2>3, <2>4, SurelyThen
  <1>7. QED
    BY <1>3, <1>5, <1>6, Zenon DEF start_game_seat

LEMMA OnGameStartSilent ==
  ASSUME ChanTypeOK, TabTypeOK, Waits, NEW s \in Service, NEW x \in Coroutine,
         Shape(s, x), on_game_start(s, x)
  PROVE  Silent(s, x) /\ res' = res
  <1>1. /\ At(s, x, "gamestart") /\ Then(s, x, <<>>) /\ cp' = cp
        /\ tb' = [tb EXCEPT ![s].rtimer = FALSE, ![s].gstat = "CALL",
                            ![s].playing = @ \cup Occupied(tb[s].seat)]
    BY DEF on_game_start
  <1>2. Framed(s)
    BY <1>1 DEF TabTypeOK, TableState, Framed, SamePlaces, SameWords
  <1>3. QED
    BY <1>1, <1>2, SteadySteps, PromiseKinds, SurelyThen

LEMMA GameEndSilent ==
  ASSUME ChanTypeOK, TabTypeOK, Waits, NEW s \in Service, NEW x \in Coroutine,
         Shape(s, x), game_end(s, x)
  PROVE  Silent(s, x) /\ res' = res
  <1> DEFINE k == <<Loop("write", {}), Do("endgame")>>
  <1>1. /\ At(s, x, "gameend")
        /\ Crash(s, x) \/ (Then(s, x, k) /\ UNCHANGED <<tb, cp>>)
    BY DEF game_end
  <1>2. "gameend" \in Other
    BY DEF Other
  <1>3. k \in Seq(Steady(x))
    BY SteadyKinds, SteadySteps DEF TableStep
  <1> HIDE DEF k
  <1>4. QED
    BY <1>1, <1>2, <1>3, OtherOps, SameFramed, OtherThen, CrashSilent

LEMMA WriteUserScoreSilent ==
  ASSUME ChanTypeOK, TabTypeOK, Waits, NEW s \in Service, NEW x \in Coroutine,
         Shape(s, x), write_user_score(s, x)
  PROVE  Silent(s, x) /\ res' = res
  <1> DEFINE q == Top(s, x)
  <1>1. At(s, x, "write") /\ "write" \in Other
    BY DEF write_user_score, Other
  <1>2. q \in Step /\ q.op \in TableStep
    BY <1>1, AtFacts DEF TableStep
  <1>3. CASE Then(s, x, <<>>) /\ UNCHANGED <<tb, cp>>
    BY <1>1, <1>3, SteadySteps, SameFramed, OtherThen
  <1>4. ASSUME NEW c \in ToVisit(s, q), NEW rich \in Stake, NEW u, u = tb[s].seat[c],
               cp' = [cp EXCEPT ![s][u].rich = rich],
               tb' = [tb EXCEPT ![s].recs = @ \cup {c}],
               CallMgr(s, x, ScoreEvent(x, u, rich), <<Again(q, c)>>)
        PROVE  Silent(s, x) /\ res' = res
    <2>1. c \in 0 .. MaxChair /\ u \in User /\ rich \in BOOLEAN
      BY <1>4, SeatType, RoomAssumption DEF ToVisit
    <2>2. PICK ev \in CallsOf(x) : ev = ScoreEvent(x, u, rich) /\ ev.k # "status"
      BY <2>1, MessageKinds DEF ScoreEvent
    <2>3. PICK steps \in Seq(Steady(x)) : steps = <<Again(q, c)>>
      BY <1>2, <2>1, SteadyKinds, SteadySteps
    <2>4. Framed(s)
      <3>1. SamePlaces(s) /\ \A r \in Service \ {s} : tb'[r] = tb[r]
        BY <1>4 DEF TabTypeOK, TableState, SamePlaces
      <3>2. SameWords(s) /\ \A r \in Service \ {s} : cp'[r] = cp[r]
        BY <1>4 DEF TabTypeOK, CopyRec, SameWords, Word
      <3>3. QED
        BY <3>1, <3>2 DEF Framed
    <2>5. "write" \notin {"status"} \cup LeaveOp
      BY DEF LeaveOp
    <2>6. CallMgr(s, x, ev, steps)
      BY <1>4, <2>2, <2>3
    <2>7. QED
      BY <1>1, <2>2, <2>4, <2>5, <2>6, CallSilent
  <1>5. QED
    BY <1>3, <1>4, Zenon DEF write_user_score

LEMMA EndGameSilent ==
  ASSUME ChanTypeOK, TabTypeOK, Waits, NEW s \in Service, NEW x \in Coroutine,
         Shape(s, x), end_game(s, x)
  PROVE  Silent(s, x) /\ res' = res
  <1> DEFINE k == <<Loop("detail", {}), Do("record"), Loop("sitagain", {}),
                    Do("reset"), Do("tstatus")>>
  <1>1. /\ At(s, x, "endgame")
        /\ \/ Crash(s, x)
           \/ Then(s, x, k) /\ tb' = [tb EXCEPT ![s].started = FALSE] /\ cp' = cp
    BY DEF end_game
  <1>2. "endgame" \in Other
    BY DEF Other
  <1>3. k \in Seq(Steady(x))
    <2>1. /\ Loop("detail", {}) \in Steady(x) /\ Do("record") \in Steady(x)
          /\ Loop("sitagain", {}) \in Steady(x) /\ Do("reset") \in Steady(x)
          /\ Do("tstatus") \in Steady(x)
      BY SteadyKinds DEF TableStep
    <2> HIDE DEF Steady
    <2>2. QED
      BY <2>1
  <1>4. CASE Crash(s, x)
    BY <1>1, <1>2, <1>4, OtherOps, CrashSilent
  <1>5. CASE Then(s, x, k) /\ tb' = [tb EXCEPT ![s].started = FALSE] /\ cp' = cp
    <2>1. Framed(s)
      BY <1>5 DEF TabTypeOK, TableState, Framed, SamePlaces, SameWords
    <2> HIDE DEF k
    <2>2. QED
      BY <1>1, <1>2, <1>3, <1>5, <2>1, OtherThen
  <1>6. QED
    BY <1>1, <1>4, <1>5

LEMMA WriteDetailSilent ==
  ASSUME ChanTypeOK, TabTypeOK, Waits, NEW s \in Service, NEW x \in Coroutine,
         Shape(s, x), write_game_record_detail(s, x)
  PROVE  Silent(s, x) /\ res' = res
  <1> DEFINE q == Top(s, x)
  <1>1. At(s, x, "detail") /\ "detail" \in Other
    BY DEF write_game_record_detail, Other
  <1>2. q \in Step /\ q.op \in TableStep
    BY <1>1, AtFacts DEF TableStep
  <1>3. CASE Then(s, x, <<>>) /\ UNCHANGED <<tb, cp>>
    BY <1>1, <1>3, SteadySteps, SameFramed, OtherThen
  <1>4. CASE Crash(s, x)
    BY <1>1, <1>4, OtherOps, CrashSilent
  <1>5. ASSUME NEW c \in tb[s].recs, CallMgr(s, x, RecordEvent(x), <<Again(q, c)>>),
               UNCHANGED <<tb, cp>>
        PROVE  Silent(s, x) /\ res' = res
    <2>1. c \in 0 .. MaxChair
      BY RoomAssumption DEF TabTypeOK, TableState, Chair
    <2>2. PICK ev \in CallsOf(x) : ev = RecordEvent(x) /\ ev.k # "status"
      BY MessageKinds DEF RecordEvent
    <2>3. PICK steps \in Seq(Steady(x)) : steps = <<Again(q, c)>>
      BY <1>2, <2>1, SteadyKinds, SteadySteps
    <2>4. "detail" \notin {"status"} \cup LeaveOp
      BY DEF LeaveOp
    <2>5. CallMgr(s, x, ev, steps)
      BY <1>5, <2>2, <2>3
    <2>6. QED
      BY <1>1, <1>5, <2>2, <2>4, <2>5, SameFramed, CallSilent
  <1>6. QED
    BY <1>3, <1>4, <1>5, Zenon DEF write_game_record_detail

LEMMA WriteRecordSilent ==
  ASSUME ChanTypeOK, TabTypeOK, Waits, NEW s \in Service, NEW x \in Coroutine,
         Shape(s, x), write_game_record(s, x)
  PROVE  Silent(s, x) /\ res' = res
  <1>1. At(s, x, "record") /\ CallMgr(s, x, RecordEvent(x), <<Do("clearrecs")>>)
        /\ UNCHANGED <<tb, cp>>
    BY DEF write_game_record
  <1>2. PICK ev \in CallsOf(x) : ev = RecordEvent(x) /\ ev.k # "status"
    BY MessageKinds DEF RecordEvent
  <1>3. PICK steps \in Seq(Steady(x)) : steps = <<Do("clearrecs")>>
    BY SteadyKinds, SteadySteps DEF TableStep
  <1>4. "record" \notin {"status"} \cup LeaveOp
    BY DEF LeaveOp
  <1>5. CallMgr(s, x, ev, steps)
    BY <1>1, <1>2, <1>3
  <1>6. QED
    BY <1>1, <1>2, <1>4, <1>5, SameFramed, CallSilent

(* The steps that only change what is nobody's place.                      *)
LEMMA TableFieldSilent ==
  ASSUME ChanTypeOK, TabTypeOK, Waits, NEW s \in Service, NEW x \in Coroutine,
         Shape(s, x), clear_records(s, x) \/ on_game_reset(s, x) \/ remove_timer(s, x)
  PROVE  Silent(s, x) /\ res' = res
  <1>1. \/ At(s, x, "clearrecs") /\ tb' = [tb EXCEPT ![s].recs = {}]
        \/ At(s, x, "rmtimer") /\ tb' = [tb EXCEPT ![s].rtimer = FALSE]
        \/ /\ At(s, x, "reset")
           /\ tb' = [tb EXCEPT ![s].playing = {}, ![s].banker = 0, ![s].rtimer = TRUE]
    BY DEF clear_records, on_game_reset, remove_timer
  <1>2. Then(s, x, <<>>) /\ cp' = cp
    BY DEF clear_records, on_game_reset, remove_timer
  <1>3. Framed(s)
    BY <1>1, <1>2 DEF TabTypeOK, TableState, Framed, SamePlaces, SameWords
  <1>4. \E op \in Other : At(s, x, op)
    BY <1>1 DEF Other
  <1>5. QED
    BY <1>2, <1>3, <1>4, SteadySteps, OtherThen

LEMMA BeforeLastSteady ==
  ASSUME NEW x, NEW seq \in Seq(Steady(x)), NEW e \in Steady(x)
  PROVE  BeforeLast(seq, e) \in Seq(Steady(x))
  <1> HIDE DEF Steady
  <1>1. CASE seq = <<>>
    BY <1>1 DEF BeforeLast
  <1>2. CASE seq # <<>>
    <2>1. Len(seq) \in Nat \ {0} /\ seq[Len(seq)] \in Steady(x)
      BY <1>2
    <2>2. SubSeq(seq, 1, Len(seq) - 1) \in Seq(Steady(x))
      BY <2>1
    <2>3. <<e, seq[Len(seq)]>> \in Seq(Steady(x))
      BY <2>1
    <2>4. QED
      BY <1>2, <2>2, <2>3 DEF BeforeLast
  <1>3. QED
    BY <1>1, <1>2

LEMMA EndGameSeatSilent ==
  ASSUME ChanTypeOK, TabTypeOK, Waits, NEW s \in Service, NEW x \in Coroutine,
         Shape(s, x), end_game_seat(s, x)
  PROVE  Silent(s, x) /\ res' = res
  <1> DEFINE q == Top(s, x)
  <1>1. At(s, x, "sitagain") /\ "sitagain" \in Other /\ Framed(s)
    BY SameFramed DEF end_game_seat, Other
  <1>2. q \in Step /\ q.op \in TableStep
    BY <1>1, AtFacts DEF TableStep
  <1>3. CASE Then(s, x, <<>>)
    BY <1>1, <1>3, SteadySteps, OtherThen
  <1>4. ASSUME NEW c \in ToVisit(s, q)
        PROVE  /\ c \in Occupied(tb[s].seat) /\ Again(q, c) \in Steady(x)
               /\ DoFor("standup", tb[s].seat[c], c) \in Steady(x)
    <2>1. /\ c \in Occupied(tb[s].seat) /\ c \in 0 .. MaxChair /\ c \in Chair
          /\ tb[s].seat[c] \in User
      BY <1>4, SeatType DEF ToVisit
    <2>2. QED
      BY <1>2, <2>1, SteadyKinds
  <1>5. ASSUME NEW c \in ToVisit(s, q),
               Then(s, x, <<SetStatus(tb[s].seat[c], "SIT", c), Again(q, c)>>)
        PROVE  Silent(s, x) /\ res' = res
    <2>1. PICK r \in Steady(x) : r = Again(q, c)
      BY <1>4
    <2>2. PICK a \in Step : /\ a = SetStatus(tb[s].seat[c], "SIT", c)
                            /\ a.u \in User /\ a.op = "status" /\ Opens(s, a)
                            /\ <<a, r>> = <<a>> \o <<r>>
      BY <1>4, OpensFirst DEF Status
    <2>3. <<r>> \in Seq(Steady(x)) /\ Then(s, x, <<a, r>>)
      BY <1>5, <2>1, <2>2, SteadySteps
    <2>4. QED
      BY <1>1, <2>2, <2>3, OtherThen
  <1>6. ASSUME NEW c \in ToVisit(s, q), res' = res,
               Continues(s, x, <<Again(q, c)>> \o
                  BeforeLast(Tail(co[s][x]), DoFor("standup", tb[s].seat[c], c)))
        PROVE  Silent(s, x) /\ res' = res
    <2>1. PICK r \in Steady(x), e \in Steady(x) :
                 r = Again(q, c) /\ e = DoFor("standup", tb[s].seat[c], c)
      BY <1>4
    <2>2. /\ Rest(s, x) \in Seq(Steady(x))
          /\ \A p \in Elems(co[s][x]) : p.op \notin LeaveOp \cup {"status"}
      BY <1>1, OtherOps, AtShape
    <2>3. BeforeLast(Rest(s, x), e) \in Seq(Steady(x)) /\ <<r>> \in Seq(Steady(x))
      BY <2>1, <2>2, BeforeLastSteady, SteadySteps
    <2> HIDE DEF Steady
    <2>4. PICK left \in Seq(Steady(x)) : left = <<r>> \o BeforeLast(Rest(s, x), e)
      <3>1. <<r>> \o BeforeLast(Rest(s, x), e) \in Seq(Steady(x))
        BY <2>3
      <3>2. QED
        BY <3>1, Zenon
    <2>5. Continues(s, x, left)
      BY <1>6, <2>1, <2>4 DEF Rest
    <2>6. co'[s][x] = left /\ SameCo(s, x) /\ NoStatusSent(s)
      BY <2>5, ContinuesCo
    <2>7. NextShape(s, x)
      BY <2>4, <2>6 DEF NextShape
    <2>8. CallStays(s)
      BY <1>1, <2>6, OtherOps, NoPromise, NoPromiseAt
    <2>9. Untouched(s, x)
      BY <1>1, <1>6, <2>6, FramedUntouched
    <2>10. QED
      BY <1>1, <1>6, <2>2, <2>6, <2>7, <2>8, <2>9 DEF Silent, Framed
  <1>7. QED
    BY <1>3, <1>5, <1>6, Zenon DEF end_game_seat

LEMMA ReadySeatSilent ==
  ASSUME ChanTypeOK, TabTypeOK, Waits, NEW s \in Service, NEW x \in Coroutine,
         Shape(s, x), ready_timeout_seat(s, x)
  PROVE  Silent(s, x) /\ res' = res
  <1> DEFINE q == Top(s, x)
  <1>1. At(s, x, "late") /\ "late" \in Other /\ Framed(s)
    BY SameFramed DEF ready_timeout_seat, Other
  <1>2. q \in Step /\ q.op \in TableStep
    BY <1>1, AtFacts DEF TableStep
  <1>3. CASE Then(s, x, <<>>)
    BY <1>1, <1>3, SteadySteps, OtherThen
  <1>4. ASSUME NEW c \in ToVisit(s, q)
        PROVE  /\ Again(q, c) \in Steady(x) /\ c \in Chair
               /\ tb[s].seat[c] \in User /\ cp[s][tb[s].seat[c]].chair \in 0 .. MaxChair
    <2>1. /\ c \in 0 .. MaxChair /\ c \in Chair /\ tb[s].seat[c] \in User
          /\ cp[s][tb[s].seat[c]] \in CopyRec
      BY <1>4, SeatType DEF ToVisit
    <2>2. QED
      BY <1>2, <2>1, SteadyKinds DEF CopyRec
  <1>5. ASSUME NEW c \in ToVisit(s, q), Then(s, x, <<Again(q, c)>>)
        PROVE  Silent(s, x) /\ res' = res
    <2>1. PICK steps \in Seq(Steady(x)) : steps = <<Again(q, c)>>
      BY <1>4, SteadySteps
    <2>2. QED
      BY <1>1, <1>5, <2>1, OtherThen
  <1>6. ASSUME NEW c \in ToVisit(s, q), NEW u, u = tb[s].seat[c],
               Then(s, x, <<DoFor("standup", u, cp[s][u].chair), Again(q, c)>>)
        PROVE  Silent(s, x) /\ res' = res
    <2>1. PICK r \in Steady(x) : r = Again(q, c)
      BY <1>4
    <2>2. DoFor("standup", u, cp[s][u].chair) \in Step
      BY <1>4, <1>6, DoType DEF UserStep
    <2>3. PICK a \in Step : a = DoFor("standup", u, cp[s][u].chair)
      BY <2>2
    <2>4. a.op = "standup" /\ a.u = u
      BY <2>3 DEF DoFor, StepOf
    <2>5. a.u \in User /\ Opens(s, a)
      BY <1>4, <1>6, <2>4 DEF Opens, Seated
    <2>6. <<r>> \in Seq(Steady(x)) /\ <<a, r>> = <<a>> \o <<r>>
      BY <2>1, SteadySteps
    <2>7. Then(s, x, <<a, r>>)
      BY <1>6, <2>1, <2>3
    <2>8. QED
      BY <1>1, <2>5, <2>6, <2>7, OtherThen
  <1>7. QED
    BY <1>3, <1>5, <1>6, Zenon DEF ready_timeout_seat

LEMMA UserReadySilent ==
  ASSUME ChanTypeOK, TabTypeOK, Waits, NEW s \in Service, NEW x \in Coroutine,
         Shape(s, x), user_ready(s, x)
  PROVE  Silent(s, x) /\ res' = res
  <1> DEFINE c == Top(s, x).c
             u == IF c = 0 THEN None ELSE tb[s].seat[c]
  <1>1. At(s, x, "ready") /\ "ready" \in Other /\ Framed(s)
    BY SameFramed DEF user_ready, Other
  <1>2. \/ Then(s, x, <<>>) \/ Then(s, x, <<Do("start")>>)
        \/ u # None /\ Then(s, x, <<SetStatus(u, "READY", c)>>)
    BY DEF user_ready
  <1>3. CASE Then(s, x, <<>>)
    BY <1>1, <1>3, SteadySteps, OtherThen
  <1>4. CASE Then(s, x, <<Do("start")>>)
    <2>1. PICK steps \in Seq(Steady(x)) : steps = <<Do("start")>>
      BY SteadyKinds, SteadySteps DEF TableStep
    <2>2. QED
      BY <1>1, <1>4, <2>1, OtherThen
  <1>5. CASE u # None /\ Then(s, x, <<SetStatus(u, "READY", c)>>)
    <2>1. c \in 0 .. MaxChair /\ c # 0 /\ u = tb[s].seat[c]
      BY <1>1, <1>5, AtFacts, StepShape
    <2>2. c \in Occupied(tb[s].seat)
      BY <1>5, <2>1, RoomAssumption DEF Occupied, Chair
    <2>3. PICK a \in Step : /\ a = SetStatus(tb[s].seat[c], "READY", c)
                            /\ a.u \in User /\ Opens(s, a) /\ <<a>> = <<a>> \o <<>>
      BY <2>2, OpensFirst DEF Status
    <2>4. Then(s, x, <<a>>)
      BY <1>5, <2>1, <2>3
    <2>5. QED
      BY <1>1, <2>3, <2>4, SteadySteps, OtherThen
  <1>6. QED
    BY <1>2, <1>3, <1>4, <1>5

LEMMA FinishSilent ==
  ASSUME ChanTypeOK, TabTypeOK, Waits, NEW s \in Service, NEW x \in Coroutine,
         Finish(s, x)
  PROVE  Silent(s, x) /\ res' = res
  <1>1. /\ co[s][x] = <<>> /\ UNCHANGED <<tb, cp, res>> /\ Continues(s, x, <<>>)
    BY DEF Finish
  <1>2. co'[s][x] = <<>> /\ SameCo(s, x) /\ NoStatusSent(s)
    BY <1>1, ContinuesCo
  <1>3. Framed(s)
    BY <1>1, SameFramed
  <1>4. NextShape(s, x)
    BY <1>2, SteadySteps DEF NextShape
  <1>5. CallStays(s)
    BY <1>1, <1>2, NoCallLeft, NoPromise
  <1>6. Untouched(s, x)
    BY <1>1, <1>2, <1>3, FramedUntouched
  <1>7. Elems(co[s][x]) = {}
    BY <1>1 DEF Elems
  <1>8. QED
    BY <1>1, <1>2, <1>3, <1>4, <1>5, <1>6, <1>7 DEF Silent, Framed

(* A player who may stand up is reported FREE, and taken off the table.    *)
LEMMA FreeLeads ==
  ASSUME TabTypeOK, NEW s \in Service, NEW x \in Coroutine, NEW u \in User,
         NEW l \in Seq(Steady(x)), NEW op,
         \/ op = "vacate" /\ Seated(s, u) /\ Tells(l)
         \/ op = "unwatch" /\ u \in tb[s].ob
            /\ (x = "T" => Seated(s, u) \/ cp[s][u].tid # 0)
  PROVE  LET a == SetStatus(u, "FREE", 0)
             b == DoFor(op, u, cp[s][u].chair)
         IN /\ a \in Step /\ b \in Step
            /\ Leads(s, x, a, <<b>> \o l)
  <1> DEFINE a == SetStatus(u, "FREE", 0)
             b == DoFor(op, u, cp[s][u].chair)
  <1>1. cp[s][u].chair \in 0 .. MaxChair /\ 0 \in 0 .. MaxChair
    BY RoomAssumption DEF TabTypeOK, CopyRec
  <1>2. a \in Step /\ a.op = "status" /\ a.u = u /\ a.c = 0 /\ a.st = "FREE"
    BY <1>1, DoType DEF SetStatus, StepOf, Status
  <1>3. b \in Step /\ b.op = op /\ b.u = u /\ b.c = cp[s][u].chair
    BY <1>1, DoType DEF DoFor, StepOf, UserStep
  <1> HIDE DEF a, b
  <1>4. l \in Seq(Step)
    BY SteadySteps
  <1>5. <<b>> \o l # <<>> /\ Head(<<b>> \o l) = b /\ Tail(<<b>> \o l) = l
    BY <1>3, <1>4, ConsFacts
  <1>6. PICK k : k = <<b>> \o l
    OBVIOUS
  <1>7. k # <<>> /\ Head(k) = b /\ Tail(k) = l
    BY <1>5, <1>6
  <1>8. Frees(s, x, a, b)
    BY <1>2, <1>3 DEF Frees
  <1>9. Leads(s, x, a, k)
    BY <1>2, <1>3, <1>7, <1>8 DEF Leads
  <1>10. QED
    BY <1>2, <1>3, <1>6, <1>9 DEF a, b

(* What user_standup does: nothing, or it lets the player go.              *)
StandsUp(s, x) ==
  LET q == Top(s, x) IN
  IF q.c \in Chair /\ tb[s].seat[q.c] = q.u THEN ~PlayingSeat(s, q.c)
  ELSE q.u \in tb[s].ob /\ cp[s][q.u].chair = q.c

LEMMA JoinedTo ==
  ASSUME NEW S, NEW k \in Seq(S), NEW l \in Seq(S), NEW n \in Seq(S)
  PROVE  Len(k) = 2 /\ Len(l) = 1 /\ Len(n) = 3
         /\ n[1] = k[1] /\ n[2] = k[2] /\ n[3] = l[1] => k \o l = n
  <1> DEFINE m == k \o l
  <1>1. m \in Seq(S) /\ Len(m) = Len(k) + Len(l)
    OBVIOUS
  <1>2. \A i \in 1 .. Len(k) : m[i] = k[i]
    OBVIOUS
  <1>3. \A i \in 1 .. Len(l) : m[Len(k) + i] = l[i]
    OBVIOUS
  <1> HIDE DEF m
  <1>4. ASSUME Len(k) = 2, Len(l) = 1, Len(n) = 3,
               n[1] = k[1], n[2] = k[2], n[3] = l[1]
        PROVE  m = n
    <2>1. 1 \in 1 .. Len(k) /\ 2 \in 1 .. Len(k) /\ 1 \in 1 .. Len(l) /\ Len(k) + 1 = 3
      BY <1>4
    <2>2. m[1] = k[1] /\ m[2] = k[2] /\ m[3] = l[1] /\ Len(m) = 3
      BY <1>1, <1>2, <1>3, <1>4, <2>1
    <2>3. QED
      BY <1>1, <1>4, <2>2
  <1>5. QED
    BY <1>4 DEF m

LEMMA TwoAndOne ==
  ASSUME NEW S, NEW a \in S, NEW b \in S, NEW c \in S
  PROVE  <<a, b>> \o <<c>> = <<a, b, c>>
  <1>1. <<a, b>> \in Seq(S) /\ <<c>> \in Seq(S) /\ <<a, b, c>> \in Seq(S)
    OBVIOUS
  <1>2. Len(<<a, b>>) = 2 /\ Len(<<c>>) = 1 /\ Len(<<a, b, c>>) = 3
    OBVIOUS
  <1>3. /\ <<a, b, c>>[1] = <<a, b>>[1] /\ <<a, b, c>>[2] = <<a, b>>[2]
        /\ <<a, b, c>>[3] = <<c>>[1]
    OBVIOUS
  <1>4. QED
    BY <1>1, <1>2, <1>3, JoinedTo, Zenon

LEMMA StandupSteps ==
  ASSUME ChanTypeOK, TabTypeOK, Waits, NEW s \in Service, NEW x \in Coroutine,
         user_standup(s, x)
  PROVE  /\ At(s, x, "standup") /\ Framed(s) /\ SameCo(s, x) /\ NoStatusSent(s)
         /\ co'[s][x] = <<>> \/ Running(s, x)'
         /\ res' = IF x = "R" /\ StandsUp(s, x) THEN [res EXCEPT ![s] = TRUE] ELSE res
         /\ ~StandsUp(s, x) => co'[s][x] = Rest(s, x)
         /\ StandsUp(s, x) =>
              LET q == Top(s, x)
                  a == SetStatus(q.u, "FREE", 0)
              IN IF q.c \in Chair /\ tb[s].seat[q.c] = q.u
                 THEN co'[s][x] = <<a, DoFor("vacate", q.u, cp[s][q.u].chair), Do("tstatus")>>
                                  \o Rest(s, x)
                 ELSE co'[s][x] = <<a, DoFor("unwatch", q.u, cp[s][q.u].chair)>> \o Rest(s, x)
  <1> DEFINE q == Top(s, x)
             a == SetStatus(q.u, "FREE", 0)
             b == DoFor("vacate", q.u, cp[s][q.u].chair)
             d == DoFor("unwatch", q.u, cp[s][q.u].chair)
             seated == q.c \in Chair /\ tb[s].seat[q.c] = q.u
             steps == IF ~StandsUp(s, x) THEN <<>>
                      ELSE IF seated THEN <<a, b>> \o <<Do("tstatus")>> ELSE <<a, d>>
  <1>1. /\ At(s, x, "standup") /\ UNCHANGED <<tb, cp>>
        /\ res' = IF x = "R" /\ StandsUp(s, x) THEN [res EXCEPT ![s] = TRUE] ELSE res
        /\ Continues(s, x, steps \o Rest(s, x))
    BY DEF user_standup, StandsUp, Rest
  <1>2. /\ Rest(s, x) \in Seq(Step)
        /\ <<a, b>> \o <<Do("tstatus")>> = <<a, b, Do("tstatus")>>
    <2>1. Rest(s, x) \in Seq(Step)
      BY <1>1, AtFacts DEF Rest
    <2>2. <<a, b>> \o <<Do("tstatus")>> = <<a, b, Do("tstatus")>>
      <3>1. Do("tstatus") \in {a, b, Do("tstatus")} /\ a \in {a, b, Do("tstatus")}
            /\ b \in {a, b, Do("tstatus")}
        OBVIOUS
      <3>2. QED
        BY <3>1, TwoAndOne, Zenon
    <2>3. QED
      BY <2>1, <2>2
  <1>3. /\ co'[s][x] = steps \o Rest(s, x) /\ SameCo(s, x) /\ NoStatusSent(s)
        /\ co'[s][x] = <<>> \/ Running(s, x)'
    <2>1. PICK left : left = steps \o Rest(s, x)
      OBVIOUS
    <2>2. Continues(s, x, left)
      BY <1>1, <2>1, Zenon
    <2> HIDE DEF steps
    <2>3. QED
      BY <2>1, <2>2, ContinuesCo
  <1>4. Framed(s)
    BY <1>1, SameFramed
  <1>5. ~StandsUp(s, x) => co'[s][x] = Rest(s, x)
    BY <1>2, <1>3, NoCons
  <1> HIDE DEF a, b, d
  <1>6. StandsUp(s, x) =>
          IF seated THEN co'[s][x] = <<a, b, Do("tstatus")>> \o Rest(s, x)
          ELSE co'[s][x] = <<a, d>> \o Rest(s, x)
    BY <1>2, <1>3
  <1>7. QED
    BY <1>1, <1>3, <1>4, <1>5, <1>6 DEF a, b, d

LEMMA UserStandupSilent ==
  ASSUME ChanTypeOK, TabTypeOK, Waits, NEW s \in Service, NEW x \in Coroutine, Copies(s),
         Shape(s, x), user_standup(s, x)
  PROVE  Silent(s, x)
  <1> DEFINE q == Top(s, x)
             a == SetStatus(q.u, "FREE", 0)
  <1>1. /\ At(s, x, "standup") /\ Framed(s) /\ SameCo(s, x) /\ NoStatusSent(s)
        /\ (co'[s][x] = <<>> \/ Running(s, x)')
        /\ "standup" \in Other /\ "standup" \in UserStep
    BY StandupSteps DEF Other, UserStep
  <1>2. /\ Rest(s, x) \in Seq(Steady(x)) /\ Rest(s, x) \in Seq(Step)
        /\ \A p \in Elems(co[s][x]) : p.op \notin LeaveOp \cup {"status"}
        /\ x = "T" => q.c \in Chair \/ Seated(s, q.u)
    BY <1>1, OtherOps, AtShape, SteadySteps
  <1>3. q \in Step /\ q.u \in User
    BY <1>1, AtFacts, StepShape
  <1>4. NextShape(s, x)
    <2>1. CASE ~StandsUp(s, x)
      <3>1. co'[s][x] = Rest(s, x)
        BY <2>1, StandupSteps
      <3>2. QED
        BY <1>2, <3>1 DEF NextShape
    <2>2. ASSUME NEW op, NEW l \in Seq(Steady(x)),
                 \/ op = "vacate" /\ Seated(s, q.u) /\ Tells(l)
                 \/ op = "unwatch" /\ q.u \in tb[s].ob
                    /\ (x = "T" => Seated(s, q.u) \/ cp[s][q.u].tid # 0),
                 co'[s][x] = <<a>> \o (<<DoFor(op, q.u, cp[s][q.u].chair)>> \o l)
          PROVE  NextShape(s, x)
      <3> DEFINE b == DoFor(op, q.u, cp[s][q.u].chair)
      <3>1. a \in Step /\ b \in Step /\ Leads(s, x, a, <<b>> \o l)
        BY <1>3, <2>2, FreeLeads, Zenon
      <3>2. PICK f \in Step, k \in Seq(Step) :
                   f = a /\ k = <<b>> \o l /\ Leads(s, x, f, k)
        <4>1. l \in Seq(Step)
          BY SteadySteps
        <4>2. <<b>> \o l \in Seq(Step)
          BY <3>1, <4>1, ConsFacts
        <4>3. QED
          BY <3>1, <4>2, Zenon
      <3>3. co'[s][x] = <<f>> \o k
        BY <2>2, <3>2
      <3>4. co'[s][x] # <<>> /\ Head(co'[s][x]) = f /\ Tail(co'[s][x]) = k
        BY <3>2, <3>3, ConsFacts
      <3>5. UNCHANGED <<tb, cp>>
        BY DEF user_standup
      <3>6. f.op = "status" /\ f.st = "FREE"
        BY <3>2 DEF SetStatus, StepOf
      <3>7. Leads(s, x, f, k)'
        <4>1. Frees(s, x, f, Head(k)) /\ k # <<>> /\ Tail(k) \in Seq(Steady(x))
              /\ (Head(k).op = "vacate" => Tells(Tail(k)))
          BY <3>2, <3>6 DEF Leads
        <4>2. Frees(s, x, f, Head(k))'
          BY <3>5, <4>1 DEF Frees, Seated
        <4>3. QED
          BY <3>6, <4>1, <4>2 DEF Leads
      <3>8. Top(s, x)' = f /\ Rest(s, x)' = k
        BY <3>4 DEF Top, Rest
      <3>9. Leads(s, x, Top(s, x), Rest(s, x))'
        BY <3>7, <3>8 DEF Leads
      <3>10. QED
        BY <1>1, <3>4, <3>9 DEF NextShape
    <2>3. CASE StandsUp(s, x) /\ q.c \in Chair /\ tb[s].seat[q.c] = q.u
      <3> DEFINE b == DoFor("vacate", q.u, cp[s][q.u].chair)
                 t == Do("tstatus")
      <3>1. co'[s][x] = <<a, b, t>> \o Rest(s, x)
        BY <2>3, StandupSteps
      <3>2. Seated(s, q.u)
        BY <2>3 DEF Seated
      <3>3. t \in Steady(x) /\ t \in Step /\ t.op = "tstatus"
        BY SteadyKinds, SteadySteps DEF TableStep, Do, StepOf
      <3>4. cp[s][q.u].chair \in 0 .. MaxChair /\ 0 \in 0 .. MaxChair
        BY <1>3, RoomAssumption DEF TabTypeOK, CopyRec
      <3>5. a \in Step /\ b \in Step
        BY <1>3, <3>4, DoType DEF Status, UserStep
      <3> HIDE DEF a, b, t
      <3>6. PICK l \in Seq(Steady(x)) : l = <<t>> \o Rest(s, x) /\ Tells(l)
        <4>1. <<t>> \o Rest(s, x) \in Seq(Steady(x)) /\ <<t>> \o Rest(s, x) # <<>>
              /\ Head(<<t>> \o Rest(s, x)) = t
          BY <1>2, <3>3, ConsFacts
        <4>2. QED
          BY <3>3, <4>1, Zenon DEF Tells
      <3>7. co'[s][x] = <<a>> \o (<<b>> \o l)
        <4> HIDE DEF Rest
        <4>1. <<a, b, t>> \o Rest(s, x) = <<a>> \o (<<b>> \o (<<t>> \o Rest(s, x)))
          <5>1. Rest(s, x) \in Seq(Step) /\ a \in Step /\ b \in Step /\ t \in Step
            BY <1>2, <3>3, <3>5
          <5>2. QED
            BY <5>1, ConsThree, Zenon
        <4>2. QED
          BY <3>1, <3>6, <4>1, Zenon
      <3>8. QED
        BY <2>2, <3>2, <3>6, <3>7 DEF a, b
    <2>4. CASE StandsUp(s, x) /\ ~(q.c \in Chair /\ tb[s].seat[q.c] = q.u)
      <3> DEFINE b == DoFor("unwatch", q.u, cp[s][q.u].chair)
      <3>1. co'[s][x] = <<a, b>> \o Rest(s, x)
        BY <2>4, StandupSteps
      <3>2. q.u \in tb[s].ob /\ cp[s][q.u].chair = q.c
        BY <2>4 DEF StandsUp
      <3>3. cp[s][q.u].chair \in 0 .. MaxChair /\ 0 \in 0 .. MaxChair
        BY <1>3, RoomAssumption DEF TabTypeOK, CopyRec
      <3>4. a \in Step /\ b \in Step
        BY <1>3, <3>3, DoType DEF Status, UserStep
      <3>5. x = "T" => Seated(s, q.u) \/ cp[s][q.u].tid # 0
        <4>1. q.c \in Chair => q.c # 0
          BY RoomAssumption DEF Chair
        <4>2. cp[s][q.u].tid = 0 => cp[s][q.u].chair = 0
          BY <1>3 DEF Copies
        <4>3. QED
          BY <1>2, <3>2, <4>1, <4>2
      <3> HIDE DEF a, b
      <3>6. co'[s][x] = <<a>> \o (<<b>> \o Rest(s, x))
        <4>1. <<a, b>> \o Rest(s, x) = <<a>> \o (<<b>> \o Rest(s, x))
          BY <1>2, <3>4, ConsTwo
        <4>2. QED
          BY <3>1, <4>1, Zenon
      <3>7. QED
        BY <1>2, <2>2, <3>2, <3>5, <3>6 DEF a, b
    <2>5. QED
      BY <2>1, <2>3, <2>4
  <1>5. CallStays(s)
    BY <1>1, OtherOps, NoPromise, NoPromiseAt
  <1>6. Untouched(s, x)
    <2>1. res' = [res EXCEPT ![s] = TRUE] \/ res' = res
      BY StandupSteps, Zenon
    <2>2. \A r \in Service \ {s} : res'[r] = res[r]
      BY <2>1 DEF TabTypeOK
    <2>3. QED
      BY <1>1, <2>2, FramedUntouched
  <1>7. QED
    BY <1>1, <1>2, <1>4, <1>5, <1>6 DEF Silent, Framed

-----------------------------------------------------------------------------
(* A coroutine that begins: a timer that fires, or a request.              *)
LEMMA BeginsSilent ==
  ASSUME ChanTypeOK, TabTypeOK, NEW s \in Service, NEW x \in Coroutine, co[s][x] = <<>>,
         Framed(s), \A r \in Service \ {s} : res'[r] = res[r],
         NEW left, Continues(s, x, left),
         \/ left \in Seq(Steady(x))
         \/ \E q \in Step : left = <<q>> /\ q.u \in User /\ Opens(s, q)
  PROVE  Silent(s, x)
  <1>1. /\ co'[s][x] = left /\ SameCo(s, x) /\ NoStatusSent(s)
        /\ left = <<>> \/ Running(s, x)'
    BY ContinuesCo
  <1>2. Untouched(s, x)
    BY <1>1, FramedUntouched
  <1>3. CallStays(s)
    BY <1>1, NoCallLeft, NoPromise
  <1>4. Elems(co[s][x]) = {}
    BY DEF Elems
  <1>5. NextShape(s, x)
    <2>1. CASE left \in Seq(Steady(x))
      BY <1>1, <2>1 DEF NextShape
    <2>2. ASSUME NEW q \in Step, left = <<q>>, q.u \in User, Opens(s, q)
          PROVE  NextShape(s, x)
      <3>1. left # <<>> /\ Head(left) = q /\ Tail(left) = <<>>
        BY <2>2
      <3>2. PICK k \in Seq(Steady(x)) : k = <<>>
        BY SteadySteps
      <3>3. Leads(s, x, q, k)'
        BY <2>2, OpensLeads
      <3>4. Top(s, x)' = q /\ Rest(s, x)' = k
        BY <1>1, <3>1, <3>2 DEF Top, Rest
      <3>5. Leads(s, x, Top(s, x), Rest(s, x))'
        BY <3>3, <3>4 DEF Leads
      <3>6. QED
        BY <1>1, <3>1, <3>5 DEF NextShape
    <2>3. QED
      BY <2>1, <2>2
  <1>6. QED
    BY <1>1, <1>2, <1>3, <1>4, <1>5 DEF Silent, Framed

LEMMA TimerFiresSilent ==
  ASSUME ChanTypeOK, TabTypeOK, Waits, NEW s \in Service, Framed(s),
         NEW steps \in Seq(Steady("T")), TimerFires(s, steps)
  PROVE  Silent(s, "T")
  <1>1. /\ cur = Idle /\ "T" \notin wt[s] /\ res' = res /\ Continues(s, "T", steps)
    BY DEF TimerFires
  <1>2. ~Running(s, "T")
    BY <1>1, WhoRuns DEF Running
  <1>3. co[s]["T"] = <<>>
    BY <1>1, <1>2, CoroutineNames DEF Waits, Active
  <1>4. QED
    BY <1>1, <1>3, CoroutineNames, BeginsSilent

(* The steps a phase of the game ends with, and what it changes.           *)
LEMMA NextPhaseFramed ==
  ASSUME TabTypeOK, NEW s \in Service, NEW x, NEW by, NEW steps, NextPhase(s, by, steps),
         SameWords(s), \A r \in Service \ {s} : cp'[r] = cp[r]
  PROVE  Framed(s) /\ steps \in Seq(Steady(x))
  <1>1. \/ \E b : tb' = [tb EXCEPT ![s].gstat = "BET", ![s].banker = b]
        \/ tb' = [tb EXCEPT ![s].gstat = "OPEN"]
        \/ tb' = [tb EXCEPT ![s].gstat = "FREE"]
    BY DEF NextPhase, Settles
  <1>2. SamePlaces(s) /\ \A r \in Service \ {s} : tb'[r] = tb[r]
    BY <1>1 DEF TabTypeOK, TableState, SamePlaces
  <1>3. steps = <<>> \/ steps = <<Do("gameend")>>
    BY DEF NextPhase
  <1>4. steps \in Seq(Steady(x))
    BY <1>3, SteadyKinds, SteadySteps DEF TableStep
  <1>5. QED
    BY <1>2, <1>4 DEF Framed

LEMMA TimerSilent ==
  ASSUME ChanTypeOK, TabTypeOK, Waits, NEW s \in Service, Timer(s)
  PROVE  Silent(s, "T")
  <1>1. CASE ReadyTimeout(s)
    <2>1. \/ TimerFires(s, <<>> \o <<Do("rmtimer")>>)
          \/ TimerFires(s, <<Loop("late", {})>> \o <<Do("rmtimer")>>)
      BY <1>1 DEF ReadyTimeout
    <2>2. tb' = tb /\ cp' = cp
      BY <1>1 DEF ReadyTimeout, TimerFires
    <2>3. PICK a \in Steady("T"), b \in Steady("T") : a = Loop("late", {}) /\ b = Do("rmtimer")
      BY SteadyKinds DEF TableStep
    <2> HIDE DEF Steady
    <2>4. <<>> \o <<b>> \in Seq(Steady("T")) /\ <<a>> \o <<b>> \in Seq(Steady("T"))
      OBVIOUS
    <2>5. PICK k \in Seq(Steady("T")) : TimerFires(s, k)
      BY <2>1, <2>3, <2>4, Zenon
    <2>6. QED
      BY <2>2, <2>5, SameFramed, TimerFiresSilent
  <1>2. CASE GameTimeout(s)
    <2>1. PICK steps : NextPhase(s, Players(s), steps) /\ TimerFires(s, steps)
      BY <1>2 DEF GameTimeout
    <2>2. cp' = cp
      BY <2>1 DEF TimerFires
    <2>3. Framed(s) /\ steps \in Seq(Steady("T"))
      BY <2>1, <2>2, NextPhaseFramed DEF SameWords
    <2>4. QED
      BY <2>1, <2>3, TimerFiresSilent
  <1>3. CASE RobotReady(s)
    <2>1. PICK c \in Occupied(tb[s].seat) :
                 TimerFires(s, <<DoFor("ready", None, cp[s][tb[s].seat[c]].chair)>>)
      BY <1>3 DEF RobotReady
    <2>2. tb' = tb /\ cp' = cp
      BY <1>3 DEF RobotReady, TimerFires
    <2>3. cp[s][tb[s].seat[c]].chair \in 0 .. MaxChair
      BY SeatType DEF CopyRec
    <2>4. PICK k \in Seq(Steady("T")) :
                 k = <<DoFor("ready", None, cp[s][tb[s].seat[c]].chair)>>
      BY <2>3, SteadyKinds, SteadySteps DEF TableStep
    <2>5. QED
      BY <2>1, <2>2, <2>4, SameFramed, TimerFiresSilent
  <1>4. QED
    BY <1>1, <1>2, <1>3 DEF Timer

-----------------------------------------------------------------------------
(* Requests: those that are answered at once, and those that begin.        *)
LEMMA ReplySilent ==
  ASSUME ChanTypeOK, TabTypeOK, Waits, OneAsked, NEW s \in Service, NEW op, Takes(s, op),
         NEW ok \in BOOLEAN, NEW val \in 0 .. MaxChair, Reply(s, ok, val),
         UNCHANGED <<tb, cp>>
  PROVE  Silent(s, "R")
  <1>1. /\ co[s]["R"] = <<>> /\ UNCHANGED <<co, res>>
        /\ toMgr' = [toMgr EXCEPT ![s] = Append(@, Return(ok, val))]
    BY TakesResumed DEF Reply
  <1>2. Framed(s) /\ SameCo(s, "R")
    BY <1>1, SameFramed DEF SameCo
  <1>3. Untouched(s, "R")
    BY <1>1, <1>2, CoroutineNames, FramedUntouched
  <1>4. CallStays(s)
    BY <1>1, <1>2, CoroutineNames, NoCallLeft, NoPromise
  <1>5. Elems(co[s]["R"]) = {}
    BY <1>1 DEF Elems
  <1>6. NextShape(s, "R")
    BY <1>1, SteadySteps DEF NextShape
  <1>7. NoStatusSent(s)
    <2>1. Return(ok, val) \in MgrMsg /\ Return(ok, val).k # "status"
      BY MessageKinds DEF Returned
    <2>2. toMgr'[s] = Append(toMgr[s], Return(ok, val))
      BY <1>1 DEF ChanTypeOK
    <2>3. QED
      BY <2>1, <2>2 DEF NoStatusSent
  <1>8. QED
    BY <1>2, <1>3, <1>4, <1>5, <1>6, <1>7 DEF Silent, Framed

LEMMA BeginSilent ==
  ASSUME ChanTypeOK, TabTypeOK, Waits, OneAsked, NEW s \in Service, NEW op, Takes(s, op),
         Framed(s), NEW steps, Begin(s, steps),
         \/ steps \in Seq(Steady("R"))
         \/ \E q \in Step : steps = <<q>> /\ q.u \in User /\ Opens(s, q)
  PROVE  Silent(s, "R")
  <1>1. /\ co[s]["R"] = <<>> /\ res' = [res EXCEPT ![s] = FALSE]
        /\ Continues(s, "R", steps)
    BY TakesResumed DEF Begin
  <1>2. \A r \in Service \ {s} : res'[r] = res[r]
    BY <1>1 DEF TabTypeOK
  <1>3. QED
    BY <1>1, <1>2, CoroutineNames, BeginsSilent

LEMMA QuerySilent ==
  ASSUME ChanTypeOK, TabTypeOK, Waits, OneAsked, NEW s \in Service,
         get_can_sit_chairid(s) \/ get_table_info(s)
  PROVE  Silent(s, "R")
  <1>1. CASE get_can_sit_chairid(s)
    <2>1. /\ Takes(s, "get_can_sit_chairid") /\ Reply(s, TRUE, FirstFree(s))
          /\ UNCHANGED <<tb, cp>>
      BY <1>1 DEF get_can_sit_chairid
    <2>2. PICK val \in 0 .. MaxChair : val = FirstFree(s)
      BY FirstFreeType
    <2>3. QED
      BY <2>1, <2>2, ReplySilent
  <1>2. CASE get_table_info(s)
    <2>1. /\ Takes(s, "get_table_info")
          /\ Reply(s, TRUE, Cardinality(Occupied(tb[s].seat))) /\ UNCHANGED <<tb, cp>>
      BY <1>2 DEF get_table_info
    <2>2. PICK val \in 0 .. MaxChair : val = Cardinality(Occupied(tb[s].seat))
      BY CountType
    <2>3. QED
      BY <2>1, <2>2, ReplySilent
  <1>3. QED
    BY <1>1, <1>2

(* A report of the player on the chair the request names.                  *)
LEMMA ReportsSeated ==
  ASSUME TabTypeOK, NEW s \in Service, NEW c \in Occupied(tb[s].seat),
         NEW q, q = SetStatus(tb[s].seat[c], "PLAYING", cp[s][tb[s].seat[c]].chair)
                \/ q = SetStatus(tb[s].seat[c], "OFFLINE", c)
  PROVE  q \in Step /\ q.u \in User /\ Opens(s, q)
  <1>1. /\ c \in Chair /\ c \in 0 .. MaxChair /\ tb[s].seat[c] \in User
        /\ cp[s][tb[s].seat[c]].chair \in 0 .. MaxChair
    BY SeatType DEF CopyRec
  <1>2. q \in Step
    BY <1>1, DoType DEF Status
  <1>3. /\ q.op = "status" /\ q.u = tb[s].seat[c] /\ q.st # "FREE"
        /\ q.c = c \/ (q.c = cp[s][q.u].chair /\ q.st = "PLAYING")
    BY DEF SetStatus, StepOf
  <1>4. SitsAt(s, q)
    BY <1>1, <1>3 DEF SitsAt
  <1>5. QED
    BY <1>1, <1>2, <1>3, <1>4 DEF Opens

LEMMA AtSeatOccupied ==
  ASSUME ChanTypeOK, TabTypeOK, NEW s \in Service, NEW op, Takes(s, op), AtSeat(s) # None
  PROVE  /\ Arg(s).c \in Occupied(tb[s].seat) /\ Arg(s).c \in 0 .. MaxChair
         /\ AtSeat(s) = tb[s].seat[Arg(s).c] /\ AtSeat(s) \in User
  <1>1. Arg(s).c \in 0 .. MaxChair /\ Arg(s).c # 0 /\ AtSeat(s) = tb[s].seat[Arg(s).c]
    BY TakesType DEF AtSeat
  <1>2. Arg(s).c \in Occupied(tb[s].seat)
    BY <1>1, RoomAssumption DEF Occupied, Chair
  <1>3. QED
    BY <1>1, <1>2, SeatType

LEMMA SeatedRequestSilent ==
  ASSUME ChanTypeOK, TabTypeOK, Waits, OneAsked, NEW s \in Service,
         \/ request_user_standup(s) \/ robot_standup(s) \/ user_offline(s)
         \/ update_user_conn(s) \/ request_user_ready(s)
  PROVE  Silent(s, "R")
  <1>1. UNCHANGED <<tb, cp>>
    BY DEF request_user_standup, robot_standup, user_offline, update_user_conn,
           request_user_ready
  <1>2. Framed(s)
    BY <1>1, SameFramed
  <1>3. CASE request_user_standup(s)
    <2>1. /\ Takes(s, "user_standup")
          /\ Begin(s, <<DoFor("standup", Arg(s).u, Arg(s).c)>>)
      BY <1>3 DEF request_user_standup
    <2>2. Arg(s).u \in User /\ Arg(s).c \in 0 .. MaxChair
      BY <2>1, TakesType DEF UserOp
    <2>3. <<DoFor("standup", Arg(s).u, Arg(s).c)>> \in Seq(Steady("R"))
      BY <2>2, SteadyKinds, SteadySteps
    <2>4. QED
      BY <1>2, <2>1, <2>3, BeginSilent
  <1>4. CASE robot_standup(s)
    <2>1. Takes(s, "robot_standup")
      BY <1>4 DEF robot_standup
    <2>2. CASE Begin(s, <<>>)
      BY <1>2, <2>1, <2>2, SteadySteps, BeginSilent
    <2>3. ASSUME NEW c \in Occupied(tb[s].seat),
                 Begin(s, <<DoFor("standup", tb[s].seat[c], c)>>)
          PROVE  Silent(s, "R")
      <3>1. <<DoFor("standup", tb[s].seat[c], c)>> \in Seq(Steady("R"))
        BY SeatType, SteadyKinds, SteadySteps
      <3>2. QED
        BY <1>2, <2>1, <2>3, <3>1, BeginSilent
    <2>4. QED
      BY <1>4, <2>2, <2>3, Zenon DEF robot_standup
  <1>5. CASE user_offline(s)
    <2> DEFINE u == AtSeat(s)
               c == Arg(s).c
    <2>1. /\ Takes(s, "user_offline")
          /\ \/ Begin(s, <<>>)
             \/ u # None /\ Begin(s, <<SetStatus(u, "OFFLINE", c)>>)
             \/ u # None /\ Begin(s, <<DoFor("standup", u, c)>>)
      BY <1>5 DEF user_offline
    <2>2. u # None => c \in Occupied(tb[s].seat) /\ c \in 0 .. MaxChair
                      /\ u = tb[s].seat[c] /\ u \in User
      BY <2>1, AtSeatOccupied
    <2>3. CASE Begin(s, <<>>)
      BY <1>2, <2>1, <2>3, SteadySteps, BeginSilent
    <2>4. CASE u # None /\ Begin(s, <<SetStatus(u, "OFFLINE", c)>>)
      <3>1. PICK q \in Step : q = SetStatus(u, "OFFLINE", c) /\ q.u \in User /\ Opens(s, q)
        BY <2>2, <2>4, ReportsSeated
      <3>2. Begin(s, <<q>>)
        BY <2>4, <3>1
      <3>3. QED
        BY <1>2, <2>1, <3>1, <3>2, BeginSilent
    <2>5. CASE u # None /\ Begin(s, <<DoFor("standup", u, c)>>)
      <3>1. <<DoFor("standup", u, c)>> \in Seq(Steady("R"))
        BY <2>2, <2>5, SteadyKinds, SteadySteps
      <3>2. QED
        BY <1>2, <2>1, <2>5, <3>1, BeginSilent
    <2>6. QED
      BY <2>1, <2>3, <2>4, <2>5
  <1>6. CASE update_user_conn(s)
    <2> DEFINE u == AtSeat(s)
    <2>1. /\ Takes(s, "update_user_conn")
          /\ \/ Begin(s, <<>>)
             \/ u # None /\ Begin(s, <<SetStatus(u, "PLAYING", cp[s][u].chair)>>)
      BY <1>6 DEF update_user_conn
    <2>2. u # None => Arg(s).c \in Occupied(tb[s].seat) /\ u = tb[s].seat[Arg(s).c]
      BY <2>1, AtSeatOccupied
    <2>3. CASE Begin(s, <<>>)
      BY <1>2, <2>1, <2>3, SteadySteps, BeginSilent
    <2>4. CASE u # None /\ Begin(s, <<SetStatus(u, "PLAYING", cp[s][u].chair)>>)
      <3>1. PICK q \in Step : /\ q = SetStatus(u, "PLAYING", cp[s][u].chair)
                              /\ q.u \in User /\ Opens(s, q)
        BY <2>2, <2>4, ReportsSeated
      <3>2. Begin(s, <<q>>)
        BY <2>4, <3>1
      <3>3. QED
        BY <1>2, <2>1, <3>1, <3>2, BeginSilent
    <2>5. QED
      BY <2>1, <2>3, <2>4
  <1>7. CASE request_user_ready(s)
    <2>1. Takes(s, "user_ready") /\ Begin(s, <<DoFor("ready", None, Arg(s).c)>>)
      BY <1>7 DEF request_user_ready
    <2>2. Arg(s).c \in 0 .. MaxChair
      BY <2>1, TakesType
    <2>3. <<DoFor("ready", None, Arg(s).c)>> \in Seq(Steady("R"))
      BY <2>2, SteadyKinds, SteadySteps DEF TableStep
    <2>4. QED
      BY <1>2, <2>1, <2>3, BeginSilent
  <1>8. QED
    BY <1>3, <1>4, <1>5, <1>6, <1>7

LEMMA GameRequestSilent ==
  ASSUME ChanTypeOK, TabTypeOK, Waits, OneAsked, NEW s \in Service,
         game_msg(s) \/ init_game(s)
  PROVE  Silent(s, "R")
  <1>1. CASE game_msg(s)
    <2>1. Takes(s, "game_msg") /\ cp' = cp
      BY <1>1 DEF game_msg
    <2>2. CASE Begin(s, <<>>) /\ UNCHANGED tb
      BY <2>1, <2>2, SameFramed, SteadySteps, BeginSilent
    <2>3. ASSUME NEW steps, NextPhase(s, {Arg(s).c}, steps), Begin(s, steps)
          PROVE  Silent(s, "R")
      <3>1. Framed(s) /\ steps \in Seq(Steady("R"))
        BY <2>1, <2>3, NextPhaseFramed DEF SameWords
      <3>2. QED
        BY <2>1, <2>3, <3>1, BeginSilent
    <2>4. QED
      BY <1>1, <2>2, <2>3, Zenon DEF game_msg
  <1>2. CASE init_game(s)
    <2>1. /\ Takes(s, "init_game") /\ tb' = tb
          /\ cp' = cp \/ \E u : cp' = [cp EXCEPT ![s][u].init = TRUE]
          /\ Begin(s, <<>>) \/ Begin(s, <<Do("start")>>)
      BY <1>2 DEF init_game
    <2>2. Framed(s)
      <3>1. ASSUME NEW u, cp' = [cp EXCEPT ![s][u].init = TRUE]
            PROVE  /\ \A w \in User : \/ cp'[s][w] = cp[s][w]
                                     \/ cp'[s][w] = [cp[s][w] EXCEPT !.init = TRUE]
                   /\ \A r \in Service \ {s} : cp'[r] = cp[r]
        BY <3>1 DEF TabTypeOK
      <3>2. \A r \in CopyRec : Word([r EXCEPT !.init = TRUE]) = Word(r)
        BY DEF CopyRec, Word
      <3>3. \A w \in User : cp[s][w] \in CopyRec
        BY DEF TabTypeOK
      <3>4. SameWords(s) /\ \A r \in Service \ {s} : cp'[r] = cp[r]
        BY <2>1, <3>1, <3>2, <3>3 DEF SameWords
      <3>5. QED
        BY <2>1, <3>4 DEF Framed, SamePlaces
    <2>3. <<Do("start")>> \in Seq(Steady("R"))
      BY SteadyKinds, SteadySteps DEF TableStep
    <2>4. QED
      BY <2>1, <2>2, <2>3, SteadySteps, BeginSilent
  <1>3. QED
    BY <1>1, <1>2

-----------------------------------------------------------------------------
(* A player is let in: he has his seat, or watches, and his status is      *)
(* about to be reported.                                                   *)
LetsIn(s) ==
  LET m == Arg(s)
      st == IF m.op = "user_sitdown" THEN "SIT" ELSE "OB"
  IN /\ m \in Asked /\ Sits(m) /\ Takes(s, m.op)
     /\ Untouched(s, "R") /\ UNCHANGED <<toMgr, wt>>
     /\ Running(s, "R")' /\ co[s]["R"] = <<>>
     /\ co'[s]["R"] = <<SetStatus(m.u, st, m.c)>> /\ ~res'[s]
     /\ IF st = "SIT"
        THEN /\ m.c \in Chair /\ tb[s].seat[m.c] = None
             /\ tb'[s] = [tb[s] EXCEPT !.seat[m.c] = m.u]
        ELSE tb'[s] = [tb[s] EXCEPT !.ob = @ \cup {m.u}]
     /\ \A u \in User \ {m.u} : cp'[s][u] = cp[s][u]
     /\ Word(cp'[s][m.u]) = Word(NoCopy)

LEMMA TakesAsked ==
  ASSUME ChanTypeOK, NEW s \in Service, NEW op, Takes(s, op)
  PROVE  /\ Arg(s) \in Asked /\ Arg(s) \in Elems(toTab[s]) /\ Arg(s).op = op
         /\ toTab'[s] = Tail(toTab[s]) /\ Elems(toTab'[s]) \subseteq Elems(toTab[s])
  <1>1. /\ toTab[s] # <<>> /\ Head(toTab[s]).k = "req" /\ Head(toTab[s]).op = op
        /\ toTab' = [toTab EXCEPT ![s] = Tail(@)] /\ toTab[s] \in Seq(TabMsg)
    BY DEF Takes, ChanTypeOK
  <1>2. toTab'[s] = Tail(toTab[s])
    BY <1>1 DEF ChanTypeOK
  <1>3. Head(toTab[s]) \in TabMsg
    BY <1>1, SeqParts
  <1>4. Head(toTab[s]) \in Asked
    BY <1>1, <1>3 DEF Asked
  <1>5. Head(toTab[s]) \in Elems(toTab[s]) /\ Elems(Tail(toTab[s])) \subseteq Elems(toTab[s])
    BY <1>1, ElemsTail
  <1>6. QED
    BY <1>1, <1>2, <1>4, <1>5 DEF Arg

LEMMA SitdownKinds ==
  ASSUME ChanTypeOK, TabTypeOK, Waits, OneAsked, NEW s \in Service, AsksWell(s),
         user_sitdown(s)
  PROVE  Silent(s, "R") \/ LetsIn(s)
  <1> DEFINE m == Arg(s)
  <1>1. Takes(s, "user_sitdown")
    BY DEF user_sitdown
  <1>2. /\ m \in Asked /\ m \in Elems(toTab[s]) /\ m.op = "user_sitdown"
        /\ m.u \in User /\ m.c \in 0 .. MaxChair
    BY <1>1, TakesAsked, TakesType DEF UserOp
  <1>3. co[s]["R"] = <<>>
    BY <1>1, TakesResumed
  <1>4. ASSUME NEW ok \in BOOLEAN, Reply(s, ok, 0), UNCHANGED <<tb, cp>>
        PROVE  Silent(s, "R")
    <2>1. 0 \in 0 .. MaxChair
      BY RoomAssumption
    <2>2. QED
      BY <1>1, <1>4, <2>1, ReplySilent
  <1>5. ASSUME m.tid = 0, ~SitRefused(s),
               tb' = [tb EXCEPT ![s].seat[m.c] = m.u],
               cp' = [cp EXCEPT ![s][m.u] = NoCopy],
               NEW t \in MayMiss(co[s]["T"], m.c),
               co' = [co EXCEPT ![s]["R"] = <<SetStatus(m.u, "SIT", m.c)>>, ![s]["T"] = t],
               cur' = [svc |-> s, co |-> "R"],
               res' = [res EXCEPT ![s] = FALSE],
               UNCHANGED <<toMgr, wt>>
        PROVE  LetsIn(s)
    <2>1. Sits(m) /\ m.c \in Chair
      BY <1>2, <1>5 DEF Sits, AsksWell, AskedFor
    <2>2. tb[s].seat[m.c] = None
      <3>1. AtSeat(s) = None
        BY <1>5 DEF SitRefused
      <3>2. m.c # 0
        BY <2>1, RoomAssumption DEF Chair
      <3>3. QED
        BY <3>1, <3>2 DEF AtSeat
    <2>3. /\ tb'[s] = [tb[s] EXCEPT !.seat[m.c] = m.u]
          /\ \A r \in Service \ {s} : tb'[r] = tb[r]
      BY <1>5 DEF TabTypeOK
    <2>4. /\ \A u \in User \ {m.u} : cp'[s][u] = cp[s][u]
          /\ cp'[s][m.u] = NoCopy
          /\ \A r \in Service \ {s} : cp'[r] = cp[r]
      BY <1>2, <1>5 DEF TabTypeOK
    <2>5. ~res'[s] /\ \A r \in Service \ {s} : res'[r] = res[r]
      BY <1>5 DEF TabTypeOK
    <2>6. /\ co'[s]["R"] = <<SetStatus(m.u, "SIT", m.c)>> /\ co'[s]["T"] = t
          /\ \A r \in Service \ {s} : co'[r] = co[r]
      BY <1>5, CoroutineNames DEF TabTypeOK
    <2>7. t = co[s]["T"] \/ Missed(co[s]["T"], t)
      BY <1>5, <2>1 DEF MayMiss, Missed
    <2>8. Untouched(s, "R")
      <3>1. ASSUME NEW r \in Service, NEW y \in Coroutine, r # s \/ y # "R"
            PROVE  co'[r][y] = co[r][y] \/ Missed(co[r][y], co'[r][y])
        <4>1. r # s \/ y = "T"
          BY <3>1 DEF Coroutine
        <4>2. QED
          BY <2>6, <2>7, <4>1
      <3>2. QED
        BY <2>3, <2>4, <2>5, <3>1 DEF Untouched
    <2>9. Running(s, "R")'
      BY <1>5 DEF Running
    <2>10. QED
      BY <1>1, <1>2, <1>3, <1>5, <2>1, <2>2, <2>3, <2>4, <2>5, <2>6, <2>8, <2>9 DEF LetsIn
  <1>6. QED
    BY <1>4, <1>5, Zenon DEF user_sitdown

LEMMA SitdownObKinds ==
  ASSUME ChanTypeOK, TabTypeOK, Waits, OneAsked, NEW s \in Service, user_sitdown_ob(s)
  PROVE  Silent(s, "R") \/ LetsIn(s)
  <1> DEFINE m == Arg(s)
             a == SetStatus(m.u, "OB", m.c)
  <1>1. Takes(s, "user_sitdown_ob")
    BY DEF user_sitdown_ob
  <1>2. m \in Asked /\ m.op = "user_sitdown_ob" /\ m.u \in User /\ m.c \in 0 .. MaxChair
    BY <1>1, TakesAsked, TakesType DEF UserOp
  <1>3. co[s]["R"] = <<>>
    BY <1>1, TakesResumed
  <1>4. CASE Reply(s, TRUE, 0) /\ UNCHANGED <<tb, cp>>
    <2>1. 0 \in 0 .. MaxChair
      BY RoomAssumption
    <2>2. QED
      BY <1>1, <1>4, <2>1, ReplySilent
  <1>5. ASSUME tb' = [tb EXCEPT ![s].ob = @ \cup {m.u}],
               cp' = [cp EXCEPT ![s][m.u] = [NoCopy EXCEPT !.rich = m.rich]],
               Begin(s, <<a>>)
        PROVE  LetsIn(s)
    <2>1. Sits(m)
      BY <1>2 DEF Sits
    <2>2. /\ tb'[s] = [tb[s] EXCEPT !.ob = @ \cup {m.u}]
          /\ \A r \in Service \ {s} : tb'[r] = tb[r]
      BY <1>5 DEF TabTypeOK
    <2>3. /\ \A u \in User \ {m.u} : cp'[s][u] = cp[s][u]
          /\ cp'[s][m.u] = [NoCopy EXCEPT !.rich = m.rich]
          /\ \A r \in Service \ {s} : cp'[r] = cp[r]
      BY <1>2, <1>5 DEF TabTypeOK
    <2>4. Word(cp'[s][m.u]) = Word(NoCopy)
      BY <2>3 DEF Word, NoCopy
    <2>5. /\ res' = [res EXCEPT ![s] = FALSE] /\ wt' = wt
          /\ Continues(s, "R", <<a>>)
      BY <1>5 DEF Begin
    <2>6. ~res'[s] /\ \A r \in Service \ {s} : res'[r] = res[r]
      BY <2>5 DEF TabTypeOK
    <2>7. co'[s]["R"] = <<a>> /\ SameCo(s, "R") /\ (<<a>> = <<>> \/ Running(s, "R")')
      BY <2>5, CoroutineNames, ContinuesCo
    <2>8. <<a>> # <<>>
      OBVIOUS
    <2>9. toMgr' = toMgr
      BY <2>5, <2>8 DEF Continues
    <2>10. Untouched(s, "R")
      BY <2>2, <2>3, <2>6, <2>7 DEF Untouched, SameCo
    <2>11. QED
      BY <1>1, <1>2, <1>3, <2>1, <2>2, <2>3, <2>4, <2>5, <2>6, <2>7, <2>8, <2>9, <2>10
      DEF LetsIn
  <1>6. QED
    BY <1>4, <1>5, Zenon DEF user_sitdown_ob

(* A table is started, or cleaned up: nobody is left at it.                *)
Empties(s) ==
  LET m == Arg(s) IN
  /\ m \in Asked /\ m.op \in {"start", "cleanup"} /\ Takes(s, m.op)
  /\ Untouched(s, "R") /\ UNCHANGED <<cp, co, wt, res, cur>> /\ co[s]["R"] = <<>>
  /\ tb'[s].seat = NoSeats /\ tb'[s].ob = {}
  /\ tb'[s].tid = IF m.op = "start" THEN m.tid ELSE 0
  /\ \E e \in Returned : e.val = 0 /\ toMgr' = [toMgr EXCEPT ![s] = Append(@, e)]

LEMMA EmptiesKind ==
  ASSUME ChanTypeOK, TabTypeOK, Waits, OneAsked, NEW s \in Service, start(s) \/ cleanup(s)
  PROVE  Empties(s)
  <1> DEFINE m == Arg(s)
  <1>1. /\ Takes(s, "start") \/ Takes(s, "cleanup")
        /\ Reply(s, TRUE, 0) /\ UNCHANGED cp
    BY DEF start, cleanup
  <1>2. m \in Asked /\ m.op \in {"start", "cleanup"} /\ Takes(s, m.op) /\ co[s]["R"] = <<>>
    BY <1>1, TakesAsked, TakesResumed
  <1>3. /\ UNCHANGED <<cur, co, wt, res>>
        /\ toMgr' = [toMgr EXCEPT ![s] = Append(@, Return(TRUE, 0))]
    BY <1>1 DEF Reply
  <1>4. Return(TRUE, 0) \in Returned /\ Return(TRUE, 0).val = 0
    <2>1. 0 \in 0 .. MaxChair
      BY RoomAssumption
    <2>2. QED
      BY <2>1, MessageKinds DEF Return
  <1>5. /\ \A r \in Service \ {s} : tb'[r] = tb[r]
        /\ tb'[s].seat = NoSeats /\ tb'[s].ob = {}
        /\ tb'[s].tid = IF m.op = "start" THEN m.tid ELSE 0
    <2>1. CASE start(s)
      <3>1. m.op = "start"
        BY <2>1, TakesAsked DEF start
      <3>2. tb' = [tb EXCEPT ![s] =
                     [FreshTable EXCEPT !.tid = m.tid, !.recs = tb[s].recs,
                        !.rtimer = tb[s].rtimer, !.alive = tb[s].alive]]
        BY <2>1 DEF start
      <3>3. QED
        BY <3>1, <3>2 DEF TabTypeOK, FreshTable
    <2>2. CASE cleanup(s)
      <3>1. m.op = "cleanup"
        BY <2>2, TakesAsked DEF cleanup
      <3>2. tb' = [tb EXCEPT ![s] =
                     [FreshTable EXCEPT !.recs = tb[s].recs, !.alive = tb[s].alive,
                        !.playing = tb[s].playing, !.banker = tb[s].banker]]
        BY <2>2 DEF cleanup
      <3>3. QED
        BY <3>1, <3>2 DEF TabTypeOK, FreshTable
    <2>3. QED
      BY <2>1, <2>2
  <1>6. Untouched(s, "R")
    BY <1>1, <1>3, <1>5 DEF Untouched
  <1>7. QED
    BY <1>1, <1>2, <1>3, <1>4, <1>5, <1>6 DEF Empties

-----------------------------------------------------------------------------
(* A player's status is reported; the copy already says so.                *)
Informs(s, x) ==
  LET q == Top(s, x) IN
  /\ Running(s, x) /\ co[s][x] # <<>> /\ q \in Step /\ q.op = "status"
  /\ Leads(s, x, q, Rest(s, x))
  /\ Untouched(s, x) /\ tb' = tb /\ res' = res
  /\ co'[s][x] = Rest(s, x) /\ x \in wt'[s]
  /\ \A u \in User \ {q.u} : cp'[s][u] = cp[s][u]
  /\ Word(cp'[s][q.u]) =
       [st |-> q.st, tid |-> IF q.st = "FREE" THEN 0 ELSE tb[s].tid, chair |-> q.c]
  /\ \E e \in CallsOf(x) : /\ toMgr' = [toMgr EXCEPT ![s] = Append(@, e)]
                           /\ Says(e, q.u) /\ Word(e) = Word(cp'[s][q.u])

LEMMA InformsKind ==
  ASSUME ChanTypeOK, TabTypeOK, Waits, NEW s \in Service, NEW x \in Coroutine,
         Shape(s, x), update_user_status(s, x)
  PROVE  Informs(s, x)
  <1> DEFINE q == Top(s, x)
             tid == IF q.st = "FREE" THEN 0 ELSE tb[s].tid
             ini == IF q.u \in Robot THEN tid # 0
                    ELSE cp[s][q.u].init /\ q.st # "OFFLINE"
             ev == StatusEvent(x, q.u, tid, q.c, q.st)
  <1>1. /\ At(s, x, "status") /\ tb' = tb /\ CallMgr(s, x, ev, <<>>)
        /\ cp' = [cp EXCEPT ![s][q.u] =
                    [@ EXCEPT !.st = q.st, !.tid = tid, !.chair = q.c, !.init = ini]]
    BY DEF update_user_status
  <1>2. /\ q \in Step /\ q.op = "status" /\ co[s][x] # <<>>
        /\ q.u \in User /\ q.c \in 0 .. MaxChair /\ q.st \in Status
        /\ Rest(s, x) \in Seq(Step)
    BY <1>1, AtFacts, StepShape DEF UserStep, Rest
  <1>3. Running(s, x) /\ Leads(s, x, q, Rest(s, x))
    BY <1>1, AtShape
  <1>4. tid \in 0 .. MaxTable
    BY RoomAssumption DEF TabTypeOK, TableState
  <1>5. ev \in CallsOf(x)
    BY <1>2, <1>4, MessageKinds
  <1>6. /\ ev.k = "status" /\ ev.u = q.u /\ ev.st = q.st /\ ev.tid = tid /\ ev.chair = q.c
    BY DEF StatusEvent
  <1>7. /\ \A u \in User \ {q.u} : cp'[s][u] = cp[s][u]
        /\ cp'[s][q.u] = [cp[s][q.u] EXCEPT !.st = q.st, !.tid = tid, !.chair = q.c,
                                            !.init = ini]
        /\ \A r \in Service \ {s} : cp'[r] = cp[r]
    BY <1>1, <1>2 DEF TabTypeOK
  <1>8. Word(cp'[s][q.u]) = [st |-> q.st, tid |-> tid, chair |-> q.c]
    <2>1. cp[s][q.u] \in CopyRec
      BY <1>2 DEF TabTypeOK
    <2> HIDE DEF q, tid, ini
    <2>2. QED
      BY <1>7, <2>1 DEF CopyRec, Word
  <1> HIDE DEF ev
  <1>9. /\ co'[s][x] = <<>> \o Rest(s, x) /\ SameCo(s, x) /\ res' = res /\ x \in wt'[s]
    BY <1>1, CallCo
  <1>10. co'[s][x] = Rest(s, x)
    BY <1>2, <1>9, NoCons
  <1>11. toMgr' = [toMgr EXCEPT ![s] = Append(@, ev)]
    BY <1>1 DEF CallMgr
  <1>12. Says(ev, q.u) /\ Word(ev) = Word(cp'[s][q.u])
    BY <1>6, <1>8 DEF Says, Word
  <1>13. Untouched(s, x)
    BY <1>1, <1>7, <1>9 DEF Untouched, SameCo
  <1>14. QED
    BY <1>1, <1>2, <1>3, <1>5, <1>7, <1>8, <1>9, <1>10, <1>11, <1>12, <1>13 DEF Informs

(* A player is taken off the table, once gamemgr has answered.             *)
TakesAway(s, x) ==
  LET q == Top(s, x)
      seat == Cleared(s, q.c)
  IN /\ Answered(s, x) /\ x \in wt[s] /\ co[s][x] # <<>> /\ q \in Step /\ q.op \in LeaveOp
     /\ Follows(x, q, Rest(s, x))
     /\ Untouched(s, x) /\ res' = res /\ NoStatusSent(s) /\ CallStays(s)
     /\ co'[s][x] \in Seq(Steady(x))
     /\ toTab' = [toTab EXCEPT ![s] = Tail(@)]
     /\ tb'[s].tid = tb[s].tid /\ tb'[s].seat = seat
     /\ tb'[s].ob = IF q.op = "unwatch" THEN tb[s].ob \ {q.u}
                    ELSE IF Occupied(seat) = {} THEN {} ELSE tb[s].ob
     /\ \A u \in User : cp'[s][u] = IF Here(s, u)' THEN cp[s][u] ELSE NoCopy

LEMMA ForgetEffect ==
  ASSUME TabTypeOK, NEW s \in Service, NEW seat, NEW ob, Forget(s, seat, ob)
  PROVE  /\ tb'[s].seat = seat /\ tb'[s].ob = ob /\ tb'[s].tid = tb[s].tid
         /\ \A r \in Service \ {s} : tb'[r] = tb[r] /\ cp'[r] = cp[r]
         /\ \A u \in User : cp'[s][u] = IF Here(s, u)' THEN cp[s][u] ELSE NoCopy
  <1>1. /\ tb' = [tb EXCEPT ![s].seat = seat, ![s].ob = ob]
        /\ cp' = [cp EXCEPT ![s] =
              [u \in User |-> IF u \in ob \cup {seat[c] : c \in Chair}
                              THEN cp[s][u] ELSE NoCopy]]
    BY DEF Forget
  <1>2. /\ tb'[s].seat = seat /\ tb'[s].ob = ob /\ tb'[s].tid = tb[s].tid
        /\ \A r \in Service \ {s} : tb'[r] = tb[r]
    BY <1>1 DEF TabTypeOK, TableState
  <1>3. /\ cp'[s] = [u \in User |-> IF u \in ob \cup {seat[c] : c \in Chair}
                                    THEN cp[s][u] ELSE NoCopy]
        /\ \A r \in Service \ {s} : cp'[r] = cp[r]
    BY <1>1 DEF TabTypeOK
  <1>4. ASSUME NEW u \in User
        PROVE  Here(s, u)' <=> u \in ob \cup {seat[c] : c \in Chair}
    BY <1>2 DEF Here, Seated
  <1>5. QED
    BY <1>2, <1>3, <1>4

(* What the answer a coroutine waited for lets it go on with.              *)
LEMMA TakesAwayBy ==
  ASSUME ChanTypeOK, TabTypeOK, Waits, NEW s \in Service, NEW x \in Coroutine,
         NEW op \in LeaveOp, At(s, x, op), Shape(s, x), NEW ob,
         Forget(s, Cleared(s, Top(s, x).c), ob),
         ob = IF op = "unwatch" THEN tb[s].ob \ {Top(s, x).u}
              ELSE IF Occupied(Cleared(s, Top(s, x).c)) = {} THEN {} ELSE tb[s].ob,
         NEW steps, Then(s, x, steps), steps = <<>> \/ steps = <<Do("start")>>
  PROVE  TakesAway(s, x)
  <1>1. /\ x \in wt[s] /\ cur = Idle /\ Answered(s, x) /\ Follows(x, Top(s, x), Rest(s, x))
        /\ co[s][x] # <<>> /\ co[s][x] \in Seq(Step) /\ Top(s, x) \in Step
        /\ Top(s, x).op = op /\ Rest(s, x) \in Seq(Step) /\ Rest(s, x) \in Seq(Steady(x))
    BY AtShape, AtFacts DEF Rest, Follows
  <1>2. /\ co'[s][x] = steps \o Rest(s, x) /\ SameCo(s, x) /\ res' = res /\ NoStatusSent(s)
    BY ThenCo
  <1>3. Do("start") \in Steady(x) /\ Do("start") \in Step /\ Do("start").op \in Surely
    BY SteadyKinds, SteadySteps DEF TableStep, Surely, Do, StepOf
  <1>4. co'[s][x] \in Seq(Steady(x))
    <2>1. steps \in Seq(Steady(x))
      BY <1>3, SteadySteps
    <2> HIDE DEF Steady
    <2>2. QED
      BY <1>1, <1>2, <2>1
  <1>5. CallStays(s)
    <2>1. WillCall(co[s][x]) => WillCall(Rest(s, x))
      <3>1. op \notin Calling
        BY DEF LeaveOp, Calling
      <3>2. QED
        BY <1>1, <3>1, CallComes DEF Top, Rest
    <2>2. WillCall(Rest(s, x)) => WillCall(steps \o Rest(s, x))
      BY <1>1, <1>3, PromiseKinds
    <2>3. CASE x = "R"
      BY <1>2, <2>1, <2>2, <2>3 DEF CallStays
    <2>4. CASE x # "R"
      BY <1>2, <2>4, NoPromise
    <2>5. QED
      BY <2>3, <2>4
  <1>6. /\ tb'[s].seat = Cleared(s, Top(s, x).c) /\ tb'[s].ob = ob /\ tb'[s].tid = tb[s].tid
        /\ \A r \in Service \ {s} : tb'[r] = tb[r] /\ cp'[r] = cp[r]
        /\ \A u \in User : cp'[s][u] = IF Here(s, u)' THEN cp[s][u] ELSE NoCopy
    BY ForgetEffect
  <1>7. Untouched(s, x)
    BY <1>2, <1>6 DEF Untouched, SameCo
  <1>8. toTab' = [toTab EXCEPT ![s] = Tail(@)]
    BY <1>1 DEF Then, Taken
  <1>9. QED
    BY <1>1, <1>2, <1>4, <1>5, <1>6, <1>7, <1>8 DEF TakesAway

LEMMA TakesAwayKind ==
  ASSUME ChanTypeOK, TabTypeOK, Waits, NEW s \in Service, NEW x \in Coroutine,
         Shape(s, x), vacate(s, x) \/ unwatch(s, x)
  PROVE  TakesAway(s, x)
  <1> DEFINE seat == Cleared(s, Top(s, x).c)
  <1>1. CASE vacate(s, x)
    <2>1. /\ At(s, x, "vacate")
          /\ Forget(s, seat, IF Occupied(seat) = {} THEN {} ELSE tb[s].ob)
          /\ Then(s, x, <<>>) \/ Then(s, x, <<Do("start")>>)
      BY <1>1 DEF vacate
    <2>2. PICK ob : ob = IF Occupied(seat) = {} THEN {} ELSE tb[s].ob
      OBVIOUS
    <2>3. PICK steps : Then(s, x, steps) /\ (steps = <<>> \/ steps = <<Do("start")>>)
      BY <2>1
    <2>4. "vacate" \in LeaveOp /\ "vacate" # "unwatch" /\ Forget(s, seat, ob)
      BY <2>1, <2>2 DEF LeaveOp
    <2>5. QED
      BY <2>1, <2>2, <2>3, <2>4, TakesAwayBy
  <1>2. CASE unwatch(s, x)
    <2>1. /\ At(s, x, "unwatch") /\ Forget(s, seat, tb[s].ob \ {Top(s, x).u})
          /\ Then(s, x, <<>>) /\ "unwatch" \in LeaveOp
      BY <1>2 DEF unwatch, LeaveOp
    <2>2. QED
      BY <2>1, TakesAwayBy
  <1>3. QED
    BY <1>1, <1>2

-----------------------------------------------------------------------------
(* Every step of a table is one of these.                                  *)
LEMMA RunStepKinds ==
  ASSUME ChanTypeOK, TabTypeOK, Waits, NEW s \in Service, NEW x \in Coroutine, Copies(s),
         Shape(s, x), RunStep(s, x)
  PROVE  Silent(s, x) \/ Informs(s, x) \/ TakesAway(s, x)
  <1>1. CASE update_user_status(s, x)
    BY <1>1, InformsKind
  <1>2. CASE vacate(s, x) \/ unwatch(s, x)
    BY <1>2, TakesAwayKind
  <1>3. CASE user_standup(s, x)
    BY <1>3, UserStandupSilent
  <1>4. CASE \/ update_table_status(s, x) \/ start_game(s, x) \/ start_game_seat(s, x)
             \/ on_game_start(s, x) \/ game_end(s, x) \/ write_user_score(s, x)
             \/ end_game(s, x) \/ write_game_record_detail(s, x)
             \/ write_game_record(s, x)
    BY <1>4, UpdateTableStatusSilent, StartGameSilent, StartGameSeatSilent,
       OnGameStartSilent, GameEndSilent, WriteUserScoreSilent, EndGameSilent,
       WriteDetailSilent, WriteRecordSilent
  <1>5. CASE \/ clear_records(s, x) \/ end_game_seat(s, x) \/ on_game_reset(s, x)
             \/ ready_timeout_seat(s, x) \/ remove_timer(s, x) \/ user_ready(s, x)
             \/ Finish(s, x)
    BY <1>5, TableFieldSilent, EndGameSeatSilent, ReadySeatSilent, UserReadySilent,
       FinishSilent
  <1>6. QED
    BY <1>1, <1>2, <1>3, <1>4, <1>5 DEF RunStep

LEMMA RequestKinds ==
  ASSUME ChanTypeOK, TabTypeOK, Waits, OneAsked, NEW s \in Service, AsksWell(s), Request(s)
  PROVE  Silent(s, "R") \/ LetsIn(s) \/ Empties(s)
  BY QuerySilent, SitdownKinds, SitdownObKinds, SeatedRequestSilent, GameRequestSilent,
     EmptiesKind DEF Request

TableKind(s, x) ==
  Silent(s, x) \/ Informs(s, x) \/ TakesAway(s, x) \/ (x = "R" /\ (LetsIn(s) \/ Empties(s)))

(* The coroutine whose step it is.                                         *)
Acts(s, x) == RunStep(s, x) \/ (x = "R" /\ Request(s)) \/ (x = "T" /\ Timer(s))

LEMMA TableKinds ==
  ASSUME ChanTypeOK, TabTypeOK, CallInv, NEW s \in Service, TableShape(s), TabNext(s)
  PROVE  \E x \in Coroutine :
           Resumed(s, x) /\ Outcome(s, x) /\ TableKind(s, x) /\ Acts(s, x)
  <1>1. Waits /\ OneAsked
    BY DEF CallInv
  <1>2. CASE Request(s)
    BY <1>1, <1>2, RequestEnds, RequestKinds, CoroutineNames DEF TableShape, TableKind, Acts
  <1>3. CASE Timer(s)
    BY <1>1, <1>3, TimerEnds, TimerSilent, CoroutineNames DEF TableKind, Acts
  <1>4. ASSUME NEW x \in Coroutine, RunStep(s, x)
        PROVE  Resumed(s, x) /\ Outcome(s, x) /\ TableKind(s, x) /\ Acts(s, x)
    <2>1. Stretch(s, x)
      BY <1>4, RunStretch
    <2>2. Resumed(s, x) /\ Outcome(s, x)
      BY <1>1, <2>1, ResumedByAnswer DEF Stretch, AnswerTaken
    <2>3. QED
      BY <1>1, <1>4, <2>2, RunStepKinds DEF TableShape, TableKind, Acts
  <1>5. QED
    BY <1>2, <1>3, <1>4 DEF TabNext

-----------------------------------------------------------------------------
(* What a step of a table takes from its queue.                            *)
TakesHead(s) == toTab[s] # <<>> /\ toTab' = [toTab EXCEPT ![s] = Tail(@)]

LEMMA TabTakes ==
  ASSUME ChanTypeOK, TabTypeOK, NEW s \in Service, TabNext(s)
  PROVE  \/ UNCHANGED toTab
         \/ TakesHead(s) /\ Head(toTab[s]).k = "resp"
         \/ TakesHead(s) /\ Head(toTab[s]).k = "req" /\ Request(s)
            /\ Takes(s, Head(toTab[s]).op)
  <1>1. CASE Request(s)
    <2>1. PICK op : Takes(s, op)
      BY <1>1 DEF Request, start, cleanup, get_can_sit_chairid, get_table_info,
         user_sitdown, user_sitdown_ob, request_user_standup, robot_standup, user_offline,
         update_user_conn, game_msg, init_game, request_user_ready
    <2>2. QED
      BY <1>1, <2>1 DEF Takes, TakesHead
  <1>2. CASE Timer(s)
    BY <1>2 DEF Timer, ReadyTimeout, GameTimeout, RobotReady, TimerFires
  <1>3. ASSUME NEW x \in Coroutine, RunStep(s, x)
        PROVE  UNCHANGED toTab \/ (TakesHead(s) /\ Head(toTab[s]).k = "resp")
    <2>1. Stretch(s, x)
      BY <1>3, RunStretch
    <2>2. CASE cur = Idle
      <3>1. ~Running(s, x)
        BY <2>2, WhoRuns DEF Running
      <3>2. QED
        BY <2>1, <2>2, <3>1 DEF Stretch, AnswerTaken, Answered, TakesHead
    <2>3. CASE cur # Idle
      BY <2>1, <2>3 DEF Stretch, AnswerTaken
    <2>4. QED
      BY <2>2, <2>3
  <1>4. QED
    BY <1>1, <1>2, <1>3 DEF TabNext

(* Only the start handler takes the question to start.                     *)
LEMMA StartTaken ==
  ASSUME NEW s \in Service, Request(s), Takes(s, "start")
  PROVE  start(s)
  BY DEF Request, Takes, start, cleanup, get_can_sit_chairid, get_table_info,
         user_sitdown, user_sitdown_ob, request_user_standup, robot_standup, user_offline,
         update_user_conn, game_msg, init_game, request_user_ready

(* One question at most is in a table's queue.                             *)
LEMMA AskedOnce ==
  ASSUME ChanTypeOK, OneAsked, NEW s \in Service, toTab[s] # <<>>, Head(toTab[s]) \in Asked
  PROVE  \A m \in Elems(Tail(toTab[s])) : m \notin Asked
  <1>1. toTab[s] \in Seq(TabMsg) /\ Tail(toTab[s]) \in Seq(TabMsg)
    BY DEF ChanTypeOK
  <1>2. NumIn(toTab[s], Asked) = NumIn(Tail(toTab[s]), Asked) + 1
    BY <1>1, NumInTail, SMT DEF Bit
  <1>3. Engaged(s) = 0 \/ Engaged(s) = 1
    BY DEF OneAsked, NoneEngaged, OneEngaged
  <1>4. NumIn(Tail(toTab[s]), Asked) \in Nat
    BY <1>1, NumInType
  <1>5. NumIn(toTab[s], Asked) \in Nat /\ NumIn(toMgr[s], Returned) \in Nat
        /\ Bit(Active(s, "R")) \in {0, 1}
    BY CountTypes
  <1>6. NumIn(Tail(toTab[s]), Asked) = 0
    BY <1>2, <1>3, <1>4, <1>5 DEF Engaged
  <1>7. QED
    BY <1>1, <1>6, NoneIn

-----------------------------------------------------------------------------
(* What a coroutine that is not the one that runs is left with.            *)
LEMMA MissedSteady ==
  ASSUME NEW x, NEW k \in Seq(Step), NEW l, Missed(k, l)
  PROVE  /\ k # <<>> /\ l # <<>> /\ Head(k).op \in SeatLoop /\ Head(l).op \in SeatLoop
         /\ k \in Seq(Steady(x)) => l \in Seq(Steady(x))
  <1>1. PICK c \in Chair : k # <<>> /\ Head(k).op \in SeatLoop
                           /\ l = <<Again(Head(k), c)>> \o Tail(k)
    BY DEF Missed
  <1>2. Head(k) \in Step /\ Tail(k) \in Seq(Step) /\ c \in 0 .. MaxChair
        /\ Head(k).op \in TableStep
    BY <1>1, RoomAssumption DEF Chair, SeatLoop, TableStep
  <1> DEFINE a == Again(Head(k), c)
  <1>3. a \in Step /\ a \in Steady(x) /\ a.op = Head(k).op
    BY <1>2, AgainType, SteadyKinds DEF Again, Loop, StepOf
  <1> HIDE DEF a
  <1>4. <<a>> \o Tail(k) # <<>> /\ Head(<<a>> \o Tail(k)) = a
    BY <1>2, <1>3, ConsFacts
  <1>5. l = <<a>> \o Tail(k)
    BY <1>1 DEF a
  <1>6. ASSUME k \in Seq(Steady(x))
        PROVE  l \in Seq(Steady(x))
    <2>1. Tail(k) \in Seq(Steady(x))
      BY <1>1, <1>6, SeqParts
    <2>2. <<a>> \o Tail(k) \in Seq(Steady(x))
      BY <1>3, <2>1, ConsFacts
    <2>3. QED
      BY <1>5, <2>2
  <1>7. QED
    BY <1>1, <1>3, <1>4, <1>5, <1>6

(* Its shape, and whom it takes off, stay.                                 *)
LEMMA OtherShape ==
  ASSUME TabTypeOK, NEW r \in Service, NEW y \in Coroutine, Shape(r, y),
         ~Running(r, y), y \in wt'[r] <=> y \in wt[r],
         co'[r][y] = co[r][y] \/ Missed(co[r][y], co'[r][y])
  PROVE  /\ Shape(r, y)'
         /\ \A u \in User : /\ TakesOff(r, y, u)' => TakesOff(r, y, u)
                            /\ TakesOff(r, y, u) => TakesOff(r, y, u)'
                            /\ Vacates(r, y, u)' <=> Vacates(r, y, u)
                            /\ Unwatches(r, y, u)' <=> Unwatches(r, y, u)
                            /\ \A c : Gives(r, y, u, c)' <=> Gives(r, y, u, c)
  <1>1. co[r][y] \in Seq(Step)
    BY DEF TabTypeOK
  <1>2. CASE co'[r][y] = co[r][y]
    BY <1>2 DEF Shape, Top, Rest, Follows, TakesOff, Vacates, Unwatches, Gives, NextIs
  <1>3. CASE Missed(co[r][y], co'[r][y])
    <2>1. /\ co[r][y] # <<>> /\ co'[r][y] # <<>>
          /\ Top(r, y).op \in SeatLoop /\ Top(r, y)'.op \in SeatLoop
          /\ co[r][y] \in Seq(Steady(y)) => co'[r][y] \in Seq(Steady(y))
      BY <1>1, <1>3, MissedSteady DEF Top
    <2>2. co[r][y] \in Seq(Steady(y))
      BY <2>1 DEF Shape, Follows, SeatLoop
    <2>3. Shape(r, y)'
      BY <2>1, <2>2 DEF Shape
    <2>4. \A u : /\ ~Vacates(r, y, u) /\ ~Unwatches(r, y, u)
                 /\ ~Vacates(r, y, u)' /\ ~Unwatches(r, y, u)'
      BY <2>1 DEF Vacates, Unwatches, NextIs, SeatLoop
    <2>5. QED
      BY <2>3, <2>4 DEF TakesOff, Gives
  <1>4. QED
    BY <1>2, <1>3

(* A coroutine that runs, or has only steady steps left, takes nobody off. *)
LEMMA SteadyTakesNobody ==
  ASSUME NEW s \in Service, NEW x \in Coroutine, co[s][x] \in Seq(Steady(x)), NEW u
  PROVE  ~TakesOff(s, x, u)
  <1>1. co[s][x] # <<>> => Top(s, x) \in Steady(x)
    BY SeqParts DEF Top
  <1>2. co[s][x] # <<>> => Top(s, x).op \notin LeaveOp
    BY <1>1 DEF Steady
  <1>3. QED
    BY <1>2 DEF TakesOff, Vacates, Unwatches, NextIs, LeaveOp

-----------------------------------------------------------------------------
(* What the coroutine that ran is left with.                               *)
LEMMA RunsOrWaits ==
  ASSUME ChanTypeOK, TabTypeOK, Waits, NEW s \in Service, NEW x \in Coroutine,
         Resumed(s, x), Outcome(s, x), Running(s, x)'
  PROVE  x \notin wt'[s]
  <1>1. wt'[s] = wt[s] \ {x}
    BY OthersWait
  <1>2. QED
    BY <1>1

LEMMA SilentShape ==
  ASSUME ChanTypeOK, TabTypeOK, Waits, NEW s \in Service, NEW x \in Coroutine,
         Resumed(s, x), Outcome(s, x), Silent(s, x)
  PROVE  Shape(s, x)' /\ \A u : ~TakesOff(s, x, u)'
  <1>1. NextShape(s, x)
    BY DEF Silent
  <1>2. Shape(s, x)'
    BY <1>1 DEF NextShape, Shape, Top, Rest
  <1>3. co'[s][x] \in Seq(Steady(x)) => \A u : ~TakesOff(s, x, u)'
    <2>1. ASSUME co'[s][x] \in Seq(Steady(x))
          PROVE  co'[s][x] # <<>> => Top(s, x)'.op \notin LeaveOp
      <3>1. co'[s][x] # <<>> => Head(co'[s][x]) \in Steady(x)
        BY <2>1, SeqParts
      <3>2. QED
        BY <3>1 DEF Top, Steady
    <2>2. QED
      BY <2>1 DEF TakesOff, Vacates, Unwatches, NextIs, LeaveOp
  <1>4. Running(s, x)' => \A u : ~TakesOff(s, x, u)'
    BY RunsOrWaits DEF TakesOff, Vacates, Unwatches
  <1>5. QED
    BY <1>1, <1>2, <1>3, <1>4 DEF NextShape

LEMMA InformsShape ==
  ASSUME ChanTypeOK, TabTypeOK, Waits, NEW s \in Service, NEW x \in Coroutine,
         Resumed(s, x), Outcome(s, x), Informs(s, x)
  PROVE  /\ Shape(s, x)'
         /\ \A u : TakesOff(s, x, u)' => u = Top(s, x).u /\ Top(s, x).st = "FREE"
         /\ \A m \in Elems(toMgr'[s]) : m \in CallsOf(x) => Says(m, Top(s, x).u)
  <1>1. /\ Running(s, x) /\ co[s][x] # <<>> /\ Top(s, x).op = "status"
        /\ Leads(s, x, Top(s, x), Rest(s, x))
        /\ co'[s][x] = Rest(s, x) /\ x \in wt'[s]
    BY DEF Informs
  <1>2. ASSUME Rest(s, x) \in Seq(Steady(x))
        PROVE  Shape(s, x)' /\ \A u : ~TakesOff(s, x, u)'
    <2>1. Shape(s, x)'
      BY <1>1, <1>2 DEF Shape
    <2>2. co'[s][x] # <<>> => Head(co'[s][x]).op \notin LeaveOp
      <3>1. co'[s][x] # <<>> => Head(co'[s][x]) \in Steady(x)
        BY <1>1, <1>2, SeqParts
      <3>2. QED
        BY <3>1 DEF Steady
    <2>3. \A u : ~TakesOff(s, x, u)'
      BY <2>2 DEF TakesOff, Vacates, Unwatches, NextIs, LeaveOp, Top
    <2>4. QED
      BY <2>1, <2>3
  <1>3. ASSUME /\ Top(s, x).st = "FREE" /\ Rest(s, x) # <<>>
               /\ Frees(s, x, Top(s, x), Head(Rest(s, x)))
               /\ Tail(Rest(s, x)) \in Seq(Steady(x))
               /\ Head(Rest(s, x)).op = "vacate" => Tells(Tail(Rest(s, x)))
        PROVE  Shape(s, x)' /\ \A u : TakesOff(s, x, u)' => u = Top(s, x).u
    <2>1. Top(s, x)' = Head(Rest(s, x)) /\ Rest(s, x)' = Tail(Rest(s, x))
      BY <1>1 DEF Top, Rest
    <2>2. Head(Rest(s, x)).u = Top(s, x).u /\ Head(Rest(s, x)).op \in {"vacate", "unwatch"}
      BY <1>3 DEF Frees
    <2>3. Follows(x, Head(Rest(s, x)), Tail(Rest(s, x)))
      BY <1>3, <2>2 DEF Follows
    <2>4. Shape(s, x)'
      BY <1>1, <1>3, <2>1, <2>3 DEF Shape
    <2>5. \A u : TakesOff(s, x, u)' => u = Top(s, x).u
      BY <2>1, <2>2 DEF TakesOff, Vacates, Unwatches, NextIs
    <2>6. QED
      BY <2>4, <2>5
  <1>4. Shape(s, x)' /\ \A u : TakesOff(s, x, u)' => u = Top(s, x).u /\ Top(s, x).st = "FREE"
    BY <1>1, <1>2, <1>3 DEF Leads
  <1>5. \A m \in Elems(toMgr[s]) : m \notin CallsOf(x)
    <2>1. x \notin wt[s] /\ Owes(s, x) = Bit(x \in wt[s])
      BY <1>1 DEF Waits
    <2>2. NumIn(toTab[s], Answers(x)) \in Nat /\ NumIn(toMgr[s], CallsOf(x)) \in Nat
      BY CountTypes
    <2>3. NumIn(toMgr[s], CallsOf(x)) = 0
      BY <2>1, <2>2 DEF Owes, Bit
    <2>4. toMgr[s] \in Seq(MgrMsg)
      BY DEF ChanTypeOK
    <2>5. QED
      BY <2>3, <2>4, NoneIn
  <1>6. PICK e \in CallsOf(x) : toMgr' = [toMgr EXCEPT ![s] = Append(@, e)]
                                /\ Says(e, Top(s, x).u)
    BY DEF Informs
  <1>7. Elems(toMgr'[s]) = Elems(toMgr[s]) \cup {e}
    <2>1. toMgr[s] \in Seq(MgrMsg) /\ e \in MgrMsg /\ toMgr'[s] = Append(toMgr[s], e)
      BY <1>6 DEF ChanTypeOK, CallsOf
    <2>2. Elems(Append(toMgr[s], e)) = Elems(toMgr[s]) \cup {e}
      BY <2>1, ElemsAppend
    <2>3. QED
      BY <2>1, <2>2
  <1>8. QED
    BY <1>4, <1>5, <1>6, <1>7

LEMMA TakesAwayShape ==
  ASSUME NEW s \in Service, NEW x \in Coroutine, TakesAway(s, x)
  PROVE  Shape(s, x)' /\ \A u : ~TakesOff(s, x, u)'
  <1>1. co'[s][x] \in Seq(Steady(x))
    BY DEF TakesAway
  <1>2. co'[s][x] # <<>> => Head(co'[s][x]).op \notin LeaveOp
    <2>1. co'[s][x] # <<>> => Head(co'[s][x]) \in Steady(x)
      BY <1>1, SeqParts
    <2>2. QED
      BY <2>1 DEF Steady
  <1>3. QED
    BY <1>1, <1>2 DEF Shape, TakesOff, Vacates, Unwatches, NextIs, LeaveOp, Top

(* Who is let in is at the table when his status is about to be reported.  *)
LEMMA LetsInFresh ==
  ASSUME ChanTypeOK, TabTypeOK, NEW s \in Service, LetsIn(s), NEW m, m = Arg(s),
         NEW st, st = (IF m.op = "user_sitdown" THEN "SIT" ELSE "OB"),
         NEW q, q = SetStatus(m.u, st, m.c)
  PROVE  /\ m.u \in User /\ m.c \in 0 .. MaxChair
         /\ co'[s]["R"] = <<q>> /\ Top(s, "R")' = q /\ Rest(s, "R")' = <<>>
         /\ Fresh(s, m.u)' /\ Here(s, m.u)'
         /\ Leads(s, "R", q, <<>>)'
  <1>1. /\ m \in Asked /\ Sits(m) /\ Takes(s, m.op)
        /\ Running(s, "R")' /\ co'[s]["R"] = <<q>>
        /\ IF st = "SIT"
           THEN /\ m.c \in Chair /\ tb[s].seat[m.c] = None
                /\ tb'[s] = [tb[s] EXCEPT !.seat[m.c] = m.u]
           ELSE tb'[s] = [tb[s] EXCEPT !.ob = @ \cup {m.u}]
    BY Zenon DEF LetsIn
  <1>2. m.u \in User /\ m.c \in 0 .. MaxChair
    BY <1>1, TakesType DEF Sits, UserOp
  <1>3. q.op = "status" /\ q.u = m.u /\ q.st = st /\ q.c = m.c
    BY DEF SetStatus, StepOf
  <1>4. /\ st = "SIT" => tb'[s].seat[m.c] = m.u /\ m.c \in Chair
        /\ st # "SIT" => st = "OB" /\ m.u \in tb'[s].ob
    BY <1>1 DEF TabTypeOK, TableState
  <1>5. co'[s]["R"] # <<>> /\ Head(co'[s]["R"]) = q /\ Tail(co'[s]["R"]) = <<>>
        /\ Len(co'[s]["R"]) = 1
    BY <1>1
  <1>6. Top(s, "R")' = q /\ Rest(s, "R")' = <<>>
    BY <1>5 DEF Top, Rest
  <1>7. st \in {"SIT", "OB"}
    OBVIOUS
  <1>8. Fresh(s, m.u)'
    BY <1>1, <1>3, <1>5, <1>6, <1>7 DEF Fresh, NextIs
  <1>9. Here(s, m.u)'
    BY <1>4 DEF Here, Seated
  <1>10. Fits(s, q)'
    <2>1. CASE st = "SIT"
      <3>1. SitsAt(s, q)'
        BY <1>3, <1>4, <2>1 DEF SitsAt
      <3>2. QED
        BY <3>1 DEF Fits
    <2>2. CASE st # "SIT"
      BY <1>3, <1>4, <1>8, <2>2 DEF Fits
    <2>3. QED
      BY <2>1, <2>2
  <1>11. Leads(s, "R", q, <<>>)'
    BY <1>3, <1>7, <1>10, SteadySteps DEF Leads
  <1>12. QED
    BY <1>1, <1>2, <1>6, <1>8, <1>9, <1>11

LEMMA RequestShapes ==
  ASSUME ChanTypeOK, TabTypeOK, Waits, NEW s \in Service,
         Resumed(s, "R"), Outcome(s, "R"), LetsIn(s) \/ Empties(s)
  PROVE  Shape(s, "R")' /\ \A u : ~TakesOff(s, "R", u)'
  <1>0. "R" \in Coroutine
    BY CoroutineNames
  <1>1. CASE LetsIn(s)
    <2>0. PICK m, st : m = Arg(s) /\ st = (IF m.op = "user_sitdown" THEN "SIT" ELSE "OB")
      BY Zenon
    <2>1. PICK q : /\ co'[s]["R"] = <<q>> /\ Top(s, "R")' = q /\ Rest(s, "R")' = <<>>
                   /\ Leads(s, "R", q, <<>>)'
      BY <1>1, <2>0, LetsInFresh
    <2>2. Running(s, "R")' /\ co'[s]["R"] # <<>>
      BY <1>1, <2>1 DEF LetsIn
    <2>3. Leads(s, "R", Top(s, "R"), Rest(s, "R"))'
      BY <2>1 DEF Leads
    <2>4. Shape(s, "R")'
      BY <2>2, <2>3 DEF Shape
    <2>5. "R" \notin wt'[s]
      BY <1>0, <2>2, RunsOrWaits
    <2>6. QED
      BY <2>4, <2>5 DEF TakesOff, Vacates, Unwatches
  <1>2. CASE Empties(s)
    <2>1. co'[s]["R"] = <<>>
      BY <1>2 DEF Empties
    <2>2. QED
      BY <2>1, SteadySteps DEF Shape, TakesOff, Vacates, Unwatches, NextIs
  <1>3. QED
    BY <1>1, <1>2

-----------------------------------------------------------------------------
(* Who is at the table, its id, and what the copies say, after each kind   *)
(* of step.                                                                *)
LEMMA SilentPlaces ==
  ASSUME NEW s \in Service, NEW x, Silent(s, x)
  PROVE  /\ tb'[s].tid = tb[s].tid /\ \A u : Here(s, u)' <=> Here(s, u)
         /\ \A u : Seated(s, u)' <=> Seated(s, u)
         /\ \A u \in User : /\ cp'[s][u].st = cp[s][u].st /\ cp'[s][u].tid = cp[s][u].tid
                            /\ cp'[s][u].chair = cp[s][u].chair
  <1>1. SamePlaces(s) /\ SameWords(s)
    BY DEF Silent
  <1>2. \A u \in User : Word(cp'[s][u]) = Word(cp[s][u])
    BY <1>1 DEF SameWords
  <1>3. QED
    BY <1>1, <1>2 DEF SamePlaces, Here, Seated, Word

LEMMA CopiesStay ==
  ASSUME ChanTypeOK, TabTypeOK, NEW s \in Service, NEW x \in Coroutine,
         TableKind(s, x), TableShape(s)
  PROVE  Copies(s)'
  <1>1. Copies(s)
    BY DEF TableShape
  <1>2. CASE Silent(s, x)
    BY <1>1, <1>2, SilentPlaces DEF Copies
  <1>3. CASE Informs(s, x)
    <2>1. PICK q : q = Top(s, x)
      BY Zenon
    <2>2. /\ q \in Step /\ q.op = "status" /\ Leads(s, x, q, Rest(s, x)) /\ tb' = tb
          /\ \A u \in User \ {q.u} : cp'[s][u] = cp[s][u]
          /\ Word(cp'[s][q.u]) =
               [st |-> q.st, tid |-> IF q.st = "FREE" THEN 0 ELSE tb[s].tid, chair |-> q.c]
      BY <1>3, <2>1 DEF Informs
    <2>3. /\ cp'[s][q.u].tid = IF q.st = "FREE" THEN 0 ELSE tb[s].tid
          /\ cp'[s][q.u].chair = q.c
      BY <2>2 DEF Word
    <2>4. q.st = "FREE" => q.c = 0
      BY <2>2 DEF Leads, Frees
    <2>5. q.st # "FREE" => Here(s, q.u)
      BY <2>2 DEF Leads, Fits, SitsAt, Here, Seated
    <2>6. q.u \in User
      BY <2>2, StepShape DEF UserStep
    <2>7. \A u : Here(s, u)' <=> Here(s, u)
      BY <2>2 DEF Here, Seated
    <2>8. ASSUME NEW u \in User
          PROVE  cp'[s][u].tid = 0 => cp'[s][u].chair = 0
      BY <1>1, <2>2, <2>3, <2>4, <2>5, <2>6 DEF Copies
    <2>9. QED
      BY <1>1, <2>2, <2>7, <2>8 DEF Copies
  <1>4. CASE TakesAway(s, x)
    <2>1. /\ tb'[s].tid = tb[s].tid
          /\ tb'[s].ob \subseteq tb[s].ob
          /\ tb'[s].seat = Cleared(s, Top(s, x).c)
      BY <1>4 DEF TakesAway
    <2>2. \A u \in User : Here(s, u)' => Here(s, u)
      <3>1. ASSUME NEW u \in User, NEW c \in Chair, tb'[s].seat[c] = u
            PROVE  tb[s].seat[c] = u
        BY <2>1, <3>1, RoomAssumption DEF Cleared, TabTypeOK, TableState
      <3>2. QED
        BY <2>1, <3>1 DEF Here, Seated
    <2>3. \A u \in User : cp'[s][u] = cp[s][u] \/ cp'[s][u] = NoCopy
      BY <1>4 DEF TakesAway
    <2>4. QED
      BY <1>1, <2>1, <2>2, <2>3 DEF Copies, NoCopy
  <1>5. CASE LetsIn(s)
    <2>1. PICK m : m = Arg(s)
      BY Zenon
    <2>2. PICK st : st = (IF m.op = "user_sitdown" THEN "SIT" ELSE "OB")
      BY Zenon
    <2>3. /\ m \in Asked /\ Sits(m) /\ Takes(s, m.op)
          /\ IF st = "SIT"
             THEN /\ m.c \in Chair /\ tb[s].seat[m.c] = None
                  /\ tb'[s] = [tb[s] EXCEPT !.seat[m.c] = m.u]
             ELSE tb'[s] = [tb[s] EXCEPT !.ob = @ \cup {m.u}]
          /\ \A u \in User \ {m.u} : cp'[s][u] = cp[s][u]
          /\ Word(cp'[s][m.u]) = Word(NoCopy)
      BY <1>5, <2>1, <2>2, Zenon DEF LetsIn
    <2>4. m \in Elems(toTab[s])
      BY <2>1, <2>3, TakesAsked
    <2>5. tb[s].tid # 0
      BY <2>3, <2>4 DEF TableShape, AsksWell, AskedFor
    <2>6. tb'[s].tid = tb[s].tid
      BY <2>3 DEF TabTypeOK, TableState
    <2>7. cp'[s][m.u].chair = 0
      BY <2>3 DEF Word, NoCopy
    <2>8. QED
      BY <1>1, <2>3, <2>5, <2>6, <2>7 DEF Copies
  <1>6. CASE Empties(s)
    <2>1. tb'[s].seat = NoSeats /\ tb'[s].ob = {} /\ cp' = cp
      BY <1>6 DEF Empties
    <2>2. \A u \in User : ~Here(s, u)'
      BY <2>1, RoomAssumption DEF Here, Seated, NoSeats
    <2>3. QED
      BY <1>1, <2>1, <2>2 DEF Copies
  <1>7. QED
    BY <1>2, <1>3, <1>4, <1>5, <1>6 DEF TableKind

(* Only a table that is started or cleaned up changes its id.              *)
LEMMA SameTid ==
  ASSUME TabTypeOK, NEW s \in Service, NEW x \in Coroutine, TableKind(s, x)
  PROVE  tb'[s].tid = tb[s].tid \/ (x = "R" /\ Empties(s))
  <1>1. CASE Silent(s, x)
    BY <1>1, SilentPlaces
  <1>2. CASE Informs(s, x)
    BY <1>2 DEF Informs
  <1>3. CASE TakesAway(s, x)
    BY <1>3 DEF TakesAway
  <1>4. CASE LetsIn(s)
    <2>1. \/ tb'[s] = [tb[s] EXCEPT !.seat[Arg(s).c] = Arg(s).u]
          \/ tb'[s] = [tb[s] EXCEPT !.ob = @ \cup {Arg(s).u}]
      BY <1>4, Zenon DEF LetsIn
    <2>2. QED
      BY <2>1 DEF TabTypeOK, TableState
  <1>5. QED
    BY <1>1, <1>2, <1>3, <1>4 DEF TableKind

LEMMA OtherTables ==
  ASSUME NEW s \in Service, NEW x \in Coroutine, TableKind(s, x)
  PROVE  Untouched(s, x)
  BY DEF TableKind, Silent, Informs, TakesAway, LetsIn, Empties

-----------------------------------------------------------------------------
(* What is still to be looked at, and the tables' ids.                     *)
LEMMA StillAsked ==
  ASSUME ChanTypeOK, TabTypeOK, NEW s \in Service, TabNext(s)
  PROVE  /\ \A r \in Service : Elems(toTab'[r]) \subseteq Elems(toTab[r])
         /\ \A r \in Service : \A m \in Elems(toTab[r]) \cap Asked :
              m \in Elems(toTab'[r]) \/ (r = s /\ m = Head(toTab[s]) /\ TakesHead(s))
  <1>1. CASE UNCHANGED toTab
    BY <1>1
  <1>2. CASE TakesHead(s)
    <2>1. toTab[s] \in Seq(TabMsg) /\ toTab[s] # <<>>
      BY <1>2 DEF TakesHead, ChanTypeOK
    <2>2. toTab'[s] = Tail(toTab[s]) /\ \A r \in Service \ {s} : toTab'[r] = toTab[r]
      BY <1>2 DEF TakesHead, ChanTypeOK
    <2>3. Elems(toTab[s]) = Elems(toTab'[s]) \cup {Head(toTab[s])}
      BY <2>1, <2>2, ElemsTail
    <2>4. QED
      BY <1>2, <2>2, <2>3
  <1>3. QED
    BY <1>1, <1>2, TabTakes

LEMMA EmptiesTakes ==
  ASSUME ChanTypeOK, TabTypeOK, OneAsked, NEW s \in Service, Empties(s)
  PROVE  /\ Arg(s) \in Elems(toTab[s]) /\ Arg(s) \in Asked
         /\ \A m \in Elems(toTab'[s]) : m \notin Asked
         /\ Arg(s).op \in {"start", "cleanup"}
         /\ tb'[s].tid = IF Arg(s).op = "start" THEN Arg(s).tid ELSE 0
  <1>1. Takes(s, Arg(s).op) /\ Arg(s) \in Asked /\ Arg(s).op \in {"start", "cleanup"}
        /\ tb'[s].tid = IF Arg(s).op = "start" THEN Arg(s).tid ELSE 0
    BY DEF Empties
  <1>2. Arg(s) \in Elems(toTab[s]) /\ toTab'[s] = Tail(toTab[s]) /\ toTab[s] # <<>>
    BY <1>1, TakesAsked DEF Takes
  <1>3. \A m \in Elems(Tail(toTab[s])) : m \notin Asked
    BY <1>1, <1>2, AskedOnce DEF Arg
  <1>4. QED
    BY <1>1, <1>2, <1>3

LEMMA AsksStay ==
  ASSUME ChanTypeOK, TabTypeOK, OneAsked, NEW s \in Service, NEW x \in Coroutine,
         TabNext(s), TableKind(s, x), UNCHANGED mgrVars, NEW r \in Service, AsksWell(r)
  PROVE  AsksWell(r)'
  <1>1. Elems(toTab'[r]) \subseteq Elems(toTab[r])
    BY StillAsked
  <1>2. req' = req /\ gt' = gt /\ InRoom' = InRoom
    BY DEF mgrVars, InRoom
  <1>3. tb'[r].tid = tb[r].tid \/ \A m \in Elems(toTab'[r]) : m \notin Asked
    <2>1. CASE r = s
      BY <2>1, SameTid, EmptiesTakes
    <2>2. CASE r # s
      BY <2>2, OtherTables DEF Untouched
    <2>3. QED
      BY <2>1, <2>2
  <1>4. ASSUME NEW m \in Elems(toTab'[r]), m \in Asked
        PROVE  AskedFor(r, m)'
    <2>1. AskedFor(r, m) /\ tb'[r].tid = tb[r].tid
      BY <1>1, <1>3, <1>4 DEF AsksWell
    <2>2. QED
      BY <1>2, <2>1 DEF AskedFor, Sits, Targets, Live, Starting
  <1>5. QED
    BY <1>4 DEF AsksWell

(* A table keeps its id while it is open or being started.                 *)
LEMMA OpenStays ==
  ASSUME IInv, CallInv, NEW s \in Service, NEW x \in Coroutine,
         TabNext(s), TableKind(s, x), UNCHANGED mgrVars, Open, AsksWell(s)
  PROVE  Open'
  <1>0. /\ ChanTypeOK /\ TabTypeOK /\ MgrTypeOK /\ RequestHolds /\ ResourcePartition
        /\ Waits /\ OneAsked
    BY DEF IInv, MgrInv, CallInv
  <1>1. req' = req /\ gt' = gt /\ InRoom' = InRoom /\ Live' = Live
    BY DEF mgrVars, InRoom, Live
  <1>2. \A r \in Service \ {s} : tb'[r] = tb[r]
    BY OtherTables DEF Untouched
  <1>3. CASE Empties(s)
    <2>1. /\ Arg(s) \in Elems(toTab[s]) /\ Arg(s) \in Asked
          /\ Arg(s).op \in {"start", "cleanup"}
          /\ tb'[s].tid = IF Arg(s).op = "start" THEN Arg(s).tid ELSE 0
      BY <1>0, <1>3, EmptiesTakes
    <2>2. AskedFor(s, Arg(s))
      BY <2>1 DEF AsksWell
    <2>3. Arg(s).op = "start" => tb'[s].tid # 0
      BY <2>1, <2>2 DEF AskedFor
    <2>4. Arg(s).op = "cleanup" => req.pc = "clean" /\ gt[req.t] = s /\ req.t \in Live
      BY <1>0, <2>2 DEF AskedFor, RequestHolds
    <2>5. ASSUME NEW t \in Live
          PROVE  tb'[gt[t]].tid # 0 \/ (req.pc = "clean" /\ req.t = t)
      <3>1. gt[t] \in Service
        BY <1>0 DEF MgrTypeOK, Live
      <3>2. CASE gt[t] = s
        BY <1>0, <2>1, <2>3, <2>4, <3>2 DEF ResourcePartition
      <3>3. CASE gt[t] # s
        BY <1>2, <3>1, <3>3 DEF Open
      <3>4. QED
        BY <3>2, <3>3
    <2>6. req.pc = "start" /\ req.svc = s => tb'[s].tid # 0
      BY <2>1, <2>2, <2>3 DEF AskedFor
    <2>7. QED
      <3>1. req.pc = "start" => req.svc \in Service
        BY <1>0 DEF ResourcePartition, MgrTypeOK
      <3>2. req.pc = "start" /\ req.svc # s =>
              tb'[req.svc].tid # 0 \/ \E m \in Elems(toTab'[req.svc]) : m \in Asked
        BY <1>0, <1>2, <3>1, StillAsked DEF Open
      <3>3. QED
        BY <1>1, <2>5, <2>6, <3>2 DEF Open
  <1>4. CASE ~Empties(s)
    <2>1. \A r \in Service : tb'[r].tid = tb[r].tid
      BY <1>0, <1>2, <1>4, SameTid
    <2>2. \A t \in Live : tb'[gt[t]].tid # 0 \/ (req.pc = "clean" /\ req.t = t)
      <3>1. \A t \in Live : gt[t] \in Service
        BY <1>0 DEF MgrTypeOK, Live
      <3>2. QED
        BY <2>1, <3>1 DEF Open
    <2>3. ASSUME req.pc = "start", NEW m \in Elems(toTab[req.svc]), m \in Asked
          PROVE  m \in Elems(toTab'[req.svc])
      <3>1. req.svc \in Service
        BY <1>0, <2>3 DEF ResourcePartition, MgrTypeOK
      <3>2. SUFFICES ASSUME req.svc = s, m = Head(toTab[s]), TakesHead(s)
                     PROVE  FALSE
        BY <1>0, <2>3, <3>1, StillAsked
      <3>3. m.op = "start" /\ m.k = "req"
        BY <2>3, <3>2 DEF AsksWell, AskedFor, Asked
      <3>4. toTab[s] \in Seq(TabMsg) /\ toTab[s] # <<>> /\ toTab'[s] = Tail(toTab[s])
        BY <1>0, <3>2 DEF TakesHead, ChanTypeOK
      <3>5. toTab' # toTab
        <4>1. Len(toTab'[s]) # Len(toTab[s])
          BY <3>4, SeqParts, SMT
        <4>2. QED
          BY <4>1
      <3>6. Request(s) /\ Takes(s, "start")
        BY <1>0, <3>2, <3>3, <3>5, TabTakes
      <3>7. Empties(s)
        BY <1>0, <3>6, StartTaken, EmptiesKind
      <3>8. QED
        BY <1>4, <3>7
    <2>4. req.pc = "start" => req.svc \in Service
      BY <1>0 DEF ResourcePartition, MgrTypeOK
    <2>5. QED
      BY <1>1, <2>1, <2>2, <2>3, <2>4 DEF Open
  <1>5. QED
    BY <1>3, <1>4

-----------------------------------------------------------------------------
(* A step of a table keeps the shape of every table.                       *)
LEMMA OwnShape ==
  ASSUME ChanTypeOK, TabTypeOK, Waits, NEW s \in Service, NEW x \in Coroutine,
         Resumed(s, x), Outcome(s, x), TableKind(s, x)
  PROVE  /\ Shape(s, x)'
         /\ \A u : TakesOff(s, x, u)' =>
              /\ Informs(s, x) /\ u = Top(s, x).u /\ Top(s, x).st = "FREE"
              /\ \A m \in Elems(toMgr'[s]) : m \in CallsOf(x) => Says(m, u)
  <1>1. CASE Silent(s, x)
    BY <1>1, SilentShape
  <1>2. CASE Informs(s, x)
    BY <1>2, InformsShape
  <1>3. CASE TakesAway(s, x)
    BY <1>3, TakesAwayShape
  <1>4. CASE x = "R" /\ (LetsIn(s) \/ Empties(s))
    BY <1>4, RequestShapes
  <1>5. QED
    BY <1>1, <1>2, <1>3, <1>4 DEF TableKind

(* Another coroutine's calls are not added to.                             *)
LEMMA OtherCalls ==
  ASSUME ChanTypeOK, TabTypeOK, Waits, NEW s \in Service, NEW x \in Coroutine,
         Resumed(s, x), Outcome(s, x), NEW r \in Service, NEW y \in Coroutine, r # s \/ y # x
  PROVE  \A m \in Elems(toMgr'[r]) : m \in CallsOf(y) => m \in Elems(toMgr[r])
  <1>1. CASE r # s
    BY <1>1, OthersWait
  <1>2. CASE r = s
    <2>1. toMgr[s] \in Seq(MgrMsg)
      BY DEF ChanTypeOK
    <2>2. \/ toMgr'[s] = toMgr[s]
          \/ \E m \in MgrMsg : m \notin CallsOf(y) /\ toMgr'[s] = Append(toMgr[s], m)
      <3>1. \/ toMgr' = toMgr
            \/ \E m \in CallsOf(x) \cup Returned : toMgr' = [toMgr EXCEPT ![s] = Append(@, m)]
        BY DEF Outcome, RunsOn, WaitsForMgr, Ends
      <3>2. CallsOf(x) \cup Returned \subseteq MgrMsg
            /\ \A m \in CallsOf(x) \cup Returned : m \notin CallsOf(y)
        BY <1>2 DEF CallsOf, Returned
      <3>3. QED
        BY <3>1, <3>2 DEF ChanTypeOK
    <2>3. CASE \E m \in MgrMsg : m \notin CallsOf(y) /\ toMgr'[s] = Append(toMgr[s], m)
      <3>1. PICK m \in MgrMsg : m \notin CallsOf(y) /\ toMgr'[s] = Append(toMgr[s], m)
        BY <2>3
      <3>2. Elems(Append(toMgr[s], m)) = Elems(toMgr[s]) \cup {m}
        BY <2>1, ElemsAppend
      <3>3. QED
        BY <1>2, <3>1, <3>2
    <2>4. QED
      BY <1>2, <2>2, <2>3
  <1>3. QED
    BY <1>1, <1>2

LEMMA OthersShape ==
  ASSUME ChanTypeOK, TabTypeOK, Waits, NEW s \in Service, NEW x \in Coroutine,
         Resumed(s, x), Outcome(s, x), Untouched(s, x),
         NEW r \in Service, NEW y \in Coroutine, r # s \/ y # x, Shape(r, y)
  PROVE  /\ Shape(r, y)'
         /\ \A u \in User : /\ TakesOff(r, y, u)' <=> TakesOff(r, y, u)
                            /\ Vacates(r, y, u)' <=> Vacates(r, y, u)
                            /\ Unwatches(r, y, u)' <=> Unwatches(r, y, u)
                            /\ \A c : Gives(r, y, u, c)' <=> Gives(r, y, u, c)
  <1>1. ~Running(r, y) /\ (y \in wt'[r] <=> y \in wt[r])
    <2>1. CASE r # s
      <3>1. wt'[r] = wt[r] /\ ~Running(r, y)
        BY <2>1, OthersWait
      <3>2. QED
        BY <3>1
    <2>2. CASE r = s
      <3>1. y \in Coroutine \ {x}
        BY <2>2
      <3>2. ~Running(s, y) /\ (y \in wt'[s] <=> y \in wt[s])
        BY <3>1, OthersWait
      <3>3. QED
        BY <2>2, <3>2
    <2>3. QED
      BY <2>1, <2>2
  <1>2. co'[r][y] = co[r][y] \/ Missed(co[r][y], co'[r][y])
    BY DEF Untouched
  <1>3. QED
    BY <1>1, <1>2, OtherShape

LEMMA TableShapes ==
  ASSUME IInv, CallInv, ShapeInv, NEW s \in Service, TabNext(s), UNCHANGED mgrVars
  PROVE  ShapeInv'
  <1>1. /\ ChanTypeOK /\ TabTypeOK /\ Waits /\ OneAsked /\ Open
        /\ \A r \in Service : TableShape(r)
    BY DEF IInv, MgrInv, CallInv, ShapeInv
  <1>2. PICK x \in Coroutine : Resumed(s, x) /\ Outcome(s, x) /\ TableKind(s, x)
    BY <1>1, TableKinds
  <1>3. Untouched(s, x)
    BY <1>2, OtherTables
  <1>4. ASSUME NEW r \in Service, NEW y \in Coroutine
        PROVE  Shape(r, y)' /\ Reports(r, y)'
    <2>1. CASE r = s /\ y = x
      BY <1>1, <1>2, <2>1, OwnShape DEF Reports
    <2>2. CASE r # s \/ y # x
      <3>1. Shape(r, y) /\ Reports(r, y)
        BY <1>1 DEF TableShape
      <3>2. Shape(r, y)' /\ \A u \in User : TakesOff(r, y, u)' <=> TakesOff(r, y, u)
        BY <1>1, <1>2, <1>3, <2>2, <3>1, OthersShape
      <3>3. \A m \in Elems(toMgr'[r]) : m \in CallsOf(y) => m \in Elems(toMgr[r])
        BY <1>1, <1>2, <2>2, OtherCalls
      <3>4. QED
        BY <3>1, <3>2, <3>3 DEF Reports
    <2>3. QED
      BY <2>1, <2>2
  <1>5. ASSUME NEW r \in Service
        PROVE  Copies(r)'
    <2>1. CASE r = s
      BY <1>1, <1>2, <2>1, CopiesStay
    <2>2. CASE r # s
      BY <1>1, <1>3, <2>2 DEF Untouched, TableShape, Copies, Here, Seated
    <2>3. QED
      BY <2>1, <2>2
  <1>6. \A r \in Service : AsksWell(r)'
    BY <1>1, <1>2, AsksStay DEF TableShape
  <1>7. Open'
    BY <1>1, <1>2, OpenStays DEF TableShape
  <1>8. QED
    BY <1>4, <1>5, <1>6, <1>7 DEF ShapeInv, TableShape

-----------------------------------------------------------------------------
(* What a request of gamemgr asks next.  To sit down is asked of a table   *)
(* that is there, for a player of the room, with his record as it is; to   *)
(* watch, once he has stood up; and a request that waits for a table to    *)
(* start, to be cleaned up, or to let a player go, has asked that.         *)
SameRoom == UNCHANGED <<online, gt>>

AsksTable(s, m) ==
  /\ CallTable(s, m)
  /\ m.op \in {"user_sitdown", "user_sitdown_ob"} =>
       m.u \in InRoom /\ Targets(s) /\ SameRoom
  /\ m.op = "user_sitdown" => m.c \in Chair /\ m.tid = online[m.u].tid
  /\ m.op = "user_sitdown_ob" => Answer("stand", TRUE, 1) /\ m.u = req.u
  /\ m.op = "cleanup" => /\ req'.pc = "clean" /\ gt[req'.t] = s /\ SameRoom
                         /\ req'.t = req.t /\ \E ok : Answer("info", ok, 0)
  /\ m.op = "start" => m.tid # 0 /\ m.tid = req'.t /\ Starting(s)'
  /\ m.op \notin {"start", "robot_standup"} => Targets(s)'
  /\ req'.pc = "start" => m.op = "start" /\ req'.svc = s
  /\ req'.pc = "stand" => m.op = "user_standup" /\ m.u = req'.u
  /\ req'.pc = "info" => m.op = "get_table_info" /\ gt'[req'.t] = s
  /\ req'.pc = "clean" => m.op = "cleanup"

AsksNone == UNCHANGED toTab /\ req'.pc \in {"idle", "db"}

GoesOn ==
  /\ AsksNone \/ \E s \in Service, m \in Asked : AsksTable(s, m)
  /\ req'.pc \in Sitter => req'.u \in InRoom'

(* The questions that need no more than that there be a table.             *)
Plainly(op) == op \in RoomOp \cup UserOp
               /\ op \notin {"user_sitdown", "user_sitdown_ob", "cleanup", "start"}

LEMMA CallFields ==
  \A op, u, c, t, rich :
    /\ Call(op, u, c, t, rich).op = op /\ Call(op, u, c, t, rich).u = u
    /\ Call(op, u, c, t, rich).c = c /\ Call(op, u, c, t, rich).tid = t
    /\ Plain(op, u, c).op = op /\ Plain(op, u, c).u = u
  BY DEF Call, Plain

LEMMA PlainAsked ==
  /\ \A op \in UserOp, u \in User, c \in 0 .. MaxChair : Plain(op, u, c) \in Asked
  /\ \A op \in RoomOp : Plain(op, None, 0) \in Asked
  <1>1. \A op, u, c : Plain(op, u, c).k = "req"
    BY DEF Call, Plain
  <1>2. \A m \in TabMsg : m.k = "req" => m \in Asked
    BY DEF Asked
  <1>3. QED
    BY <1>1, <1>2, CallType

LEMMA CallAsked ==
  /\ \A op \in UserOp, u \in User, c \in 0 .. MaxChair, t \in 0 .. MaxTable, rich \in BOOLEAN :
       Call(op, u, c, t, rich) \in Asked
  /\ \A t \in 0 .. MaxTable : Call("start", None, 0, t, TRUE) \in Asked
  <1>1. \A op, u, c, t, rich : Call(op, u, c, t, rich).k = "req"
    BY DEF Call
  <1>2. \A m \in TabMsg : m.k = "req" => m \in Asked
    BY DEF Asked
  <1>3. \A op \in UserOp, u \in User, c \in 0 .. MaxChair, t \in 0 .. MaxTable,
           rich \in BOOLEAN : Call(op, u, c, t, rich) \in Asked
    BY <1>1, <1>2, CallType
  <1>4. ASSUME NEW t \in 0 .. MaxTable
        PROVE  Call("start", None, 0, t, TRUE) \in Asked
    <2>1. Call("start", None, 0, t, TRUE) \in TabMsg
      BY CallType
    <2>2. Call("start", None, 0, t, TRUE).k = "req"
      BY DEF Call
    <2>3. QED
      BY <1>2, <2>1, <2>2
  <1>5. QED
    BY <1>3, <1>4

LEMMA DoneGoes ==
  ASSUME Done
  PROVE  AsksNone /\ GoesOn
  BY RequestType DEF Done, AsksNone, GoesOn, Sitter

LEMMA PlainGoes ==
  ASSUME MgrTypeOK, NEW s \in Service, NEW m \in Asked, CallTable(s, m), Plainly(m.op),
         req'.pc \notin {"start", "clean"},
         req'.pc = "stand" => m.op = "user_standup" /\ m.u = req'.u,
         req'.pc = "info" => m.op = "get_table_info" /\ gt'[req'.t] = s,
         m.op = "robot_standup" \/ Targets(s)',
         req'.pc \in Sitter => req'.u \in InRoom'
  PROVE  GoesOn
  BY DEF GoesOn, AsksTable, Plainly

LEMMA CallGoes ==
  ASSUME MgrTypeOK, NEW t, NEW m \in Asked, NEW next, CallOrFail(t, m, next), Plainly(m.op),
         next.pc \notin {"start", "clean"}, gt' = gt,
         next.pc = "stand" => m.op = "user_standup" /\ m.u = next.u,
         next.pc = "info" => m.op = "get_table_info" /\ next.t = t,
         next.pc \in Sitter => next.u \in InRoom'
  PROVE  GoesOn
  <1>1. CASE t \in Live /\ CallTable(gt[t], m) /\ req' = next
    <2>1. gt[t] \in Service /\ Targets(gt[t])'
      BY <1>1 DEF MgrTypeOK, Live, Targets
    <2>2. next.pc = "info" => gt'[req'.t] = gt[t]
      BY <1>1
    <2>3. QED
      BY <1>1, <2>1, <2>2, PlainGoes
  <1>2. CASE Done
    BY <1>2, DoneGoes
  <1>3. QED
    BY <1>1, <1>2 DEF CallOrFail

(* The rest of a request: a question to the table of the record at hand.   *)
LEMMA LastGoes ==
  ASSUME MgrTypeOK, NEW t, NEW op \in UserOp, NEW u \in User, NEW c \in 0 .. MaxChair,
         Plainly(op), NEW v, CallOrFail(t, Plain(op, u, c), Await("last", v)), gt' = gt
  PROVE  GoesOn
  <1>1. Plain(op, u, c) \in Asked /\ Plain(op, u, c).op = op
    BY PlainAsked, CallFields
  <1>2. Await("last", v).pc = "last" /\ "last" \notin Sitter \cup {"start", "stand", "info", "clean"}
    BY RequestType DEF Sitter
  <1>3. QED
    BY <1>1, <1>2, CallGoes, Zenon

LEMMA SitDownGoes ==
  ASSUME MgrTypeOK, NEW t, NEW u \in InRoom, NEW c \in Chair, SitDown(t, u, c), SameRoom
  PROVE  GoesOn
  <1>1. CASE Done
    BY <1>1, DoneGoes
  <1>2. CASE t \in Live /\ req' = Await("last", u)
             /\ CallTable(gt[t], Call("user_sitdown", u, c, online[u].tid, online[u].rich))
    <2>1. PICK m : m = Call("user_sitdown", u, c, online[u].tid, online[u].rich)
      BY Zenon
    <2>2. u \in User /\ online[u].tid \in 0 .. MaxTable /\ online[u].rich \in BOOLEAN
      BY RecordType DEF InRoom
    <2>3. "user_sitdown" \in UserOp /\ c \in 0 .. MaxChair
      BY RoomAssumption DEF UserOp, Chair
    <2>4. /\ m \in Asked /\ m.op = "user_sitdown" /\ m.u = u /\ m.c = c
          /\ m.tid = online[u].tid
      <3>1. m \in Asked
        BY <2>1, <2>2, <2>3, CallAsked, Zenon
      <3>2. m.op = "user_sitdown" /\ m.u = u /\ m.c = c /\ m.tid = online[u].tid
        BY <2>1, CallFields
      <3>3. QED
        BY <3>1, <3>2
    <2>5. gt[t] \in Service /\ Targets(gt[t]) /\ Targets(gt[t])'
      BY <1>2 DEF MgrTypeOK, Live, Targets, SameRoom
    <2>6. req'.pc = "last"
      BY <1>2, RequestType
    <2>7. AsksTable(gt[t], m)
      BY <1>2, <2>1, <2>4, <2>5, <2>6 DEF AsksTable
    <2>8. QED
      BY <2>4, <2>5, <2>6, <2>7 DEF GoesOn, Sitter
  <1>3. QED
    BY <1>1, <1>2 DEF SitDown, CallOrFail

LEMMA TryGoes ==
  ASSUME MgrTypeOK, NEW r \in RequestRec, r.u \in InRoom, NEW eligible \in SUBSET Live,
         NEW pc \in {"try", "change"}, TryTable(r, eligible, pc), SameRoom
  PROVE  GoesOn
  <1>1. PICK t \in r.cand \cap eligible, skipped \in SUBSET (r.cand \ eligible) :
          /\ CallTable(gt[t], Plain("get_can_sit_chairid", None, 0))
          /\ req' = [r EXCEPT !.pc = pc, !.t = t, !.cand = (@ \ {t}) \ skipped]
    BY DEF TryTable
  <1>2. PICK s \in Service : s = gt[t] /\ Targets(s)'
    BY DEF MgrTypeOK, Live, Targets, SameRoom
  <1>3. req'.pc = pc /\ req'.u = r.u
    BY <1>1 DEF RequestRec, RequestOf
  <1>4. PICK m : m = Plain("get_can_sit_chairid", None, 0)
    BY Zenon
  <1>5. m \in Asked /\ m.op = "get_can_sit_chairid"
    BY <1>4, PlainAsked, CallFields DEF RoomOp
  <1>6. Plainly(m.op)
    BY <1>5 DEF Plainly, RoomOp
  <1>7. InRoom' = InRoom
    BY DEF SameRoom, InRoom
  <1>8. CallTable(s, m)
    BY <1>1, <1>2, <1>4
  <1>9. req'.pc \notin {"start", "clean", "stand", "info"}
    BY <1>3
  <1>10. QED
    BY <1>2, <1>3, <1>7, <1>5, <1>6, <1>8, <1>9, PlainGoes

LEMMA CreateGoes ==
  ASSUME MgrTypeOK, NEW r \in RequestRec, r.u \in InRoom, CreateTable(r), SameRoom
  PROVE  GoesOn
  <1>1. CASE Done
    BY <1>1, DoneGoes
  <1>2. CASE ~Done
    <2>1. /\ free # {}
          /\ \E s \in IF pool # {} THEN pool ELSE Service \ born :
               /\ req' = [r EXCEPT !.pc = "start", !.t = NextId, !.svc = s]
               /\ CallTable(s, Call("start", None, 0, NextId, TRUE))
      BY <1>2 DEF CreateTable
    <2>2. PICK s \in Service : /\ req' = [r EXCEPT !.pc = "start", !.t = NextId, !.svc = s]
                               /\ CallTable(s, Call("start", None, 0, NextId, TRUE))
      BY <2>1 DEF MgrTypeOK
    <2>3. req'.pc = "start" /\ req'.u = r.u /\ req'.svc = s /\ req'.t = NextId
      BY <2>2 DEF RequestRec, RequestOf
    <2>4. NextId \in TableId
      <3>1. free \in SUBSET Nat /\ free \subseteq TableId
        BY RoomAssumption DEF MgrTypeOK, TableId
      <3>2. \E a \in free : \A b \in free : a <= b
        BY <2>1, <3>1, LeastExists
      <3>3. NextId \in free
        BY <3>2 DEF NextId, Min
      <3>4. QED
        BY <3>1, <3>3
    <2>5. NextId \in 0 .. MaxTable /\ NextId # 0
      BY <2>4, RoomAssumption DEF TableId
    <2>6. PICK m : m = Call("start", None, 0, NextId, TRUE)
      BY Zenon
    <2>7. m \in Asked /\ m.op = "start" /\ m.tid # 0 /\ m.tid = NextId
      <3>1. m \in Asked
        BY <2>5, <2>6, CallAsked, Zenon
      <3>2. m.op = "start" /\ m.tid = NextId
        BY <2>6 DEF Call
      <3>3. QED
        BY <2>5, <3>1, <3>2
    <2>8. InRoom' = InRoom
      BY DEF SameRoom, InRoom
    <2>9. AsksTable(s, m)
      BY <2>2, <2>3, <2>6, <2>7 DEF AsksTable, Starting
    <2>10. QED
      BY <2>3, <2>7, <2>8, <2>9 DEF GoesOn
  <1>3. QED
    BY <1>1, <1>2

LEMMA PickGoes ==
  ASSUME MgrTypeOK, NEW r \in RequestRec, r.u \in InRoom, PickTable(r), SameRoom
  PROVE  GoesOn
  BY TryGoes, CreateGoes, JoinableLive DEF PickTable

LEMMA SearchGoes ==
  ASSUME MgrTypeOK, NEW r \in RequestRec, r.u \in InRoom, SearchOther(r), SameRoom
  PROVE  GoesOn
  <1>1. Elsewhere(r) \in SUBSET Live
    BY DEF Elsewhere
  <1>2. QED
    BY <1>1, TryGoes, DoneGoes DEF SearchOther

LEMMA ChooseGoes ==
  ASSUME MgrTypeOK, NEW u \in InRoom, NEW t \in 0 .. MaxTable, NEW c \in 0 .. MaxChair,
         ChooseSeat(u, t, c), SameRoom
  PROVE  GoesOn
  <1> DEFINE r == [Request0 EXCEPT !.u = u, !.t = t, !.c = c, !.cand = Live]
  <1>1. r \in RequestRec /\ r.u = u
    <2>1. Request0 \in RequestOf(RoomPc, UserOrNone)
      BY RoomAssumption DEF Request0, Await, RequestOf, RoomPc, UserOrNone
    <2>2. \A q \in RequestOf(RoomPc, UserOrNone), v \in UserOrNone, S \in SUBSET TableId :
            [q EXCEPT !.u = v, !.t = t, !.c = c, !.cand = S] \in RequestOf(RoomPc, UserOrNone)
      BY Zenon DEF RequestOf
    <2>3. u \in UserOrNone /\ Live \in SUBSET TableId
      BY DEF UserOrNone, Live, InRoom
    <2>4. r.u = u
      BY DEF Request0, Await
    <2>5. QED
      BY <2>1, <2>2, <2>3, <2>4 DEF RequestRec
  <1>2. CASE PickTable(r)
    BY <1>1, <1>2, PickGoes
  <1>3. CASE /\ t \in Joinable
             /\ CallTable(gt[t], Plain("get_can_sit_chairid", None, 0))
             /\ req' = [r EXCEPT !.pc = "trychair"]
    <2>1. PICK s \in Service : s = gt[t] /\ Targets(s)'
      BY <1>3, JoinableLive DEF MgrTypeOK, Live, Targets, SameRoom
    <2>2. \A q \in RequestRec : [q EXCEPT !.pc = "trychair"].pc = "trychair"
                                /\ [q EXCEPT !.pc = "trychair"].u = q.u
      BY DEF RequestRec, RequestOf
    <2>3. req'.pc = "trychair" /\ req'.u = u
      <3> HIDE DEF r
      <3>1. QED
        BY <1>1, <1>3, <2>2, Zenon
    <2>4. PICK m : m = Plain("get_can_sit_chairid", None, 0)
      BY Zenon
    <2>5. m \in Asked /\ m.op = "get_can_sit_chairid"
      BY <2>4, PlainAsked, CallFields DEF RoomOp
    <2>6. Plainly(m.op)
      BY <2>5 DEF Plainly, RoomOp
    <2>7. InRoom' = InRoom
      BY DEF SameRoom, InRoom
    <2>8. CallTable(s, m)
      BY <1>3, <2>1, <2>4
    <2>9. req'.pc \notin {"start", "clean", "stand", "info"}
      BY <2>3
    <2>10. QED
      <3> HIDE DEF r
      <3>1. QED
        BY <2>1, <2>3, <2>5, <2>6, <2>7, <2>8, <2>9, PlainGoes
  <1>4. CASE Done
    BY <1>4, DoneGoes
  <1>5. CASE c # 0 /\ SitDown(t, u, c)
    <2>1. c \in Chair
      BY <1>5, RoomAssumption DEF Chair
    <2>2. QED
      BY <1>5, <2>1, SitDownGoes
  <1> HIDE DEF r
  <1>6. t = 0 => PickTable(r)
    BY Zenon DEF ChooseSeat, r
  <1>7. QED
    BY <1>2, <1>3, <1>4, <1>5, <1>6, Zenon DEF ChooseSeat, r

-----------------------------------------------------------------------------
(* What else a request changes: a player's record only while it names no   *)
(* table, and the list of the tables only where one is opened or removed.  *)
SameRecord(u) ==
  Word(online'[u]) = Word(online[u]) /\ (u \in InRoom' <=> u \in InRoom)

Records == \A u \in User : SameRecord(u) \/ (online[u].tid = 0 /\ online'[u].tid = 0)

Tables ==
  \/ gt' = gt /\ req.pc \notin {"start", "clean"}
  \/ /\ req.pc = "start" /\ gt' = [gt EXCEPT ![req.t] = req.svc]
     /\ req'.pc = "new" /\ online' = online
  \/ req.pc = "clean" /\ gt' = [gt EXCEPT ![req.t] = None] /\ AsksNone

Hears ==
  \A s \in Service :
    \/ toMgr'[s] = toMgr[s]
    \/ /\ toMgr[s] # <<>> /\ Head(toMgr[s]) \in Returned
       /\ toMgr'[s] = Tail(toMgr[s])

Requests == Unengaged /\ GoesOn /\ Records /\ Tables /\ Hears

LEMMA SameRecords ==
  ASSUME online' = online
  PROVE  Records
  BY DEF Records, SameRecord, InRoom

LEMMA EnterHears ==
  ASSUME MgrInv, CallInv, UNCHANGED <<cur, toMgr, co, wt>>, req.pc \in {"idle", "db"}
  PROVE  Hears /\ Unengaged
  BY IdleUnengaged DEF Hears, MgrInv

LEMMA AnswerHears ==
  ASSUME MgrInv, CallInv, NEW pc, pc \notin {"idle", "db"}, NEW ok, NEW val,
         Answer(pc, ok, val), UNCHANGED <<co, wt>>
  PROVE  Hears /\ Unengaged
  <1>1. PICK s \in Service : /\ toMgr[s] # <<>> /\ Head(toMgr[s]).k = "ret"
                             /\ toMgr' = [toMgr EXCEPT ![s] = Tail(@)]
    BY DEF Answer
  <1>2. toMgr \in [Service -> Seq(MgrMsg)]
    BY DEF MgrInv, ChanTypeOK
  <1>3. Head(toMgr[s]) \in MgrMsg
    BY <1>1, <1>2, SeqParts
  <1>4. Hears
    BY <1>1, <1>2, <1>3 DEF Hears, Returned
  <1>5. QED
    BY <1>4, AnswerUnengaged DEF MgrInv

-----------------------------------------------------------------------------
(* Every request that cs admits.                                           *)
LEMMA EntersRoom ==
  ASSUME MgrInv, NEW g \in Conn, request_enter_room(g)
  PROVE  GoesOn /\ Records
  <1>1. PICK u : u = Owner[g]
    BY Zenon
  <1>2. u \in User
    BY <1>1, RoomAssumption
  <1>3. /\ MgrTypeOK /\ online[u].tid \in 0 .. MaxTable /\ online[u].chair \in 0 .. MaxChair
    BY <1>2, RecordType DEF MgrInv
  <1>4. CASE online[u] = NoRec
    <2>1. req' = [Await("db", u) EXCEPT !.conn = g] /\ UNCHANGED <<online, toTab>>
      BY <1>1, <1>4 DEF request_enter_room
    <2>2. req'.pc = "db"
      BY <2>1 DEF Await
    <2>3. QED
      BY <2>1, <2>2, SameRecords DEF GoesOn, AsksNone, Sitter
  <1>5. CASE online[u] # NoRec
    <2>1. /\ online' = [online EXCEPT ![u] =
               [online[u] EXCEPT !.conn = g, !.st = IF online[u].tid = 0 THEN "FREE" ELSE @]]
          /\ \/ Done
             \/ CallOrFail(online[u].tid, Plain("update_user_conn", u, online[u].chair),
                           Await("last", u))
          /\ gt' = gt
      BY <1>1, <1>5 DEF request_enter_room
    <2>2. GoesOn
      BY <1>2, <1>3, <2>1, DoneGoes, LastGoes DEF UserOp, Plainly
    <2>3. online \in [User -> UserRec \cup {NoRec}] /\ online[u] \in UserRec
      BY <1>2, <1>3, <1>5 DEF MgrTypeOK
    <2>4. /\ \A v \in User \ {u} : online'[v] = online[v]
          /\ online'[u].tid = online[u].tid /\ online'[u].chair = online[u].chair
          /\ online'[u].conn = g
          /\ online[u].tid # 0 => online'[u].st = online[u].st
      BY <1>2, <2>1, <2>3 DEF UserRec
    <2>5. g # None /\ NoRec.conn = None
      BY RoomAssumption DEF NoRec
    <2>6. u \in InRoom /\ u \in InRoom'
      BY <1>2, <1>5, <2>4, <2>5 DEF InRoom
    <2>7. Records
      BY <2>4, <2>6 DEF Records, SameRecord, InRoom, Word
    <2>8. QED
      BY <2>2, <2>7
  <1>6. QED
    BY <1>4, <1>5

LEMMA LeavesRoom ==
  ASSUME MgrInv, NEW g \in Conn, request_leave_room(g)
  PROVE  GoesOn /\ Records
  <1>1. PICK u \in User :
          /\ From(g, u)
          /\ \/ /\ \E op \in {"user_standup", "user_offline"} :
                     CallOrFail(online[u].tid, Plain(op, u, online[u].chair), Await("last", u))
                /\ online' = online
             \/ online[u].tid = 0 /\ online' = [online EXCEPT ![u] = NoRec] /\ Done
          /\ gt' = gt
    BY DEF request_leave_room
  <1>2. MgrTypeOK /\ online[u].tid \in 0 .. MaxTable /\ online[u].chair \in 0 .. MaxChair
    BY RecordType DEF MgrInv
  <1>3. CASE /\ \E op \in {"user_standup", "user_offline"} :
                  CallOrFail(online[u].tid, Plain(op, u, online[u].chair), Await("last", u))
             /\ online' = online
    BY <1>1, <1>2, <1>3, LastGoes, SameRecords DEF UserOp, Plainly
  <1>4. CASE online[u].tid = 0 /\ online' = [online EXCEPT ![u] = NoRec] /\ Done
    <2>1. online' = [online EXCEPT ![u] = NoRec] /\ online \in [User -> UserRec \cup {NoRec}]
      BY <1>2, <1>4 DEF MgrTypeOK
    <2>2. online'[u].tid = 0 /\ \A v \in User \ {u} : online'[v] = online[v]
      BY <2>1 DEF NoRec
    <2>3. QED
      BY <1>4, <2>2, DoneGoes DEF Records, SameRecord, InRoom
  <1>5. QED
    BY <1>1, <1>3, <1>4

LEMMA Disconnects ==
  ASSUME MgrInv, NEW g \in Conn, disconnect(g)
  PROVE  GoesOn /\ Records
  <1>1. PICK u : u = byfd[g]
    BY Zenon
  <1>2. MgrTypeOK /\ u \in UserOrNone /\ gt' = gt
    BY <1>1 DEF MgrInv, MgrTypeOK, disconnect
  <1>3. \/ Done /\ online' = online
        \/ /\ u # None /\ online[u].tid = 0 /\ Done
           /\ online' = [online EXCEPT ![u].st = "OFFLINE"]
        \/ /\ u # None /\ online' = online
           /\ CallOrFail(online[u].tid, Plain("user_offline", u, online[u].chair),
                         Await("last", u))
    BY <1>1 DEF disconnect
  <1>4. CASE u = None
    BY <1>3, <1>4, DoneGoes, SameRecords
  <1>5. CASE u # None
    <2>1. u \in User
      BY <1>2, <1>5 DEF UserOrNone
    <2>2. online[u].tid \in 0 .. MaxTable /\ online[u].chair \in 0 .. MaxChair
      BY <1>2, <2>1, RecordType
    <2>3. CASE Done /\ online' = online
      BY <2>3, DoneGoes, SameRecords
    <2>4. CASE /\ online[u].tid = 0 /\ Done
               /\ online' = [online EXCEPT ![u].st = "OFFLINE"]
      <3>1. online \in [User -> UserRec \cup {NoRec}]
        BY <1>2 DEF MgrTypeOK
      <3>2. online'[u].tid = online[u].tid /\ \A v \in User \ {u} : online'[v] = online[v]
        BY <2>1, <2>4, <3>1 DEF UserRec, NoRec
      <3>3. QED
        BY <2>4, <3>2, DoneGoes DEF Records, SameRecord, InRoom
    <2>5. CASE /\ CallOrFail(online[u].tid, Plain("user_offline", u, online[u].chair),
                             Await("last", u))
               /\ online' = online
      BY <1>2, <2>1, <2>2, <2>5, LastGoes, SameRecords DEF UserOp, Plainly
    <2>6. QED
      BY <1>3, <2>3, <2>4, <2>5
  <1>6. QED
    BY <1>4, <1>5

LEMMA SitsDown ==
  ASSUME MgrInv, NEW g \in Conn, NEW t \in 0 .. MaxTable, NEW c \in 0 .. MaxChair,
         request_sitdown(g, t, c)
  PROVE  GoesOn /\ Records
  <1>1. PICK u \in User :
          /\ From(g, u)
          /\ \/ CallOrFail(online[u].tid, Plain("update_user_conn", u, online[u].chair),
                           Await("last", u))
             \/ CallOrFail(online[u].tid, Plain("user_standup", u, online[u].chair),
                           [Await("left", u) EXCEPT !.t = t, !.c = c])
             \/ ChooseSeat(u, t, c)
    BY DEF request_sitdown
  <1>2. SameRoom /\ online' = online
    BY DEF request_sitdown, SameRoom
  <1>3. /\ MgrTypeOK /\ u \in InRoom
        /\ online[u].tid \in 0 .. MaxTable /\ online[u].chair \in 0 .. MaxChair
    BY <1>1, FromFacts, RecordType DEF MgrInv
  <1>4. CASE CallOrFail(online[u].tid, Plain("update_user_conn", u, online[u].chair),
                        Await("last", u))
    BY <1>2, <1>3, <1>4, LastGoes, SameRecords DEF UserOp, Plainly, SameRoom
  <1>5. CASE CallOrFail(online[u].tid, Plain("user_standup", u, online[u].chair),
                        [Await("left", u) EXCEPT !.t = t, !.c = c])
    <2>1. PICK next, m : /\ next = [Await("left", u) EXCEPT !.t = t, !.c = c]
                         /\ m = Plain("user_standup", u, online[u].chair)
      BY Zenon
    <2>2. next.pc = "left" /\ next.u = u
      BY <2>1 DEF Await
    <2>3. m \in Asked /\ m.op = "user_standup"
      BY <1>3, <2>1, PlainAsked, CallFields DEF UserOp
    <2>4. Plainly(m.op)
      BY <2>3 DEF Plainly, UserOp
    <2>5. InRoom' = InRoom /\ gt' = gt
      BY <1>2 DEF InRoom, SameRoom
    <2>6. CallOrFail(online[u].tid, m, next)
      BY <1>5, <2>1
    <2>7. GoesOn
      BY <1>3, <2>2, <2>3, <2>4, <2>5, <2>6, CallGoes
    <2>8. QED
      BY <1>2, <2>7, SameRecords
  <1>6. CASE ChooseSeat(u, t, c)
    BY <1>2, <1>3, <1>6, ChooseGoes, SameRecords
  <1>7. QED
    BY <1>1, <1>4, <1>5, <1>6

LEMMA StandsFromRoom ==
  ASSUME MgrInv, NEW g \in Conn, NEW ob, request_standup(g, ob)
  PROVE  GoesOn /\ Records
  <1>1. PICK u \in User :
          /\ From(g, u)
          /\ \/ CallOrFail(online[u].tid, Plain("user_offline", u, online[u].chair),
                           Await("last", u))
             \/ CallOrFail(online[u].tid, Plain("user_standup", u, online[u].chair),
                           [Await("stand", u) EXCEPT !.t = online[u].tid,
                                                     !.c = online[u].chair, !.ob = ob])
    BY DEF request_standup
  <1>2. online' = online /\ gt' = gt
    BY DEF request_standup, sitRest, seatless
  <1>3. /\ MgrTypeOK /\ u \in InRoom
        /\ online[u].tid \in 0 .. MaxTable /\ online[u].chair \in 0 .. MaxChair
    BY <1>1, FromFacts, RecordType DEF MgrInv
  <1>4. CASE CallOrFail(online[u].tid, Plain("user_offline", u, online[u].chair),
                        Await("last", u))
    BY <1>2, <1>3, <1>4, LastGoes, SameRecords DEF UserOp, Plainly
  <1>5. CASE CallOrFail(online[u].tid, Plain("user_standup", u, online[u].chair),
                        [Await("stand", u) EXCEPT !.t = online[u].tid,
                                                  !.c = online[u].chair, !.ob = ob])
    <2>1. PICK next, m : /\ next = [Await("stand", u) EXCEPT !.t = online[u].tid,
                                                  !.c = online[u].chair, !.ob = ob]
                         /\ m = Plain("user_standup", u, online[u].chair)
      BY Zenon
    <2>2. next.pc = "stand" /\ next.u = u
      BY <2>1 DEF Await
    <2>3. m \in Asked /\ m.op = "user_standup" /\ m.u = u
      BY <1>3, <2>1, PlainAsked, CallFields DEF UserOp
    <2>4. Plainly(m.op)
      BY <2>3 DEF Plainly, UserOp
    <2>5. InRoom' = InRoom
      BY <1>2 DEF InRoom
    <2>6. CallOrFail(online[u].tid, m, next)
      BY <1>5, <2>1
    <2>7. GoesOn
      BY <1>2, <1>3, <2>2, <2>3, <2>4, <2>5, <2>6, CallGoes
    <2>8. QED
      BY <1>2, <2>7, SameRecords
  <1>6. QED
    BY <1>1, <1>4, <1>5

LEMMA ChangesTable ==
  ASSUME MgrInv, NEW g \in Conn, request_change_table(g)
  PROVE  GoesOn /\ Records
  <1>1. PICK u \in User : From(g, u) /\ SearchOther([Request0 EXCEPT !.u = u, !.cand = Live])
    BY DEF request_change_table
  <1>2. SameRoom /\ online' = online
    BY DEF request_change_table, SameRoom, sitRest, seatless
  <1>3. MgrTypeOK /\ u \in InRoom
    BY <1>1, FromFacts DEF MgrInv
  <1>4. PICK r : r = [Request0 EXCEPT !.u = u, !.cand = Live]
    BY Zenon
  <1>5. r \in RequestRec
    <2>1. Request0 \in RequestOf(RoomPc, UserOrNone)
      BY RoomAssumption DEF Request0, Await, RequestOf, RoomPc, UserOrNone
    <2>2. \A q \in RequestOf(RoomPc, UserOrNone), v \in UserOrNone, S \in SUBSET TableId :
            [q EXCEPT !.u = v, !.cand = S] \in RequestOf(RoomPc, UserOrNone)
      BY Zenon DEF RequestOf
    <2>3. u \in UserOrNone /\ Live \in SUBSET TableId
      BY DEF UserOrNone, Live
    <2>4. QED
      BY <1>4, <2>1, <2>2, <2>3 DEF RequestRec
  <1>6. r.u = u
    BY <1>4 DEF Request0, Await
  <1>7. SearchOther(r)
    BY <1>1, <1>4
  <1>8. QED
    BY <1>2, <1>3, <1>5, <1>6, <1>7, SearchGoes, SameRecords

LEMMA AsksAtTable ==
  ASSUME MgrInv, NEW g \in Conn, NEW op \in SeatedOp, request_at_table(g, op)
  PROVE  GoesOn /\ Records
  <1>1. PICK u \in User :
          /\ From(g, u)
          /\ CallOrFail(online[u].tid, Plain(op, u, online[u].chair), Await("last", u))
    BY DEF request_at_table
  <1>2. online' = online /\ gt' = gt
    BY DEF request_at_table, sitRest, seatless
  <1>3. /\ MgrTypeOK
        /\ online[u].tid \in 0 .. MaxTable /\ online[u].chair \in 0 .. MaxChair
    BY RecordType DEF MgrInv
  <1>4. QED
    BY <1>1, <1>2, <1>3, LastGoes, SameRecords DEF UserOp, Plainly, SeatedOp

LEMMA ClientGoes ==
  ASSUME MgrInv, CallInv, NEW g \in Conn, ClientRequest(g), UNCHANGED tabVars
  PROVE  Requests
  <1>1. Enter
    BY ClientIssues
  <1>2. req.pc = "idle" /\ UNCHANGED <<cur, toMgr, co, wt>>
    BY <1>1 DEF Enter, tabVars
  <1>3. Hears /\ Unengaged
    BY <1>2, EnterHears
  <1>4. 0 \in 0 .. MaxTable /\ 0 \in 0 .. MaxChair /\ TableId \subseteq 0 .. MaxTable
    BY RoomAssumption DEF TableId
  <1>5. CASE request_enter_room(g)
    BY <1>2, <1>3, <1>5, EntersRoom DEF Requests, Tables, request_enter_room
  <1>6. CASE request_leave_room(g)
    BY <1>2, <1>3, <1>6, LeavesRoom DEF Requests, Tables, request_leave_room
  <1>7. CASE disconnect(g)
    BY <1>2, <1>3, <1>7, Disconnects DEF Requests, Tables, disconnect
  <1>8. ASSUME NEW t \in 0 .. MaxTable, NEW c \in 0 .. MaxChair, request_sitdown(g, t, c)
        PROVE  Requests
    BY <1>2, <1>3, <1>8, SitsDown DEF Requests, Tables, request_sitdown
  <1>9. ASSUME NEW ob, request_standup(g, ob)
        PROVE  Requests
    BY <1>2, <1>3, <1>9, StandsFromRoom DEF Requests, Tables, request_standup, seatless
  <1>10. CASE request_change_table(g)
    BY <1>2, <1>3, <1>10, ChangesTable DEF Requests, Tables, request_change_table, seatless
  <1>11. ASSUME NEW op \in SeatedOp, request_at_table(g, op)
         PROVE  Requests
    BY <1>2, <1>3, <1>11, AsksAtTable DEF Requests, Tables, request_at_table, seatless
  <1>12. QED
    BY <1>4, <1>5, <1>6, <1>7, <1>8, <1>9, <1>10, <1>11 DEF ClientRequest

-----------------------------------------------------------------------------
(* Every request that goes on with a table's answer.                       *)
LEMMA SeatSearchGoes ==
  ASSUME MgrInv, Open, NEW ok, NEW val \in 0 .. MaxChair,
         \/ left_table(ok, val) \/ tried_table(ok, val) \/ tried_chair(ok, val)
         \/ new_table_seat(ok, val) \/ found_other(ok, val)
  PROVE  GoesOn /\ Records /\ Tables
  <1>1. MgrTypeOK /\ req \in RequestRec
    BY DEF MgrInv, MgrTypeOK
  <1>2. req.pc \in {"left", "try", "trychair", "new", "change"}
    BY DEF left_table, tried_table, tried_chair, new_table_seat, found_other, Answer
  <1>3. req.u \in InRoom /\ req.t \in 0 .. MaxTable /\ req.c \in 0 .. MaxChair
    BY <1>1, <1>2, RequestShape DEF Open, Sitter
  <1>4. SameRoom /\ online' = online
    BY DEF left_table, tried_table, tried_chair, new_table_seat, found_other, sitRest,
           seatless, SameRoom
  <1>5. Records /\ Tables
    BY <1>2, <1>4, SameRecords DEF Tables, SameRoom
  <1>6. val # 0 => val \in Chair
    BY RoomAssumption DEF Chair
  <1>7. CASE Done
    BY <1>5, <1>7, DoneGoes
  <1>8. CASE val # 0 /\ SitDown(req.t, req.u, val)
    BY <1>1, <1>3, <1>4, <1>5, <1>6, <1>8, SitDownGoes
  <1>9. CASE PickTable(req)
    BY <1>1, <1>3, <1>4, <1>5, <1>9, PickGoes
  <1>10. CASE SearchOther(req)
    BY <1>1, <1>3, <1>4, <1>5, <1>10, SearchGoes
  <1>11. CASE ChooseSeat(req.u, req.t, req.c)
    BY <1>1, <1>3, <1>4, <1>5, <1>11, ChooseGoes
  <1>12. QED
    BY <1>7, <1>8, <1>9, <1>10, <1>11
       DEF left_table, tried_table, tried_chair, new_table_seat, found_other

LEMMA StartedGoes ==
  ASSUME MgrInv, Open, NEW ok, NEW val, table_started(ok, val)
  PROVE  GoesOn /\ Records /\ Tables
  <1>1. MgrTypeOK /\ req \in RequestRec /\ req.pc = "start"
    BY DEF MgrInv, MgrTypeOK, table_started, Answer
  <1>2. req.u \in InRoom /\ req.svc \in Service
    BY <1>1 DEF Open, Sitter, MgrInv, ResourcePartition, MgrTypeOK
  <1>3. /\ gt' = [gt EXCEPT ![req.t] = req.svc] /\ online' = online
        /\ CallTable(req.svc, Plain("get_can_sit_chairid", None, 0))
        /\ req' = [req EXCEPT !.pc = "new", !.svc = None]
    BY DEF table_started, sitRest
  <1>4. req'.pc = "new" /\ req'.u = req.u
    BY <1>1, <1>3 DEF RequestRec, RequestOf
  <1>5. PICK s \in Service : s = req.svc /\ InRoom' = InRoom /\ Targets(s)'
    <2>1. req.t \in TableId /\ req.svc # None
      BY <1>1, <1>2, RoomAssumption DEF MgrInv, ResourcePartition
    <2>2. gt'[req.t] = req.svc
      BY <1>1, <1>3, <2>1 DEF MgrTypeOK
    <2>3. QED
      BY <1>2, <1>3, <2>1, <2>2 DEF InRoom, Targets, Live
  <1>6. PICK m : m = Plain("get_can_sit_chairid", None, 0)
    BY Zenon
  <1>7. m \in Asked /\ m.op = "get_can_sit_chairid"
    BY <1>6, PlainAsked, CallFields DEF RoomOp
  <1>8. Plainly(m.op)
    BY <1>7 DEF Plainly, RoomOp
  <1>9. GoesOn
    <2>1. CallTable(s, m)
      BY <1>3, <1>5, <1>6
    <2>2. req'.pc \notin {"start", "clean", "stand", "info"}
      BY <1>4
    <2>3. QED
      BY <1>1, <1>2, <1>4, <1>5, <1>7, <1>8, <2>1, <2>2, PlainGoes
  <1>10. QED
    BY <1>1, <1>3, <1>4, <1>9, SameRecords DEF Tables

LEMMA StoodGoes ==
  ASSUME MgrInv, Open, NEW ok \in BOOLEAN, NEW val, stood_up(ok, val)
  PROVE  GoesOn /\ Records /\ Tables
  <1>1. MgrTypeOK /\ req \in RequestRec /\ req.pc = "stand"
    BY DEF MgrInv, MgrTypeOK, stood_up, Answer
  <1>2. req.u \in InRoom /\ req.c \in 0 .. MaxChair /\ req.u \in User
    BY <1>1, RequestShape DEF Open, Sitter, InRoom
  <1>3. SameRoom /\ online' = online
    BY DEF stood_up, sitRest, seatless, SameRoom
  <1>4. Records /\ Tables
    BY <1>1, <1>3, SameRecords DEF Tables, SameRoom
  <1>5. CASE Done
    BY <1>4, <1>5, DoneGoes
  <1>6. CASE /\ ok /\ val = 1 /\ req.t \in Live /\ req' = Await("last", req.u)
             /\ CallTable(gt[req.t],
                          Call("user_sitdown_ob", req.u, req.c, 0, online[req.u].rich))
    <2>1. PICK m : m = Call("user_sitdown_ob", req.u, req.c, 0, online[req.u].rich)
      BY Zenon
    <2>2. "user_sitdown_ob" \in UserOp /\ 0 \in 0 .. MaxTable /\ online[req.u].rich \in BOOLEAN
      BY <1>1, <1>2, RoomAssumption, RecordType DEF UserOp
    <2>3. m \in Asked
      BY <1>2, <2>1, <2>2, CallAsked, Zenon
    <2>4. m.op = "user_sitdown_ob" /\ m.u = req.u
      BY <2>1, CallFields
    <2>5. PICK s \in Service : s = gt[req.t] /\ Targets(s) /\ Targets(s)'
      BY <1>1, <1>3, <1>6 DEF MgrTypeOK, Live, Targets, SameRoom
    <2>6. req'.pc = "last"
      BY <1>6, RequestType
    <2>7. Answer("stand", TRUE, 1)
      BY <1>6 DEF stood_up, Answer
    <2>8. AsksTable(s, m)
      BY <1>2, <1>3, <1>6, <2>1, <2>4, <2>5, <2>6, <2>7 DEF AsksTable
    <2>9. QED
      BY <1>4, <2>3, <2>5, <2>6, <2>8 DEF GoesOn, Sitter
  <1>7. QED
    BY <1>5, <1>6 DEF stood_up, CallOrFail

LEMMA InfoGoes ==
  ASSUME MgrInv, NEW ok, NEW val \in 0 .. MaxChair, table_info(ok, val)
  PROVE  GoesOn /\ Records /\ Tables
  <1>1. MgrTypeOK /\ req \in RequestRec /\ req.pc = "info"
    BY DEF MgrInv, MgrTypeOK, table_info, Answer
  <1>2. SameRoom /\ online' = online
    BY DEF table_info, sitRest, seatless, SameRoom
  <1>3. Records /\ Tables
    BY <1>1, <1>2, SameRecords DEF Tables, SameRoom
  <1>4. CASE Done
    BY <1>3, <1>4, DoneGoes
  <1>5. CASE /\ CallTable(gt[req.t], Plain("cleanup", None, 0))
             /\ req' = [req EXCEPT !.pc = "clean"] /\ val = 0
    <2>1. PICK s \in Service : s = gt[req.t] /\ Targets(s)'
      BY <1>1, <1>2 DEF MgrInv, RequestHolds, Live, MgrTypeOK, Targets, SameRoom
    <2>2. req'.pc = "clean" /\ req'.t = req.t
      BY <1>1, <1>5 DEF RequestRec, RequestOf
    <2>3. PICK m : m = Plain("cleanup", None, 0)
      BY Zenon
    <2>4. m \in Asked /\ m.op = "cleanup"
      BY <2>3, PlainAsked, CallFields DEF RoomOp
    <2>5. Answer("info", ok, 0)
      BY <1>5 DEF table_info
    <2>6. AsksTable(s, m)
      BY <1>2, <1>5, <2>1, <2>2, <2>3, <2>4, <2>5 DEF AsksTable
    <2>7. QED
      BY <1>3, <2>1, <2>2, <2>4, <2>6 DEF GoesOn, Sitter
  <1>6. QED
    BY <1>4, <1>5 DEF table_info

LEMMA CleanedGoes ==
  ASSUME MgrInv, NEW ok, NEW val, table_cleaned(ok, val)
  PROVE  GoesOn /\ Records /\ Tables
  <1>1. req.pc = "clean" /\ gt' = [gt EXCEPT ![req.t] = None] /\ Done /\ online' = online
    BY DEF table_cleaned, sitRest, Answer
  <1>2. QED
    BY <1>1, DoneGoes, SameRecords DEF Tables

LEMMA ContinueGoes ==
  ASSUME MgrInv, CallInv, Open, NEW ok \in BOOLEAN, NEW val \in 0 .. MaxChair,
         Continue(ok, val), UNCHANGED tabVars
  PROVE  Requests
  <1>1. PICK pc : pc \notin {"idle", "db"} /\ Answer(pc, ok, val)
    BY ContinueIssues
  <1>2. UNCHANGED <<co, wt>>
    BY DEF tabVars
  <1>3. Hears /\ Unengaged
    BY <1>1, <1>2, AnswerHears
  <1>4. CASE finished(ok, val)
    <2>1. Done /\ online' = online /\ gt' = gt /\ req.pc = "last"
      BY <1>4 DEF finished, sitRest, seatless, Answer
    <2>2. QED
      BY <1>3, <2>1, DoneGoes, SameRecords DEF Requests, Tables
  <1>5. (GoesOn /\ Records /\ Tables) \/ finished(ok, val)
    BY SeatSearchGoes, StartedGoes, StoodGoes, InfoGoes, CleanedGoes DEF Continue
  <1>6. QED
    BY <1>3, <1>4, <1>5 DEF Requests

-----------------------------------------------------------------------------
(* What else gamemgr does.                                                 *)
LEMMA EnteredGoes ==
  ASSUME MgrInv, CallInv, entered_room, UNCHANGED tabVars
  PROVE  Requests
  <1>1. req.pc = "db" /\ UNCHANGED <<cur, toMgr, co, wt>> /\ Done /\ gt' = gt
    BY DEF entered_room, tabVars
  <1>2. Hears /\ Unengaged
    BY <1>1, EnterHears
  <1>3. MgrTypeOK /\ req.u \in User /\ req.conn \in Conn /\ online[req.u] = NoRec
    BY <1>1, RequestShape DEF MgrInv, MgrTypeOK, UserPc, RequestHolds
  <1>4. \/ online' = online
        \/ online' = [online EXCEPT ![req.u] =
             [conn |-> req.conn, st |-> "FREE", tid |-> 0, chair |-> 0, rich |-> TRUE]]
    BY DEF entered_room
  <1>5. Records
    <2>1. CASE online' = online
      BY <2>1, SameRecords
    <2>2. CASE online' = [online EXCEPT ![req.u] =
             [conn |-> req.conn, st |-> "FREE", tid |-> 0, chair |-> 0, rich |-> TRUE]]
      <3>1. online \in [User -> UserRec \cup {NoRec}]
        BY <1>3 DEF MgrTypeOK
      <3>2. online'[req.u].tid = 0 /\ \A v \in User \ {req.u} : online'[v] = online[v]
        BY <1>3, <2>2, <3>1
      <3>3. QED
        BY <1>3, <3>2 DEF Records, SameRecord, InRoom, NoRec
    <2>3. QED
      BY <1>4, <2>1, <2>2
  <1>6. QED
    BY <1>1, <1>2, <1>5, DoneGoes DEF Requests, Tables

LEMMA DeletesGoes ==
  ASSUME MgrInv, CallInv, NEW t \in TableId, _internal_delete_table(t), UNCHANGED tabVars
  PROVE  Requests
  <1>1. /\ req.pc = "idle" /\ UNCHANGED <<cur, toMgr, co, wt>> /\ online' = online /\ gt' = gt
        /\ CallOrFail(t, Plain("get_table_info", None, 0),
                      [Request0 EXCEPT !.pc = "info", !.t = t])
    BY DEF _internal_delete_table, Enter, tabVars, seatless
  <1>2. Hears /\ Unengaged
    BY <1>1, EnterHears
  <1>3. PICK next, m : /\ next = [Request0 EXCEPT !.pc = "info", !.t = t]
                       /\ m = Plain("get_table_info", None, 0)
    BY Zenon
  <1>4. next.pc = "info" /\ next.t = t
    BY <1>3 DEF Request0, Await
  <1>5. m \in Asked /\ m.op = "get_table_info"
    BY <1>3, PlainAsked, CallFields DEF RoomOp
  <1>6. Plainly(m.op)
    BY <1>5 DEF Plainly, RoomOp
  <1>7. GoesOn
    BY <1>1, <1>3, <1>4, <1>5, <1>6, CallGoes DEF MgrInv, Sitter
  <1>8. QED
    BY <1>1, <1>2, <1>7, SameRecords DEF Requests, Tables

LEMMA RobotGoes ==
  ASSUME MgrInv, CallInv, NEW s \in Service, robot_standup_timer(s), UNCHANGED tabVars
  PROVE  Requests
  <1>1. /\ req.pc = "idle" /\ UNCHANGED <<cur, toMgr, co, wt>> /\ online' = online /\ gt' = gt
        /\ CallTable(s, Plain("robot_standup", None, 0)) /\ req' = Await("last", None)
    BY DEF robot_standup_timer, Enter, tabVars, seatless, sitRest
  <1>2. Hears /\ Unengaged
    BY <1>1, EnterHears
  <1>3. PICK m : m = Plain("robot_standup", None, 0)
    BY Zenon
  <1>4. m \in Asked /\ m.op = "robot_standup"
    BY <1>3, PlainAsked, CallFields DEF RoomOp
  <1>5. Plainly(m.op)
    BY <1>4 DEF Plainly, RoomOp
  <1>6. req'.pc = "last"
    BY <1>1, RequestType
  <1>7. GoesOn
    BY <1>1, <1>3, <1>4, <1>5, <1>6, PlainGoes DEF MgrInv, Sitter
  <1>8. QED
    BY <1>1, <1>2, <1>7, SameRecords DEF Requests, Tables

LEMMA MgrKinds ==
  ASSUME MgrInv, CallInv, Open, MgrNext, UNCHANGED tabVars
  PROVE  Requests \/ \E s \in Service : tableevent(s)
  BY ClientGoes, ContinueGoes, EnteredGoes, DeletesGoes, RobotGoes DEF MgrNext

-----------------------------------------------------------------------------
(* A step of gamemgr keeps the shape of every table.                       *)
LEMMA TableStays ==
  ASSUME UNCHANGED tabVars, cur' = cur, NEW s \in Service, TableShape(s),
         Elems(toMgr'[s]) \subseteq Elems(toMgr[s])
  PROVE  (\A x \in Coroutine : Shape(s, x)' /\ Reports(s, x)') /\ Copies(s)'
  <1>1. tb' = tb /\ cp' = cp /\ co' = co /\ wt' = wt
    BY DEF tabVars
  <1>2. Copies(s)'
    BY <1>1 DEF TableShape, Copies, Here, Seated
  <1>3. ASSUME NEW x \in Coroutine
        PROVE  Shape(s, x)' /\ Reports(s, x)'
    <2>1. Shape(s, x) /\ Reports(s, x)
      BY DEF TableShape
    <2>2. /\ Running(s, x)' = Running(s, x) /\ Top(s, x)' = Top(s, x) /\ Rest(s, x)' = Rest(s, x)
          /\ \A y : Running(s, y)' = Running(s, y) /\ Top(s, y)' = Top(s, y)
      BY <1>1 DEF Running, Top, Rest
    <2>3. \A q, k : Leads(s, x, q, k)' = Leads(s, x, q, k)
      BY <1>1, <2>2 DEF Leads, Fits, SitsAt, Fresh, NextIs, Frees, Seated
    <2>4. Shape(s, x)'
      BY <1>1, <2>1, <2>2, <2>3 DEF Shape
    <2>5. \A u : TakesOff(s, x, u)' = TakesOff(s, x, u)
      BY <1>1, <2>2 DEF TakesOff, Vacates, Unwatches, NextIs
    <2>6. QED
      BY <2>1, <2>4, <2>5 DEF Reports
  <1>4. QED
    BY <1>2, <1>3

(* What gamemgr asks is asked well.                                        *)
LEMMA RequestsAsk ==
  ASSUME IInv, Open, Requests, UNCHANGED tabVars, NEW r \in Service, NEW m \in Asked,
         AsksTable(r, m)
  PROVE  AskedFor(r, m)'
  <1>1. tb' = tb
    BY DEF tabVars
  <1>2. ~AsksNone
    <2>1. toTab[r] \in Seq(TabMsg) /\ toTab'[r] = Append(toTab[r], m)
      BY DEF IInv, MgrInv, ChanTypeOK, AsksTable, CallTable
    <2>2. m \in TabMsg
      BY DEF Asked
    <2>3. Len(Append(toTab[r], m)) # Len(toTab[r])
      BY <2>1, <2>2
    <2>4. QED
      BY <2>1, <2>3 DEF AsksNone
  <1>3. ASSUME Sits(m)
        PROVE  tb[r].tid # 0 /\ m.u \in InRoom' /\ (m.op = "user_sitdown" => m.c \in Chair)
    <2>1. m.op \in {"user_sitdown", "user_sitdown_ob"}
      BY <1>3 DEF Sits
    <2>2. m.u \in InRoom /\ Targets(r) /\ SameRoom /\ (m.op = "user_sitdown" => m.c \in Chair)
      BY <2>1 DEF AsksTable
    <2>3. req.pc # "clean"
      BY <1>2 DEF Requests, Tables
    <2>4. tb[r].tid # 0
      BY <2>2, <2>3 DEF Targets, Open
    <2>5. InRoom' = InRoom
      BY <2>2 DEF SameRoom, InRoom
    <2>6. QED
      BY <2>2, <2>4, <2>5
  <1>4. m.op = "cleanup" => req'.pc = "clean" /\ gt'[req'.t] = r
    BY DEF AsksTable, SameRoom
  <1>5. /\ m.op = "start" => m.tid # 0 /\ m.tid = req'.t /\ Starting(r)'
        /\ m.op \notin {"start", "robot_standup"} => Targets(r)'
        /\ req'.pc = "info" => m.op = "get_table_info" /\ gt'[req'.t] = r
        /\ req'.pc = "clean" => m.op = "cleanup"
    BY DEF AsksTable
  <1>6. /\ req'.pc = "start" => m.op = "start"
        /\ req'.pc = "stand" => m.op = "user_standup" /\ m.u = req'.u
    BY DEF AsksTable
  <1>7. QED
    BY <1>1, <1>3, <1>4, <1>5, <1>6 DEF AskedFor, Sits

LEMMA RequestsShape ==
  ASSUME IInv, CallInv, ShapeInv, Requests, UNCHANGED tabVars
  PROVE  ShapeInv'
  <1>1. /\ Open /\ \A s \in Service : TableShape(s)
        /\ MgrTypeOK /\ ChanTypeOK /\ ResourcePartition
    BY DEF ShapeInv, IInv, MgrInv
  <1>2. tb' = tb /\ cur' = cur
    BY DEF tabVars, Requests, Unengaged
  <1>3. \A s \in Service : Elems(toMgr'[s]) \subseteq Elems(toMgr[s])
    <2>1. TAKE s \in Service
    <2>2. toMgr[s] \in Seq(MgrMsg)
      BY <1>1 DEF ChanTypeOK
    <2>3. QED
      BY <2>2, ElemsTail DEF Requests, Hears
  <1>4. \A s \in Service : \A m \in Elems(toTab[s]) : m \notin Asked
    <2>1. TAKE s \in Service
    <2>2. toTab[s] \in Seq(TabMsg) /\ NumIn(toTab[s], Asked) = 0
      BY <1>1 DEF ChanTypeOK, Requests, Unengaged
    <2>3. QED
      BY <2>2, NoneIn
  <1>5. CASE AsksNone
    <2>1. \A s \in Service : AsksWell(s)'
      BY <1>4, <1>5 DEF AsksWell, AsksNone
    <2>2. req'.pc \notin Sitter /\ req'.pc # "start"
      BY <1>5 DEF AsksNone, Sitter
    <2>3. ASSUME NEW t \in TableId, gt'[t] # None
          PROVE  tb[gt'[t]].tid # 0
      <3>1. CASE gt' = gt /\ req.pc # "clean"
        BY <1>1, <2>3, <3>1 DEF Open, Live
      <3>2. CASE req.pc = "start" /\ req'.pc = "new"
        BY <1>5, <3>2 DEF AsksNone
      <3>3. CASE req.pc = "clean" /\ gt' = [gt EXCEPT ![req.t] = None]
        <4>1. req.t # t
          BY <1>1, <2>3, <3>3 DEF MgrTypeOK
        <4>2. gt'[t] = gt[t] /\ t \in Live
          BY <1>1, <2>3, <3>3, <4>1 DEF MgrTypeOK, Live
        <4>3. QED
          BY <1>1, <4>1, <4>2 DEF Open
      <3>4. QED
        BY <3>1, <3>2, <3>3 DEF Requests, Tables
    <2>4. Open'
      BY <1>2, <2>2, <2>3 DEF Open, Live
    <2>5. QED
      BY <1>1, <1>2, <1>3, <2>1, <2>4, TableStays DEF ShapeInv, TableShape
  <1>6. ASSUME NEW r \in Service, NEW m \in Asked, AsksTable(r, m)
        PROVE  ShapeInv'
    <2>1. AskedFor(r, m)'
      BY <1>1, <1>6, RequestsAsk
    <2>2. /\ m \in TabMsg /\ toTab[r] \in Seq(TabMsg) /\ toTab'[r] = Append(toTab[r], m)
          /\ \A s \in Service \ {r} : toTab'[s] = toTab[s]
      BY <1>1, <1>6 DEF Asked, AsksTable, CallTable, ChanTypeOK
    <2>3. Elems(toTab'[r]) = Elems(toTab[r]) \cup {m}
      BY <2>2, ElemsAppend
    <2>4. \A s \in Service : AsksWell(s)'
      <3>1. ASSUME NEW s \in Service, NEW n \in Elems(toTab'[s]), n \in Asked
            PROVE  s = r /\ n = m
        BY <1>4, <2>2, <2>3, <3>1
      <3>2. QED
        BY <2>1, <3>1 DEF AsksWell
    <2>5. req'.pc \in Sitter => req'.u \in InRoom'
      BY DEF Requests, GoesOn
    <2>6. req'.pc = "start" => req'.svc = r /\ m \in Elems(toTab'[r])
      BY <1>6, <2>3 DEF AsksTable
    <2>7. ~AsksNone
      <3>1. Len(Append(toTab[r], m)) # Len(toTab[r])
        BY <2>2
      <3>2. QED
        BY <2>2, <3>1 DEF AsksNone
    <2>8. ASSUME NEW t \in TableId, gt'[t] # None
          PROVE  tb[gt'[t]].tid # 0
      <3>1. CASE gt' = gt /\ req.pc # "clean"
        BY <1>1, <2>8, <3>1 DEF Open, Live
      <3>2. CASE req.pc = "start" /\ gt' = [gt EXCEPT ![req.t] = req.svc]
        <4>1. req.svc \in Service /\ req.t \in TableId
          BY <1>1, <3>2 DEF ResourcePartition, MgrTypeOK
        <4>2. tb[req.svc].tid # 0
          BY <1>1, <1>4, <3>2, <4>1 DEF Open
        <4>3. CASE t = req.t
          BY <1>1, <3>2, <4>1, <4>2, <4>3 DEF MgrTypeOK
        <4>4. CASE t # req.t
          <5>1. gt'[t] = gt[t] /\ t \in Live
            BY <1>1, <2>8, <3>2, <4>4 DEF MgrTypeOK, Live
          <5>2. QED
            BY <1>1, <3>2, <5>1 DEF Open
        <4>5. QED
          BY <4>3, <4>4
      <3>3. QED
        BY <2>7, <3>1, <3>2 DEF Requests, Tables
    <2>9. Open'
      BY <1>2, <1>6, <2>5, <2>6, <2>8 DEF Open, Live
    <2>10. QED
      BY <1>1, <1>2, <1>3, <2>4, <2>9, TableStays DEF ShapeInv, TableShape
  <1>7. QED
    BY <1>5, <1>6 DEF Requests, GoesOn

(* Nobody enters or leaves the room by a tableevent.                       *)
LEMMA EventKeeps ==
  ASSUME IInv, NEW s \in Service, tableevent(s), UNCHANGED tabVars
  PROVE  /\ InRoom' = InRoom /\ UNCHANGED <<cur, gt, req>>
         /\ toMgr[s] # <<>> /\ Head(toMgr[s]) \in MgrMsg /\ Head(toMgr[s]).k # "ret"
         /\ Head(toMgr[s]).x \in Coroutine /\ Resume(Head(toMgr[s]).x) \in TabMsg
         /\ Resume(Head(toMgr[s]).x) \notin Asked
         /\ toMgr'[s] = Tail(toMgr[s]) /\ toTab'[s] = Append(toTab[s], Resume(Head(toMgr[s]).x))
         /\ \A r \in Service \ {s} : toMgr'[r] = toMgr[r] /\ toTab'[r] = toTab[r]
  <1>1. PICK e : e = Head(toMgr[s])
    BY Zenon
  <1>2. /\ toMgr[s] # <<>> /\ e.k # "ret"
        /\ toMgr' = [toMgr EXCEPT ![s] = Tail(@)]
        /\ toTab' = [toTab EXCEPT ![s] = Append(@, Resume(e.x))]
        /\ UNCHANGED <<cur, gt, req>>
    BY <1>1 DEF tableevent
  <1>3. toMgr \in [Service -> Seq(MgrMsg)] /\ toTab \in [Service -> Seq(TabMsg)]
    BY DEF IInv, MgrInv, ChanTypeOK
  <1>4. e \in MgrMsg
    BY <1>1, <1>2, <1>3, SeqParts
  <1>5. e.x \in Coroutine
    BY <1>2, <1>4 DEF MgrMsg, EventMsg, StatusMsg, TableMsg, ScoreMsg, RecordMsg, ReturnMsg
  <1>6. Resume(e.x) \in TabMsg /\ Resume(e.x) \notin Asked
    BY <1>5 DEF Resume, TabMsg, RespMsg, Asked
  <1>7. InRoom' = InRoom
    <2>1. online \in [User -> UserRec \cup {NoRec}]
      BY DEF IInv, MgrInv, MgrTypeOK
    <2>2. online' = CASE e.k = "status" /\ e.u \in InRoom ->
                          [online EXCEPT ![e.u] =
                             [@ EXCEPT !.st = e.st, !.tid = e.tid, !.chair = e.chair]]
                     [] e.k = "score" /\ e.u \in InRoom ->
                          [online EXCEPT ![e.u].rich = e.rich]
                     [] OTHER -> online
      BY <1>1 DEF tableevent
    <2>3. /\ \A u \in InRoom : online[u] \in UserRec /\ online[u].conn # None
          /\ NoRec.conn = None
      BY <2>1, RoomAssumption DEF InRoom, UserRec, NoRec
    <2>4. CASE online' = online
      BY <2>4 DEF InRoom
    <2>5. CASE e.u \in InRoom /\ online' =
                 [online EXCEPT ![e.u] =
                    [online[e.u] EXCEPT !.st = e.st, !.tid = e.tid, !.chair = e.chair]]
      <3>1. /\ \A v \in User \ {e.u} : online'[v] = online[v]
            /\ online'[e.u].conn = online[e.u].conn
        BY <2>1, <2>3, <2>5 DEF UserRec, InRoom
      <3>2. QED
        BY <2>3, <2>5, <3>1 DEF InRoom
    <2>6. CASE e.u \in InRoom /\ online' = [online EXCEPT ![e.u].rich = e.rich]
      <3>1. /\ \A v \in User \ {e.u} : online'[v] = online[v]
            /\ online'[e.u].conn = online[e.u].conn
        BY <2>1, <2>3, <2>6 DEF UserRec, InRoom
      <3>2. QED
        BY <2>3, <2>6, <3>1 DEF InRoom
    <2>7. QED
      BY <2>2, <2>4, <2>5, <2>6, Zenon
  <1>8. QED
    BY <1>1, <1>2, <1>3, <1>4, <1>5, <1>6, <1>7

LEMMA EventShape ==
  ASSUME IInv, CallInv, ShapeInv, NEW s \in Service, tableevent(s), UNCHANGED tabVars
  PROVE  ShapeInv'
  <1>1. /\ Open /\ \A r \in Service : TableShape(r)
        /\ ChanTypeOK /\ MgrTypeOK /\ ResourcePartition /\ tb' = tb
    BY DEF ShapeInv, IInv, MgrInv, tabVars
  <1>2. PICK a : a = Resume(Head(toMgr[s]).x)
    BY Zenon
  <1>3. /\ InRoom' = InRoom /\ UNCHANGED <<cur, gt, req>>
        /\ toMgr[s] # <<>> /\ a \in TabMsg /\ a \notin Asked
        /\ toMgr'[s] = Tail(toMgr[s]) /\ toTab'[s] = Append(toTab[s], a)
        /\ \A r \in Service \ {s} : toMgr'[r] = toMgr[r] /\ toTab'[r] = toTab[r]
    BY <1>2, EventKeeps
  <1>4. toMgr[s] \in Seq(MgrMsg) /\ toTab[s] \in Seq(TabMsg)
    BY <1>1 DEF ChanTypeOK
  <1>5. \A r \in Service : Elems(toMgr'[r]) \subseteq Elems(toMgr[r])
    BY <1>3, <1>4, ElemsTail
  <1>6. Elems(toTab'[s]) = Elems(toTab[s]) \cup {a}
    BY <1>3, <1>4, ElemsAppend
  <1>7. \A r \in Service, m \in Asked : m \in Elems(toTab'[r]) <=> m \in Elems(toTab[r])
    BY <1>3, <1>6
  <1>8. \A r, m : AskedFor(r, m)' <=> AskedFor(r, m)
    BY <1>1, <1>3 DEF AskedFor, Targets, Live, Starting
  <1>9. \A r \in Service : AsksWell(r)'
    BY <1>1, <1>7, <1>8 DEF AsksWell, TableShape
  <1>10. Open'
    <2>1. req.pc = "start" => req.svc \in Service
      BY <1>1 DEF ResourcePartition, MgrTypeOK
    <2>2. QED
      BY <1>1, <1>3, <1>7, <2>1 DEF Open, Live
  <1>11. QED
    BY <1>1, <1>3, <1>5, <1>9, <1>10, TableStays DEF ShapeInv, TableShape

-----------------------------------------------------------------------------
(* At the start no coroutine has anything left to do.                      *)
LEMMA InitShape ==
  ASSUME Init
  PROVE  ShapeInv
  <1>1. /\ req = Request0 /\ online = [u \in User |-> NoRec] /\ gt = [t \in TableId |-> None]
        /\ toTab = [s \in Service |-> <<>>] /\ toMgr = [s \in Service |-> <<>>]
    BY DEF Init, MgrInit
  <1>2. req.pc = "idle"
    BY <1>1, RequestType
  <1>3. Open
    BY <1>1, <1>2 DEF Open, Sitter, Live
  <1>5. \A s \in Service : Elems(toTab[s]) = {}
    BY <1>1 DEF Elems
  <1>6. ASSUME NEW s \in Service
        PROVE  TableShape(s)
    <2>1. /\ \A x \in Coroutine : co[s][x] = <<>>
          /\ tb[s].ob = {} /\ \A c \in Chair : tb[s].seat[c] = None
          /\ \A u \in User : cp[s][u].tid = 0 /\ cp[s][u].chair = 0
      BY DEF Init, TabInit, FreshTable, NoSeats, NoCopy
    <2>2. \A x \in Coroutine : co[s][x] \in Seq(Steady(x))
      BY <2>1, SteadySteps
    <2>3. \A x \in Coroutine : Shape(s, x) /\ Reports(s, x)
      BY <2>2, SteadyTakesNobody DEF Shape, Reports
    <2>4. Copies(s)
      <3>1. \A u \in User : ~Here(s, u)
        BY <2>1, RoomAssumption DEF Here, Seated
      <3>2. QED
        BY <2>1, <3>1 DEF Copies
    <2>5. QED
      BY <1>5, <2>3, <2>4 DEF TableShape, AsksWell
  <1>7. QED
    BY <1>3, <1>6 DEF ShapeInv

LEMMA NextShapes ==
  ASSUME IInv, CallInv, ShapeInv, [Next]_vars
  PROVE  ShapeInv'
  <1>1. CASE MgrNext /\ UNCHANGED tabVars
    <2>1. Requests \/ \E s \in Service : tableevent(s)
      BY <1>1, MgrKinds DEF IInv, ShapeInv
    <2>2. QED
      BY <1>1, <2>1, RequestsShape, EventShape
  <1>2. CASE \E s \in Service : TabNext(s) /\ UNCHANGED mgrVars
    BY <1>2, TableShapes
  <1>3. CASE UNCHANGED vars
    <2>1. UNCHANGED tabVars /\ UNCHANGED <<cur, toTab, toMgr, online, gt, req>>
      BY <1>3 DEF vars, chans, mgrVars
    <2>2. \A s \in Service : (\A x \in Coroutine : Shape(s, x)' /\ Reports(s, x)') /\ Copies(s)'
      BY <2>1, TableStays DEF ShapeInv
    <2>3. Open' /\ \A s \in Service : AsksWell(s)'
      BY <2>1 DEF ShapeInv, TableShape, Open, AsksWell, AskedFor, Live, InRoom, tabVars,
              Targets, Starting
    <2>4. QED
      BY <2>2, <2>3 DEF ShapeInv, TableShape
  <1>4. QED
    BY <1>1, <1>2, <1>3 DEF Next

(* The coroutines of the tables are always of these shapes: nobody is      *)
(* reported whom the table does not list, nobody is reported FREE and kept *)
(* (gametable.lua:152-181, 222-280), and no question reaches a table that  *)
(* has no id (gamemgr.lua:320-342, 640-700).                               *)
THEOREM TableShapesHold == Spec => [](IInv /\ CallInv /\ ShapeInv)
  <1>1. Init => ShapeInv
    BY InitShape
  <1>2. IInv /\ CallInv /\ ShapeInv /\ [Next]_vars => ShapeInv'
    BY NextShapes
  <1>3. QED
    BY <1>1, <1>2, CallsBalance, PTL DEF Spec
=============================================================================
