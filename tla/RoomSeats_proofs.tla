---------------------------- MODULE RoomSeats_proofs ----------------------------
(***************************************************************************)
(* gamemgr and the tables agree on who sits where, for any room.           *)
(*                                                                         *)
(* A table holds a player while it lists him, or a status of him is on its *)
(* way; but no longer from the moment on when gamemgr has taken the report *)
(* that he is FREE, and answered, and he is only still to be taken off.    *)
(* SeatInv: only one table holds a player, and he is in the room; what     *)
(* gamemgr will know of him when it has read the table's messages is what  *)
(* the table's copy says (Agree); and a request to let him sit is only     *)
(* made when no table holds him (AskFree).  The last one needs that a      *)
(* report of "T" never makes a player FREE for gamemgr whom the table goes *)
(* on to seat: such a report either names a table, or is behind one of "R" *)
(* that is still to come (Order), which ends the request first.            *)
(* Places says what the copy of a player says of his place; Stands, that a *)
(* request which asks a table to let a player go (request_change_table)    *)
(* goes on with him only when no table holds him any more.                 *)
(*                                                                         *)
(* The first part is about the steps of gamemgr, the second about those of *)
(* a table, by their kinds; the theorems come last.                        *)
(***************************************************************************)
EXTENDS RoomShape_proofs

(* The table still lists a player whom gamemgr knows to be FREE, and takes *)
(* him off before it does anything else.                                   *)
Stale(s, u) ==
  /\ ~Active(s, "R") /\ TakesOff(s, "T", u)
  /\ toTab[s] # <<>> /\ Head(toTab[s]) = Resume("T")

Holds(s, u) == Told(s, u) \/ (Here(s, u) /\ ~Stale(s, u))

(* After the first n messages of q, gamemgr knows v of u if it knew w.     *)
Knows(q, n, u, w, v) ==
  \/ v = w /\ \A j \in 1 .. n : ~Says(q[j], u)
  \/ \E i \in 1 .. n : /\ Says(q[i], u) /\ v = Word(q[i])
                       /\ \A j \in (i + 1) .. n : ~Says(q[j], u)

WillKnow(s, u, v) == Knows(toMgr[s], Len(toMgr[s]), u, Word(online[u]), v)

Known(s) == \A u \in User : Holds(s, u) => u \in InRoom

Unique == \A r, s \in Service : r # s => \A u \in User : ~(Holds(r, u) /\ Holds(s, u))

Agree(s) ==
  \A u \in User : Here(s, u) /\ ~Stale(s, u) /\ ~Fresh(s, u) => WillKnow(s, u, Word(cp[s][u]))

(* A message has a call of "R" still to come, or behind it in the queue.   *)
Behind(s, i) ==
  WillCall(co[s]["R"]) \/ \E j \in (i + 1) .. Len(toMgr[s]) : toMgr[s][j] \in CallsOf("R")

TellsT(s, i, u) == toMgr[s][i] \in CallsOf("T") /\ Says(toMgr[s][i], u)

Order(s) ==
  \A u \in User, i \in 1 .. Len(toMgr[s]) :
    TellsT(s, i, u) =>
      \/ Behind(s, i)
      \/ \E v : v.tid # 0 /\ Knows(toMgr[s], i - 1, u, Word(online[u]), v)

(* Nobody holds a player who is about to be let in, and who is being taken *)
(* off by the timer's coroutine is off before that.                        *)
Unheld(s, u) ==
  /\ \A r \in Service : ~Holds(r, u)
  /\ TakesOff(s, "T", u) => toTab[s] # <<>> /\ Head(toTab[s]) = Resume("T")

AskFree(s) == \A m \in Elems(toTab[s]) : m \in Asked /\ Sits(m) => Unheld(s, m.u)

-----------------------------------------------------------------------------
(* Where the players are at a table, in terms of their copies.             *)
SeatsApart(s) ==
  /\ \A c, d \in Chair : tb[s].seat[c] # None /\ tb[s].seat[c] = tb[s].seat[d] => c = d
  /\ \A c \in Chair : tb[s].seat[c] \notin tb[s].ob

SeatCopy(s, u, c) == cp[s][u].tid = tb[s].tid /\ cp[s][u].chair = c
WatchCopy(s, u)   == cp[s][u].tid = tb[s].tid /\ cp[s][u].st = "OB"

SeatsCopied(s) ==
  \A u \in User, c \in Chair : tb[s].seat[c] = u =>
    Fresh(s, u) \/ SeatCopy(s, u, c) \/ \E x \in Coroutine : Gives(s, x, u, c)

WatchersCopied(s) ==
  \A u \in tb[s].ob :
    Fresh(s, u) \/ WatchCopy(s, u) \/ \E x \in Coroutine : Unwatches(s, x, u)

(* Who is being taken off a chair is on no other, and who is being taken   *)
(* off the observers is on none.                                           *)
LeavesOnce(s) ==
  \A u \in User, x \in Coroutine :
    /\ Vacates(s, x, u) =>
         /\ u \notin tb[s].ob
         /\ \A c \in Chair : tb[s].seat[c] = u => \E y \in Coroutine : Gives(s, y, u, c)
    /\ Unwatches(s, x, u) => ~Seated(s, u)
    /\ Unwatches(s, "R", u) => cp[s][u].tid = 0

Places(s) == SeatsApart(s) /\ SeatsCopied(s) /\ WatchersCopied(s) /\ LeavesOnce(s)

-----------------------------------------------------------------------------
(* A request that waits for a table to let a player go: once the table has *)
(* agreed, he leaves it.                                                   *)
RLeaves(s, u) == \E q \in Elems(co[s]["R"]) : q.op \in LeaveOp /\ q.u = u

Stood(s) ==
  \/ Active(s, "R") /\ res[s]
  \/ \E m \in Elems(toMgr[s]) : m \in Returned /\ m.val = 1

StandsFirst(s) ==
  Active(s, "R") /\ ~res[s] =>
    Running(s, "R") /\ NextIs(s, "R", "standup", req.u) /\ Len(co[s]["R"]) = 1

GoesAway(s, u) ==
  /\ \A r \in Service \ {s} : ~Holds(r, u)
  /\ Here(s, u) => RLeaves(s, u) \/ TakesOff(s, "T", u)
  /\ \A i \in 1 .. Len(toMgr[s]) : TellsT(s, i, u) => Behind(s, i)

Stands(s) == req.pc = "stand" => StandsFirst(s) /\ (Stood(s) => GoesAway(s, req.u))

SeatShape(s) ==
  Known(s) /\ Agree(s) /\ Order(s) /\ AskFree(s) /\ Places(s) /\ Stands(s)

SeatInv == Unique /\ \A s \in Service : SeatShape(s)

-----------------------------------------------------------------------------
(* What gamemgr knows, over a message more and a message less.             *)
LEMMA KnowsAppend ==
  ASSUME NEW S, NEW q \in Seq(S), NEW e \in S, NEW u, NEW w
  PROVE  /\ \A n \in 0 .. Len(q) : \A v :
               Knows(q, n, u, w, v) => Knows(Append(q, e), n, u, w, v)
         /\ Says(e, u) => Knows(Append(q, e), Len(q) + 1, u, w, Word(e))
         /\ ~Says(e, u) => \A v : Knows(q, Len(q), u, w, v)
                                    => Knows(Append(q, e), Len(q) + 1, u, w, v)
  <1>1. PICK p : p = Append(q, e)
    OBVIOUS
  <1>2. /\ Len(q) \in Nat /\ Len(p) = Len(q) + 1 /\ p[Len(q) + 1] = e
        /\ \A j \in 1 .. Len(q) : p[j] = q[j]
    BY <1>1
  <1>3. ASSUME NEW n \in 0 .. Len(q), NEW v, Knows(q, n, u, w, v)
        PROVE  Knows(p, n, u, w, v)
    <2>1. \A j \in 1 .. n : p[j] = q[j]
      BY <1>2
    <2>2. n \in Nat
      BY <1>2
    <2>3. \A i \in 1 .. n : \A j \in (i + 1) .. n : j \in 1 .. n
      BY <2>2
    <2>4. QED
      BY <1>3, <2>1, <2>3 DEF Knows
  <1>4. ASSUME Says(e, u)
        PROVE  Knows(p, Len(q) + 1, u, w, Word(e))
    <2>1. Len(q) + 1 \in 1 .. Len(q) + 1 /\ ((Len(q) + 1) + 1) .. Len(q) + 1 = {}
      BY <1>2
    <2>2. QED
      BY <1>2, <1>4, <2>1 DEF Knows
  <1>5. ASSUME ~Says(e, u), NEW v, Knows(q, Len(q), u, w, v)
        PROVE  Knows(p, Len(q) + 1, u, w, v)
    <2>1. \A j \in 1 .. Len(q) + 1 : j \in 1 .. Len(q) \/ j = Len(q) + 1
      BY <1>2
    <2>2. CASE v = w /\ \A j \in 1 .. Len(q) : ~Says(q[j], u)
      BY <1>2, <1>5, <2>1, <2>2 DEF Knows
    <2>3. CASE \E i \in 1 .. Len(q) : /\ Says(q[i], u) /\ v = Word(q[i])
                                      /\ \A j \in (i + 1) .. Len(q) : ~Says(q[j], u)
      <3>1. PICK i \in 1 .. Len(q) : /\ Says(q[i], u) /\ v = Word(q[i])
                                     /\ \A j \in (i + 1) .. Len(q) : ~Says(q[j], u)
        BY <2>3
      <3>2. i \in 1 .. Len(q) + 1 /\ p[i] = q[i]
        BY <1>2
      <3>3. ASSUME NEW j \in (i + 1) .. Len(q) + 1
            PROVE  ~Says(p[j], u)
        <4>1. (j \in (i + 1) .. Len(q) /\ j \in 1 .. Len(q)) \/ j = Len(q) + 1
          BY <1>2
        <4>2. QED
          BY <1>2, <1>5, <3>1, <4>1
      <3>4. QED
        BY <3>1, <3>2, <3>3 DEF Knows
    <2>4. QED
      BY <1>5, <2>2, <2>3 DEF Knows
  <1>6. QED
    BY <1>1, <1>3, <1>4, <1>5

LEMMA TailItems ==
  ASSUME NEW S, NEW q \in Seq(S), q # <<>>
  PROVE  /\ Len(q) \in Nat \ {0} /\ Len(Tail(q)) = Len(q) - 1 /\ q[1] = Head(q)
         /\ \A j \in 1 .. Len(Tail(q)) : Tail(q)[j] = q[j + 1] /\ j + 1 \in 1 .. Len(q)
  OBVIOUS

LEMMA KnowsTail ==
  ASSUME NEW S, NEW q \in Seq(S), q # <<>>, NEW n \in 1 .. Len(q), NEW u, NEW w, NEW v,
         Knows(q, n, u, w, v), NEW z, Says(Head(q), u) => z = Word(Head(q)),
         ~Says(Head(q), u) => z = w
  PROVE  Knows(Tail(q), n - 1, u, z, v)
  <1>1. PICK p, e : p = Tail(q) /\ e = Head(q)
    OBVIOUS
  <1>2. /\ Len(q) \in Nat \ {0} /\ Len(p) = Len(q) - 1 /\ q[1] = e
        /\ \A j \in 1 .. Len(p) : p[j] = q[j + 1] /\ j + 1 \in 1 .. Len(q)
    BY <1>1, TailItems
  <1>3. n \in Nat /\ 1 \in 1 .. n /\ n - 1 \in 0 .. Len(p)
        /\ \A j \in 1 .. n - 1 : j \in 1 .. Len(p) /\ j + 1 \in 1 .. n
    BY <1>2
  <1>4. CASE v = w /\ \A j \in 1 .. n : ~Says(q[j], u)
    <2>1. z = w
      BY <1>1, <1>2, <1>3, <1>4
    <2>2. \A j \in 1 .. n - 1 : ~Says(p[j], u)
      BY <1>2, <1>3, <1>4
    <2>3. QED
      BY <1>1, <1>4, <2>1, <2>2 DEF Knows
  <1>5. ASSUME NEW i \in 1 .. n, Says(q[i], u), v = Word(q[i]),
               \A j \in (i + 1) .. n : ~Says(q[j], u)
        PROVE  Knows(p, n - 1, u, z, v)
    <2>1. CASE i = 1
      <3>1. z = v
        BY <1>1, <1>2, <1>5, <2>1
      <3>2. ASSUME NEW j \in 1 .. n - 1
            PROVE  ~Says(p[j], u)
        <4>1. j + 1 \in (i + 1) .. n
          BY <1>3, <2>1
        <4>2. QED
          BY <1>2, <1>3, <1>5, <4>1
      <3>3. QED
        BY <3>1, <3>2 DEF Knows
    <2>2. CASE i # 1
      <3>1. PICK k : k = i - 1
        OBVIOUS
      <3>2. k \in 1 .. n - 1 /\ k + 1 = i
        BY <1>3, <2>2, <3>1
      <3>3. p[k] = q[i]
        BY <1>2, <1>3, <3>2
      <3>4. ASSUME NEW j \in (k + 1) .. n - 1
            PROVE  ~Says(p[j], u)
        <4>1. j + 1 \in (i + 1) .. n /\ j \in 1 .. n - 1
          BY <1>3, <3>2
        <4>2. QED
          BY <1>2, <1>3, <1>5, <4>1
      <3>5. QED
        BY <1>5, <3>2, <3>3, <3>4 DEF Knows
    <2>3. QED
      BY <2>1, <2>2
  <1>6. QED
    BY <1>1, <1>4, <1>5 DEF Knows

(* What gamemgr knows is what it knew, if nothing is said of the player.   *)
LEMMA KnowsSilence ==
  ASSUME NEW q, NEW n, NEW u, NEW w, NEW v, \A j \in 1 .. n : ~Says(q[j], u)
  PROVE  Knows(q, n, u, w, v) <=> v = w
  BY DEF Knows

LEMMA ToldElems ==
  ASSUME ChanTypeOK, NEW s \in Service, NEW u
  PROVE  /\ toMgr[s] \in Seq(MgrMsg)
         /\ Told(s, u) <=> \E m \in Elems(toMgr[s]) : Says(m, u)
         /\ Told(s, u) <=> \E i \in 1 .. Len(toMgr[s]) : Says(toMgr[s][i], u)
  BY DEF ChanTypeOK, Told, Says, Elems

(* The first message that says something of a player.                      *)
LEMMA FirstSays ==
  ASSUME NEW S, NEW q \in Seq(S), NEW u, \E i \in 1 .. Len(q) : Says(q[i], u)
  PROVE  \E i \in 1 .. Len(q) : Says(q[i], u) /\ \A j \in 1 .. (i - 1) : ~Says(q[j], u)
  <1>1. PICK N : N = {i \in 1 .. Len(q) : Says(q[i], u)}
    OBVIOUS
  <1>2. N \in SUBSET Nat /\ N # {}
    BY <1>1
  <1>3. PICK i \in N : \A j \in N : i <= j
    BY <1>2, LeastExists
  <1>4. \A j \in 1 .. (i - 1) : j \in 1 .. Len(q) /\ ~(i <= j)
    BY <1>1
  <1>5. QED
    BY <1>1, <1>3, <1>4

-----------------------------------------------------------------------------
(* All that is known of a room between two steps.                          *)
AllInv == IInv /\ CallInv /\ ShapeInv /\ SeatInv

LEMMA AllParts ==
  ASSUME AllInv
  PROVE  /\ ChanTypeOK /\ TabTypeOK /\ MgrTypeOK /\ MgrInv /\ Waits /\ OneAsked /\ Open
         /\ CallInv /\ Unique
         /\ \A s \in Service :
              /\ TableShape(s) /\ Copies(s) /\ AsksWell(s)
              /\ \A x \in Coroutine : Shape(s, x) /\ Reports(s, x)
              /\ Known(s) /\ Agree(s) /\ Order(s) /\ AskFree(s) /\ Places(s) /\ Stands(s)
  BY DEF AllInv, IInv, MgrInv, CallInv, ShapeInv, TableShape, SeatInv, SeatShape

LEMMA TableTypes ==
  ASSUME ChanTypeOK, TabTypeOK, NEW s \in Service
  PROVE  /\ tb[s].ob \subseteq User /\ None \notin User
         /\ \A c \in Chair : tb[s].seat[c] \in User \cup {None}
         /\ toMgr[s] \in Seq(MgrMsg) /\ toTab[s] \in Seq(TabMsg) /\ wt[s] \subseteq Coroutine
         /\ \A x \in Coroutine : co[s][x] \in Seq(Step)
         /\ \A u : Here(s, u) /\ u # None => u \in User
  <1>1. tb[s] \in TableState
    BY DEF TabTypeOK
  <1>2. /\ tb[s].ob \subseteq User
        /\ \A c \in Chair : tb[s].seat[c] \in User \cup {None}
    BY <1>1 DEF TableState, UserOrNone
  <1>3. /\ toMgr[s] \in Seq(MgrMsg) /\ toTab[s] \in Seq(TabMsg) /\ wt[s] \subseteq Coroutine
        /\ \A x \in Coroutine : co[s][x] \in Seq(Step)
    BY DEF ChanTypeOK, TabTypeOK
  <1>4. \A u : Here(s, u) /\ u # None => u \in User
    BY <1>2 DEF Here, Seated
  <1>5. QED
    BY <1>2, <1>3, <1>4, RoomAssumption

(* A status message is a call of one of the two coroutines.                *)
LEMMA SaysCalls ==
  ASSUME NEW m \in MgrMsg, NEW u, Says(m, u)
  PROVE  /\ m \in CallsOf("R") \/ m \in CallsOf("T")
         /\ m \notin Returned /\ u \in User /\ ~(m \in CallsOf("R") /\ m \in CallsOf("T"))
  BY DEF Says, MgrMsg, EventMsg, StatusMsg, TableMsg, ScoreMsg, RecordMsg, ReturnMsg,
         CallsOf, Returned, Coroutine

-----------------------------------------------------------------------------
(* No table is engaged: a request asks its next question.                  *)
LEMMA QuietTable ==
  ASSUME AllInv, Unengaged, NEW s \in Service
  PROVE  /\ co[s]["R"] = <<>> /\ ~Active(s, "R") /\ cur' = cur
         /\ \A m \in Elems(toMgr[s]) : m \notin CallsOf("R")
         /\ \A i \in 1 .. Len(toMgr[s]) : ~Behind(s, i)
         /\ \A m \in Elems(toTab[s]) : m = Resume("T")
         /\ \A u : ~Fresh(s, u) /\ ~TakesOff(s, "R", u)
  <1>1. ChanTypeOK /\ TabTypeOK /\ Waits
    BY AllParts
  <1>2. ~Active(s, "R") /\ NumIn(toTab[s], Asked) = 0 /\ cur' = cur
    BY DEF Unengaged
  <1>3. "R" \in Coroutine /\ ~Running(s, "R") /\ "R" \notin wt[s] /\ co[s]["R"] = <<>>
    BY <1>1, <1>2 DEF Waits, Active, Coroutine
  <1>4. NumIn(toTab[s], Answers("R")) + NumIn(toMgr[s], CallsOf("R")) = 0
    BY <1>1, <1>3 DEF Waits, Owes, Bit
  <1>5. NumIn(toTab[s], Answers("R")) = 0 /\ NumIn(toMgr[s], CallsOf("R")) = 0
    BY <1>1, <1>4, CountTypes
  <1>6. toMgr[s] \in Seq(MgrMsg) /\ toTab[s] \in Seq(TabMsg)
    BY <1>1, TableTypes
  <1>7. \A m \in Elems(toMgr[s]) : m \notin CallsOf("R")
    BY <1>5, <1>6, NoneIn
  <1>8. \A m \in Elems(toTab[s]) : m \in TabMsg /\ m \notin Asked /\ m \notin Answers("R")
    <2>1. \A m \in Elems(toTab[s]) : m \notin Asked
      BY <1>2, <1>6, NoneIn
    <2>2. \A m \in Elems(toTab[s]) : m \notin Answers("R")
      BY <1>5, <1>6, NoneIn
    <2>3. QED
      BY <1>6, <2>1, <2>2, ElemsType
  <1>9. \A m \in Elems(toTab[s]) : m = Resume("T")
    BY <1>8 DEF TabMsg, ReqMsg, RespMsg, Asked, Answers, Resume, Coroutine
  <1>10. ASSUME NEW i \in 1 .. Len(toMgr[s])
         PROVE  ~Behind(s, i)
    <2>1. ~WillCall(co[s]["R"])
      BY <1>3, NoCallLeft
    <2>2. \A j \in (i + 1) .. Len(toMgr[s]) : j \in 1 .. Len(toMgr[s])
      BY <1>6
    <2>3. \A j \in (i + 1) .. Len(toMgr[s]) : toMgr[s][j] \notin CallsOf("R")
      BY <1>7, <2>2 DEF Elems
    <2>4. QED
      BY <2>1, <2>3 DEF Behind
  <1>11. \A u : ~Fresh(s, u) /\ ~TakesOff(s, "R", u)
    BY <1>3 DEF Fresh, TakesOff, Vacates, Unwatches
  <1>12. QED
    BY <1>2, <1>3, <1>7, <1>9, <1>10, <1>11

(* Who is being taken off, and of whom no status is on its way, is taken   *)
(* off before anything else is done.                                       *)
LEMMA QuietTakes ==
  ASSUME AllInv, Unengaged, NEW s \in Service, NEW u \in User,
         TakesOff(s, "T", u), ~Told(s, u)
  PROVE  toTab[s] # <<>> /\ Head(toTab[s]) = Resume("T")
  <1>1. ChanTypeOK /\ TabTypeOK /\ Waits /\ Reports(s, "T") /\ "T" \in Coroutine
    BY AllParts DEF Coroutine
  <1>2. toMgr[s] \in Seq(MgrMsg) /\ toTab[s] \in Seq(TabMsg)
    BY <1>1, TableTypes
  <1>3. "T" \in wt[s]
    BY DEF TakesOff, Vacates, Unwatches
  <1>4. \A m \in Elems(toMgr[s]) : m \notin CallsOf("T")
    BY <1>1, ToldElems DEF Reports
  <1>5. NumIn(toMgr[s], CallsOf("T")) = 0
    BY <1>2, <1>4, NoneIn
  <1>6. NumIn(toTab[s], Answers("T")) + NumIn(toMgr[s], CallsOf("T")) = 1
    BY <1>1, <1>3 DEF Waits, Owes, Bit
  <1>7. NumIn(toTab[s], Answers("T")) \in Nat
    BY <1>1, CountTypes
  <1>8. NumIn(toTab[s], Answers("T")) # 0
    BY <1>5, <1>6, <1>7
  <1>9. \E m \in Elems(toTab[s]) : m \in Answers("T")
    BY <1>2, <1>8, NoneIn
  <1>10. toTab[s] # <<>>
    <2>1. Elems(<<>>) = {}
      BY DEF Elems
    <2>2. QED
      BY <1>9, <2>1
  <1>11. Head(toTab[s]) \in Elems(toTab[s])
    BY <1>2, <1>10, ElemsTail
  <1>12. QED
    BY <1>10, <1>11, QuietTable

(* No table holds a player whose record names none: a report on its way    *)
(* would change a record that names one.                                   *)
LEMMA FreeUntold ==
  ASSUME AllInv, Unengaged, NEW u \in User, online[u].tid = 0, NEW s \in Service
  PROVE  ~Told(s, u)
  <1>1. ChanTypeOK /\ TabTypeOK /\ Order(s)
    BY AllParts
  <1>2. SUFFICES ASSUME Told(s, u)
                 PROVE  FALSE
    OBVIOUS
  <1>3. toMgr[s] \in Seq(MgrMsg)
    BY <1>1, TableTypes
  <1>4. PICK i \in 1 .. Len(toMgr[s]) :
          Says(toMgr[s][i], u) /\ \A j \in 1 .. (i - 1) : ~Says(toMgr[s][j], u)
    BY <1>1, <1>2, <1>3, ToldElems, FirstSays
  <1>5. toMgr[s][i] \in MgrMsg /\ toMgr[s][i] \in Elems(toMgr[s])
    BY <1>3 DEF Elems
  <1>6. TellsT(s, i, u)
    BY <1>4, <1>5, SaysCalls, QuietTable DEF TellsT
  <1>7. ~Behind(s, i)
    BY QuietTable
  <1>8. PICK v : v.tid # 0 /\ Knows(toMgr[s], i - 1, u, Word(online[u]), v)
    BY <1>1, <1>6, <1>7 DEF Order
  <1>9. v = Word(online[u])
    BY <1>4, <1>8, KnowsSilence
  <1>10. QED
    BY <1>8, <1>9 DEF Word

LEMMA FreeHere ==
  ASSUME AllInv, Unengaged, NEW u \in User, online[u].tid = 0, NEW s \in Service, Here(s, u)
  PROVE  Stale(s, u)
  <1>1. ChanTypeOK /\ TabTypeOK /\ Agree(s) /\ Places(s) /\ Copies(s)
    BY AllParts
  <1>2. ~Told(s, u)
    BY FreeUntold
  <1>3. SUFFICES ASSUME ~Stale(s, u)
                 PROVE  FALSE
    OBVIOUS
  <1>4. WillKnow(s, u, Word(cp[s][u]))
    BY <1>1, <1>3, QuietTable DEF Agree
  <1>5. Word(cp[s][u]) = Word(online[u])
    BY <1>1, <1>2, <1>4, ToldElems, KnowsSilence DEF WillKnow
  <1>6. cp[s][u].tid = 0 /\ tb[s].tid # 0
    BY <1>1, <1>5 DEF Word, Copies
  <1>7. ~TakesOff(s, "T", u)
    BY <1>2, <1>3, QuietTable, QuietTakes DEF Stale
  <1>8. ~TakesOff(s, "R", u) /\ ~Fresh(s, u)
    BY QuietTable
  <1>9. \A x \in Coroutine : ~TakesOff(s, x, u)
    BY <1>7, <1>8 DEF Coroutine
  <1>10. CASE u \in tb[s].ob
    BY <1>1, <1>6, <1>8, <1>9, <1>10 DEF Places, WatchersCopied, WatchCopy, TakesOff
  <1>11. CASE Seated(s, u)
    BY <1>1, <1>6, <1>8, <1>9, <1>11
       DEF Places, SeatsCopied, SeatCopy, TakesOff, Seated, Gives
  <1>12. QED
    BY <1>10, <1>11 DEF Here

LEMMA Free ==
  ASSUME AllInv, Unengaged, NEW u \in User, online[u].tid = 0
  PROVE  \A s \in Service : ~Holds(s, u) /\ Unheld(s, u)
  <1>1. \A s \in Service : ~Told(s, u)
    BY FreeUntold
  <1>2. \A s \in Service : ~Holds(s, u)
    BY <1>1, FreeHere DEF Holds
  <1>3. \A s \in Service : TakesOff(s, "T", u) =>
          toTab[s] # <<>> /\ Head(toTab[s]) = Resume("T")
    BY <1>1, QuietTakes
  <1>4. QED
    BY <1>2, <1>3 DEF Unheld

(* Nor one who has stood up, when the request hears of it.                 *)
LEMMA StandDone ==
  ASSUME AllInv, Unengaged, Answer("stand", TRUE, 1)
  PROVE  \A s \in Service : Unheld(s, req.u)
  <1>1. PICK u : u = req.u
    OBVIOUS
  <1>2. ChanTypeOK /\ TabTypeOK /\ MgrTypeOK /\ req.pc = "stand"
    BY AllParts DEF Answer
  <1>3. u \in User
    BY <1>1, <1>2 DEF MgrTypeOK, RequestRec, RequestOf, RoomPc
  <1>4. PICK r \in Service : /\ toMgr[r] # <<>> /\ Head(toMgr[r]).k = "ret"
                             /\ 1 = Head(toMgr[r]).val
    BY Zenon DEF Answer
  <1>5. Head(toMgr[r]) \in Elems(toMgr[r]) /\ Head(toMgr[r]) \in MgrMsg
    BY <1>2, <1>4, TableTypes, ElemsTail, ElemsType
  <1>6. Stood(r)
    BY <1>4, <1>5 DEF Stood, Returned
  <1>7. GoesAway(r, u)
    BY <1>1, <1>2, <1>6, AllParts DEF Stands
  <1>8. ~Told(r, u)
    <2>1. SUFFICES ASSUME NEW i \in 1 .. Len(toMgr[r]), Says(toMgr[r][i], u)
                   PROVE  FALSE
      BY <1>2, ToldElems
    <2>2. toMgr[r][i] \in MgrMsg /\ toMgr[r][i] \in Elems(toMgr[r])
      BY <1>2, TableTypes DEF Elems
    <2>3. TellsT(r, i, u)
      BY <2>1, <2>2, SaysCalls, QuietTable DEF TellsT
    <2>4. QED
      BY <1>7, <2>3, QuietTable DEF GoesAway
  <1>9. Here(r, u) => Stale(r, u)
    <2>1. ~RLeaves(r, u)
      <3>1. co[r]["R"] = <<>>
        BY QuietTable
      <3>2. Elems(<<>>) = {}
        BY DEF Elems
      <3>3. QED
        BY <3>1, <3>2 DEF RLeaves
    <2>2. Here(r, u) => TakesOff(r, "T", u)
      BY <1>7, <2>1 DEF GoesAway
    <2>3. QED
      BY <1>3, <1>8, <2>2, QuietTakes, QuietTable DEF Stale
  <1>10. \A s \in Service : ~Holds(s, u)
    BY <1>7, <1>8, <1>9 DEF Holds, GoesAway
  <1>11. \A s \in Service : TakesOff(s, "T", u) =>
           toTab[s] # <<>> /\ Head(toTab[s]) = Resume("T")
    BY <1>3, <1>10, QuietTakes DEF Holds
  <1>12. QED
    BY <1>1, <1>10, <1>11 DEF Unheld

LEMMA ToldAfter ==
  ASSUME NEW s
  PROVE  /\ \A u : Told(s, u)' <=> \E m \in Elems(toMgr'[s]) : Says(m, u)
         /\ \A u : Told(s, u)' <=> \E i \in 1 .. Len(toMgr'[s]) : Says(toMgr'[s][i], u)
  BY DEF Told, Says, Elems

-----------------------------------------------------------------------------
(* What gamemgr does leaves the tables' own as it is.                      *)
LEMMA TablesSame ==
  ASSUME UNCHANGED tabVars, cur' = cur, NEW s
  PROVE  /\ \A x : Active(s, x)' <=> Active(s, x)
         /\ \A u : Here(s, u)' <=> Here(s, u)
         /\ \A u : Fresh(s, u)' <=> Fresh(s, u)
         /\ \A x, u : TakesOff(s, x, u)' <=> TakesOff(s, x, u)
         /\ \A u : RLeaves(s, u)' <=> RLeaves(s, u)
         /\ StandsFirst(s) /\ req' = req => StandsFirst(s)'
         /\ Places(s)' <=> Places(s)
         /\ cp'[s] = cp[s] /\ co'[s] = co[s] /\ tb'[s] = tb[s] /\ res'[s] = res[s]
  <1>1. /\ cp' = cp /\ co' = co /\ tb' = tb /\ res' = res /\ wt' = wt
    BY DEF tabVars
  <1>2. /\ \A x : Active(s, x)' <=> Active(s, x)
        /\ \A u : Here(s, u)' <=> Here(s, u)
        /\ \A u : Fresh(s, u)' <=> Fresh(s, u)
    BY <1>1 DEF Active, Running, Here, Seated, Fresh, NextIs, Top
  <1>3. /\ \A x, u : Vacates(s, x, u)' <=> Vacates(s, x, u)
        /\ \A x, u : Unwatches(s, x, u)' <=> Unwatches(s, x, u)
        /\ \A x, u, c : Gives(s, x, u, c)' <=> Gives(s, x, u, c)
    BY <1>1 DEF Vacates, Unwatches, Gives, NextIs, Top
  <1>4. \A x, u : TakesOff(s, x, u)' <=> TakesOff(s, x, u)
    BY <1>3 DEF TakesOff
  <1>5. \A u : RLeaves(s, u)' <=> RLeaves(s, u)
    BY <1>1 DEF RLeaves, Elems
  <1>6. StandsFirst(s) /\ req' = req => StandsFirst(s)'
    BY <1>1, <1>2 DEF StandsFirst, Running, NextIs, Top
  <1>7. Places(s)' <=> Places(s)
    BY <1>1, <1>2, <1>3 DEF Places, SeatsApart, SeatsCopied, WatchersCopied, LeavesOnce,
                            SeatCopy, WatchCopy, Seated
  <1>8. QED
    BY <1>1, <1>2, <1>4, <1>5, <1>6, <1>7

(* A request's next question goes to the end of a table's queue.           *)
LEMMA RequestQueues ==
  ASSUME AllInv, Requests, UNCHANGED tabVars, NEW s \in Service
  PROVE  /\ toTab[s] # <<>> => toTab'[s] # <<>> /\ Head(toTab'[s]) = Head(toTab[s])
         /\ toTab[s] = <<>> => toTab'[s] = <<>> \/ Head(toTab'[s]) # Resume("T")
         /\ \A m \in Elems(toTab'[s]) : m \in Asked => AsksTable(s, m)
         /\ \A u : Told(s, u)' <=> Told(s, u)
  <1>1. ChanTypeOK /\ TabTypeOK
    BY AllParts
  <1>2. toMgr[s] \in Seq(MgrMsg) /\ toTab[s] \in Seq(TabMsg) /\ Unengaged
    BY <1>1, TableTypes DEF Requests
  <1>3. \A m \in Elems(toTab[s]) : m \notin Asked
    BY <1>2, NoneIn DEF Unengaged
  <1>4. ASSUME NEW r \in Service, NEW m \in Asked, AsksTable(r, m)
        PROVE  \/ toTab'[s] = toTab[s]
               \/ r = s /\ toTab'[s] = Append(toTab[s], m)
    BY <1>1, <1>4 DEF AsksTable, CallTable, ChanTypeOK
  <1>5. \/ toTab'[s] = toTab[s]
        \/ \E m \in Asked : AsksTable(s, m) /\ toTab'[s] = Append(toTab[s], m)
    BY <1>4 DEF Requests, GoesOn, AsksNone
  <1>6. \A u : Told(s, u)' <=> Told(s, u)
    <2>1. \/ toMgr'[s] = toMgr[s]
          \/ /\ toMgr[s] # <<>> /\ Head(toMgr[s]) \in Returned
             /\ toMgr'[s] = Tail(toMgr[s])
      BY DEF Requests, Hears
    <2>2. \A u : \A m \in Elems(toMgr[s]) :
            Says(m, u) => m \in Elems(toMgr'[s])
      <3>1. \A u : \A m \in Returned : ~Says(m, u)
        BY DEF Returned, Says
      <3>2. QED
        BY <1>2, <2>1, <3>1, ElemsTail
    <2>3. Elems(toMgr'[s]) \subseteq Elems(toMgr[s])
      BY <1>2, <2>1, ElemsTail
    <2>4. QED
      BY <1>1, <2>2, <2>3, ToldElems, ToldAfter
  <1>7. CASE toTab'[s] = toTab[s]
    BY <1>3, <1>7, <1>6
  <1>8. ASSUME NEW m \in Asked, AsksTable(s, m), toTab'[s] = Append(toTab[s], m)
        PROVE  /\ toTab[s] # <<>> => toTab'[s] # <<>> /\ Head(toTab'[s]) = Head(toTab[s])
               /\ toTab[s] = <<>> => toTab'[s] = <<>> \/ Head(toTab'[s]) # Resume("T")
               /\ \A n \in Elems(toTab'[s]) : n \in Asked => AsksTable(s, n)
    <2>1. m \in TabMsg /\ m # Resume("T")
      BY DEF Asked, Resume
    <2>2. Elems(toTab'[s]) = Elems(toTab[s]) \cup {m}
      BY <1>2, <1>8, <2>1, ElemsAppend
    <2>3. toTab[s] # <<>> => toTab'[s] # <<>> /\ Head(toTab'[s]) = Head(toTab[s])
      BY <1>2, <1>8, <2>1
    <2>4. toTab[s] = <<>> => Head(toTab'[s]) = m
      BY <1>2, <1>8, <2>1
    <2>5. QED
      BY <1>3, <1>8, <2>1, <2>2, <2>3, <2>4
  <1>9. QED
    BY <1>5, <1>7, <1>8, <1>6

(* A request that asks on changes nothing of who holds whom.               *)
LEMMA RequestHeld ==
  ASSUME AllInv, Requests, UNCHANGED tabVars
  PROVE  \A s \in Service : \A u :
           /\ Stale(s, u)' <=> Stale(s, u)
           /\ Holds(s, u)' <=> Holds(s, u)
           /\ Unheld(s, u) => Unheld(s, u)'
  <1>1. cur' = cur
    BY DEF Requests, Unengaged
  <1>2. \A s \in Service : \A u :
          /\ toTab[s] # <<>> => toTab'[s] # <<>> /\ Head(toTab'[s]) = Head(toTab[s])
          /\ toTab[s] = <<>> => toTab'[s] = <<>> \/ Head(toTab'[s]) # Resume("T")
          /\ Told(s, u)' <=> Told(s, u)
          /\ Active(s, "R")' <=> Active(s, "R")
          /\ Here(s, u)' <=> Here(s, u)
          /\ TakesOff(s, "T", u)' <=> TakesOff(s, "T", u)
    BY <1>1, RequestQueues, TablesSame
  <1>3. \A s \in Service : \A u : Stale(s, u)' <=> Stale(s, u)
    BY <1>2 DEF Stale
  <1>4. \A s \in Service : \A u : Holds(s, u)' <=> Holds(s, u)
    BY <1>2, <1>3 DEF Holds
  <1>5. \A s \in Service : \A u : Unheld(s, u) => Unheld(s, u)'
    BY <1>2, <1>4 DEF Unheld
  <1>6. QED
    BY <1>3, <1>4, <1>5

(* Nor of the record of a player whom a table holds.                       *)
LEMMA RequestRecords ==
  ASSUME AllInv, Requests, NEW s \in Service, NEW u \in User, Holds(s, u)
  PROVE  SameRecord(u)
  BY Free DEF Requests, Records

(* What is left in gamemgr's queue, by its place in the queue.             *)
LEMMA RequestTold ==
  ASSUME AllInv, Requests, NEW s \in Service, NEW i \in 1 .. Len(toMgr'[s])
  PROVE  /\ toMgr'[s][i] \in Elems(toMgr[s])
         /\ \E j \in 1 .. Len(toMgr[s]) :
              /\ toMgr[s][j] = toMgr'[s][i]
              /\ \A u, w, v : Knows(toMgr[s], j - 1, u, w, v) =>
                                Knows(toMgr'[s], i - 1, u, w, v)
  <1>1. toMgr[s] \in Seq(MgrMsg)
    BY AllParts, TableTypes
  <1>2. CASE toMgr'[s] = toMgr[s]
    BY <1>2 DEF Elems
  <1>3. CASE /\ toMgr[s] # <<>> /\ Head(toMgr[s]) \in Returned
             /\ toMgr'[s] = Tail(toMgr[s])
    <2>1. PICK q : q = toMgr[s]
      OBVIOUS
    <2>2. /\ q \in Seq(MgrMsg) /\ q # <<>> /\ Head(q) \in Returned /\ toMgr'[s] = Tail(q)
      BY <1>1, <1>3, <2>1
    <2>3. PICK j : j = i + 1
      OBVIOUS
    <2>4. /\ j \in 1 .. Len(q) /\ Tail(q)[i] = q[j] /\ i - 1 = (j - 1) - 1
          /\ j - 1 \in 1 .. Len(q)
      BY <2>2, <2>3, TailItems
    <2>5. \A u : ~Says(Head(q), u)
      BY <2>2 DEF Says, Returned
    <2>6. ASSUME NEW u, NEW w, NEW v, Knows(q, j - 1, u, w, v)
          PROVE  Knows(Tail(q), i - 1, u, w, v)
      <3>1. PICK n : n = j - 1
        OBVIOUS
      <3>2. n \in 1 .. Len(q) /\ i - 1 = n - 1 /\ Knows(q, n, u, w, v)
        BY <2>4, <2>6, <3>1
      <3>3. Knows(Tail(q), n - 1, u, w, v)
        BY <2>2, <2>5, <3>2, KnowsTail
      <3>4. QED
        BY <3>2, <3>3
    <2>7. QED
      BY <2>1, <2>2, <2>4, <2>6 DEF Elems
  <1>4. QED
    BY <1>2, <1>3 DEF Requests, Hears

LEMMA RequestWillKnow ==
  ASSUME AllInv, Requests, NEW s \in Service, NEW u \in User, SameRecord(u),
         NEW v, WillKnow(s, u, v)
  PROVE  Knows(toMgr'[s], Len(toMgr'[s]), u, Word(online'[u]), v)
  <1>1. PICK q, w : q = toMgr[s] /\ w = Word(online[u])
    OBVIOUS
  <1>2. q \in Seq(MgrMsg) /\ Word(online'[u]) = w /\ Knows(q, Len(q), u, w, v)
    BY <1>1, AllParts, TableTypes DEF SameRecord, WillKnow
  <1>3. CASE toMgr'[s] = q
    BY <1>2, <1>3
  <1>4. CASE q # <<>> /\ Head(q) \in Returned /\ toMgr'[s] = Tail(q)
    <2>1. ~Says(Head(q), u)
      BY <1>4 DEF Says, Returned
    <2>2. Len(q) \in 1 .. Len(q) /\ Len(Tail(q)) = Len(q) - 1
      BY <1>2, <1>4
    <2>3. Knows(Tail(q), Len(q) - 1, u, w, v)
      BY <1>2, <1>4, <2>1, <2>2, KnowsTail
    <2>4. QED
      BY <1>2, <1>4, <2>2, <2>3
  <1>5. QED
    BY <1>1, <1>3, <1>4 DEF Requests, Hears

LEMMA RequestSeat ==
  ASSUME AllInv, Requests, UNCHANGED tabVars, NEW s \in Service
  PROVE  SeatShape(s)'
  <1>1. /\ ChanTypeOK /\ TabTypeOK /\ Known(s) /\ Agree(s) /\ Order(s) /\ Places(s)
        /\ Unengaged /\ cur' = cur
    BY AllParts DEF Requests, Unengaged
  <1>2. \A u : /\ Stale(s, u)' <=> Stale(s, u)
               /\ Holds(s, u)' <=> Holds(s, u)
               /\ Unheld(s, u) => Unheld(s, u)'
    BY RequestHeld
  <1>3. /\ \A u : /\ Here(s, u)' <=> Here(s, u)
                  /\ Fresh(s, u)' <=> Fresh(s, u)
        /\ Places(s)' <=> Places(s)
        /\ cp'[s] = cp[s] /\ co'[s] = co[s]
        /\ Active(s, "R")' <=> Active(s, "R")
    BY <1>1, TablesSame
  <1>4. Known(s)'
    <2>1. SUFFICES ASSUME NEW u \in User, Holds(s, u)
                   PROVE  u \in InRoom'
      BY <1>2 DEF Known
    <2>2. QED
      BY <1>1, <2>1, RequestRecords DEF Known, SameRecord
  <1>5. Agree(s)'
    <2>1. SUFFICES ASSUME NEW u \in User, Here(s, u), ~Stale(s, u), ~Fresh(s, u)
                   PROVE  WillKnow(s, u, Word(cp[s][u]))'
      BY <1>2, <1>3 DEF Agree
    <2>2. PICK v : v = Word(cp[s][u])
      OBVIOUS
    <2>3. WillKnow(s, u, v) /\ SameRecord(u)
      BY <1>1, <2>1, <2>2, RequestRecords DEF Agree, Holds
    <2>4. Knows(toMgr'[s], Len(toMgr'[s]), u, Word(online'[u]), v)
      BY <2>3, RequestWillKnow
    <2>5. Word(cp[s][u])' = v
      BY <1>3, <2>2 DEF Word
    <2>6. QED
      BY <2>4, <2>5 DEF WillKnow
  <1>6. Order(s)'
    <2>1. SUFFICES ASSUME NEW u \in User, NEW i \in 1 .. Len(toMgr'[s]),
                          toMgr'[s][i] \in CallsOf("T"), Says(toMgr'[s][i], u)
                   PROVE  \E v : v.tid # 0 /\ Knows(toMgr'[s], i - 1, u, Word(online'[u]), v)
      BY DEF Order, TellsT
    <2>2. PICK j \in 1 .. Len(toMgr[s]) :
            /\ toMgr[s][j] = toMgr'[s][i]
            /\ \A w, v : Knows(toMgr[s], j - 1, u, w, v) => Knows(toMgr'[s], i - 1, u, w, v)
      BY RequestTold
    <2>3. TellsT(s, j, u) /\ Told(s, u)
      BY <1>1, <2>1, <2>2, ToldElems DEF TellsT
    <2>4. ~Behind(s, j)
      BY <1>1, QuietTable
    <2>5. PICK v : v.tid # 0 /\ Knows(toMgr[s], j - 1, u, Word(online[u]), v)
      BY <1>1, <2>3, <2>4 DEF Order
    <2>6. Word(online'[u]) = Word(online[u])
      BY <2>3, RequestRecords DEF SameRecord, Holds
    <2>7. QED
      BY <2>2, <2>5, <2>6
  <1>7. AskFree(s)'
    <2>1. SUFFICES ASSUME NEW m \in Elems(toTab'[s]), m \in Asked, Sits(m)
                   PROVE  Unheld(s, m.u)
      BY <1>2 DEF AskFree
    <2>2. AsksTable(s, m)
      BY <2>1, RequestQueues
    <2>3. m.u \in User /\ m.op \in {"user_sitdown", "user_sitdown_ob"}
      BY <2>1, <2>2 DEF AsksTable, Sits, InRoom
    <2>4. CASE m.op = "user_sitdown_ob"
      BY <1>1, <2>2, <2>4, StandDone DEF AsksTable
    <2>5. CASE m.op = "user_sitdown"
      <3>1. online[m.u].tid = 0
        BY <2>1, <2>2, <2>5 DEF AsksTable, Sits
      <3>2. QED
        BY <1>1, <2>3, <3>1, Free
    <2>6. QED
      BY <2>3, <2>4, <2>5
  <1>8. Stands(s)'
    <2>1. ~Active(s, "R")'
      BY <1>1, <1>3, QuietTable
    <2>2. toMgr'[s] \in Seq(MgrMsg)
      <3>1. toMgr[s] \in Seq(MgrMsg)
        BY <1>1, TableTypes
      <3>2. toMgr[s] # <<>> => Tail(toMgr[s]) \in Seq(MgrMsg)
        BY <3>1
      <3>3. QED
        BY <3>1, <3>2 DEF Requests, Hears
    <2>3. \A m \in Elems(toMgr'[s]) : m \notin Returned
      BY <1>1, <2>2, NoneIn DEF Unengaged
    <2>4. ~Stood(s)'
      BY <2>1, <2>3 DEF Stood
    <2>5. QED
      BY <2>1, <2>4 DEF Stands, StandsFirst
  <1>9. QED
    BY <1>1, <1>3, <1>4, <1>5, <1>6, <1>7, <1>8 DEF SeatShape

LEMMA RequestSeats ==
  ASSUME AllInv, Requests, UNCHANGED tabVars
  PROVE  SeatInv'
  <1>1. Unique'
    BY AllParts, RequestHeld DEF Unique
  <1>2. QED
    BY <1>1, RequestSeat DEF SeatInv

-----------------------------------------------------------------------------
(* A tableevent: the record becomes what the message says.                 *)
LEMMA EventWords ==
  ASSUME AllInv, NEW s \in Service, tableevent(s), NEW e, e = Head(toMgr[s]), NEW u \in InRoom
  PROVE  /\ Says(e, u) => Word(online'[u]) = Word(e)
         /\ ~Says(e, u) => Word(online'[u]) = Word(online[u])
  <1>1. /\ online \in [User -> UserRec \cup {NoRec}] /\ u \in User /\ online[u] # NoRec
        /\ online[u] \in UserRec
    BY AllParts DEF MgrTypeOK, InRoom
  <1>2. online' = CASE e.k = "status" /\ e.u \in InRoom ->
                          [online EXCEPT ![e.u] =
                             [@ EXCEPT !.st = e.st, !.tid = e.tid, !.chair = e.chair]]
                    [] e.k = "score" /\ e.u \in InRoom ->
                          [online EXCEPT ![e.u].rich = e.rich]
                    [] OTHER -> online
    BY Zenon DEF tableevent
  <1>3. CASE e.k = "status" /\ e.u \in InRoom
    <2>1. online' = [online EXCEPT ![e.u] =
                       [@ EXCEPT !.st = e.st, !.tid = e.tid, !.chair = e.chair]]
      BY <1>2, <1>3
    <2>2. CASE e.u = u
      <3>1. online'[u] = [online[u] EXCEPT !.st = e.st, !.tid = e.tid, !.chair = e.chair]
        BY <1>1, <2>1, <2>2
      <3>2. online'[u].st = e.st /\ online'[u].tid = e.tid /\ online'[u].chair = e.chair
        BY <1>1, <3>1 DEF UserRec
      <3>3. Says(e, u)
        BY <1>3, <2>2 DEF Says
      <3>4. QED
        BY <3>2, <3>3 DEF Word
    <2>3. CASE e.u # u
      BY <1>1, <2>1, <2>3 DEF Says
    <2>4. QED
      BY <2>2, <2>3
  <1>4. CASE e.k = "score" /\ e.u \in InRoom
    <2>1. online' = [online EXCEPT ![e.u].rich = e.rich]
      BY <1>2, <1>4
    <2>2. /\ online'[u].st = online[u].st /\ online'[u].tid = online[u].tid
          /\ online'[u].chair = online[u].chair
      BY <1>1, <2>1 DEF UserRec
    <2>3. QED
      BY <1>4, <2>2 DEF Word, Says
  <1>5. CASE ~(e.k = "status" /\ e.u \in InRoom) /\ ~(e.k = "score" /\ e.u \in InRoom)
    <2>1. online' = online
      BY <1>2, <1>5, Zenon
    <2>2. QED
      BY <1>5, <2>1 DEF Says
  <1>6. QED
    BY <1>3, <1>4, <1>5

(* The queues, and who holds whom, after a tableevent.                     *)
LEMMA EventHeld ==
  ASSUME AllInv, NEW s \in Service, tableevent(s), UNCHANGED tabVars, NEW r \in Service
  PROVE  /\ Elems(toMgr'[r]) \subseteq Elems(toMgr[r])
         /\ toTab[r] # <<>> => toTab'[r] # <<>> /\ Head(toTab'[r]) = Head(toTab[r])
         /\ \A m \in Elems(toTab'[r]) : m \in Asked => m \in Elems(toTab[r])
         /\ \A u : /\ Told(r, u)' => Told(r, u)
                   /\ Stale(r, u) => Stale(r, u)'
                   /\ Holds(r, u)' => Holds(r, u)
  <1>1. ChanTypeOK /\ TabTypeOK /\ IInv
    BY AllParts DEF AllInv
  <1>2. toMgr[s] \in Seq(MgrMsg) /\ toTab[s] \in Seq(TabMsg)
    BY <1>1, TableTypes
  <1>3. PICK a : a = Resume(Head(toMgr[s]).x)
    BY Zenon
  <1>4. /\ toMgr[s] # <<>> /\ a \in TabMsg /\ a \notin Asked /\ cur' = cur
        /\ toMgr'[s] = Tail(toMgr[s]) /\ toTab'[s] = Append(toTab[s], a)
        /\ \A t \in Service \ {s} : toMgr'[t] = toMgr[t] /\ toTab'[t] = toTab[t]
    BY <1>1, <1>3, EventKeeps
  <1>5. Elems(toMgr'[r]) \subseteq Elems(toMgr[r])
    BY <1>2, <1>4, ElemsTail
  <1>6. toTab[r] # <<>> => toTab'[r] # <<>> /\ Head(toTab'[r]) = Head(toTab[r])
    BY <1>2, <1>4
  <1>7. \A m \in Elems(toTab'[r]) : m \in Asked => m \in Elems(toTab[r])
    <2>1. Elems(Append(toTab[s], a)) = Elems(toTab[s]) \cup {a}
      BY <1>2, <1>4, ElemsAppend
    <2>2. QED
      BY <1>4, <2>1
  <1>8. \A u : Told(r, u)' => Told(r, u)
    BY <1>1, <1>5, ToldElems, ToldAfter
  <1>9. \A u : /\ Active(r, "R")' <=> Active(r, "R")
               /\ Here(r, u)' <=> Here(r, u)
               /\ TakesOff(r, "T", u)' <=> TakesOff(r, "T", u)
    BY <1>4, TablesSame
  <1>10. \A u : Stale(r, u) => Stale(r, u)'
    BY <1>6, <1>9 DEF Stale
  <1>11. \A u : Holds(r, u)' => Holds(r, u)
    BY <1>8, <1>9, <1>10 DEF Holds
  <1>12. QED
    BY <1>5, <1>6, <1>7, <1>8, <1>10, <1>11

(* What is left in gamemgr's queue, by its place in the queue; the first   *)
(* message is in the records of the players whom the table holds.          *)
LEMMA EventTold ==
  ASSUME AllInv, NEW s \in Service, tableevent(s), UNCHANGED tabVars, NEW r \in Service,
         NEW u \in User, Holds(r, u)
  PROVE  /\ \A v : WillKnow(r, u, v) =>
                     Knows(toMgr'[r], Len(toMgr'[r]), u, Word(online'[u]), v)
         /\ \A i \in 1 .. Len(toMgr'[r]) : \E j \in 1 .. Len(toMgr[r]) :
              /\ toMgr[r][j] = toMgr'[r][i]
              /\ Behind(r, j) => Behind(r, i)'
              /\ \A v : Knows(toMgr[r], j - 1, u, Word(online[u]), v) =>
                          Knows(toMgr'[r], i - 1, u, Word(online'[u]), v)
  <1>1. ChanTypeOK /\ TabTypeOK /\ IInv /\ Known(r) /\ Unique
    BY AllParts DEF AllInv
  <1>2. PICK e, q, w, z : /\ e = Head(toMgr[s]) /\ q = toMgr[r]
                          /\ w = Word(online[u]) /\ z = Word(online'[u])
    OBVIOUS
  <1>3. /\ toMgr[s] # <<>> /\ toMgr'[s] = Tail(toMgr[s])
        /\ \A t \in Service \ {s} : toMgr'[t] = toMgr[t]
    BY <1>1, EventKeeps
  <1>4. co'[r] = co[r] /\ toMgr[s] \in Seq(MgrMsg) /\ q \in Seq(MgrMsg) /\ u \in InRoom
    BY <1>1, <1>2, TableTypes DEF tabVars, Known
  <1>5. /\ Says(e, u) => z = Word(e)
        /\ ~Says(e, u) => z = w
    BY <1>2, <1>4, EventWords
  <1>6. CASE r # s
    <2>1. ~Says(e, u)
      <3>1. ~Told(s, u)
        BY <1>1, <1>6 DEF Unique, Holds
      <3>2. e \in Elems(toMgr[s])
        BY <1>2, <1>3, <1>4, ElemsTail
      <3>3. QED
        BY <1>1, <3>1, <3>2, ToldElems
    <2>2. z = w /\ toMgr'[r] = q
      BY <1>2, <1>3, <1>5, <1>6, <2>1
    <2>3. \A i : Behind(r, i) => Behind(r, i)'
      BY <1>2, <1>4, <2>2 DEF Behind
    <2>4. QED
      BY <1>2, <2>2, <2>3 DEF WillKnow
  <1>7. CASE r = s
    <2>1. q # <<>> /\ e = Head(q) /\ toMgr'[r] = Tail(q)
      BY <1>2, <1>3, <1>7
    <2>2. /\ Len(q) \in Nat \ {0} /\ Len(Tail(q)) = Len(q) - 1
          /\ \A i \in 1 .. Len(Tail(q)) : Tail(q)[i] = q[i + 1] /\ i + 1 \in 1 .. Len(q)
      BY <1>4, <2>1, TailItems
    <2>3. \A n \in 1 .. Len(q) : \A v : Knows(q, n, u, w, v) => Knows(Tail(q), n - 1, u, z, v)
      BY <1>4, <1>5, <2>1, KnowsTail
    <2>4. ASSUME NEW v, WillKnow(r, u, v)
          PROVE  Knows(Tail(q), Len(Tail(q)), u, z, v)
      <3>1. Knows(q, Len(q), u, w, v) /\ Len(q) \in 1 .. Len(q)
        BY <1>2, <2>2, <2>4 DEF WillKnow
      <3>2. QED
        BY <2>2, <2>3, <3>1
    <2>5. ASSUME NEW i \in 1 .. Len(Tail(q))
          PROVE  \E j \in 1 .. Len(q) :
                   /\ q[j] = Tail(q)[i]
                   /\ Behind(r, j) => Behind(r, i)'
                   /\ \A v : Knows(q, j - 1, u, w, v) => Knows(Tail(q), i - 1, u, z, v)
      <3>1. PICK j : j = i + 1
        OBVIOUS
      <3>2. j \in 1 .. Len(q) /\ q[j] = Tail(q)[i] /\ j - 1 = i /\ i \in 1 .. Len(q)
        BY <2>2, <3>1
      <3>3. ASSUME Behind(r, j)
            PROVE  Behind(r, i)'
        <4>1. CASE WillCall(co[r]["R"])
          BY <1>4, <4>1 DEF Behind
        <4>2. CASE \E k \in (j + 1) .. Len(q) : q[k] \in CallsOf("R")
          <5>1. PICK k \in (j + 1) .. Len(q) : q[k] \in CallsOf("R")
            BY <4>2
          <5>2. PICK l : l = k - 1
            OBVIOUS
          <5>3. l \in (i + 1) .. Len(Tail(q)) /\ l \in 1 .. Len(Tail(q)) /\ l + 1 = k
            BY <2>2, <3>1, <5>1, <5>2
          <5>4. Tail(q)[l] = q[k]
            BY <2>2, <5>3
          <5>5. \E l2 \in (i + 1) .. Len(toMgr'[r]) : toMgr'[r][l2] \in CallsOf("R")
            BY <2>1, <5>1, <5>3, <5>4
          <5>6. QED
            BY <5>5 DEF Behind
        <4>3. QED
          BY <1>2, <3>3, <4>1, <4>2 DEF Behind
      <3>4. \A v : Knows(q, j - 1, u, w, v) => Knows(Tail(q), i - 1, u, z, v)
        BY <2>3, <3>2
      <3>5. QED
        BY <3>2, <3>3, <3>4
    <2>6. QED
      BY <1>2, <2>1, <2>4, <2>5
  <1>8. QED
    BY <1>6, <1>7

LEMMA EventSeat ==
  ASSUME AllInv, NEW s \in Service, tableevent(s), UNCHANGED tabVars, NEW r \in Service
  PROVE  SeatShape(r)'
  <1>1. /\ ChanTypeOK /\ TabTypeOK /\ IInv /\ MgrTypeOK
        /\ Known(r) /\ Agree(r) /\ Order(r) /\ AskFree(r) /\ Places(r) /\ Stands(r)
    BY AllParts DEF AllInv
  <1>2. /\ InRoom' = InRoom /\ UNCHANGED <<cur, gt, req>>
    BY <1>1, EventKeeps
  <1>3. \A t \in Service : \A u : /\ Told(t, u)' => Told(t, u)
                                  /\ Stale(t, u) => Stale(t, u)'
                                  /\ Holds(t, u)' => Holds(t, u)
    BY EventHeld
  <1>4. /\ Elems(toMgr'[r]) \subseteq Elems(toMgr[r])
        /\ toTab[r] # <<>> => toTab'[r] # <<>> /\ Head(toTab'[r]) = Head(toTab[r])
        /\ \A m \in Elems(toTab'[r]) : m \in Asked => m \in Elems(toTab[r])
    BY EventHeld
  <1>5. /\ Active(r, "R")' <=> Active(r, "R")
        /\ \A u : Here(r, u)' <=> Here(r, u)
        /\ \A u : Fresh(r, u)' <=> Fresh(r, u)
        /\ \A u : TakesOff(r, "T", u)' <=> TakesOff(r, "T", u)
        /\ \A u : RLeaves(r, u)' <=> RLeaves(r, u)
        /\ StandsFirst(r) => StandsFirst(r)'
        /\ Places(r)' <=> Places(r)
        /\ cp'[r] = cp[r] /\ res'[r] = res[r]
    BY <1>2, TablesSame
  <1>6. Known(r)'
    BY <1>1, <1>2, <1>3 DEF Known
  <1>7. Agree(r)'
    <2>1. SUFFICES ASSUME NEW u \in User, Here(r, u), ~Stale(r, u), ~Fresh(r, u)
                   PROVE  WillKnow(r, u, Word(cp[r][u]))'
      BY <1>3, <1>5 DEF Agree
    <2>2. PICK v : v = Word(cp[r][u])
      OBVIOUS
    <2>3. WillKnow(r, u, v) /\ Holds(r, u)
      BY <1>1, <2>1, <2>2 DEF Agree, Holds
    <2>4. Knows(toMgr'[r], Len(toMgr'[r]), u, Word(online'[u]), v)
      BY <2>3, EventTold
    <2>5. Word(cp[r][u])' = v
      BY <1>5, <2>2 DEF Word
    <2>6. QED
      BY <2>4, <2>5 DEF WillKnow
  <1>8. ASSUME NEW u \in User, NEW i \in 1 .. Len(toMgr'[r]),
               toMgr'[r][i] \in CallsOf("T"), Says(toMgr'[r][i], u)
        PROVE  /\ Holds(r, u)
               /\ \E j \in 1 .. Len(toMgr[r]) :
                    /\ TellsT(r, j, u) /\ Behind(r, j) => Behind(r, i)'
                    /\ \A v : Knows(toMgr[r], j - 1, u, Word(online[u]), v) =>
                                Knows(toMgr'[r], i - 1, u, Word(online'[u]), v)
                    /\ TellsT(r, j, u)
    <2>1. Told(r, u)
      BY <1>3, <1>8, ToldAfter
    <2>2. Holds(r, u)
      BY <2>1 DEF Holds
    <2>3. PICK j \in 1 .. Len(toMgr[r]) :
            /\ toMgr[r][j] = toMgr'[r][i]
            /\ Behind(r, j) => Behind(r, i)'
            /\ \A v : Knows(toMgr[r], j - 1, u, Word(online[u]), v) =>
                        Knows(toMgr'[r], i - 1, u, Word(online'[u]), v)
      BY <2>2, EventTold
    <2>4. TellsT(r, j, u)
      BY <1>8, <2>3 DEF TellsT
    <2>5. QED
      BY <2>2, <2>3, <2>4
  <1>9. Order(r)'
    <2>1. SUFFICES ASSUME NEW u \in User, NEW i \in 1 .. Len(toMgr'[r]),
                          toMgr'[r][i] \in CallsOf("T"), Says(toMgr'[r][i], u)
                   PROVE  \/ Behind(r, i)'
                          \/ \E v : v.tid # 0 /\ Knows(toMgr'[r], i - 1, u, Word(online'[u]), v)
      BY DEF Order, TellsT
    <2>2. QED
      BY <1>1, <1>8, <2>1 DEF Order
  <1>10. AskFree(r)'
    <2>1. \A u : Unheld(r, u) => Unheld(r, u)'
      BY <1>3, <1>4, <1>5 DEF Unheld
    <2>2. QED
      BY <1>1, <1>4, <2>1 DEF AskFree
  <1>11. Stands(r)'
    <2>1. SUFFICES ASSUME req.pc = "stand"
                   PROVE  StandsFirst(r)' /\ (Stood(r)' => GoesAway(r, req.u)')
      BY <1>2 DEF Stands
    <2>2. req.u \in User
      BY <1>1, <2>1 DEF MgrTypeOK, RequestRec, RequestOf, RoomPc
    <2>3. StandsFirst(r)'
      BY <1>1, <1>5, <2>1 DEF Stands
    <2>4. Stood(r)' => Stood(r)
      BY <1>4, <1>5 DEF Stood
    <2>5. ASSUME GoesAway(r, req.u)
          PROVE  GoesAway(r, req.u)'
      <3>1. PICK u : u = req.u
        OBVIOUS
      <3>2. /\ u \in User /\ req'.u = u
            /\ \A t \in Service \ {r} : ~Holds(t, u)'
            /\ Here(r, u)' => RLeaves(r, u)' \/ TakesOff(r, "T", u)'
        BY <1>2, <1>3, <1>5, <2>2, <2>5, <3>1 DEF GoesAway
      <3>3. \A i \in 1 .. Len(toMgr'[r]) :
              toMgr'[r][i] \in CallsOf("T") /\ Says(toMgr'[r][i], u) => Behind(r, i)'
        BY <1>8, <2>5, <3>1, <3>2 DEF GoesAway
      <3>4. QED
        BY <3>2, <3>3 DEF GoesAway, TellsT
    <2>6. QED
      BY <1>1, <2>1, <2>3, <2>4, <2>5 DEF Stands
  <1>12. QED
    BY <1>1, <1>5, <1>6, <1>7, <1>9, <1>10, <1>11 DEF SeatShape

LEMMA EventSeats ==
  ASSUME AllInv, NEW s \in Service, tableevent(s), UNCHANGED tabVars
  PROVE  SeatInv'
  <1>1. \A r \in Service : \A u : Holds(r, u)' => Holds(r, u)
    BY EventHeld
  <1>2. Unique'
    BY <1>1, AllParts DEF Unique
  <1>3. QED
    BY <1>2, EventSeat DEF SeatInv

-----------------------------------------------------------------------------
(* A traversal that may miss a chair has the calls to make and the players *)
(* to take off that it had.                                                *)
LEMMA MissedItems ==
  ASSUME NEW k \in Seq(Step), NEW l, Missed(k, l)
  PROVE  /\ Len(l) = Len(k) /\ Len(k) \in Nat \ {0}
         /\ \A j \in 1 .. Len(k) : l[j].op = k[j].op /\ (j # 1 => l[j] = k[j])
         /\ k[1].op \notin LeaveOp \cup Calling \cup {"standup"}
  <1>1. PICK c \in Chair : k # <<>> /\ Head(k).op \in SeatLoop
                           /\ l = <<Again(Head(k), c)>> \o Tail(k)
    BY DEF Missed
  <1>2. PICK a : a = Again(Head(k), c)
    OBVIOUS
  <1>3. /\ Head(k) \in Step /\ Tail(k) \in Seq(Step) /\ a \in Step /\ a.op = Head(k).op
        /\ Head(k).op \notin LeaveOp \cup Calling \cup {"standup"}
    <2>1. Head(k) \in Step /\ Tail(k) \in Seq(Step) /\ c \in 0 .. MaxChair
          /\ Head(k).op \in TableStep
      BY <1>1, RoomAssumption DEF Chair, SeatLoop, TableStep
    <2>2. a \in Step /\ a.op = Head(k).op
      BY <1>2, <2>1, AgainType DEF Again, Loop, StepOf
    <2>3. QED
      BY <1>1, <2>1, <2>2 DEF LeaveOp, Calling, SeatLoop
  <1>4. l = <<a>> \o Tail(k) /\ k # <<>>
    BY <1>1, <1>2
  <1>5. Len(l) = Len(k) /\ Len(k) \in Nat \ {0} /\ k[1] = Head(k) /\ l[1] = a
    BY <1>3, <1>4
  <1>6. \A j \in 1 .. Len(k) : j # 1 => l[j] = k[j]
    BY <1>3, <1>4
  <1>7. QED
    BY <1>3, <1>5, <1>6

LEMMA MissedKeeps ==
  ASSUME NEW k \in Seq(Step), NEW l, l = k \/ Missed(k, l)
  PROVE  /\ WillCall(k) => WillCall(l)
         /\ \A q \in Elems(k) : q.op \in LeaveOp => q \in Elems(l)
         /\ \A q \in Elems(l) : q.op \in LeaveOp => q \in Elems(k)
  <1>1. CASE l = k
    BY <1>1
  <1>2. CASE Missed(k, l)
    <2>1. /\ Len(l) = Len(k) /\ Len(k) \in Nat \ {0}
          /\ \A j \in 1 .. Len(k) : l[j].op = k[j].op /\ (j # 1 => l[j] = k[j])
          /\ k[1].op \notin LeaveOp \cup Calling \cup {"standup"}
      BY <1>2, MissedItems
    <2>2. ASSUME NEW i \in 1 .. Len(k), k[i].op \in Calling,
                 \A j \in 1 .. (i - 1) : k[j].op \in Surely
          PROVE  WillCall(l)
      <3>1. \A j \in 1 .. (i - 1) : j \in 1 .. Len(k)
        BY <2>1
      <3>2. QED
        BY <2>1, <2>2, <3>1 DEF WillCall
    <2>3. \A q \in Elems(k) : q.op \in LeaveOp => q \in Elems(l)
      BY <2>1 DEF Elems
    <2>4. \A q \in Elems(l) : q.op \in LeaveOp => q \in Elems(k)
      BY <2>1 DEF Elems
    <2>5. QED
      BY <2>2, <2>3, <2>4 DEF WillCall
  <1>3. QED
    BY <1>1, <1>2

-----------------------------------------------------------------------------
(* A step of coroutine x of table s.                                       *)
Moves(s, x) ==
  /\ TabNext(s) /\ UNCHANGED mgrVars
  /\ Resumed(s, x) /\ Outcome(s, x) /\ TableKind(s, x) /\ Acts(s, x)

(* Another coroutine has what it had.                                      *)
LEMMA OthersKeep ==
  ASSUME AllInv, NEW s \in Service, NEW x \in Coroutine, Moves(s, x),
         NEW r \in Service, NEW y \in Coroutine, r # s \/ y # x
  PROVE  /\ \A u \in User : /\ TakesOff(r, y, u)' <=> TakesOff(r, y, u)
                            /\ Vacates(r, y, u)' <=> Vacates(r, y, u)
                            /\ Unwatches(r, y, u)' <=> Unwatches(r, y, u)
                            /\ \A c : Gives(r, y, u, c)' <=> Gives(r, y, u, c)
         /\ ~Running(r, y) /\ ~Running(r, y)' /\ (y \in wt'[r] <=> y \in wt[r])
         /\ WillCall(co[r][y]) => WillCall(co'[r][y])
         /\ \A q \in Elems(co[r][y]) : q.op \in LeaveOp => q \in Elems(co'[r][y])
         /\ \A q \in Elems(co'[r][y]) : q.op \in LeaveOp => q \in Elems(co[r][y])
  <1>1. /\ ChanTypeOK /\ TabTypeOK /\ Waits /\ Shape(r, y)
        /\ Resumed(s, x) /\ Outcome(s, x) /\ TableKind(s, x)
    BY AllParts DEF Moves
  <1>2. Untouched(s, x)
    BY <1>1, OtherTables
  <1>3. \A u \in User : /\ TakesOff(r, y, u)' <=> TakesOff(r, y, u)
                        /\ Vacates(r, y, u)' <=> Vacates(r, y, u)
                        /\ Unwatches(r, y, u)' <=> Unwatches(r, y, u)
                        /\ \A c : Gives(r, y, u, c)' <=> Gives(r, y, u, c)
    BY <1>1, <1>2, OthersShape
  <1>4. ~Running(r, y) /\ ~Running(r, y)' /\ (y \in wt'[r] <=> y \in wt[r])
    <2>1. /\ \A z \in Service \ {s} : wt'[z] = wt[z] /\ \A w : ~Running(z, w) /\ ~Running(z, w)'
          /\ \A w \in Coroutine \ {x} : ~Running(s, w) /\ ~Running(s, w)'
          /\ \A w \in Coroutine \ {x} : w \in wt'[s] <=> w \in wt[s]
      BY <1>1, OthersWait
    <2>2. CASE r # s
      BY <2>1, <2>2
    <2>3. CASE r = s
      BY <2>1, <2>3
    <2>4. QED
      BY <2>2, <2>3
  <1>5. co'[r][y] = co[r][y] \/ Missed(co[r][y], co'[r][y])
    BY <1>2 DEF Untouched
  <1>6. co[r][y] \in Seq(Step)
    BY <1>1 DEF TabTypeOK
  <1>7. QED
    BY <1>3, <1>4, <1>5, <1>6, MissedKeeps

(* Nobody but the timer's coroutine moves while its answer is the next     *)
(* message and no request runs.                                            *)
LEMMA RequestTakes ==
  ASSUME NEW s, Request(s)
  PROVE  cur = Idle /\ toTab[s] # <<>> /\ Head(toTab[s]).k = "req"
  BY Zenon DEF Request, start, cleanup, get_can_sit_chairid, get_table_info, user_sitdown,
               user_sitdown_ob, request_user_standup, robot_standup, user_offline,
               update_user_conn, game_msg, init_game, request_user_ready, Takes

LEMMA HeadStays ==
  ASSUME ChanTypeOK, TabTypeOK, NEW s \in Service, Acts(s, "R"),
         toTab[s] # <<>>, Head(toTab[s]) = Resume("T")
  PROVE  toTab' = toTab /\ Running(s, "R")
  <1>1. Head(toTab[s]).k = "resp" /\ Head(toTab[s]).x = "T" /\ "R" # "T"
    BY DEF Resume
  <1>2. RunStep(s, "R")
    BY <1>1, RequestTakes DEF Acts
  <1>3. Stretch(s, "R")
    BY <1>2, RunStretch, CoroutineNames
  <1>4. Running(s, "R")
    BY <1>1, <1>3 DEF Stretch, Answered
  <1>5. cur # Idle
    BY <1>4, WhoRuns DEF Running
  <1>6. QED
    BY <1>3, <1>4, <1>5 DEF Stretch, AnswerTaken

LEMMA StaleTaken ==
  ASSUME AllInv, NEW s \in Service, NEW x \in Coroutine, Moves(s, x), NEW u, Stale(s, u)
  PROVE  /\ x = "T" /\ TakesAway(s, "T") /\ TakesOff(s, "T", u)
         /\ ~Active(s, "R")
  <1>1. /\ ChanTypeOK /\ TabTypeOK /\ Waits /\ Acts(s, x) /\ TableKind(s, x)
    BY AllParts DEF Moves
  <1>2. /\ ~Active(s, "R") /\ TakesOff(s, "T", u)
        /\ toTab[s] # <<>> /\ Head(toTab[s]) = Resume("T")
    BY DEF Stale
  <1>3. x = "T"
    BY <1>1, <1>2, HeadStays DEF Active, Coroutine
  <1>4. "T" \in wt[s] /\ co[s]["T"] # <<>> /\ Top(s, "T").op \in LeaveOp
    BY <1>2 DEF TakesOff, Vacates, Unwatches, NextIs, LeaveOp
  <1>5. ~Running(s, "T")
    BY <1>1, <1>4, CoroutineNames DEF Waits
  <1>6. ~Informs(s, "T")
    BY <1>5 DEF Informs
  <1>7. ~Silent(s, "T")
    <2>1. Top(s, "T") \in Elems(co[s]["T"])
      BY <1>1, <1>4, CoroutineNames, TableTypes, ElemsTail DEF Top
    <2>2. QED
      BY <1>4, <2>1 DEF Silent
  <1>8. TakesAway(s, "T")
    BY <1>1, <1>3, <1>6, <1>7, CoroutineNames DEF TableKind
  <1>9. QED
    BY <1>2, <1>3, <1>8

-----------------------------------------------------------------------------
(* What is engaged excludes what else could be.                            *)
LEMMA OnlyOne ==
  ASSUME ChanTypeOK, OneAsked, NEW s \in Service
  PROVE  /\ (\E m \in Elems(toTab[s]) : m \in Asked) =>
              /\ \A m \in Elems(toMgr[s]) : m \notin Returned
              /\ \A r \in Service \ {s} : \A m \in Elems(toTab[r]) : m \notin Asked
         /\ Active(s, "R") => \A m \in Elems(toMgr[s]) : m \notin Returned
  <1>1. /\ \A r \in Service : toTab[r] \in Seq(TabMsg) /\ toMgr[r] \in Seq(MgrMsg)
        /\ \A r \in Service : /\ NumIn(toTab[r], Asked) \in Nat /\ NumIn(toMgr[r], Returned) \in Nat
                              /\ Bit(Active(r, "R")) \in {0, 1} /\ Engaged(r) \in Nat
    <2>1. \A r \in Service : toTab[r] \in Seq(TabMsg) /\ toMgr[r] \in Seq(MgrMsg)
      BY DEF ChanTypeOK
    <2>2. \A r \in Service : /\ NumIn(toTab[r], Asked) \in Nat /\ NumIn(toMgr[r], Returned) \in Nat
                             /\ Bit(Active(r, "R")) \in {0, 1} /\ Engaged(r) \in Nat
      BY CountTypes
    <2>3. QED
      BY <2>1, <2>2
  <1>2. Engaged(s) = 0 \/ (Engaged(s) = 1 /\ \A r \in Service \ {s} : Engaged(r) = 0)
        \/ \E r \in Service : Engaged(s) = 0
    BY DEF OneAsked, NoneEngaged, OneEngaged
  <1>3. ASSUME NEW m \in Elems(toTab[s]), m \in Asked
        PROVE  /\ \A e \in Elems(toMgr[s]) : e \notin Returned
               /\ \A r \in Service \ {s} : \A e \in Elems(toTab[r]) : e \notin Asked
    <2>1. NumIn(toTab[s], Asked) # 0
      BY <1>1, <1>3, NoneIn
    <2>2. Engaged(s) = 1 /\ \A r \in Service \ {s} : Engaged(r) = 0
      BY <1>1, <1>2, <2>1 DEF Engaged
    <2>3. NumIn(toMgr[s], Returned) = 0
      BY <1>1, <2>1, <2>2 DEF Engaged
    <2>4. \A e \in Elems(toMgr[s]) : e \notin Returned
      BY <1>1, <2>3, NoneIn
    <2>5. ASSUME NEW r \in Service \ {s}
          PROVE  \A e \in Elems(toTab[r]) : e \notin Asked
      <3>1. /\ NumIn(toTab[r], Asked) \in Nat /\ NumIn(toMgr[r], Returned) \in Nat
            /\ Bit(Active(r, "R")) \in {0, 1} /\ Engaged(r) = 0
        BY <1>1, <2>2
      <3>2. NumIn(toTab[r], Asked) = 0
        BY <3>1 DEF Engaged
      <3>3. QED
        BY <1>1, <3>2, NoneIn
    <2>6. QED
      BY <2>4, <2>5
  <1>4. ASSUME Active(s, "R")
        PROVE  \A e \in Elems(toMgr[s]) : e \notin Returned
    <2>1. Bit(Active(s, "R")) = 1
      BY <1>4 DEF Bit
    <2>2. NumIn(toMgr[s], Returned) = 0
      BY <1>1, <1>2, <2>1 DEF Engaged
    <2>3. QED
      BY <1>1, <2>2, NoneIn
  <1>5. QED
    BY <1>3, <1>4

-----------------------------------------------------------------------------
(* A table's queue to gamemgr grows by a message at most.                  *)
Grows(s) == toMgr'[s] = toMgr[s] \/ \E m \in MgrMsg : toMgr'[s] = Append(toMgr[s], m)

LEMMA QueueGrows ==
  ASSUME ChanTypeOK, NEW s \in Service, Grows(s), online' = online
  PROVE  /\ Len(toMgr[s]) \in Nat
         /\ Len(toMgr'[s]) = Len(toMgr[s]) \/ Len(toMgr'[s]) = Len(toMgr[s]) + 1
         /\ \A i \in 1 .. Len(toMgr[s]) : i \in 1 .. Len(toMgr'[s]) /\ toMgr'[s][i] = toMgr[s][i]
         /\ \A i \in 1 .. Len(toMgr'[s]) : i \in 1 .. Len(toMgr[s]) \/ i = Len(toMgr[s]) + 1
         /\ \A n \in 0 .. Len(toMgr[s]) : \A u, w, v :
              Knows(toMgr[s], n, u, w, v) => Knows(toMgr'[s], n, u, w, v)
  <1>1. toMgr[s] \in Seq(MgrMsg)
    BY DEF ChanTypeOK
  <1>2. PICK q : q = toMgr[s]
    OBVIOUS
  <1>3. CASE toMgr'[s] = toMgr[s]
    BY <1>1, <1>3
  <1>4. ASSUME NEW m \in MgrMsg, toMgr'[s] = Append(toMgr[s], m)
        PROVE  /\ Len(toMgr[s]) \in Nat
               /\ Len(toMgr'[s]) = Len(toMgr[s]) + 1
               /\ \A i \in 1 .. Len(toMgr[s]) :
                    i \in 1 .. Len(toMgr'[s]) /\ toMgr'[s][i] = toMgr[s][i]
               /\ \A i \in 1 .. Len(toMgr'[s]) : i \in 1 .. Len(toMgr[s]) \/ i = Len(toMgr[s]) + 1
               /\ \A n \in 0 .. Len(toMgr[s]) : \A u, w, v :
                    Knows(toMgr[s], n, u, w, v) => Knows(toMgr'[s], n, u, w, v)
    <2>1. /\ Len(q) \in Nat /\ Len(Append(q, m)) = Len(q) + 1
          /\ \A i \in 1 .. Len(q) : i \in 1 .. Len(Append(q, m)) /\ Append(q, m)[i] = q[i]
          /\ \A i \in 1 .. Len(Append(q, m)) : i \in 1 .. Len(q) \/ i = Len(q) + 1
      BY <1>1, <1>2
    <2>2. \A n \in 0 .. Len(q) : \A u, w, v :
            Knows(q, n, u, w, v) => Knows(Append(q, m), n, u, w, v)
      BY <1>1, <1>2, KnowsAppend
    <2>3. QED
      BY <1>2, <1>4, <2>1, <2>2
  <1>5. QED
    BY <1>3, <1>4 DEF Grows

(* What is behind a call of "R" stays behind it.                           *)
LEMMA BehindStays ==
  ASSUME ChanTypeOK, NEW s \in Service, Grows(s), CallStays(s), online' = online,
         NEW i \in 1 .. Len(toMgr[s]), Behind(s, i)
  PROVE  Behind(s, i)'
  <1>1. /\ Len(toMgr[s]) \in Nat /\ toMgr[s] \in Seq(MgrMsg)
        /\ Len(toMgr'[s]) = Len(toMgr[s]) \/ Len(toMgr'[s]) = Len(toMgr[s]) + 1
        /\ \A j \in 1 .. Len(toMgr[s]) : toMgr'[s][j] = toMgr[s][j]
    BY QueueGrows DEF ChanTypeOK
  <1>2. CASE WillCall(co[s]["R"])
    <2>1. CASE WillCall(co'[s]["R"])
      BY <2>1 DEF Behind
    <2>2. ASSUME NEW m \in CallsOf("R"), toMgr'[s] = Append(toMgr[s], m)
          PROVE  Behind(s, i)'
      <3>1. m \in MgrMsg
        BY DEF CallsOf
      <3>2. /\ Len(toMgr'[s]) = Len(toMgr[s]) + 1 /\ toMgr'[s][Len(toMgr[s]) + 1] = m
            /\ Len(toMgr[s]) + 1 \in (i + 1) .. Len(toMgr'[s])
        BY <1>1, <2>2, <3>1
      <3>3. CallsOf("R")' = CallsOf("R")
        BY DEF CallsOf
      <3>4. QED
        BY <2>2, <3>2, <3>3 DEF Behind
    <2>3. QED
      BY <1>2, <2>1, <2>2 DEF CallStays
  <1>3. ASSUME NEW j \in (i + 1) .. Len(toMgr[s]), toMgr[s][j] \in CallsOf("R")
        PROVE  Behind(s, i)'
    <2>1. j \in 1 .. Len(toMgr[s]) /\ j \in (i + 1) .. Len(toMgr'[s])
      BY <1>1
    <2>2. toMgr'[s][j] \in CallsOf("R")
      BY <1>1, <1>3, <2>1
    <2>3. QED
      BY <2>1, <2>2 DEF Behind, CallsOf
  <1>4. QED
    BY <1>2, <1>3 DEF Behind

-----------------------------------------------------------------------------
(* What a request will return is only ever set by user_standup.            *)
LEMMA RunRes ==
  ASSUME NEW s, NEW x, RunStep(s, x)
  PROVE  res' = res \/ (x = "R" /\ res' = [res EXCEPT ![s] = TRUE])
  <1>1. CASE \/ update_user_status(s, x) \/ update_table_status(s, x)
             \/ write_game_record(s, x) \/ Finish(s, x)
    BY <1>1 DEF update_user_status, update_table_status, write_game_record, Finish, CallMgr
  <1>2. CASE user_standup(s, x)
    BY <1>2 DEF user_standup
  <1>3. CASE \/ vacate(s, x) \/ unwatch(s, x) \/ start_game(s, x) \/ start_game_seat(s, x)
             \/ on_game_start(s, x) \/ clear_records(s, x) \/ on_game_reset(s, x)
    BY <1>3, Zenon DEF vacate, unwatch, start_game, start_game_seat, on_game_start, clear_records,
                       on_game_reset, Then
  <1>4. CASE ready_timeout_seat(s, x) \/ remove_timer(s, x) \/ user_ready(s, x)
    BY <1>4, Zenon DEF ready_timeout_seat, remove_timer, user_ready, Then
  <1>5. CASE game_end(s, x) \/ end_game(s, x) \/ end_game_seat(s, x)
    BY <1>5, Zenon DEF game_end, end_game, end_game_seat, Then, Crash
  <1>6. CASE write_user_score(s, x) \/ write_game_record_detail(s, x)
    BY <1>6, Zenon DEF write_user_score, write_game_record_detail, Then, CallMgr, Crash
  <1>7. QED
    BY <1>1, <1>2, <1>3, <1>4, <1>5, <1>6 DEF RunStep

LEMMA TimerRes ==
  ASSUME NEW s, NEW x, Acts(s, x), x = "T"
  PROVE  res' = res
  <1>1. CASE RunStep(s, x)
    BY <1>1, RunRes
  <1>2. CASE Timer(s)
    BY <1>2, Zenon DEF Timer, ReadyTimeout, GameTimeout, RobotReady, TimerFires
  <1>3. QED
    BY <1>1, <1>2 DEF Acts

(* Every step of a table sends a message at most, and keeps a call of "R"  *)
(* that is to come.                                                        *)
LEMMA MoveQueue ==
  ASSUME AllInv, NEW s \in Service, NEW x \in Coroutine, Moves(s, x)
  PROVE  /\ Grows(s) /\ CallStays(s) /\ (NoStatusSent(s) \/ Informs(s, x))
         /\ online' = online /\ req' = req /\ gt' = gt /\ InRoom' = InRoom
  <1>1. /\ ChanTypeOK /\ TabTypeOK /\ TableKind(s, x)
        /\ online' = online /\ req' = req /\ gt' = gt /\ InRoom' = InRoom
    BY AllParts DEF Moves, mgrVars, InRoom
  <1>2. NoStatusSent(s) => Grows(s)
    BY DEF NoStatusSent, Grows
  <1>3. CASE Silent(s, x) \/ TakesAway(s, x)
    BY <1>1, <1>2, <1>3 DEF Silent, TakesAway
  <1>4. CASE LetsIn(s) \/ Empties(s)
    <2>1. co[s]["R"] = <<>>
      BY <1>4 DEF LetsIn, Empties
    <2>2. CallStays(s)
      BY <2>1, NoCallLeft DEF CallStays
    <2>3. NoStatusSent(s)
      <3>1. CASE LetsIn(s)
        BY <3>1 DEF LetsIn, NoStatusSent
      <3>2. CASE Empties(s)
        <4>1. PICK e \in Returned : toMgr' = [toMgr EXCEPT ![s] = Append(@, e)]
          BY <3>2 DEF Empties
        <4>2. e \in MgrMsg /\ e.k # "status" /\ toMgr'[s] = Append(toMgr[s], e)
          BY <1>1, <4>1 DEF Returned, ChanTypeOK
        <4>3. QED
          BY <4>2 DEF NoStatusSent
      <3>3. QED
        BY <1>4, <3>1, <3>2
    <2>4. QED
      BY <1>1, <1>2, <2>2, <2>3
  <1>5. CASE Informs(s, x)
    <2>1. PICK e \in CallsOf(x) : toMgr' = [toMgr EXCEPT ![s] = Append(@, e)]
      BY <1>5 DEF Informs
    <2>2. e \in MgrMsg /\ toMgr'[s] = Append(toMgr[s], e)
      BY <1>1, <2>1 DEF CallsOf, ChanTypeOK
    <2>3. CallStays(s)
      <3>1. CASE x = "R"
        BY <2>1, <2>2, <3>1 DEF CallStays
      <3>2. CASE x # "R"
        <4>1. WillCall(co[s]["R"]) => WillCall(co'[s]["R"])
          BY <3>2, OthersKeep, CoroutineNames
        <4>2. QED
          BY <4>1 DEF CallStays
      <3>3. QED
        BY <3>1, <3>2
    <2>4. QED
      BY <1>1, <1>5, <2>2, <2>3 DEF Grows
  <1>6. QED
    BY <1>1, <1>3, <1>4, <1>5 DEF TableKind

-----------------------------------------------------------------------------
(* A step of one table leaves another as it was.                           *)
LEMMA OtherTable ==
  ASSUME AllInv, NEW s \in Service, NEW x \in Coroutine, Moves(s, x), NEW r \in Service \ {s}
  PROVE  /\ toTab'[r] = toTab[r] /\ toMgr'[r] = toMgr[r]
         /\ tb'[r] = tb[r] /\ cp'[r] = cp[r] /\ res'[r] = res[r]
         /\ ~Running(r, "R") /\ ~Running(r, "R")' /\ (Active(r, "R")' <=> Active(r, "R"))
         /\ \A u \in User :
              /\ Told(r, u)' <=> Told(r, u)
              /\ Here(r, u)' <=> Here(r, u)
              /\ Seated(r, u)' <=> Seated(r, u)
              /\ Stale(r, u)' <=> Stale(r, u)
              /\ Holds(r, u)' <=> Holds(r, u)
              /\ ~Fresh(r, u) /\ ~Fresh(r, u)'
              /\ RLeaves(r, u)' <=> RLeaves(r, u)
         /\ \A i : Behind(r, i) => Behind(r, i)'
  <1>1. /\ ChanTypeOK /\ TabTypeOK /\ Waits /\ Resumed(s, x) /\ Outcome(s, x) /\ TableKind(s, x)
        /\ "R" \in Coroutine /\ "T" \in Coroutine
    BY AllParts, CoroutineNames DEF Moves
  <1>2. tb'[r] = tb[r] /\ cp'[r] = cp[r] /\ res'[r] = res[r]
    BY <1>1, OtherTables DEF Untouched
  <1>3. toTab'[r] = toTab[r] /\ toMgr'[r] = toMgr[r]
    BY <1>1, OthersWait
  <1>4. /\ ~Running(r, "R") /\ ~Running(r, "R")' /\ ("R" \in wt'[r] <=> "R" \in wt[r])
        /\ WillCall(co[r]["R"]) => WillCall(co'[r]["R"])
        /\ \A q \in Elems(co[r]["R"]) : q.op \in LeaveOp => q \in Elems(co'[r]["R"])
        /\ \A q \in Elems(co'[r]["R"]) : q.op \in LeaveOp => q \in Elems(co[r]["R"])
    BY <1>1, OthersKeep
  <1>5. \A u \in User : TakesOff(r, "T", u)' <=> TakesOff(r, "T", u)
    BY <1>1, OthersKeep
  <1>6. Active(r, "R")' <=> Active(r, "R")
    BY <1>4 DEF Active
  <1>7. \A u \in User : /\ Told(r, u)' <=> Told(r, u)
                        /\ Here(r, u)' <=> Here(r, u)
                        /\ Seated(r, u)' <=> Seated(r, u)
    BY <1>2, <1>3 DEF Told, Here, Seated
  <1>8. \A u \in User : Stale(r, u)' <=> Stale(r, u)
    BY <1>3, <1>5, <1>6 DEF Stale
  <1>9. \A u \in User : ~Fresh(r, u) /\ ~Fresh(r, u)' /\ (RLeaves(r, u)' <=> RLeaves(r, u))
    BY <1>4 DEF Fresh, RLeaves
  <1>10. \A i : Behind(r, i) => Behind(r, i)'
    BY <1>3, <1>4 DEF Behind, CallsOf
  <1>11. \A u \in User : Holds(r, u)' <=> Holds(r, u)
    BY <1>7, <1>8 DEF Holds
  <1>12. QED
    BY <1>2, <1>3, <1>4, <1>6, <1>7, <1>8, <1>9, <1>10, <1>11

-----------------------------------------------------------------------------
(* Who has just been let in is reported next.                              *)
LEMMA FreshTold ==
  ASSUME AllInv, NEW s \in Service, NEW x \in Coroutine, Moves(s, x), NEW u, Fresh(s, u)
  PROVE  /\ x = "R" /\ Informs(s, "R") /\ u = Top(s, "R").u /\ Top(s, "R").st \in {"SIT", "OB"}
  <1>1. /\ ChanTypeOK /\ TabTypeOK /\ Resumed(s, x) /\ TableKind(s, x)
    BY AllParts DEF Moves
  <1>2. /\ Running(s, "R") /\ co[s]["R"] # <<>> /\ Top(s, "R").op = "status"
        /\ Top(s, "R").u = u /\ Top(s, "R").st \in {"SIT", "OB"}
    BY DEF Fresh, NextIs
  <1>3. cur # Idle /\ x = "R"
    BY <1>1, <1>2, WhoRuns DEF Running, Resumed
  <1>4. Top(s, "R") \in Elems(co[s]["R"])
    BY <1>1, <1>2, CoroutineNames, TableTypes, ElemsTail DEF Top
  <1>5. ~Silent(s, "R")
    BY <1>2, <1>4 DEF Silent
  <1>6. ~TakesAway(s, "R")
    BY <1>3 DEF TakesAway, Answered
  <1>7. ~LetsIn(s) /\ ~Empties(s)
    BY <1>2 DEF LetsIn, Empties
  <1>8. QED
    BY <1>1, <1>2, <1>3, <1>5, <1>6, <1>7 DEF TableKind

(* Who is taken off is gone, unless "R" and "T" both take him off.         *)
LEMMA ClearedSeat ==
  ASSUME TabTypeOK, NEW s \in Service, NEW c, NEW d \in Chair
  PROVE  Cleared(s, c)[d] = IF d = c THEN None ELSE tb[s].seat[d]
  <1>1. tb[s].seat \in [Chair -> UserOrNone]
    BY DEF TabTypeOK, TableState
  <1>2. QED
    BY <1>1 DEF Cleared

LEMMA AwayPlaces ==
  ASSUME TabTypeOK, NEW s \in Service, NEW x \in Coroutine, TakesAway(s, x)
  PROVE  /\ \A d \in Chair : tb'[s].seat[d] = IF d = Top(s, x).c THEN None ELSE tb[s].seat[d]
         /\ tb'[s].ob \subseteq tb[s].ob /\ tb'[s].tid = tb[s].tid
         /\ Top(s, x).op = "unwatch" => Top(s, x).u \notin tb'[s].ob
         /\ \A u \in User : Here(s, u)' => Here(s, u) /\ cp'[s][u] = cp[s][u]
         /\ \A u \in User : Seated(s, u)' => Seated(s, u)
  <1>1. \A d \in Chair : tb'[s].seat[d] = IF d = Top(s, x).c THEN None ELSE tb[s].seat[d]
    BY ClearedSeat DEF TakesAway
  <1>2. /\ tb'[s].ob \subseteq tb[s].ob /\ tb'[s].tid = tb[s].tid
        /\ Top(s, x).op = "unwatch" => Top(s, x).u \notin tb'[s].ob
    BY DEF TakesAway
  <1>3. \A u \in User : Seated(s, u)' => Seated(s, u)
    BY <1>1, RoomAssumption DEF Seated
  <1>4. \A u \in User : Here(s, u)' => Here(s, u)
    BY <1>2, <1>3 DEF Here
  <1>5. \A u \in User : Here(s, u)' => cp'[s][u] = cp[s][u]
    BY DEF TakesAway
  <1>6. QED
    BY <1>1, <1>2, <1>3, <1>4, <1>5

LEMMA AwayGone ==
  ASSUME AllInv, NEW s \in Service, NEW x \in Coroutine, TakesAway(s, x),
         NEW u \in User, TakesOff(s, x, u), Here(s, u)'
  PROVE  \E y \in Coroutine \ {x} : \E c \in Chair : Gives(s, y, u, c)
  <1>1. TabTypeOK /\ Places(s)
    BY AllParts
  <1>2. /\ \A d \in Chair : tb'[s].seat[d] = IF d = Top(s, x).c THEN None ELSE tb[s].seat[d]
        /\ tb'[s].ob \subseteq tb[s].ob
        /\ Top(s, x).op = "unwatch" => Top(s, x).u \notin tb'[s].ob
        /\ Seated(s, u)' => Seated(s, u)
    BY <1>1, AwayPlaces
  <1>3. CASE Vacates(s, x, u)
    <2>1. /\ u \notin tb[s].ob
          /\ \A c \in Chair : tb[s].seat[c] = u => \E y \in Coroutine : Gives(s, y, u, c)
      BY <1>1, <1>3 DEF Places, LeavesOnce
    <2>2. PICK c \in Chair : tb'[s].seat[c] = u
      BY <1>2, <2>1 DEF Here, Seated
    <2>3. tb[s].seat[c] = u /\ c # Top(s, x).c
      BY <1>2, <2>2, RoomAssumption
    <2>4. PICK y \in Coroutine : Gives(s, y, u, c)
      BY <2>1, <2>3
    <2>5. y # x
      BY <2>3, <2>4 DEF Gives
    <2>6. QED
      BY <2>4, <2>5
  <1>4. CASE Unwatches(s, x, u)
    <2>1. ~Seated(s, u) /\ Top(s, x).op = "unwatch" /\ Top(s, x).u = u
      BY <1>1, <1>4 DEF Places, LeavesOnce, Unwatches, NextIs
    <2>2. QED
      BY <1>2, <2>1 DEF Here
  <1>5. QED
    BY <1>3, <1>4 DEF TakesOff

(* Where a player is let in.                                               *)
LEMMA LetsInPlaces ==
  ASSUME TabTypeOK, NEW s \in Service, LetsIn(s), NEW m, m = Arg(s)
  PROVE  /\ m \in Asked /\ m.u \in User /\ Sits(m) /\ tb'[s].tid = tb[s].tid
         /\ \/ /\ m.c \in Chair /\ tb'[s].ob = tb[s].ob
               /\ \A d \in Chair : tb'[s].seat[d] = IF d = m.c THEN m.u ELSE tb[s].seat[d]
            \/ /\ tb'[s].ob = tb[s].ob \cup {m.u} /\ tb'[s].seat = tb[s].seat
         /\ \A u \in User \ {m.u} : /\ Here(s, u)' => Here(s, u)
                                    /\ cp'[s][u] = cp[s][u]
  <1>1. /\ tb[s] \in TableState /\ tb[s].seat \in [Chair -> UserOrNone]
        /\ m \in Asked /\ Sits(m)
    BY DEF TabTypeOK, TableState, LetsIn
  <1>2. m.u \in User
    BY <1>1, RoomAssumption DEF Asked, TabMsg, ReqMsg, RespMsg, Sits, RoomOp, UserOp
  <1>3. \A u \in User \ {m.u} : cp'[s][u] = cp[s][u]
    BY DEF LetsIn
  <1>4. CASE m.op = "user_sitdown"
    <2>1. m.c \in Chair /\ tb'[s] = [tb[s] EXCEPT !.seat[m.c] = m.u]
      BY <1>4 DEF LetsIn
    <2>2. PICK t, seat : t = tb[s] /\ seat = tb[s].seat
      OBVIOUS
    <2>3. /\ tb'[s].tid = tb[s].tid /\ tb'[s].ob = tb[s].ob
          /\ tb'[s].seat = [tb[s].seat EXCEPT ![m.c] = m.u]
      BY <1>1, <2>1, Zenon DEF TableState
    <2>4. \A d \in Chair : tb'[s].seat[d] = IF d = m.c THEN m.u ELSE tb[s].seat[d]
      BY <1>1, <2>1, <2>3
    <2>5. \A u \in User \ {m.u} : Here(s, u)' => Here(s, u)
      BY <2>3, <2>4 DEF Here, Seated
    <2>6. QED
      BY <1>1, <1>2, <1>3, <2>1, <2>3, <2>4, <2>5
  <1>5. CASE m.op # "user_sitdown"
    <2>1. tb'[s] = [tb[s] EXCEPT !.ob = @ \cup {m.u}]
      BY <1>5 DEF LetsIn
    <2>2. /\ tb'[s].tid = tb[s].tid /\ tb'[s].seat = tb[s].seat
          /\ tb'[s].ob = tb[s].ob \cup {m.u}
      BY <1>1, <2>1, Zenon DEF TableState
    <2>3. \A u \in User \ {m.u} : Here(s, u)' => Here(s, u)
      BY <2>2 DEF Here, Seated
    <2>4. QED
      BY <1>1, <1>2, <1>3, <2>2, <2>3
  <1>6. QED
    BY <1>4, <1>5

-----------------------------------------------------------------------------
(* Whom a report is about: a player the table lists.                       *)
LEMMA InformsWho ==
  ASSUME AllInv, NEW s \in Service, NEW x \in Coroutine, Moves(s, x), Informs(s, x),
         NEW q, q = Top(s, x)
  PROVE  /\ q.u \in User /\ Here(s, q.u) /\ tb' = tb
         /\ Running(s, x) /\ x \notin wt[s] /\ x \in wt'[s] /\ ~Running(s, "R")'
         /\ \/ q.st # "FREE" /\ SitsAt(s, q)
            \/ q.st = "OB" /\ q.u \in tb[s].ob /\ Fresh(s, q.u)
            \/ /\ q.st = "FREE" /\ Rest(s, x) # <<>> /\ co'[s][x] = Rest(s, x)
               /\ Frees(s, x, q, Head(Rest(s, x)))
         /\ x = "T" => Seated(s, q.u) \/ cp[s][q.u].tid # 0
  <1>1. /\ ChanTypeOK /\ TabTypeOK /\ Waits /\ Resumed(s, x) /\ Outcome(s, x)
    BY AllParts DEF Moves
  <1>2. /\ Running(s, x) /\ q \in Step /\ q.op = "status" /\ Leads(s, x, q, Rest(s, x))
        /\ tb' = tb /\ co'[s][x] = Rest(s, x) /\ x \in wt'[s]
    BY DEF Informs
  <1>3. q.u \in User /\ x \notin wt[s]
    BY <1>1, <1>2 DEF Waits, Step, StepRec, TableStep
  <1>4. ~Running(s, "R")'
    <2>1. CASE x = "R"
      BY <1>1, <1>2, <2>1, RunsOrWaits
    <2>2. CASE x # "R"
      BY <1>1, <2>2, OthersWait, CoroutineNames
    <2>3. QED
      BY <2>1, <2>2
  <1>5. /\ \/ q.st # "FREE" /\ SitsAt(s, q)
           \/ q.st = "OB" /\ q.u \in tb[s].ob /\ Fresh(s, q.u)
           \/ /\ q.st = "FREE" /\ Rest(s, x) # <<>> /\ co'[s][x] = Rest(s, x)
              /\ Frees(s, x, q, Head(Rest(s, x)))
    BY <1>2 DEF Leads, Fits
  <1>6. Here(s, q.u)
    BY <1>5 DEF SitsAt, Frees, Here, Seated
  <1>7. ASSUME x = "T"
        PROVE  Seated(s, q.u) \/ cp[s][q.u].tid # 0
    <2>1. ~Fresh(s, q.u)
      BY <1>2, <1>7, WhoRuns DEF Fresh, Running
    <2>2. QED
      BY <1>5, <1>7, <2>1 DEF SitsAt, Frees, Seated
  <1>8. QED
    BY <1>2, <1>3, <1>4, <1>5, <1>6, <1>7

LEMMA InformsHere ==
  ASSUME AllInv, NEW s \in Service, NEW x \in Coroutine, Moves(s, x), Informs(s, x)
  PROVE  /\ Top(s, x).u \in User /\ Here(s, Top(s, x).u) /\ tb' = tb
         /\ Running(s, x) /\ x \notin wt[s] /\ x \in wt'[s] /\ ~Running(s, "R")'
         /\ \A u : ~Stale(s, u) /\ ~Fresh(s, u)'
         /\ ~TakesAway(s, x) /\ ~LetsIn(s)
  <1>1. PICK q : q = Top(s, x)
    OBVIOUS
  <1>2. /\ q.u \in User /\ Here(s, q.u) /\ tb' = tb
        /\ Running(s, x) /\ x \notin wt[s] /\ x \in wt'[s] /\ ~Running(s, "R")'
    BY <1>1, InformsWho
  <1>3. ~TakesAway(s, x) /\ \A u : ~Stale(s, u)
    BY <1>2, StaleTaken DEF TakesAway
  <1>4. ~LetsIn(s)
    BY <1>2, WhoRuns DEF LetsIn, Takes, Running
  <1>5. \A u : ~Fresh(s, u)'
    BY <1>2 DEF Fresh
  <1>6. QED
    BY <1>1, <1>2, <1>3, <1>4, <1>5

(* The copy and the report say the same.                                   *)
LEMMA InformsWords ==
  ASSUME ChanTypeOK, NEW s \in Service, NEW x, Informs(s, x), NEW q, q = Top(s, x)
  PROVE  /\ \A u \in User \ {q.u} : cp'[s][u] = cp[s][u]
         /\ cp'[s][q.u].st = q.st /\ cp'[s][q.u].chair = q.c
         /\ cp'[s][q.u].tid = IF q.st = "FREE" THEN 0 ELSE tb[s].tid
  <1>1. /\ \A u \in User \ {q.u} : cp'[s][u] = cp[s][u]
        /\ Word(cp'[s][q.u]) =
             [st |-> q.st, tid |-> IF q.st = "FREE" THEN 0 ELSE tb[s].tid, chair |-> q.c]
    BY DEF Informs
  <1>2. QED
    BY <1>1 DEF Word

LEMMA InformsSends ==
  ASSUME ChanTypeOK, NEW s \in Service, NEW x, Informs(s, x), NEW u, u = Top(s, x).u
  PROVE  \E e \in MgrMsg : /\ e \in CallsOf(x) /\ toMgr'[s] = Append(toMgr[s], e)
                           /\ Says(e, u) /\ Word(e) = Word(cp'[s][u])
                           /\ \A v : Says(e, v) => v = u
  <1>1. PICK e \in CallsOf(x) : /\ toMgr' = [toMgr EXCEPT ![s] = Append(@, e)]
                                /\ Says(e, u) /\ Word(e) = Word(cp'[s][u])
    BY DEF Informs
  <1>2. e \in MgrMsg /\ toMgr'[s] = Append(toMgr[s], e) /\ \A v : Says(e, v) => v = u
    BY <1>1 DEF CallsOf, ChanTypeOK, Says
  <1>3. QED
    BY <1>1, <1>2

(* Of whom gamemgr is told after a step.                                   *)
LEMMA ToldMore ==
  ASSUME AllInv, NEW s \in Service, NEW x \in Coroutine, Moves(s, x), NEW u \in User
  PROVE  Told(s, u)' => Told(s, u) \/ (Informs(s, x) /\ u = Top(s, x).u)
  <1>1. ChanTypeOK /\ toMgr[s] \in Seq(MgrMsg) /\ (NoStatusSent(s) \/ Informs(s, x))
    BY AllParts, MoveQueue DEF ChanTypeOK
  <1>2. /\ Told(s, u) <=> \E m \in Elems(toMgr[s]) : Says(m, u)
        /\ Told(s, u)' <=> \E m \in Elems(toMgr'[s]) : Says(m, u)
    BY <1>1, ToldElems, ToldAfter
  <1>3. ASSUME NEW e \in MgrMsg, toMgr'[s] = Append(toMgr[s], e), ~Says(e, u)
        PROVE  Told(s, u)' => Told(s, u)
    <2>1. Elems(toMgr'[s]) = Elems(toMgr[s]) \cup {e}
      BY <1>1, <1>3, ElemsAppend
    <2>2. QED
      BY <1>2, <1>3, <2>1
  <1>4. CASE NoStatusSent(s)
    BY <1>2, <1>3, <1>4 DEF NoStatusSent, Says
  <1>5. CASE Informs(s, x)
    <2>1. PICK p : p = Top(s, x).u
      OBVIOUS
    <2>2. PICK e \in MgrMsg : /\ e \in CallsOf(x) /\ toMgr'[s] = Append(toMgr[s], e)
                              /\ Says(e, p) /\ Word(e) = Word(cp'[s][p])
                              /\ \A v : Says(e, v) => v = p
      BY <1>1, <1>5, <2>1, InformsSends
    <2>3. QED
      BY <1>3, <1>5, <2>1, <2>2
  <1>6. QED
    BY <1>1, <1>4, <1>5

(* Who is at the table after a step was there, or has been let in.         *)
LEMMA HereShrinks ==
  ASSUME AllInv, NEW s \in Service, NEW x \in Coroutine, Moves(s, x), NEW u \in User,
         Here(s, u)'
  PROVE  Here(s, u) \/ (x = "R" /\ LetsIn(s) /\ u = Arg(s).u)
  <1>1. TabTypeOK /\ TableKind(s, x)
    BY AllParts DEF Moves
  <1>2. CASE Silent(s, x)
    BY <1>2, SilentPlaces
  <1>3. CASE Informs(s, x)
    BY <1>3 DEF Informs, Here, Seated
  <1>4. CASE TakesAway(s, x)
    BY <1>1, <1>4, AwayPlaces
  <1>5. CASE x = "R" /\ LetsIn(s)
    <2>1. PICK m : m = Arg(s)
      OBVIOUS
    <2>2. \A v \in User \ {m.u} : Here(s, v)' => Here(s, v)
      BY <1>1, <1>5, <2>1, LetsInPlaces
    <2>3. QED
      BY <1>5, <2>1, <2>2
  <1>6. CASE Empties(s)
    BY <1>6, RoomAssumption DEF Empties, Here, Seated, NoSeats
  <1>7. QED
    BY <1>1, <1>2, <1>3, <1>4, <1>5, <1>6 DEF TableKind

LEMMA HoldsShrinks ==
  ASSUME AllInv, NEW s \in Service, NEW x \in Coroutine, Moves(s, x), NEW u \in User,
         Holds(s, u)'
  PROVE  Holds(s, u) \/ (x = "R" /\ LetsIn(s) /\ u = Arg(s).u)
  <1>1. CASE Told(s, u)'
    <2>1. Told(s, u) \/ (Informs(s, x) /\ u = Top(s, x).u)
      BY <1>1, ToldMore
    <2>2. CASE Informs(s, x) /\ u = Top(s, x).u
      <3>1. Here(s, u) /\ ~Stale(s, u)
        BY <2>2, InformsHere
      <3>2. QED
        BY <3>1 DEF Holds
    <2>3. QED
      BY <2>1, <2>2 DEF Holds
  <1>2. CASE Here(s, u)' /\ ~LetsIn(s)
    <2>1. Here(s, u)
      BY <1>2, HereShrinks
    <2>2. ~Stale(s, u)
      <3>1. ASSUME Stale(s, u)
            PROVE  FALSE
        <4>1. x = "T" /\ TakesAway(s, "T") /\ TakesOff(s, "T", u) /\ ~Active(s, "R")
          BY <3>1, StaleTaken
        <4>2. PICK y \in Coroutine \ {"T"} : \E c \in Chair : Gives(s, y, u, c)
          BY <1>2, <4>1, AwayGone, CoroutineNames
        <4>3. "R" \in wt[s]
          BY <4>2 DEF Coroutine, Gives, Vacates
        <4>4. QED
          BY <4>1, <4>3 DEF Active
      <3>2. QED
        BY <3>1
    <2>3. QED
      BY <2>1, <2>2 DEF Holds
  <1>3. CASE Here(s, u)' /\ LetsIn(s)
    <2>1. Here(s, u) \/ (x = "R" /\ u = Arg(s).u)
      BY <1>3, HereShrinks
    <2>2. CASE Here(s, u)
      <3>1. ~TakesAway(s, "T")
        BY <1>3 DEF LetsIn, TakesAway, Takes, Answered
      <3>2. ~Stale(s, u)
        BY <3>1, StaleTaken
      <3>3. QED
        BY <2>2, <3>2 DEF Holds
    <2>3. QED
      BY <1>3, <2>1, <2>2
  <1>4. QED
    BY <1>1, <1>2, <1>3 DEF Holds

(* What is known of a player who is let in.                                *)
LEMMA LetsInFacts ==
  ASSUME AllInv, NEW s \in Service, Moves(s, "R"), LetsIn(s), NEW m, m = Arg(s)
  PROVE  /\ m \in Elems(toTab[s]) /\ m \in Asked /\ Sits(m) /\ m.u \in User
         /\ \A r \in Service : ~Holds(r, m.u)
         /\ ~Told(s, m.u) /\ ~Here(s, m.u) /\ \A y \in Coroutine : ~TakesOff(s, y, m.u)
         /\ m.u \in InRoom /\ req.pc # "stand"
         /\ \A r \in Service : \A e \in Elems(toTab'[r]) : e \notin Asked
         /\ Fresh(s, m.u)' /\ \A u : ~TakesOff(s, "R", u)'
  <1>1. /\ ChanTypeOK /\ TabTypeOK /\ Waits /\ OneAsked /\ Resumed(s, "R") /\ Outcome(s, "R")
        /\ AskFree(s) /\ AsksWell(s) /\ AllInv /\ CoroutineNames
    BY AllParts, CoroutineNames DEF Moves
  <1>2. m \in Asked /\ Sits(m) /\ Takes(s, m.op) /\ co[s]["R"] = <<>>
    BY DEF LetsIn
  <1>3. m \in Elems(toTab[s])
    BY <1>1, <1>2, TakesAsked
  <1>4. m.u \in User
    BY <1>1, LetsInPlaces
  <1>5. AskedFor(s, m) /\ Unheld(s, m.u)
    BY <1>1, <1>2, <1>3 DEF AsksWell, AskFree
  <1>6. m.u \in InRoom /\ req.pc # "stand"
    BY <1>2, <1>5 DEF AskedFor, Sits
  <1>7. \A r \in Service : ~Holds(r, m.u)
    BY <1>5 DEF Unheld
  <1>8. ~Stale(s, m.u)
    BY <1>1, StaleTaken
  <1>9. ~Told(s, m.u) /\ ~Here(s, m.u)
    BY <1>7, <1>8 DEF Holds
  <1>10. ~TakesOff(s, "T", m.u)
    <2>1. m.k = "req" /\ m = Head(toTab[s]) /\ Resume("T").k = "resp"
      BY <1>2 DEF Asked, Arg, Resume
    <2>2. QED
      BY <1>5, <2>1 DEF Unheld
  <1>11. ~TakesOff(s, "R", m.u)
    BY <1>2 DEF TakesOff, Vacates, Unwatches, NextIs
  <1>12. ASSUME NEW r \in Service
         PROVE  \A e \in Elems(toTab'[r]) : e \notin Asked
    <2>1. /\ toTab[s] # <<>> /\ Head(toTab[s]) \in Asked
          /\ toTab' = [toTab EXCEPT ![s] = Tail(@)]
      BY <1>2 DEF Takes, Arg
    <2>2. CASE r = s
      <3>1. toTab'[s] = Tail(toTab[s])
        BY <1>1, <2>1 DEF ChanTypeOK
      <3>2. \A e \in Elems(Tail(toTab[s])) : e \notin Asked
        BY <1>1, <2>1, AskedOnce
      <3>3. QED
        BY <2>2, <3>1, <3>2
    <2>3. CASE r # s
      <3>1. toTab'[r] = toTab[r]
        BY <2>1, <2>3 DEF ChanTypeOK
      <3>2. \A e \in Elems(toTab[r]) : e \notin Asked
        BY <1>1, <1>2, <1>3, <2>3, OnlyOne
      <3>3. QED
        BY <3>1, <3>2
    <2>4. QED
      BY <2>2, <2>3
  <1>13. Fresh(s, m.u)'
    <2>1. PICK st : st = (IF m.op = "user_sitdown" THEN "SIT" ELSE "OB")
      OBVIOUS
    <2>2. PICK q : q = SetStatus(m.u, st, m.c)
      OBVIOUS
    <2>3. QED
      BY <1>1, <2>1, <2>2, LetsInFresh
  <1>14. \A u : ~TakesOff(s, "R", u)'
    BY <1>1, RequestShapes
  <1>15. \A y \in Coroutine : ~TakesOff(s, y, m.u)
    BY <1>10, <1>11 DEF Coroutine
  <1>16. QED
    BY <1>2, <1>3, <1>4, <1>6, <1>7, <1>9, <1>12, <1>13, <1>14, <1>15

-----------------------------------------------------------------------------
(* A player whom a table holds after the step is in the room, and is held  *)
(* by one table.                                                           *)
LEMMA NewHolds ==
  ASSUME AllInv, NEW s \in Service, NEW x \in Coroutine, Moves(s, x),
         NEW r \in Service, NEW u \in User, Holds(r, u)'
  PROVE  \/ Holds(r, u)
         \/ /\ r = s /\ x = "R" /\ LetsIn(s) /\ u = Arg(s).u /\ u \in InRoom
            /\ req.pc # "stand" /\ \A z \in Service : ~Holds(z, u)
            /\ \A z \in Service : \A e \in Elems(toTab'[z]) : e \notin Asked
  <1>1. CASE r # s
    BY <1>1, OtherTable
  <1>2. CASE r = s
    <2>1. Holds(s, u) \/ (x = "R" /\ LetsIn(s) /\ u = Arg(s).u)
      BY <1>2, HoldsShrinks
    <2>2. CASE x = "R" /\ LetsIn(s) /\ u = Arg(s).u
      <3>1. PICK m : m = Arg(s)
        OBVIOUS
      <3>2. /\ \A z \in Service : ~Holds(z, m.u)
            /\ m.u \in InRoom /\ req.pc # "stand"
            /\ \A z \in Service : \A e \in Elems(toTab'[z]) : e \notin Asked
        BY <2>2, <3>1, LetsInFacts
      <3>3. QED
        BY <1>2, <2>2, <3>1, <3>2
    <2>3. QED
      BY <1>2, <2>1, <2>2
  <1>3. QED
    BY <1>1, <1>2

LEMMA MovesKnown ==
  ASSUME AllInv, NEW s \in Service, NEW x \in Coroutine, Moves(s, x)
  PROVE  Unique' /\ \A r \in Service : Known(r)'
  <1>1. /\ Unique /\ (\A r \in Service : Known(r)) /\ InRoom' = InRoom
    BY AllParts, MoveQueue
  <1>2. ASSUME NEW r \in Service, NEW u \in User, Holds(r, u)'
        PROVE  u \in InRoom'
    BY <1>1, <1>2, NewHolds DEF Known
  <1>3. ASSUME NEW r \in Service, NEW z \in Service, r # z, NEW u \in User,
               Holds(r, u)', Holds(z, u)'
        PROVE  FALSE
    <2>1. \/ Holds(r, u)
          \/ r = s /\ \A w \in Service : ~Holds(w, u)
      BY <1>3, NewHolds
    <2>2. \/ Holds(z, u)
          \/ z = s /\ \A w \in Service : ~Holds(w, u)
      BY <1>3, NewHolds
    <2>3. QED
      BY <1>1, <1>3, <2>1, <2>2 DEF Unique
  <1>4. QED
    BY <1>2, <1>3 DEF Known, Unique

(* Who is about to be let in stays unheld.                                 *)
LEMMA MovesAskFree ==
  ASSUME AllInv, NEW s \in Service, NEW x \in Coroutine, Moves(s, x), NEW r \in Service
  PROVE  AskFree(r)'
  <1>1. /\ ChanTypeOK /\ TabTypeOK /\ Waits /\ AskFree(r) /\ TabNext(s) /\ TableKind(s, x)
        /\ Resumed(s, x) /\ Outcome(s, x) /\ Acts(s, x) /\ "T" \in Coroutine
    BY AllParts, CoroutineNames DEF Moves
  <1>2. Elems(toTab'[r]) \subseteq Elems(toTab[r])
    BY <1>1, StillAsked
  <1>3. ASSUME NEW m \in Elems(toTab'[r]), m \in Asked, Sits(m)
        PROVE  Unheld(r, m.u)'
    <2>1. Unheld(r, m.u) /\ m.u \in User
      <3>1. Unheld(r, m.u)
        BY <1>1, <1>2, <1>3 DEF AskFree
      <3>2. m.u \in User
        BY <1>3, RoomAssumption DEF Asked, TabMsg, ReqMsg, RespMsg, Sits, RoomOp, UserOp
      <3>3. QED
        BY <3>1, <3>2
    <2>2. \A z \in Service : ~Holds(z, m.u)'
      BY <1>3, <2>1, NewHolds DEF Unheld
    <2>3. ASSUME TakesOff(r, "T", m.u)'
          PROVE  toTab'[r] # <<>> /\ Head(toTab'[r]) = Resume("T")
      <3>1. CASE r # s \/ x # "T"
        <4>1. TakesOff(r, "T", m.u)
          BY <1>1, <2>1, <2>3, <3>1, OthersKeep
        <4>2. toTab[r] # <<>> /\ Head(toTab[r]) = Resume("T")
          BY <2>1, <4>1 DEF Unheld
        <4>3. CASE r # s
          <5>1. toTab'[r] = toTab[r]
            BY <4>3, OtherTable
          <5>2. QED
            BY <4>2, <5>1
        <4>4. CASE r = s
          <5>1. x = "R"
            BY <3>1, <4>4 DEF Coroutine
          <5>2. toTab' = toTab
            BY <1>1, <4>2, <4>4, <5>1, HeadStays
          <5>3. QED
            BY <4>2, <5>2
        <4>5. QED
          BY <4>3, <4>4
      <3>2. CASE r = s /\ x = "T"
        <4>1. Informs(s, "T") /\ m.u = Top(s, "T").u
          BY <1>1, <2>3, <3>2, OwnShape
        <4>2. Here(s, m.u) /\ ~Stale(s, m.u)
          BY <3>2, <4>1, InformsHere
        <4>3. QED
          BY <2>1, <4>2 DEF Unheld, Holds
      <3>3. QED
        BY <3>1, <3>2
    <2>4. QED
      BY <2>2, <2>3 DEF Unheld
  <1>4. \A m : Sits(m)' <=> Sits(m)
    BY DEF Sits
  <1>5. QED
    BY <1>3, <1>4 DEF AskFree, Asked

-----------------------------------------------------------------------------
(* What gamemgr will know after the step.                                  *)
LEMMA AgreeStays ==
  ASSUME AllInv, NEW s \in Service, NEW x \in Coroutine, Moves(s, x), NEW u \in User,
         Here(s, u), ~Stale(s, u), ~Fresh(s, u),
         NoStatusSent(s) \/ (Informs(s, x) /\ u # Top(s, x).u)
  PROVE  Knows(toMgr'[s], Len(toMgr'[s]), u, Word(online'[u]), Word(cp[s][u]))
  <1>1. PICK q, w, v : q = toMgr[s] /\ w = Word(online[u]) /\ v = Word(cp[s][u])
    OBVIOUS
  <1>2. q \in Seq(MgrMsg) /\ online' = online /\ Word(online'[u]) = w
    BY <1>1, AllParts, MoveQueue DEF ChanTypeOK
  <1>3. Knows(q, Len(q), u, w, v)
    BY <1>1, AllParts DEF Agree, WillKnow
  <1>4. ASSUME NEW e \in MgrMsg, toMgr'[s] = Append(q, e), ~Says(e, u)
        PROVE  Knows(toMgr'[s], Len(toMgr'[s]), u, w, v)
    <2>1. Knows(Append(q, e), Len(q) + 1, u, w, v)
      BY <1>2, <1>3, <1>4, KnowsAppend
    <2>2. Len(Append(q, e)) = Len(q) + 1
      BY <1>2
    <2>3. QED
      BY <1>4, <2>1, <2>2
  <1>5. CASE NoStatusSent(s)
    <2>1. CASE toMgr'[s] = toMgr[s]
      BY <1>1, <1>2, <1>3, <2>1
    <2>2. ASSUME NEW e \in MgrMsg, e.k # "status", toMgr'[s] = Append(toMgr[s], e)
          PROVE  Knows(toMgr'[s], Len(toMgr'[s]), u, w, v)
      <3>1. ~Says(e, u)
        BY <2>2 DEF Says
      <3>2. QED
        BY <1>1, <1>4, <2>2, <3>1
    <2>3. QED
      BY <1>1, <1>2, <1>5, <2>1, <2>2 DEF NoStatusSent
  <1>6. CASE Informs(s, x) /\ u # Top(s, x).u
    <2>1. PICK p : p = Top(s, x).u
      OBVIOUS
    <2>2. PICK e \in MgrMsg : /\ e \in CallsOf(x) /\ toMgr'[s] = Append(toMgr[s], e)
                              /\ Says(e, p) /\ Word(e) = Word(cp'[s][p])
                              /\ \A z : Says(e, z) => z = p
      BY <1>6, <2>1, AllParts, InformsSends
    <2>3. ~Says(e, u)
      BY <1>6, <2>1, <2>2
    <2>4. Knows(toMgr'[s], Len(toMgr'[s]), u, w, v)
      BY <1>1, <1>4, <2>2, <2>3
    <2>5. QED
      BY <1>1, <1>2, <2>4
  <1>7. QED
    BY <1>5, <1>6

LEMMA MovesAgree ==
  ASSUME AllInv, NEW s \in Service, NEW x \in Coroutine, Moves(s, x),
         NEW u \in User, Here(s, u)', ~Stale(s, u)', ~Fresh(s, u)'
  PROVE  Knows(toMgr'[s], Len(toMgr'[s]), u, Word(online'[u]), Word(cp'[s][u]))
  <1>1. ChanTypeOK /\ TabTypeOK /\ TableKind(s, x)
    BY AllParts DEF Moves
  <1>2. CASE Informs(s, x)
    <2>1. PICK q : q = Top(s, x)
      OBVIOUS
    <2>2. tb' = tb /\ (\A v : ~Stale(s, v)) /\ \A v \in User \ {q.u} : cp'[s][v] = cp[s][v]
      BY <1>1, <1>2, <2>1, InformsHere, InformsWords
    <2>3. CASE u # q.u
      <3>1. Here(s, u) /\ cp'[s][u] = cp[s][u]
        BY <2>2, <2>3 DEF Here, Seated
      <3>2. ~Stale(s, u) /\ ~Fresh(s, u)
        BY <2>1, <2>2, <2>3, FreshTold
      <3>3. QED
        BY <1>2, <2>1, <2>3, <3>1, <3>2, AgreeStays
    <2>4. CASE u = q.u
      <3>1. PICK e \in MgrMsg : /\ e \in CallsOf(x) /\ toMgr'[s] = Append(toMgr[s], e)
                                /\ Says(e, u) /\ Word(e) = Word(cp'[s][u])
                                /\ \A v : Says(e, v) => v = u
        BY <1>1, <1>2, <2>1, <2>4, InformsSends
      <3>2. PICK p, w : p = toMgr[s] /\ w = Word(online'[u])
        OBVIOUS
      <3>3. p \in Seq(MgrMsg) /\ toMgr'[s] = Append(p, e)
        BY <1>1, <3>1, <3>2 DEF ChanTypeOK
      <3>4. Knows(Append(p, e), Len(p) + 1, u, w, Word(e)) /\ Len(Append(p, e)) = Len(p) + 1
        BY <2>4, <3>1, <3>3, KnowsAppend
      <3>5. QED
        BY <2>4, <3>1, <3>2, <3>3, <3>4
    <2>5. QED
      BY <2>3, <2>4
  <1>3. CASE ~Informs(s, x)
    <2>1. ~Fresh(s, u) /\ NoStatusSent(s)
      BY <1>3, FreshTold, MoveQueue
    <2>2. CASE Silent(s, x)
      <3>1. Here(s, u) /\ Word(cp'[s][u]) = Word(cp[s][u])
        BY <2>2, SilentPlaces DEF Silent, SameWords
      <3>2. ~TakesAway(s, x)
        <4>1. ASSUME TakesAway(s, x)
              PROVE  FALSE
          <5>1. co[s][x] # <<>> /\ Top(s, x).op \in LeaveOp
            BY <4>1 DEF TakesAway
          <5>2. Top(s, x) \in Elems(co[s][x])
            BY <1>1, <5>1, TableTypes, ElemsTail DEF Top
          <5>3. QED
            BY <2>2, <5>1, <5>2 DEF Silent
        <4>2. QED
          BY <4>1
      <3>3. ~Stale(s, u)
        BY <3>2, StaleTaken
      <3>4. QED
        BY <2>1, <3>1, <3>3, AgreeStays
    <2>3. CASE TakesAway(s, x)
      <3>1. Here(s, u) /\ cp'[s][u] = cp[s][u]
        BY <1>1, <2>3, AwayPlaces
      <3>2. ~LetsIn(s)
        BY <2>3 DEF TakesAway, LetsIn, Takes, Answered
      <3>3. ~Stale(s, u)
        <4>1. ASSUME Stale(s, u)
              PROVE  FALSE
          <5>1. x = "T" /\ TakesOff(s, "T", u) /\ ~Active(s, "R")
            BY <4>1, StaleTaken
          <5>2. PICK y \in Coroutine \ {"T"} : \E c \in Chair : Gives(s, y, u, c)
            BY <2>3, <5>1, AwayGone
          <5>3. "R" \in wt[s]
            BY <5>2 DEF Coroutine, Gives, Vacates
          <5>4. QED
            BY <5>1, <5>3 DEF Active
        <4>2. QED
          BY <4>1
      <3>4. QED
        BY <2>1, <3>1, <3>3, AgreeStays
    <2>4. CASE x = "R" /\ LetsIn(s)
      <3>1. PICK m : m = Arg(s)
        OBVIOUS
      <3>2. Fresh(s, m.u)' /\ \A v \in User \ {m.u} : (Here(s, v)' => Here(s, v))
                                                      /\ cp'[s][v] = cp[s][v]
        BY <1>1, <2>4, <3>1, LetsInPlaces, LetsInFacts
      <3>3. Here(s, u) /\ cp'[s][u] = cp[s][u]
        BY <3>2
      <3>4. ~Stale(s, u)
        BY <2>4, StaleTaken
      <3>5. QED
        BY <2>1, <3>3, <3>4, AgreeStays
    <2>5. CASE Empties(s)
      BY <2>5, RoomAssumption DEF Empties, Here, Seated, NoSeats
    <2>6. QED
      BY <1>1, <1>3, <2>2, <2>3, <2>4, <2>5 DEF TableKind
  <1>4. QED
    BY <1>2, <1>3

LEMMA AgreeKeeps ==
  ASSUME AllInv, NEW s \in Service, NEW x \in Coroutine, Moves(s, x), NEW r \in Service
  PROVE  Agree(r)'
  <1>1. CASE r # s
    <2>1. toMgr'[r] = toMgr[r] /\ cp'[r] = cp[r] /\ online' = online
      BY <1>1, OtherTable, MoveQueue
    <2>2. ASSUME NEW u \in User, Here(r, u)', ~Stale(r, u)'
          PROVE  Knows(toMgr'[r], Len(toMgr'[r]), u, Word(online'[u]), Word(cp'[r][u]))
      <3>1. Here(r, u) /\ ~Stale(r, u) /\ ~Fresh(r, u)
        BY <1>1, <2>2, OtherTable
      <3>2. WillKnow(r, u, Word(cp[r][u]))
        BY <3>1, AllParts DEF Agree
      <3>3. QED
        BY <2>1, <3>2 DEF WillKnow
    <2>3. QED
      BY <2>2 DEF Agree, WillKnow
  <1>2. CASE r = s
    BY <1>2, MovesAgree DEF Agree, WillKnow
  <1>3. QED
    BY <1>1, <1>2

-----------------------------------------------------------------------------
(* Once it is off his chair the request that a player left makes a call.   *)
LEMMA VacateCalls ==
  ASSUME TabTypeOK, NEW s \in Service, Shape(s, "R"), ~Running(s, "R"),
         NEW u, Vacates(s, "R", u)
  PROVE  WillCall(co[s]["R"])
  <1>1. "R" \in Coroutine /\ co[s]["R"] \in Seq(Step) /\ co[s]["R"] # <<>>
    BY CoroutineNames DEF TabTypeOK, Vacates, NextIs
  <1>2. PICK k, a, l : k = co[s]["R"] /\ a = Head(k) /\ l = Tail(k)
    OBVIOUS
  <1>3. a \in Step /\ l \in Seq(Step) /\ k = <<a>> \o l
    BY <1>1, <1>2, SeqParts
  <1>4. a.op = "vacate" /\ a = Top(s, "R") /\ l = Rest(s, "R")
    BY <1>2 DEF Vacates, NextIs, Top, Rest
  <1>5. co[s]["R"] \notin Seq(Steady("R"))
    BY <1>1, SteadyTakesNobody DEF TakesOff
  <1>6. Follows("R", a, l)
    BY <1>4, <1>5 DEF Shape
  <1>7. l # <<>> /\ Head(l).op = "tstatus"
    BY <1>4, <1>6 DEF Follows, Tells
  <1>8. Head(l) \in Step /\ Tail(l) \in Seq(Step) /\ l = <<Head(l)>> \o Tail(l)
    BY <1>3, <1>7, SeqParts
  <1>9. WillCall(l)
    <2>1. PICK b, m : b = Head(l) /\ m = Tail(l)
      OBVIOUS
    <2>2. b.op \in Calling
      BY <1>7, <2>1 DEF Calling
    <2>3. WillCall(<<b>> \o m)
      BY <1>8, <2>1, <2>2, CallAhead
    <2>4. QED
      BY <1>8, <2>1, <2>3
  <1>10. a.op \in Surely
    BY <1>4 DEF Surely
  <1>11. WillCall(<<a>> \o l)
    BY <1>3, <1>9, <1>10, CallAhead
  <1>12. QED
    BY <1>2, <1>3, <1>11

(* A report of "T" names a table, or is sent before a call of "R".         *)
LEMMA InformsOrder ==
  ASSUME AllInv, NEW s \in Service, Moves(s, "T"), Informs(s, "T"),
         NEW u, u = Top(s, "T").u, cp[s][u].tid = 0
  PROVE  WillCall(co'[s]["R"])
  <1>1. PICK q : q = Top(s, "T")
    OBVIOUS
  <1>2. "R" \in Coroutine /\ "T" \in Coroutine /\ "R" # "T"
    BY CoroutineNames
  <1>3. /\ ChanTypeOK /\ TabTypeOK /\ Copies(s) /\ Shape(s, "R") /\ Places(s)
    BY <1>2, AllParts
  <1>4. q.u \in User /\ Here(s, q.u) /\ "T" \notin wt[s] /\ (Seated(s, q.u) \/ cp[s][q.u].tid # 0)
    BY <1>1, <1>2, InformsWho
  <1>5. PICK c \in Chair : tb[s].seat[c] = u
    BY <1>1, <1>4 DEF Seated
  <1>6. ~Fresh(s, u)
    BY <1>2, FreshTold
  <1>7. ~SeatCopy(s, u, c)
    BY <1>1, <1>3, <1>4 DEF Copies, SeatCopy
  <1>8. PICK y \in Coroutine : Gives(s, y, u, c)
    BY <1>1, <1>3, <1>4, <1>5, <1>6, <1>7 DEF Places, SeatsCopied
  <1>9. y = "R" /\ Vacates(s, "R", u)
    BY <1>4, <1>8 DEF Gives, Vacates, Coroutine
  <1>10. ~Running(s, "R")
    BY <1>2, OthersKeep
  <1>11. WillCall(co[s]["R"])
    BY <1>3, <1>9, <1>10, VacateCalls
  <1>12. QED
    BY <1>2, <1>11, OthersKeep

(* The last message is of "T" when "T" has just reported somebody.         *)
LEMMA LastTells ==
  ASSUME AllInv, NEW s \in Service, NEW x \in Coroutine, Moves(s, x),
         NEW i \in 1 .. Len(toMgr'[s]), i \notin 1 .. Len(toMgr[s]), NEW u, TellsT(s, i, u)'
  PROVE  /\ x = "T" /\ Informs(s, x) /\ u = Top(s, x).u
         /\ Len(toMgr[s]) \in Nat /\ i = Len(toMgr[s]) + 1
  <1>1. /\ ChanTypeOK /\ online' = online /\ Grows(s)
        /\ (NoStatusSent(s) \/ Informs(s, x))
    BY AllParts, MoveQueue
  <1>2. toMgr'[s][i] \in CallsOf("T") /\ Says(toMgr'[s][i], u)
    BY DEF TellsT, CallsOf, Says
  <1>3. Len(toMgr[s]) \in Nat /\ i = Len(toMgr[s]) + 1
    BY <1>1, QueueGrows
  <1>4. Informs(s, x)
    <2>1. toMgr'[s] # toMgr[s]
      BY <1>3
    <2>2. ASSUME NEW m \in MgrMsg, m.k # "status", toMgr'[s] = Append(toMgr[s], m)
          PROVE  FALSE
      <3>1. toMgr'[s][i] = m
        BY <1>1, <1>3, <2>2 DEF ChanTypeOK
      <3>2. QED
        BY <1>2, <2>2, <3>1 DEF Says
    <2>3. QED
      BY <1>1, <2>1, <2>2 DEF NoStatusSent
  <1>5. PICK p : p = Top(s, x).u
    OBVIOUS
  <1>6. PICK e \in MgrMsg : /\ e \in CallsOf(x) /\ toMgr'[s] = Append(toMgr[s], e)
                            /\ Says(e, p) /\ Word(e) = Word(cp'[s][p])
                            /\ \A v : Says(e, v) => v = p
    BY <1>4, <1>5, AllParts, InformsSends
  <1>7. toMgr'[s][i] = e
    BY <1>1, <1>3, <1>6 DEF ChanTypeOK
  <1>8. x = "T" /\ u = p
    BY <1>2, <1>6, <1>7 DEF CallsOf
  <1>9. QED
    BY <1>3, <1>4, <1>5, <1>8

LEMMA OrderKeeps ==
  ASSUME AllInv, NEW s \in Service, NEW x \in Coroutine, Moves(s, x), NEW r \in Service
  PROVE  Order(r)'
  <1>1. /\ ChanTypeOK /\ Order(r) /\ online' = online
        /\ Grows(s) /\ CallStays(s) /\ (NoStatusSent(s) \/ Informs(s, x))
    BY AllParts, MoveQueue
  <1>2. CASE r # s
    <2>1. toMgr'[r] = toMgr[r] /\ \A i : Behind(r, i) => Behind(r, i)'
      BY <1>2, OtherTable
    <2>2. \A u, i : TellsT(r, i, u)' <=> TellsT(r, i, u)
      BY <2>1 DEF TellsT, CallsOf, Says
    <2>3. QED
      BY <1>1, <2>1, <2>2 DEF Order
  <1>3. ASSUME r = s, NEW u \in User, NEW i \in 1 .. Len(toMgr'[s]), TellsT(s, i, u)'
        PROVE  \/ Behind(s, i)'
               \/ \E v : v.tid # 0 /\ Knows(toMgr'[s], i - 1, u, Word(online'[u]), v)
    <2>1. toMgr'[s][i] \in CallsOf("T") /\ Says(toMgr'[s][i], u)
      BY <1>3 DEF TellsT, CallsOf, Says
    <2>2. Len(toMgr[s]) \in Nat /\ (i \in 1 .. Len(toMgr[s]) \/ i = Len(toMgr[s]) + 1)
      BY <1>1, QueueGrows
    <2>3. CASE i \in 1 .. Len(toMgr[s])
      <3>1. toMgr'[s][i] = toMgr[s][i] /\ i - 1 \in 0 .. Len(toMgr[s])
        BY <1>1, <2>2, <2>3, QueueGrows
      <3>2. TellsT(s, i, u)
        BY <2>1, <3>1 DEF TellsT
      <3>3. CASE Behind(s, i)
        BY <1>1, <2>3, <3>3, BehindStays
      <3>4. ASSUME NEW v, v.tid # 0, Knows(toMgr[s], i - 1, u, Word(online[u]), v)
            PROVE  Knows(toMgr'[s], i - 1, u, Word(online'[u]), v)
        BY <1>1, <3>1, <3>4, QueueGrows
      <3>5. QED
        BY <1>1, <1>3, <2>3, <3>2, <3>3, <3>4 DEF Order
    <2>4. CASE i = Len(toMgr[s]) + 1
      <3>1. x = "T" /\ Informs(s, x) /\ u = Top(s, x).u
        <4>1. i \notin 1 .. Len(toMgr[s])
          BY <2>2, <2>4
        <4>2. QED
          BY <1>3, <4>1, LastTells
      <3>2. PICK p : p = Top(s, x).u
        OBVIOUS
      <3>5. x = "T" /\ u = p
        BY <3>1, <3>2
      <3>6. CASE cp[s][u].tid = 0
        <4>1. WillCall(co'[s]["R"])
          BY <3>1, <3>2, <3>5, <3>6, InformsOrder
        <4>2. QED
          BY <4>1 DEF Behind
      <3>7. CASE cp[s][u].tid # 0
        <4>1. Here(s, u) /\ ~Stale(s, u) /\ ~Fresh(s, u)
          <5>1. Here(s, u) /\ ~Stale(s, u)
            BY <3>1, <3>2, <3>5, InformsHere
          <5>2. ~Fresh(s, u)
            BY <3>5, FreshTold, CoroutineNames
          <5>3. QED
            BY <5>1, <5>2
        <4>2. Knows(toMgr[s], Len(toMgr[s]), u, Word(online[u]), Word(cp[s][u]))
          BY <4>1, AllParts DEF Agree, WillKnow
        <4>3. Len(toMgr[s]) \in 0 .. Len(toMgr[s]) /\ i - 1 = Len(toMgr[s])
          BY <2>2, <2>4
        <4>4. Knows(toMgr'[s], i - 1, u, Word(online'[u]), Word(cp[s][u]))
          BY <1>1, <4>2, <4>3, QueueGrows
        <4>5. Word(cp[s][u]).tid # 0
          BY <3>7 DEF Word
        <4>6. QED
          BY <4>4, <4>5
      <3>8. QED
        BY <3>6, <3>7
    <2>5. QED
      BY <2>2, <2>3, <2>4
  <1>4. CASE r = s
    BY <1>3, <1>4 DEF Order
  <1>5. QED
    BY <1>2, <1>4

-----------------------------------------------------------------------------
(* Where the players are, in terms of their copies, at another table.      *)
LEMMA PlacesElsewhere ==
  ASSUME AllInv, NEW s \in Service, NEW x \in Coroutine, Moves(s, x), NEW r \in Service \ {s}
  PROVE  Places(r)'
  <1>1. Places(r) /\ tb'[r] = tb[r] /\ cp'[r] = cp[r]
        /\ \A u \in User : ~Fresh(r, u) /\ (Seated(r, u)' <=> Seated(r, u))
    BY AllParts, OtherTable
  <1>2. \A u \in User, y \in Coroutine :
          /\ Vacates(r, y, u)' <=> Vacates(r, y, u)
          /\ Unwatches(r, y, u)' <=> Unwatches(r, y, u)
          /\ \A c : Gives(r, y, u, c)' <=> Gives(r, y, u, c)
    BY OthersKeep
  <1>3. SeatsApart(r)'
    BY <1>1 DEF Places, SeatsApart
  <1>4. SeatsCopied(r)'
    <2>1. ASSUME NEW u \in User, NEW c \in Chair, tb'[r].seat[c] = u
          PROVE  SeatCopy(r, u, c)' \/ \E y \in Coroutine : Gives(r, y, u, c)'
      <3>1. SeatCopy(r, u, c) \/ \E y \in Coroutine : Gives(r, y, u, c)
        BY <1>1, <2>1 DEF Places, SeatsCopied
      <3>2. CASE SeatCopy(r, u, c)
        BY <1>1, <3>2 DEF SeatCopy
      <3>3. QED
        BY <1>2, <3>1, <3>2
    <2>2. QED
      BY <2>1 DEF SeatsCopied
  <1>5. WatchersCopied(r)'
    <2>1. ASSUME NEW u \in tb'[r].ob
          PROVE  WatchCopy(r, u)' \/ \E y \in Coroutine : Unwatches(r, y, u)'
      <3>1. u \in User
        BY <1>1, <2>1, AllParts, TableTypes
      <3>2. WatchCopy(r, u) \/ \E y \in Coroutine : Unwatches(r, y, u)
        BY <1>1, <2>1, <3>1 DEF Places, WatchersCopied
      <3>3. CASE WatchCopy(r, u)
        BY <1>1, <3>3 DEF WatchCopy
      <3>4. QED
        BY <1>2, <3>1, <3>2, <3>3
    <2>2. QED
      BY <2>1 DEF WatchersCopied
  <1>6. LeavesOnce(r)'
    <2>1. LeavesOnce(r)
      BY <1>1 DEF Places
    <2>2. ASSUME NEW u \in User, NEW y \in Coroutine, Vacates(r, y, u)'
          PROVE  /\ u \notin tb'[r].ob
                 /\ \A c \in Chair : tb'[r].seat[c] = u => \E z \in Coroutine : Gives(r, z, u, c)'
      BY <1>1, <1>2, <2>1, <2>2 DEF LeavesOnce
    <2>3. ASSUME NEW u \in User, NEW y \in Coroutine, Unwatches(r, y, u)'
          PROVE  ~Seated(r, u)' /\ (y = "R" => cp'[r][u].tid = 0)
      BY <1>1, <1>2, <2>1, <2>3 DEF LeavesOnce
    <2>4. QED
      BY <2>2, <2>3, CoroutineNames DEF LeavesOnce
  <1>7. QED
    BY <1>3, <1>4, <1>5, <1>6 DEF Places

(* A step that takes nobody off, nor is about to, leaves those who are     *)
(* being taken off.                                                        *)
LEMMA StillTaken ==
  ASSUME AllInv, NEW s \in Service, NEW x \in Coroutine, Moves(s, x),
         \A v : ~TakesOff(s, x, v), \A v : ~TakesOff(s, x, v)',
         NEW u \in User, NEW y \in Coroutine
  PROVE  /\ Vacates(s, y, u)' <=> Vacates(s, y, u)
         /\ Unwatches(s, y, u)' <=> Unwatches(s, y, u)
         /\ \A c : Gives(s, y, u, c)' <=> Gives(s, y, u, c)
  <1>1. CASE y # x
    BY <1>1, OthersKeep
  <1>2. CASE y = x
    <2>1. ~Vacates(s, x, u) /\ ~Unwatches(s, x, u)
      BY DEF TakesOff
    <2>2. ~Vacates(s, x, u)' /\ ~Unwatches(s, x, u)'
      BY DEF TakesOff
    <2>3. \A c : ~Gives(s, x, u, c) /\ ~Gives(s, x, u, c)'
      BY <2>1, <2>2 DEF Gives
    <2>4. QED
      BY <1>2, <2>1, <2>2, <2>3
  <1>3. QED
    BY <1>1, <1>2

LEMMA SilentTakes ==
  ASSUME AllInv, NEW s \in Service, NEW x \in Coroutine, Moves(s, x), Silent(s, x)
  PROVE  /\ \A u : ~Fresh(s, u) /\ ~TakesOff(s, x, u) /\ ~TakesOff(s, x, u)'
         /\ ~Informs(s, x) /\ ~TakesAway(s, x)
  <1>1. /\ TabTypeOK /\ ChanTypeOK /\ Waits /\ Resumed(s, x) /\ Outcome(s, x)
        /\ co[s][x] \in Seq(Step)
    BY AllParts, TableTypes DEF Moves
  <1>2. co[s][x] # <<>> => Top(s, x).op \notin LeaveOp \cup {"status"}
    BY <1>1, ElemsTail DEF Silent, Top
  <1>3. ~Informs(s, x) /\ ~TakesAway(s, x) /\ \A u : ~TakesOff(s, x, u)
    BY <1>2 DEF Informs, TakesAway, TakesOff, Vacates, Unwatches, NextIs, LeaveOp
  <1>4. \A u : ~Fresh(s, u)
    BY <1>3, FreshTold
  <1>5. \A u : ~TakesOff(s, x, u)'
    BY <1>1, SilentShape
  <1>6. QED
    BY <1>3, <1>4, <1>5

LEMMA SilentKeepsPlaces ==
  ASSUME AllInv, NEW s \in Service, NEW x \in Coroutine, Moves(s, x), Silent(s, x)
  PROVE  Places(s)'
  <1>1. Places(s) /\ \A u : ~Fresh(s, u) /\ ~TakesOff(s, x, u) /\ ~TakesOff(s, x, u)'
    BY AllParts, SilentTakes
  <1>2. \A u \in User, y \in Coroutine :
          /\ Vacates(s, y, u)' <=> Vacates(s, y, u)
          /\ Unwatches(s, y, u)' <=> Unwatches(s, y, u)
          /\ \A c : Gives(s, y, u, c)' <=> Gives(s, y, u, c)
    BY <1>1, StillTaken
  <1>3. tb'[s].seat = tb[s].seat /\ tb'[s].ob = tb[s].ob /\ tb'[s].tid = tb[s].tid
    BY DEF Silent, SamePlaces
  <1>4. /\ \A u : Seated(s, u)' <=> Seated(s, u)
        /\ \A u \in User : /\ cp'[s][u].st = cp[s][u].st /\ cp'[s][u].tid = cp[s][u].tid
                           /\ cp'[s][u].chair = cp[s][u].chair
    BY SilentPlaces
  <1>5. SeatsApart(s)'
    BY <1>1, <1>3 DEF Places, SeatsApart
  <1>6. SeatsCopied(s)'
    <2>1. ASSUME NEW u \in User, NEW c \in Chair, tb'[s].seat[c] = u
          PROVE  SeatCopy(s, u, c)' \/ \E y \in Coroutine : Gives(s, y, u, c)'
      <3>1. SeatCopy(s, u, c) \/ \E y \in Coroutine : Gives(s, y, u, c)
        BY <1>1, <1>3, <2>1 DEF Places, SeatsCopied
      <3>2. CASE SeatCopy(s, u, c)
        BY <1>3, <1>4, <3>2 DEF SeatCopy
      <3>3. QED
        BY <1>2, <3>1, <3>2
    <2>2. QED
      BY <2>1 DEF SeatsCopied
  <1>7. WatchersCopied(s)'
    <2>1. ASSUME NEW u \in tb'[s].ob
          PROVE  WatchCopy(s, u)' \/ \E y \in Coroutine : Unwatches(s, y, u)'
      <3>1. u \in User
        BY <1>3, <2>1, AllParts, TableTypes
      <3>2. WatchCopy(s, u) \/ \E y \in Coroutine : Unwatches(s, y, u)
        BY <1>1, <1>3, <2>1, <3>1 DEF Places, WatchersCopied
      <3>3. CASE WatchCopy(s, u)
        BY <1>3, <1>4, <3>1, <3>3 DEF WatchCopy
      <3>4. QED
        BY <1>2, <3>1, <3>2, <3>3
    <2>2. QED
      BY <2>1 DEF WatchersCopied
  <1>8. LeavesOnce(s)'
    <2>1. LeavesOnce(s)
      BY <1>1 DEF Places
    <2>2. ASSUME NEW u \in User, NEW y \in Coroutine, Vacates(s, y, u)'
          PROVE  /\ u \notin tb'[s].ob
                 /\ \A c \in Chair : tb'[s].seat[c] = u => \E z \in Coroutine : Gives(s, z, u, c)'
      BY <1>2, <1>3, <2>1, <2>2 DEF LeavesOnce
    <2>3. ASSUME NEW u \in User, NEW y \in Coroutine, Unwatches(s, y, u)'
          PROVE  ~Seated(s, u)' /\ (y = "R" => cp'[s][u].tid = 0)
      BY <1>2, <1>4, <2>1, <2>3 DEF LeavesOnce
    <2>4. QED
      BY <2>2, <2>3, CoroutineNames DEF LeavesOnce
  <1>9. QED
    BY <1>5, <1>6, <1>7, <1>8 DEF Places

(* A player who is taken off leaves the others where they were.            *)
LEMMA AwayKeepsPlaces ==
  ASSUME AllInv, NEW s \in Service, NEW x \in Coroutine, Moves(s, x), TakesAway(s, x)
  PROVE  Places(s)'
  <1>1. ChanTypeOK /\ TabTypeOK /\ Places(s) /\ tb[s].ob \subseteq User /\ None \notin User
    BY AllParts, TableTypes
  <1>2. PICK q : q = Top(s, x)
    OBVIOUS
  <1>3. /\ \A d \in Chair : tb'[s].seat[d] = IF d = q.c THEN None ELSE tb[s].seat[d]
        /\ tb'[s].ob \subseteq tb[s].ob /\ tb'[s].tid = tb[s].tid
        /\ q.op = "unwatch" => q.u \notin tb'[s].ob
        /\ \A u \in User : Here(s, u)' => cp'[s][u] = cp[s][u]
        /\ \A u \in User : Seated(s, u)' => Seated(s, u)
    BY <1>1, <1>2, AwayPlaces
  <1>4. \A u : ~Fresh(s, u)
    BY FreshTold, InformsHere
  <1>5. ASSUME NEW y \in Coroutine, y # x, NEW u \in User
        PROVE  /\ Vacates(s, y, u)' <=> Vacates(s, y, u)
               /\ Unwatches(s, y, u)' <=> Unwatches(s, y, u)
               /\ \A c : Gives(s, y, u, c)' <=> Gives(s, y, u, c)
    BY <1>5, OthersKeep
  <1>6. \A u : ~Vacates(s, x, u)' /\ ~Unwatches(s, x, u)'
    BY TakesAwayShape DEF TakesOff
  <1>7. ASSUME NEW u \in User, NEW c \in Chair, c # q.c, NEW y \in Coroutine, Gives(s, y, u, c)
        PROVE  Gives(s, y, u, c)'
    <2>1. y # x
      BY <1>2, <1>7 DEF Gives
    <2>2. QED
      BY <1>5, <1>7, <2>1
  <1>8. SeatsApart(s)'
    BY <1>1, <1>3 DEF Places, SeatsApart
  <1>9. SeatsCopied(s)'
    <2>1. ASSUME NEW u \in User, NEW c \in Chair, tb'[s].seat[c] = u
          PROVE  SeatCopy(s, u, c)' \/ \E y \in Coroutine : Gives(s, y, u, c)'
      <3>1. c # q.c /\ tb[s].seat[c] = u /\ Here(s, u)'
        BY <1>1, <1>3, <2>1 DEF Here, Seated
      <3>2. SeatCopy(s, u, c) \/ \E y \in Coroutine : Gives(s, y, u, c)
        BY <1>1, <1>4, <3>1 DEF Places, SeatsCopied
      <3>3. CASE SeatCopy(s, u, c)
        BY <1>3, <3>1, <3>3 DEF SeatCopy
      <3>4. QED
        BY <1>7, <3>1, <3>2, <3>3
    <2>2. QED
      BY <2>1 DEF SeatsCopied
  <1>10. WatchersCopied(s)'
    <2>1. ASSUME NEW u \in tb'[s].ob
          PROVE  WatchCopy(s, u)' \/ \E y \in Coroutine : Unwatches(s, y, u)'
      <3>1. u \in User /\ u \in tb[s].ob /\ Here(s, u)'
        BY <1>1, <1>3, <2>1 DEF Here
      <3>2. WatchCopy(s, u) \/ \E y \in Coroutine : Unwatches(s, y, u)
        BY <1>1, <1>4, <3>1 DEF Places, WatchersCopied
      <3>3. CASE WatchCopy(s, u)
        BY <1>3, <3>1, <3>3 DEF WatchCopy
      <3>4. ASSUME NEW y \in Coroutine, Unwatches(s, y, u)
            PROVE  Unwatches(s, y, u)'
        <4>1. y # x
          BY <1>2, <1>3, <2>1, <3>4 DEF Unwatches, NextIs
        <4>2. QED
          BY <1>5, <3>1, <3>4, <4>1
      <3>5. QED
        BY <3>2, <3>3, <3>4
    <2>2. QED
      BY <2>1 DEF WatchersCopied
  <1>11. LeavesOnce(s)'
    <2>1. LeavesOnce(s)
      BY <1>1 DEF Places
    <2>2. ASSUME NEW u \in User, NEW y \in Coroutine, Vacates(s, y, u)'
          PROVE  /\ u \notin tb'[s].ob
                 /\ \A c \in Chair : tb'[s].seat[c] = u => \E z \in Coroutine : Gives(s, z, u, c)'
      <3>1. Vacates(s, y, u)
        BY <1>5, <1>6, <2>2
      <3>2. u \notin tb[s].ob
            /\ \A c \in Chair : tb[s].seat[c] = u => \E z \in Coroutine : Gives(s, z, u, c)
        BY <2>1, <3>1 DEF LeavesOnce
      <3>3. ASSUME NEW c \in Chair, tb'[s].seat[c] = u
            PROVE  \E z \in Coroutine : Gives(s, z, u, c)'
        <4>1. c # q.c /\ tb[s].seat[c] = u
          BY <1>1, <1>3, <3>3
        <4>2. QED
          BY <1>7, <3>2, <4>1
      <3>4. QED
        BY <1>3, <3>2, <3>3
    <2>3. ASSUME NEW u \in User, NEW y \in Coroutine, Unwatches(s, y, u)'
          PROVE  ~Seated(s, u)' /\ (y = "R" => cp'[s][u].tid = 0)
      <3>1. Unwatches(s, y, u)
        BY <1>5, <1>6, <2>3
      <3>2. ~Seated(s, u)'
        BY <1>3, <2>1, <3>1 DEF LeavesOnce
      <3>3. ASSUME y = "R"
            PROVE  cp'[s][u].tid = 0
        <4>1. cp[s][u].tid = 0
          BY <2>1, <3>1, <3>3 DEF LeavesOnce
        <4>2. cp'[s][u] = cp[s][u] \/ cp'[s][u] = NoCopy
          BY DEF TakesAway
        <4>3. QED
          BY <4>1, <4>2 DEF NoCopy
      <3>4. QED
        BY <3>2, <3>3
    <2>4. QED
      BY <2>2, <2>3, CoroutineNames DEF LeavesOnce
  <1>12. QED
    BY <1>8, <1>9, <1>10, <1>11 DEF Places

(* Who is let in has a chair, or watches, and is Fresh.                    *)
LEMMA LetsInKeepsPlaces ==
  ASSUME AllInv, NEW s \in Service, Moves(s, "R"), LetsIn(s)
  PROVE  Places(s)'
  <1>1. ChanTypeOK /\ TabTypeOK /\ Places(s) /\ None \notin User /\ "R" \in Coroutine
    BY AllParts, TableTypes, CoroutineNames
  <1>2. PICK m : m = Arg(s)
    OBVIOUS
  <1>3. /\ m.u \in User /\ tb'[s].tid = tb[s].tid
        /\ \A u \in User \ {m.u} : cp'[s][u] = cp[s][u]
    BY <1>1, <1>2, LetsInPlaces
  <1>4. \/ /\ m.c \in Chair /\ tb'[s].ob = tb[s].ob
           /\ \A d \in Chair : tb'[s].seat[d] = IF d = m.c THEN m.u ELSE tb[s].seat[d]
        \/ /\ tb'[s].ob = tb[s].ob \cup {m.u} /\ tb'[s].seat = tb[s].seat
    BY <1>1, <1>2, LetsInPlaces
  <1>5. /\ ~Here(s, m.u) /\ (\A y \in Coroutine : ~TakesOff(s, y, m.u))
        /\ Fresh(s, m.u)' /\ \A u : ~TakesOff(s, "R", u)'
    BY <1>2, LetsInFacts
  <1>6. m.u \notin tb[s].ob /\ \A c \in Chair : tb[s].seat[c] # m.u
    BY <1>5 DEF Here, Seated
  <1>7. \A u : ~Fresh(s, u)
    BY <1>1, FreshTold, InformsHere
  <1>8. \A u : ~TakesOff(s, "R", u)
    BY DEF LetsIn, TakesOff, Vacates, Unwatches, NextIs
  <1>9. \A u \in User, y \in Coroutine :
          /\ Vacates(s, y, u)' <=> Vacates(s, y, u)
          /\ Unwatches(s, y, u)' <=> Unwatches(s, y, u)
          /\ \A c : Gives(s, y, u, c)' <=> Gives(s, y, u, c)
    BY <1>1, <1>5, <1>8, StillTaken
  <1>10. /\ \A c \in Chair, u \in User \ {m.u} : tb'[s].seat[c] = u => tb[s].seat[c] = u
         /\ \A u \in User \ {m.u} : u \in tb'[s].ob => u \in tb[s].ob
         /\ \A u \in User \ {m.u} : Seated(s, u)' => Seated(s, u)
    BY <1>4 DEF Seated
  <1>11. SeatsApart(s)'
    <2>1. SeatsApart(s)
      BY <1>1 DEF Places
    <2>2. CASE /\ m.c \in Chair /\ tb'[s].ob = tb[s].ob
               /\ \A d \in Chair : tb'[s].seat[d] = IF d = m.c THEN m.u ELSE tb[s].seat[d]
      BY <1>6, <2>1, <2>2 DEF SeatsApart
    <2>3. CASE tb'[s].ob = tb[s].ob \cup {m.u} /\ tb'[s].seat = tb[s].seat
      BY <1>6, <2>1, <2>3 DEF SeatsApart
    <2>4. QED
      BY <1>4, <2>2, <2>3
  <1>12. SeatsCopied(s)'
    <2>1. ASSUME NEW u \in User, NEW c \in Chair, tb'[s].seat[c] = u, u # m.u
          PROVE  SeatCopy(s, u, c)' \/ \E y \in Coroutine : Gives(s, y, u, c)'
      <3>1. tb[s].seat[c] = u /\ cp'[s][u] = cp[s][u]
        BY <1>3, <1>10, <2>1
      <3>2. SeatCopy(s, u, c) \/ \E y \in Coroutine : Gives(s, y, u, c)
        BY <1>1, <1>7, <3>1 DEF Places, SeatsCopied
      <3>3. CASE SeatCopy(s, u, c)
        BY <1>3, <3>1, <3>3 DEF SeatCopy
      <3>4. QED
        BY <1>9, <3>2, <3>3
    <2>2. QED
      BY <1>5, <2>1 DEF SeatsCopied
  <1>13. WatchersCopied(s)'
    <2>1. ASSUME NEW u \in tb'[s].ob, u # m.u
          PROVE  WatchCopy(s, u)' \/ \E y \in Coroutine : Unwatches(s, y, u)'
      <3>1. u \in tb[s].ob
        BY <1>4, <2>1
      <3>2. u \in User
        BY <1>1, <3>1, TableTypes
      <3>3. cp'[s][u] = cp[s][u]
        BY <1>3, <2>1, <3>2
      <3>4. WatchCopy(s, u) \/ \E y \in Coroutine : Unwatches(s, y, u)
        BY <1>1, <1>7, <3>1 DEF Places, WatchersCopied
      <3>5. CASE WatchCopy(s, u)
        BY <1>3, <3>3, <3>5 DEF WatchCopy
      <3>6. QED
        BY <1>9, <3>2, <3>4, <3>5
    <2>2. QED
      BY <1>5, <2>1 DEF WatchersCopied
  <1>14. LeavesOnce(s)'
    <2>1. LeavesOnce(s)
      BY <1>1 DEF Places
    <2>2. ASSUME NEW u \in User, NEW y \in Coroutine, Vacates(s, y, u)'
          PROVE  /\ u \notin tb'[s].ob
                 /\ \A c \in Chair : tb'[s].seat[c] = u => \E z \in Coroutine : Gives(s, z, u, c)'
      <3>1. Vacates(s, y, u)
        BY <1>9, <2>2
      <3>2. u # m.u
        BY <1>5, <3>1 DEF TakesOff
      <3>3. u \notin tb[s].ob
            /\ \A c \in Chair : tb[s].seat[c] = u => \E z \in Coroutine : Gives(s, z, u, c)
        BY <2>1, <3>1 DEF LeavesOnce
      <3>4. QED
        BY <1>9, <1>10, <3>2, <3>3
    <2>3. ASSUME NEW u \in User, NEW y \in Coroutine, Unwatches(s, y, u)'
          PROVE  ~Seated(s, u)' /\ (y = "R" => cp'[s][u].tid = 0)
      <3>1. Unwatches(s, y, u)
        BY <1>9, <2>3
      <3>2. u # m.u /\ y # "R"
        BY <1>5, <1>8, <3>1 DEF TakesOff
      <3>3. ~Seated(s, u)
        BY <2>1, <3>1 DEF LeavesOnce
      <3>4. QED
        BY <1>10, <3>2, <3>3
    <2>4. QED
      BY <2>2, <2>3, CoroutineNames DEF LeavesOnce
  <1>15. QED
    BY <1>11, <1>12, <1>13, <1>14 DEF Places

LEMMA EmptiesKeepsPlaces ==
  ASSUME AllInv, NEW s \in Service, Moves(s, "R"), Empties(s)
  PROVE  Places(s)'
  <1>1. ChanTypeOK /\ TabTypeOK /\ Waits /\ Resumed(s, "R") /\ Outcome(s, "R")
    BY AllParts DEF Moves
  <1>2. \A u : ~TakesOff(s, "R", u)'
    BY <1>1, RequestShapes
  <1>3. None \notin User /\ tb'[s].ob = {} /\ \A c \in Chair : tb'[s].seat[c] = None
    BY RoomAssumption DEF Empties, NoSeats
  <1>4. SeatsApart(s)'
    BY <1>3 DEF SeatsApart
  <1>5. SeatsCopied(s)'
    BY <1>3 DEF SeatsCopied
  <1>6. WatchersCopied(s)'
    BY <1>3 DEF WatchersCopied
  <1>7. LeavesOnce(s)'
    <2>1. \A u \in User : ~Seated(s, u)'
      BY <1>3 DEF Seated
    <2>2. \A u : ~Unwatches(s, "R", u)'
      BY <1>2 DEF TakesOff
    <2>3. QED
      BY <1>3, <2>1, <2>2 DEF LeavesOnce
  <1>8. QED
    BY <1>4, <1>5, <1>6, <1>7 DEF Places

(* A report: the player's copy says where he is, or he is being taken off. *)
LEMMA InformsCopies ==
  ASSUME AllInv, NEW s \in Service, NEW x \in Coroutine, Moves(s, x), Informs(s, x),
         NEW q, q = Top(s, x)
  PROVE  /\ \A c \in Chair : tb[s].seat[c] = q.u =>
              \/ SeatCopy(s, q.u, c)'
              \/ \E y \in Coroutine : Gives(s, y, q.u, c)'
         /\ q.u \in tb[s].ob =>
              \/ WatchCopy(s, q.u)'
              \/ \E y \in Coroutine : Unwatches(s, y, q.u)'
  <1>1. /\ ChanTypeOK /\ TabTypeOK /\ SeatsApart(s) /\ SeatsCopied(s) /\ WatchersCopied(s)
    BY AllParts DEF Places
  <1>2. /\ q.u \in User /\ tb' = tb /\ x \notin wt[s] /\ x \in wt'[s] /\ None \notin User
    BY <1>1, TableTypes, InformsWho
  <1>3. \/ q.st # "FREE" /\ SitsAt(s, q)
        \/ q.st = "OB" /\ q.u \in tb[s].ob /\ Fresh(s, q.u)
        \/ /\ q.st = "FREE" /\ Rest(s, x) # <<>> /\ co'[s][x] = Rest(s, x)
           /\ Frees(s, x, q, Head(Rest(s, x)))
    BY InformsWho
  <1>4. /\ cp'[s][q.u].st = q.st /\ cp'[s][q.u].chair = q.c
        /\ cp'[s][q.u].tid = IF q.st = "FREE" THEN 0 ELSE tb[s].tid
    BY <1>1, InformsWords
  <1>5. \A c, y : y \in Coroutine /\ Gives(s, y, q.u, c) => Gives(s, y, q.u, c)'
    <2>1. ASSUME NEW c, NEW y \in Coroutine, Gives(s, y, q.u, c)
          PROVE  Gives(s, y, q.u, c)'
      <3>1. y # x
        BY <1>2, <2>1 DEF Gives, Vacates
      <3>2. QED
        BY <1>2, <2>1, <3>1, OthersKeep
    <2>2. QED
      BY <2>1
  <1>6. q.st \notin {"SIT", "OB"} => ~Fresh(s, q.u)
    BY FreshTold
  <1>7. CASE q.st # "FREE" /\ SitsAt(s, q)
    <2>1. PICK d \in Chair : /\ tb[s].seat[d] = q.u
                             /\ q.c = d \/ (q.c = cp[s][q.u].chair /\ q.st = "PLAYING")
      BY <1>7 DEF SitsAt
    <2>2. q.u \notin tb[s].ob /\ \A c \in Chair : tb[s].seat[c] = q.u => c = d
      BY <1>1, <1>2, <2>1 DEF SeatsApart
    <2>3. SeatCopy(s, q.u, d)' \/ \E y \in Coroutine : Gives(s, y, q.u, d)'
      <3>1. CASE q.c = d
        BY <1>2, <1>4, <1>7, <3>1 DEF SeatCopy
      <3>2. CASE q.c = cp[s][q.u].chair /\ q.st = "PLAYING"
        <4>1. SeatCopy(s, q.u, d) \/ \E y \in Coroutine : Gives(s, y, q.u, d)
          BY <1>1, <1>2, <1>6, <2>1, <3>2 DEF SeatsCopied
        <4>2. CASE SeatCopy(s, q.u, d)
          BY <1>2, <1>4, <3>2, <4>2 DEF SeatCopy
        <4>3. QED
          BY <1>5, <4>1, <4>2
      <3>3. QED
        BY <2>1, <3>1, <3>2
    <2>4. QED
      BY <2>2, <2>3
  <1>8. CASE q.st = "OB" /\ q.u \in tb[s].ob /\ Fresh(s, q.u)
    <2>1. \A c \in Chair : tb[s].seat[c] # q.u
      BY <1>1, <1>8 DEF SeatsApart
    <2>2. WatchCopy(s, q.u)'
      BY <1>2, <1>4, <1>8 DEF WatchCopy
    <2>3. QED
      BY <2>1, <2>2
  <1>9. CASE /\ q.st = "FREE" /\ Rest(s, x) # <<>> /\ co'[s][x] = Rest(s, x)
             /\ Frees(s, x, q, Head(Rest(s, x)))
    <2>1. PICK l : l = Head(Rest(s, x))
      OBVIOUS
    <2>2. co'[s][x] # <<>> /\ Top(s, x)' = l /\ l.u = q.u /\ l.c = cp[s][q.u].chair
          /\ \/ l.op = "vacate" /\ Seated(s, q.u)
             \/ l.op = "unwatch" /\ q.u \in tb[s].ob
      BY <1>9, <2>1 DEF Frees, Top
    <2>3. CASE l.op = "vacate" /\ Seated(s, q.u)
      <3>1. q.u \notin tb[s].ob
        BY <1>1, <2>3 DEF Seated, SeatsApart
      <3>2. ASSUME NEW c \in Chair, tb[s].seat[c] = q.u
            PROVE  \E y \in Coroutine : Gives(s, y, q.u, c)'
        <4>1. SeatCopy(s, q.u, c) \/ \E y \in Coroutine : Gives(s, y, q.u, c)
          BY <1>1, <1>2, <1>6, <1>9, <3>2 DEF SeatsCopied
        <4>2. CASE SeatCopy(s, q.u, c)
          <5>1. Gives(s, x, q.u, c)'
            BY <1>2, <2>2, <2>3, <4>2 DEF Gives, Vacates, NextIs, SeatCopy
          <5>2. QED
            BY <5>1
        <4>3. QED
          BY <1>5, <4>1, <4>2
      <3>3. QED
        BY <3>1, <3>2
    <2>4. CASE l.op = "unwatch" /\ q.u \in tb[s].ob
      <3>1. \A c \in Chair : tb[s].seat[c] # q.u
        BY <1>1, <2>4 DEF SeatsApart
      <3>2. Unwatches(s, x, q.u)'
        BY <1>2, <2>2, <2>4 DEF Unwatches, NextIs
      <3>3. QED
        BY <3>1, <3>2
    <2>5. QED
      BY <2>2, <2>3, <2>4
  <1>10. QED
    BY <1>3, <1>7, <1>8, <1>9

(* Whom a report makes coroutine x take off.                               *)
LEMMA InformsTakes ==
  ASSUME AllInv, NEW s \in Service, NEW x \in Coroutine, Moves(s, x), Informs(s, x),
         NEW u \in User, TakesOff(s, x, u)'
  PROVE  /\ u = Top(s, x).u /\ Top(s, x).st = "FREE" /\ cp'[s][u].tid = 0 /\ tb[s].tid # 0
         /\ Vacates(s, x, u)' => u \notin tb[s].ob
         /\ Unwatches(s, x, u)' => ~Seated(s, u)
  <1>1. /\ ChanTypeOK /\ TabTypeOK /\ Waits /\ Resumed(s, x) /\ Outcome(s, x) /\ TableKind(s, x)
        /\ SeatsApart(s) /\ Copies(s)
    BY AllParts DEF Moves, Places
  <1>2. PICK q : q = Top(s, x)
    OBVIOUS
  <1>3. u = q.u /\ q.st = "FREE"
    BY <1>1, <1>2, OwnShape
  <1>4. cp'[s][u].tid = 0
    BY <1>1, <1>2, <1>3, InformsWords
  <1>5. Here(s, u) /\ tb[s].tid # 0
    <2>1. Here(s, u)
      BY <1>2, <1>3, InformsWho
    <2>2. QED
      BY <1>1, <2>1 DEF Copies
  <1>6. \/ q.st # "FREE" /\ SitsAt(s, q)
        \/ q.st = "OB" /\ q.u \in tb[s].ob /\ Fresh(s, q.u)
        \/ /\ q.st = "FREE" /\ Rest(s, x) # <<>> /\ co'[s][x] = Rest(s, x)
           /\ Frees(s, x, q, Head(Rest(s, x)))
    BY <1>2, InformsWho
  <1>7. co'[s][x] = Rest(s, x) /\ Frees(s, x, q, Top(s, x)')
    BY <1>3, <1>6 DEF Top
  <1>8. Vacates(s, x, u)' => u \notin tb[s].ob
    BY <1>1, <1>3, <1>7 DEF Vacates, NextIs, Frees, Seated, SeatsApart
  <1>9. Unwatches(s, x, u)' => ~Seated(s, u)
    BY <1>1, <1>3, <1>7 DEF Unwatches, NextIs, Frees, Seated, SeatsApart
  <1>10. QED
    BY <1>2, <1>3, <1>4, <1>5, <1>8, <1>9

LEMMA InformsKeepsPlaces ==
  ASSUME AllInv, NEW s \in Service, NEW x \in Coroutine, Moves(s, x), Informs(s, x)
  PROVE  Places(s)'
  <1>1. /\ ChanTypeOK /\ TabTypeOK /\ Places(s) /\ Copies(s)
    BY AllParts
  <1>2. PICK q : q = Top(s, x)
    OBVIOUS
  <1>3. /\ q.u \in User /\ tb' = tb /\ x \notin wt[s] /\ x \in wt'[s]
        /\ x = "T" => Seated(s, q.u) \/ cp[s][q.u].tid # 0
    BY <1>2, InformsWho
  <1>4. /\ \A u \in User \ {q.u} : cp'[s][u] = cp[s][u]
        /\ \A u \in User \ {q.u} : ~Fresh(s, u)
        /\ \A u : ~Fresh(s, u)'
    BY <1>1, <1>2, InformsWords, FreshTold, InformsHere
  <1>5. ASSUME NEW u \in User, NEW y \in Coroutine
        PROVE  /\ Vacates(s, y, u) => y # x /\ Vacates(s, y, u)'
               /\ Unwatches(s, y, u) => y # x /\ Unwatches(s, y, u)'
               /\ \A c : Gives(s, y, u, c) => y # x /\ Gives(s, y, u, c)'
    <2>1. CASE y # x
      BY <2>1, OthersKeep
    <2>2. CASE y = x
      BY <1>3, <2>2 DEF Gives, Vacates, Unwatches
    <2>3. QED
      BY <2>1, <2>2
  <1>6. \A u : Seated(s, u)' <=> Seated(s, u)
    BY <1>3 DEF Seated
  <1>7. SeatsApart(s)'
    BY <1>1, <1>3 DEF Places, SeatsApart
  <1>8. ASSUME NEW u \in User, NEW c \in Chair, tb[s].seat[c] = u
        PROVE  SeatCopy(s, u, c)' \/ \E y \in Coroutine : Gives(s, y, u, c)'
    <2>1. CASE u = q.u
      BY <1>2, <1>8, <2>1, InformsCopies
    <2>2. CASE u # q.u
      <3>1. SeatCopy(s, u, c) \/ \E y \in Coroutine : Gives(s, y, u, c)
        BY <1>1, <1>4, <1>8, <2>2 DEF Places, SeatsCopied
      <3>2. CASE SeatCopy(s, u, c)
        BY <1>3, <1>4, <2>2, <3>2 DEF SeatCopy
      <3>3. QED
        BY <1>5, <3>1, <3>2
    <2>3. QED
      BY <2>1, <2>2
  <1>9. SeatsCopied(s)'
    BY <1>3, <1>8 DEF SeatsCopied
  <1>10. WatchersCopied(s)'
    <2>1. ASSUME NEW u \in tb[s].ob
          PROVE  WatchCopy(s, u)' \/ \E y \in Coroutine : Unwatches(s, y, u)'
      <3>1. u \in User
        BY <1>1, <2>1, TableTypes
      <3>2. CASE u = q.u
        BY <1>2, <2>1, <3>2, InformsCopies
      <3>3. CASE u # q.u
        <4>1. WatchCopy(s, u) \/ \E y \in Coroutine : Unwatches(s, y, u)
          BY <1>1, <1>4, <2>1, <3>1, <3>3 DEF Places, WatchersCopied
        <4>2. CASE WatchCopy(s, u)
          BY <1>3, <1>4, <3>1, <3>3, <4>2 DEF WatchCopy
        <4>3. QED
          BY <1>5, <3>1, <4>1, <4>2
      <3>4. QED
        BY <3>2, <3>3
    <2>2. QED
      BY <1>3, <2>1 DEF WatchersCopied
  <1>11. LeavesOnce(s)'
    <2>1. LeavesOnce(s)
      BY <1>1 DEF Places
    <2>2. ASSUME NEW u \in User, NEW y \in Coroutine, Vacates(s, y, u)'
          PROVE  /\ u \notin tb[s].ob
                 /\ \A c \in Chair : tb[s].seat[c] = u => \E z \in Coroutine : Gives(s, z, u, c)'
      <3>1. CASE y # x
        <4>1. Vacates(s, y, u)
          BY <2>2, <3>1, OthersKeep
        <4>2. u \notin tb[s].ob
              /\ \A c \in Chair : tb[s].seat[c] = u => \E z \in Coroutine : Gives(s, z, u, c)
          BY <2>1, <4>1 DEF LeavesOnce
        <4>3. QED
          BY <1>5, <4>2
      <3>2. CASE y = x
        <4>1. TakesOff(s, x, u)'
          BY <2>2, <3>2 DEF TakesOff
        <4>2. u \notin tb[s].ob /\ cp'[s][u].tid = 0 /\ tb[s].tid # 0
          BY <2>2, <3>2, <4>1, InformsTakes
        <4>3. \A c : ~SeatCopy(s, u, c)'
          BY <1>3, <4>2 DEF SeatCopy
        <4>4. QED
          BY <1>8, <4>2, <4>3
      <3>3. QED
        BY <3>1, <3>2
    <2>3. ASSUME NEW u \in User, NEW y \in Coroutine, Unwatches(s, y, u)'
          PROVE  ~Seated(s, u) /\ (y = "R" => cp'[s][u].tid = 0)
      <3>1. CASE y # x
        <4>1. Unwatches(s, y, u)
          BY <2>3, <3>1, OthersKeep
        <4>2. ~Seated(s, u) /\ (y = "R" => cp[s][u].tid = 0)
          BY <2>1, <4>1 DEF LeavesOnce
        <4>3. ASSUME y = "R"
              PROVE  cp'[s][u].tid = 0
          <5>1. x = "T"
            BY <3>1, <4>3 DEF Coroutine
          <5>2. u # q.u
            BY <1>3, <4>2, <4>3, <5>1
          <5>3. QED
            BY <1>4, <4>2, <4>3, <5>2
        <4>4. QED
          BY <4>2, <4>3
      <3>2. CASE y = x
        <4>1. TakesOff(s, x, u)'
          BY <2>3, <3>2 DEF TakesOff
        <4>2. QED
          BY <2>3, <3>2, <4>1, InformsTakes
      <3>3. QED
        BY <3>1, <3>2
    <2>4. QED
      BY <1>3, <1>6, <2>2, <2>3, CoroutineNames DEF LeavesOnce
  <1>12. QED
    BY <1>7, <1>9, <1>10, <1>11 DEF Places

LEMMA PlacesKept ==
  ASSUME AllInv, NEW s \in Service, NEW x \in Coroutine, Moves(s, x), NEW r \in Service
  PROVE  Places(r)'
  <1>1. CASE r # s
    BY <1>1, PlacesElsewhere
  <1>2. CASE r = s
    <2>1. TableKind(s, x)
      BY DEF Moves
    <2>2. CASE Silent(s, x)
      BY <1>2, <2>2, SilentKeepsPlaces
    <2>3. CASE Informs(s, x)
      BY <1>2, <2>3, InformsKeepsPlaces
    <2>4. CASE TakesAway(s, x)
      BY <1>2, <2>4, AwayKeepsPlaces
    <2>5. CASE x = "R" /\ LetsIn(s)
      BY <1>2, <2>5, LetsInKeepsPlaces
    <2>6. CASE x = "R" /\ Empties(s)
      BY <1>2, <2>6, EmptiesKeepsPlaces
    <2>7. QED
      BY <2>1, <2>2, <2>3, <2>4, <2>5, <2>6 DEF TableKind
  <1>3. QED
    BY <1>1, <1>2

-----------------------------------------------------------------------------
(* A coroutine that goes on was at work.                                   *)
LEMMA RunsActive ==
  ASSUME ChanTypeOK, TabTypeOK, Waits, NEW s \in Service, NEW x \in Coroutine, RunStep(s, x)
  PROVE  Active(s, x)
  <1>1. Running(s, x) \/ Answered(s, x)
    BY RunStretch DEF Stretch
  <1>2. CASE Answered(s, x)
    <2>1. toTab[s] \in Seq(TabMsg) /\ toTab[s] # <<>>
      BY <1>2 DEF ChanTypeOK, Answered
    <2>2. Head(toTab[s]) \in Elems(toTab[s]) /\ Head(toTab[s]) \in TabMsg
      BY <2>1, ElemsTail
    <2>3. Head(toTab[s]) \in Answers(x)
      BY <1>2, <2>2 DEF Answered, Answers
    <2>4. NumIn(toTab[s], Answers(x)) # 0
      BY <2>1, <2>2, <2>3, NoneIn
    <2>5. Owes(s, x) # 0
      BY <2>4, CountTypes DEF Owes
    <2>6. QED
      BY <2>5 DEF Waits, Bit, Active
  <1>3. QED
    BY <1>1, <1>2 DEF Active

(* What the request has left to take off, it takes off next.               *)
LEMMA RLeavesTakes ==
  ASSUME TabTypeOK, NEW s \in Service, Shape(s, "R"), ~Running(s, "R"), NEW u, RLeaves(s, u)
  PROVE  TakesOff(s, "R", u)
  <1>1. "R" \in Coroutine /\ co[s]["R"] \in Seq(Step)
    BY CoroutineNames DEF TabTypeOK
  <1>2. PICK q \in Elems(co[s]["R"]) : q.op \in LeaveOp /\ q.u = u
    BY DEF RLeaves
  <1>3. co[s]["R"] \notin Seq(Steady("R"))
    <2>1. ASSUME co[s]["R"] \in Seq(Steady("R"))
          PROVE  FALSE
      <3>1. q \in Steady("R")
        BY <1>2, <2>1, ElemsType
      <3>2. QED
        BY <1>2, <3>1 DEF Steady
    <2>2. QED
      BY <2>1
  <1>4. co[s]["R"] # <<>> /\ "R" \in wt[s] /\ Rest(s, "R") \in Seq(Steady("R"))
    BY <1>3 DEF Shape, Follows
  <1>5. q = Top(s, "R")
    <2>1. q = Head(co[s]["R"]) \/ q \in Elems(Rest(s, "R"))
      BY <1>1, <1>2, <1>4, ElemsTail DEF Rest
    <2>2. q \notin Elems(Rest(s, "R"))
      <3>1. ASSUME q \in Elems(Rest(s, "R"))
            PROVE  FALSE
        <4>1. q \in Steady("R")
          BY <1>4, <3>1, ElemsType
        <4>2. QED
          BY <1>2, <4>1 DEF Steady
      <3>2. QED
        BY <3>1
    <2>3. QED
      BY <2>1, <2>2 DEF Top
  <1>6. QED
    BY <1>2, <1>4, <1>5 DEF TakesOff, Vacates, Unwatches, NextIs, LeaveOp

LEMMA TakesLeaves ==
  ASSUME TabTypeOK, NEW s \in Service, NEW u, Vacates(s, "R", u)
  PROVE  RLeaves(s, u)
  <1>1. co[s]["R"] \in Seq(Step) /\ co[s]["R"] # <<>>
    BY CoroutineNames DEF TabTypeOK, Vacates, NextIs
  <1>2. Top(s, "R") \in Elems(co[s]["R"])
    BY <1>1, ElemsTail DEF Top
  <1>3. QED
    BY <1>2 DEF RLeaves, Vacates, NextIs, LeaveOp

(* A player who goes away keeps going away.                                *)
LEMMA HeldElsewhere ==
  ASSUME AllInv, NEW s \in Service, NEW x \in Coroutine, Moves(s, x), req.pc = "stand",
         NEW z \in Service, NEW u \in User, ~Holds(z, u)
  PROVE  ~Holds(z, u)'
  BY NewHolds

LEMMA StandingHere ==
  ASSUME AllInv, NEW s \in Service, NEW x \in Coroutine, Moves(s, x), req.pc = "stand"
  PROVE  /\ ~(x = "R" /\ (LetsIn(s) \/ Empties(s)))
         /\ \A u \in User : Here(s, u)' => Here(s, u)
  <1>1. ~(x = "R" /\ LetsIn(s))
    BY LetsInFacts
  <1>2. ~Empties(s)
    <2>1. ASSUME Empties(s)
          PROVE  FALSE
      <3>1. PICK m : m = Arg(s)
        OBVIOUS
      <3>2. m \in Elems(toTab[s]) /\ m \in Asked /\ m.op \in {"start", "cleanup"}
        BY <2>1, <3>1, AllParts, EmptiesTakes
      <3>3. AskedFor(s, m)
        BY <3>2, AllParts DEF AsksWell
      <3>4. QED
        BY <3>2, <3>3 DEF AskedFor
    <2>2. QED
      BY <2>1
  <1>3. QED
    BY <1>1, <1>2, HereShrinks

LEMMA GoesLeaves ==
  ASSUME AllInv, NEW s \in Service, NEW x \in Coroutine, Moves(s, x), req.pc = "stand",
         NEW u \in User, GoesAway(s, u), Here(s, u)'
  PROVE  RLeaves(s, u)' \/ TakesOff(s, "T", u)'
  <1>1. /\ ChanTypeOK /\ TabTypeOK /\ TableKind(s, x) /\ Here(s, u)
        /\ "R" \in Coroutine /\ "T" \in Coroutine
        /\ co[s]["R"] \in Seq(Step)
    BY AllParts, StandingHere, CoroutineNames DEF Moves, TabTypeOK
  <1>2. RLeaves(s, u) \/ TakesOff(s, "T", u)
    BY <1>1 DEF GoesAway
  <1>3. CASE TakesOff(s, x, u)
    <2>1. TakesAway(s, x)
      <3>1. ~Silent(s, x)
        BY <1>3, SilentTakes
      <3>2. ~Informs(s, x)
        BY <1>3, InformsHere DEF TakesOff, Vacates, Unwatches
      <3>3. QED
        BY <1>1, <3>1, <3>2, StandingHere DEF TableKind
    <2>2. PICK y \in Coroutine \ {x}, c \in Chair : Gives(s, y, u, c)
      BY <1>3, <2>1, AwayGone
    <2>3. Vacates(s, y, u)' /\ Vacates(s, y, u)
      BY <2>2, OthersKeep DEF Gives
    <2>4. CASE y = "R"
      <3>1. RLeaves(s, u)
        BY <1>1, <2>3, <2>4, TakesLeaves
      <3>2. PICK q \in Elems(co[s]["R"]) : q.op \in LeaveOp /\ q.u = u
        BY <3>1 DEF RLeaves
      <3>3. q \in Elems(co'[s]["R"])
        BY <2>2, <2>4, <3>2, OthersKeep
      <3>4. QED
        BY <3>2, <3>3 DEF RLeaves, Elems
    <2>5. CASE y = "T"
      BY <2>3, <2>5 DEF TakesOff
    <2>6. QED
      BY <2>4, <2>5 DEF Coroutine
  <1>4. CASE TakesOff(s, "T", u) /\ x # "T"
    BY <1>1, <1>4, OthersKeep
  <1>5. CASE RLeaves(s, u) /\ ~TakesOff(s, x, u)
    <2>1. PICK q \in Elems(co[s]["R"]) : q.op \in LeaveOp /\ q.u = u
      BY <1>5 DEF RLeaves
    <2>2. q \in Elems(co'[s]["R"])
      <3>1. CASE x # "R"
        BY <1>1, <2>1, <3>1, OthersKeep
      <3>2. CASE x = "R"
        <4>1. ~Silent(s, x)
          BY <2>1, <3>2 DEF Silent
        <4>2. ~TakesAway(s, x)
          <5>1. ASSUME TakesAway(s, x)
                PROVE  FALSE
            <6>1. co[s][x] # <<>> /\ x \in wt[s] /\ Rest(s, x) \in Seq(Steady(x))
              BY <5>1 DEF TakesAway, Follows
            <6>2. q = Top(s, x) \/ q \in Elems(Rest(s, x))
              BY <1>1, <2>1, <3>2, <6>1, ElemsTail DEF Top, Rest
            <6>3. q \notin Elems(Rest(s, x))
              <7>1. ASSUME q \in Elems(Rest(s, x))
                    PROVE  FALSE
                <8>1. q \in Steady(x)
                  BY <6>1, <7>1, ElemsType
                <8>2. QED
                  BY <2>1, <8>1 DEF Steady
              <7>2. QED
                BY <7>1
            <6>4. QED
              BY <1>5, <2>1, <6>1, <6>2, <6>3
                 DEF TakesOff, Vacates, Unwatches, NextIs, LeaveOp
          <5>2. QED
            BY <5>1
        <4>3. Informs(s, x)
          BY <1>1, <3>2, <4>1, <4>2, StandingHere DEF TableKind
        <4>4. co[s][x] # <<>> /\ Top(s, x).op = "status" /\ co'[s][x] = Tail(co[s][x])
          BY <4>3 DEF Informs, Rest
        <4>5. q # Top(s, x)
          BY <2>1, <4>4 DEF LeaveOp
        <4>6. QED
          BY <1>1, <2>1, <3>2, <4>4, <4>5, ElemsTail DEF Top
      <3>3. QED
        BY <3>1, <3>2
    <2>3. QED
      BY <2>1, <2>2 DEF RLeaves, Elems
  <1>6. QED
    BY <1>2, <1>3, <1>4, <1>5 DEF Coroutine

LEMMA GoesBehind ==
  ASSUME AllInv, NEW s \in Service, NEW x \in Coroutine, Moves(s, x),
         NEW u \in User, GoesAway(s, u), NEW i \in 1 .. Len(toMgr'[s]), TellsT(s, i, u)'
  PROVE  Behind(s, i)'
  <1>1. /\ ChanTypeOK /\ TabTypeOK /\ Shape(s, "R") /\ LeavesOnce(s)
        /\ Grows(s) /\ CallStays(s) /\ online' = online
    BY AllParts, MoveQueue, CoroutineNames DEF Places
  <1>2. CASE i \in 1 .. Len(toMgr[s])
    <2>1. toMgr'[s][i] = toMgr[s][i]
      BY <1>1, <1>2, QueueGrows
    <2>2. TellsT(s, i, u)
      BY <2>1 DEF TellsT, CallsOf, Says
    <2>3. Behind(s, i)
      BY <1>2, <2>2 DEF GoesAway
    <2>4. QED
      BY <1>1, <1>2, <2>3, BehindStays
  <1>3. CASE i \notin 1 .. Len(toMgr[s])
    <2>1. x = "T" /\ Informs(s, x) /\ u = Top(s, x).u
      BY <1>3, LastTells
    <2>2. Here(s, u) /\ "T" \notin wt[s] /\ (Seated(s, u) \/ cp[s][u].tid # 0)
      BY <2>1, InformsWho
    <2>3. ~TakesOff(s, "T", u)
      BY <2>2 DEF TakesOff, Vacates, Unwatches
    <2>4. RLeaves(s, u)
      BY <2>2, <2>3 DEF GoesAway
    <2>5. ~Running(s, "R")
      BY <2>1, OthersKeep, CoroutineNames
    <2>6. TakesOff(s, "R", u)
      BY <1>1, <2>4, <2>5, RLeavesTakes
    <2>7. ~Unwatches(s, "R", u)
      BY <1>1, <2>2, CoroutineNames DEF LeavesOnce
    <2>8. Vacates(s, "R", u)
      BY <2>6, <2>7 DEF TakesOff
    <2>9. WillCall(co[s]["R"])
      BY <1>1, <2>5, <2>8, VacateCalls
    <2>10. WillCall(co'[s]["R"])
      BY <2>1, <2>9, OthersKeep, CoroutineNames
    <2>11. QED
      BY <2>10 DEF Behind
  <1>4. QED
    BY <1>2, <1>3

LEMMA GoesOnAway ==
  ASSUME AllInv, NEW s \in Service, NEW x \in Coroutine, Moves(s, x), req.pc = "stand",
         NEW u \in User, GoesAway(s, u)
  PROVE  GoesAway(s, u)'
  <1>1. \A r \in Service \ {s} : ~Holds(r, u)'
    BY HeldElsewhere DEF GoesAway
  <1>2. Here(s, u)' => RLeaves(s, u)' \/ TakesOff(s, "T", u)'
    BY GoesLeaves
  <1>3. \A i \in 1 .. Len(toMgr'[s]) : TellsT(s, i, u)' => Behind(s, i)'
    BY GoesBehind
  <1>4. QED
    BY <1>1, <1>2, <1>3 DEF GoesAway

-----------------------------------------------------------------------------
(* A request that waits for a table to let a player go, at another table.  *)
LEMMA StandsElsewhere ==
  ASSUME AllInv, NEW s \in Service, NEW x \in Coroutine, Moves(s, x), NEW r \in Service \ {s}
  PROVE  Stands(r)'
  <1>1. /\ toMgr'[r] = toMgr[r] /\ res'[r] = res[r] /\ ~Running(r, "R")
        /\ (Active(r, "R")' <=> Active(r, "R"))
        /\ (\A i : Behind(r, i) => Behind(r, i)')
        /\ req' = req
    BY OtherTable, MoveQueue
  <1>2. ASSUME req.pc = "stand"
        PROVE  StandsFirst(r)' /\ (Stood(r)' => GoesAway(r, req.u)')
    <2>1. req.u \in User /\ StandsFirst(r) /\ (Stood(r) => GoesAway(r, req.u))
      BY <1>2, AllParts DEF Stands, Open, Sitter, InRoom
    <2>2. PICK u \in User : u = req.u
      BY <2>1
    <2>3. ~(Active(r, "R") /\ ~res[r])
      BY <1>1, <2>1 DEF StandsFirst
    <2>4. StandsFirst(r)'
      BY <1>1, <2>3 DEF StandsFirst
    <2>5. ASSUME Stood(r)'
          PROVE  GoesAway(r, u)'
      <3>1. Stood(r)
        BY <1>1, <2>5 DEF Stood, Elems, Returned
      <3>2. GoesAway(r, u)
        BY <2>1, <2>2, <3>1
      <3>3. \A z \in Service \ {r} : ~Holds(z, u)'
        BY <1>2, <3>2, HeldElsewhere DEF GoesAway
      <3>4. Here(r, u)' => RLeaves(r, u)' \/ TakesOff(r, "T", u)'
        BY <3>2, OtherTable, OthersKeep, CoroutineNames DEF GoesAway
      <3>5. \A i \in 1 .. Len(toMgr'[r]) : TellsT(r, i, u)' => Behind(r, i)'
        BY <1>1, <3>2 DEF GoesAway, TellsT, CallsOf, Says
      <3>6. QED
        BY <3>3, <3>4, <3>5 DEF GoesAway
    <2>6. QED
      BY <1>1, <2>2, <2>4, <2>5
  <1>3. QED
    BY <1>1, <1>2 DEF Stands

(* The timer's coroutine returns nothing to a request.                     *)
LEMMA TimerStood ==
  ASSUME AllInv, NEW s \in Service, Moves(s, "T")
  PROVE  /\ (Active(s, "R")' <=> Active(s, "R")) /\ ~Running(s, "R") /\ res' = res
         /\ Stood(s)' => Stood(s)
  <1>1. /\ ChanTypeOK /\ Outcome(s, "T") /\ Acts(s, "T") /\ "R" \in Coroutine /\ "R" # "T"
    BY AllParts, CoroutineNames DEF Moves
  <1>2. ~Running(s, "R") /\ ~Running(s, "R")' /\ ("R" \in wt'[s] <=> "R" \in wt[s])
    BY <1>1, OthersKeep, CoroutineNames
  <1>3. (Active(s, "R")' <=> Active(s, "R")) /\ res' = res
    BY <1>1, <1>2, TimerRes DEF Active
  <1>4. ASSUME NEW m \in Elems(toMgr'[s]), m \in Returned
        PROVE  m \in Elems(toMgr[s])
    <2>1. toMgr'[s] = toMgr[s] \/ \E e \in CallsOf("T") : toMgr'[s] = Append(toMgr[s], e)
      BY <1>1 DEF Outcome, RunsOn, WaitsForMgr, Ends, ChanTypeOK
    <2>2. ASSUME NEW e \in CallsOf("T"), toMgr'[s] = Append(toMgr[s], e)
          PROVE  m \in Elems(toMgr[s])
      <3>1. e \in MgrMsg /\ e \notin Returned /\ toMgr[s] \in Seq(MgrMsg)
        BY <1>1 DEF CallsOf, Returned, ChanTypeOK
      <3>2. m \in Elems(toMgr[s]) \cup {e}
        BY <1>4, <2>2, <3>1, ElemsAppend
      <3>3. QED
        BY <1>4, <3>1, <3>2
    <2>3. QED
      BY <1>4, <2>1, <2>2
  <1>5. Stood(s)' => Stood(s)
    <2>1. ASSUME Stood(s)'
          PROVE  Stood(s)
      <3>1. \/ Active(s, "R")' /\ res'[s]
            \/ \E m \in Elems(toMgr'[s]) : m \in Returned /\ m.val = 1
        BY <2>1 DEF Stood, Elems, Returned
      <3>2. QED
        BY <1>3, <1>4, <3>1 DEF Stood
    <2>2. QED
      BY <2>1
  <1>6. QED
    BY <1>2, <1>3, <1>5

LEMMA StandsByTimer ==
  ASSUME AllInv, NEW s \in Service, Moves(s, "T"), req.pc = "stand"
  PROVE  StandsFirst(s)' /\ (Stood(s)' => GoesAway(s, req.u)')
  <1>1. req.u \in User /\ StandsFirst(s) /\ (Stood(s) => GoesAway(s, req.u)) /\ req' = req
    BY AllParts, MoveQueue, CoroutineNames DEF Stands, Open, Sitter, InRoom
  <1>2. PICK u \in User : u = req.u
    BY <1>1
  <1>3. /\ (Active(s, "R")' <=> Active(s, "R")) /\ ~Running(s, "R") /\ res' = res
        /\ Stood(s)' => Stood(s)
    BY TimerStood
  <1>4. StandsFirst(s)'
    BY <1>1, <1>3 DEF StandsFirst
  <1>5. Stood(s)' => GoesAway(s, u)'
    BY <1>1, <1>2, <1>3, GoesOnAway, CoroutineNames
  <1>6. QED
    BY <1>1, <1>2, <1>4, <1>5

(* The request to let him go begins.                                       *)
LEMMA StandupTaken ==
  ASSUME NEW s \in Service, Request(s), Takes(s, "user_standup")
  PROVE  request_user_standup(s)
  BY DEF Request, Takes, start, cleanup, get_can_sit_chairid, get_table_info,
         user_sitdown, user_sitdown_ob, request_user_standup, robot_standup, user_offline,
         update_user_conn, game_msg, init_game, request_user_ready

LEMMA StandsByRequest ==
  ASSUME AllInv, NEW s \in Service, Moves(s, "R"), Request(s), req.pc = "stand"
  PROVE  StandsFirst(s)' /\ ~Stood(s)'
  <1>1. /\ ChanTypeOK /\ TabTypeOK /\ OneAsked /\ AsksWell(s) /\ req' = req /\ "R" \in Coroutine
    BY AllParts, MoveQueue, CoroutineNames
  <1>2. PICK m : m = Arg(s)
    OBVIOUS
  <1>3. PICK op : Takes(s, op)
    BY DEF Request, start, cleanup, get_can_sit_chairid, get_table_info,
         user_sitdown, user_sitdown_ob, request_user_standup, robot_standup, user_offline,
         update_user_conn, game_msg, init_game, request_user_ready
  <1>4. m \in Asked /\ m \in Elems(toTab[s]) /\ m.op = op
    BY <1>1, <1>2, <1>3, TakesAsked
  <1>5. m.op = "user_standup" /\ m.u = req.u
    BY <1>1, <1>4 DEF AsksWell, AskedFor
  <1>6. request_user_standup(s)
    BY <1>3, <1>4, <1>5, StandupTaken
  <1>7. PICK a : a = DoFor("standup", m.u, m.c)
    OBVIOUS
  <1>8. /\ res' = [res EXCEPT ![s] = FALSE] /\ co' = [co EXCEPT ![s]["R"] = <<a>>]
        /\ cur' = [svc |-> s, co |-> "R"] /\ toMgr' = toMgr
    BY <1>2, <1>6, <1>7 DEF request_user_standup, Begin, Continues
  <1>9. res'[s] = FALSE /\ co'[s]["R"] = <<a>>
    BY <1>1, <1>8 DEF TabTypeOK
  <1>10. a.op = "standup" /\ a.u = req.u
    BY <1>5, <1>7 DEF DoFor, StepOf
  <1>11. StandsFirst(s)'
    BY <1>1, <1>8, <1>9, <1>10 DEF StandsFirst, Running, NextIs, Top
  <1>12. \A e \in Elems(toMgr[s]) : e \notin Returned
    BY <1>1, <1>4, OnlyOne
  <1>13. ~Stood(s)'
    BY <1>8, <1>9, <1>12 DEF Stood, Elems, Returned
  <1>14. QED
    BY <1>11, <1>13

(* A coroutine that is to let a player stand up does so.                   *)
LEMMA RunsStandup ==
  ASSUME NEW s \in Service, NEW x, RunStep(s, x), Running(s, x), Top(s, x).op = "standup"
  PROVE  user_standup(s, x)
  <1>1. cur # Idle
    BY WhoRuns DEF Running
  <1>2. ~Finish(s, x)
    BY <1>1 DEF Finish, Answered
  <1>3. \A op : At(s, x, op) => op = "standup"
    BY DEF At
  <1>4. CASE \/ update_user_status(s, x) \/ update_table_status(s, x) \/ write_game_record(s, x)
             \/ vacate(s, x) \/ unwatch(s, x) \/ start_game(s, x) \/ start_game_seat(s, x)
    BY <1>3, <1>4 DEF update_user_status, update_table_status, write_game_record, vacate,
                      unwatch, start_game, start_game_seat
  <1>5. CASE \/ on_game_start(s, x) \/ clear_records(s, x) \/ on_game_reset(s, x)
             \/ ready_timeout_seat(s, x) \/ remove_timer(s, x) \/ user_ready(s, x)
    BY <1>3, <1>5 DEF on_game_start, clear_records, on_game_reset, ready_timeout_seat,
                      remove_timer, user_ready
  <1>6. CASE \/ game_end(s, x) \/ end_game(s, x) \/ end_game_seat(s, x)
             \/ write_user_score(s, x) \/ write_game_record_detail(s, x)
    BY <1>3, <1>6 DEF game_end, end_game, end_game_seat, write_user_score,
                      write_game_record_detail
  <1>7. QED
    BY <1>2, <1>4, <1>5, <1>6 DEF RunStep

LEMMA LenOne ==
  ASSUME NEW S, NEW q \in Seq(S), Len(q) = 1
  PROVE  Tail(q) = <<>>
  <1>1. Len(<<>>) = 0
    OBVIOUS
  <1>2. q # <<>>
    BY <1>1
  <1>3. Tail(q) \in Seq(S) /\ Len(Tail(q)) = 0
    BY <1>2, SeqParts
  <1>4. QED
    BY <1>3, SeqParts

LEMMA ConsTwoSteps ==
  \A a, b \in Step : \A q \in Seq(Step) : <<a, b>> \o q = <<a>> \o (<<b>> \o q)
  BY ConsTwo

(* It was refused: nothing is returned that lets the request go on.        *)
LEMMA StandRefused ==
  ASSUME AllInv, NEW s \in Service, Moves(s, "R"), user_standup(s, "R"),
         ~res[s], Active(s, "R"), Len(co[s]["R"]) = 1, ~StandsUp(s, "R")
  PROVE  StandsFirst(s)' /\ ~Stood(s)'
  <1>1. /\ ChanTypeOK /\ TabTypeOK /\ Waits /\ OneAsked /\ "R" \in Coroutine
        /\ co[s]["R"] \in Seq(Step) /\ toMgr[s] \in Seq(MgrMsg)
    BY AllParts, CoroutineNames, TableTypes
  <1>2. res' = res /\ co'[s]["R"] = Rest(s, "R")
    BY <1>1, StandupSteps
  <1>3. Rest(s, "R") = <<>>
    <2>1. PICK k : k = co[s]["R"]
      OBVIOUS
    <2>2. k \in Seq(Step) /\ Len(k) = 1
      BY <1>1, <2>1
    <2>3. Tail(k) = <<>>
      BY <2>2, LenOne
    <2>4. QED
      BY <2>1, <2>3 DEF Rest
  <1>4. PICK left : Continues(s, "R", left) /\ wt' = [wt EXCEPT ![s] = @ \ {"R"}]
    BY DEF user_standup, Taken
  <1>5. left = <<>>
    BY <1>1, <1>2, <1>3, <1>4, ContinuesCo
  <1>6. cur' = Idle /\ toMgr'[s] = Append(toMgr[s], Return(TRUE, 0)) /\ "R" \notin wt'[s]
    BY <1>1, <1>2, <1>4, <1>5 DEF Continues, ChanTypeOK, TabTypeOK
  <1>7. ~Active(s, "R")'
    BY <1>6, WhoRuns DEF Active, Running
  <1>8. \A m \in Elems(toMgr[s]) : m \notin Returned
    BY <1>1, OnlyOne
  <1>9. PICK e : e = Return(TRUE, 0)
    OBVIOUS
  <1>10. e \in MgrMsg /\ e.val = 0
    BY <1>9, RoomAssumption DEF Return, MgrMsg, ReturnMsg
  <1>11. Elems(toMgr'[s]) = Elems(toMgr[s]) \cup {e}
    <2>1. toMgr'[s] = Append(toMgr[s], e)
      BY <1>6, <1>9
    <2>2. Elems(Append(toMgr[s], e)) = Elems(toMgr[s]) \cup {e}
      BY <1>1, <1>10, ElemsAppend
    <2>3. QED
      BY <2>1, <2>2, Zenon
  <1>12. \A m \in Elems(toMgr'[s]) : ~(m \in Returned /\ m.val = 1)
    BY <1>8, <1>10, <1>11
  <1>13. ~Stood(s)'
    BY <1>7, <1>12 DEF Stood, Elems, Returned
  <1>14. QED
    BY <1>7, <1>13 DEF StandsFirst

(* He is let go: his report comes next, and then he is taken off.          *)
LEMMA StandGranted ==
  ASSUME AllInv, NEW s \in Service, Moves(s, "R"), user_standup(s, "R"), req.pc = "stand",
         Active(s, "R"), NEW u \in User, u = Top(s, "R").u, StandsUp(s, "R")
  PROVE  res'[s] /\ GoesAway(s, u)'
  <1>1. /\ ChanTypeOK /\ TabTypeOK /\ Waits /\ "R" \in Coroutine /\ Unique
        /\ co[s]["R"] \in Seq(Step)
    BY AllParts, CoroutineNames, TableTypes
  <1>2. PICK q, a, b, d :
          /\ q = Top(s, "R") /\ a = SetStatus(q.u, "FREE", 0)
          /\ b = DoFor("vacate", q.u, cp[s][q.u].chair)
          /\ d = DoFor("unwatch", q.u, cp[s][q.u].chair)
    OBVIOUS
  <1>3. /\ At(s, "R", "standup") /\ res' = [res EXCEPT ![s] = TRUE]
        /\ IF q.c \in Chair /\ tb[s].seat[q.c] = q.u
           THEN co'[s]["R"] = <<a, b, Do("tstatus")>> \o Rest(s, "R")
           ELSE co'[s]["R"] = <<a, d>> \o Rest(s, "R")
    BY <1>1, <1>2, StandupSteps
  <1>4. res'[s]
    BY <1>1, <1>3 DEF TabTypeOK
  <1>5. /\ Rest(s, "R") \in Seq(Step) /\ u = q.u /\ cp[s][u].chair \in 0 .. MaxChair
        /\ a \in Step /\ b \in Step /\ d \in Step /\ Do("tstatus") \in Step
    <2>1. co[s]["R"] # <<>>
      BY <1>3 DEF At
    <2>2. Rest(s, "R") \in Seq(Step)
      BY <1>1, <2>1 DEF Rest
    <2>3. cp[s][u].chair \in 0 .. MaxChair
      BY <1>1 DEF TabTypeOK, CopyRec
    <2>4. u = q.u
      BY <1>2
    <2>5. a \in Step
      BY <1>2, <2>4, RoomAssumption, DoType DEF SetStatus, StepOf, Status
    <2>6. b \in Step /\ d \in Step
      BY <1>2, <2>3, <2>4, DoType DEF UserStep
    <2>7. Do("tstatus") \in Step
      BY DoType DEF TableStep
    <2>8. QED
      BY <2>2, <2>3, <2>4, <2>5, <2>6, <2>7
  <1>6. /\ a.op = "status" /\ b.op = "vacate" /\ d.op = "unwatch" /\ b.u = u /\ d.u = u
    BY <1>2, <1>5 DEF SetStatus, DoFor, StepOf
  <1>7. Here(s, u) /\ ~Stale(s, u)
    BY <1>2 DEF StandsUp, Here, Seated, Stale
  <1>8. \A r \in Service \ {s} : ~Holds(r, u)'
    <2>1. \A r \in Service \ {s} : ~Holds(r, u)
      BY <1>1, <1>7 DEF Holds, Unique
    <2>2. QED
      BY <1>1, <2>1, HeldElsewhere
  <1>9. ASSUME NEW e \in Step, e.op \in LeaveOp, e.u = u, NEW l \in Seq(Step),
               co'[s]["R"] = <<a>> \o (<<e>> \o l)
        PROVE  GoesAway(s, u)'
    <2>1. PICK k : k = <<e>> \o l
      OBVIOUS
    <2>2. k \in Seq(Step) /\ k # <<>> /\ Head(k) = e
      BY <1>9, <2>1, ConsFacts
    <2>3. /\ <<a>> \o k \in Seq(Step) /\ <<a>> \o k # <<>> /\ Tail(<<a>> \o k) = k
      BY <1>5, <2>2, ConsFacts
    <2>4. e \in Elems(co'[s]["R"])
      <3>1. e \in Elems(k)
        BY <2>2, ElemsTail
      <3>2. QED
        BY <1>9, <2>1, <2>3, <3>1, ElemsTail
    <2>5. RLeaves(s, u)'
      BY <1>9, <2>4 DEF RLeaves, Elems
    <2>6. WillCall(co'[s]["R"])
      <3>1. a.op \in Calling
        BY <1>6 DEF Calling
      <3>2. WillCall(<<a>> \o k)
        BY <1>5, <2>2, <3>1, CallAhead
      <3>3. QED
        BY <1>9, <2>1, <3>2
    <2>7. \A i : Behind(s, i)'
      BY <2>6 DEF Behind
    <2>8. QED
      BY <1>8, <2>5, <2>7 DEF GoesAway
  <1>10. CASE q.c \in Chair /\ tb[s].seat[q.c] = q.u
    <2>1. PICK t : t = Do("tstatus")
      OBVIOUS
    <2>2. co'[s]["R"] = <<a>> \o (<<b>> \o (<<t>> \o Rest(s, "R")))
      BY <1>3, <1>5, <1>10, <2>1, ConsThree
    <2>3. PICK l : l = <<t>> \o Rest(s, "R")
      OBVIOUS
    <2>4. l \in Seq(Step)
      BY <1>5, <2>1, <2>3, ConsFacts
    <2>5. QED
      BY <1>4, <1>5, <1>6, <1>9, <2>2, <2>3, <2>4 DEF LeaveOp
  <1>11. CASE ~(q.c \in Chair /\ tb[s].seat[q.c] = q.u)
    <2>1. PICK l : l = Rest(s, "R")
      OBVIOUS
    <2>2. l \in Seq(Step) /\ co'[s]["R"] = <<a, d>> \o l
      BY <1>3, <1>5, <1>11, <2>1
    <2>3. <<a, d>> \o l = <<a>> \o (<<d>> \o l)
      <3>1. a \in Step /\ d \in Step /\ l \in Seq(Step)
        BY <1>5, <2>2
      <3>2. QED
        BY <3>1, ConsTwoSteps
    <2>4. QED
      BY <1>4, <1>5, <1>6, <1>9, <2>2, <2>3 DEF LeaveOp
  <1>12. QED
    BY <1>10, <1>11

LEMMA StandsByRun ==
  ASSUME AllInv, NEW s \in Service, Moves(s, "R"), RunStep(s, "R"), req.pc = "stand"
  PROVE  StandsFirst(s)' /\ (Stood(s)' => GoesAway(s, req.u)')
  <1>1. /\ ChanTypeOK /\ TabTypeOK /\ Waits /\ "R" \in Coroutine /\ req' = req /\ req.u \in User
        /\ StandsFirst(s) /\ (Stood(s) => GoesAway(s, req.u))
    BY AllParts, MoveQueue, CoroutineNames DEF Stands, Open, Sitter, InRoom
  <1>2. PICK u \in User : u = req.u
    BY <1>1
  <1>3. Active(s, "R")
    BY <1>1, RunsActive
  <1>4. CASE res[s]
    <2>1. res'[s]
      BY <1>1, <1>4, RunRes DEF TabTypeOK
    <2>2. GoesAway(s, u)'
      BY <1>1, <1>2, <1>3, <1>4, GoesOnAway DEF Stood
    <2>3. StandsFirst(s)'
      BY <2>1 DEF StandsFirst
    <2>4. QED
      BY <1>1, <1>2, <2>2, <2>3
  <1>5. CASE ~res[s]
    <2>1. Running(s, "R") /\ NextIs(s, "R", "standup", u) /\ Len(co[s]["R"]) = 1
      BY <1>1, <1>2, <1>3, <1>5 DEF StandsFirst
    <2>2. Top(s, "R").op = "standup" /\ u = Top(s, "R").u
      BY <2>1 DEF NextIs
    <2>3. user_standup(s, "R")
      BY <2>1, <2>2, RunsStandup
    <2>4. CASE StandsUp(s, "R")
      <3>1. res'[s] /\ GoesAway(s, u)'
        BY <1>3, <2>2, <2>3, <2>4, StandGranted
      <3>2. StandsFirst(s)'
        BY <3>1 DEF StandsFirst
      <3>3. QED
        BY <1>1, <1>2, <3>1, <3>2
    <2>5. CASE ~StandsUp(s, "R")
      BY <1>3, <1>5, <2>1, <2>3, <2>5, StandRefused
    <2>6. QED
      BY <2>4, <2>5
  <1>6. QED
    BY <1>4, <1>5

LEMMA StandsKept ==
  ASSUME AllInv, NEW s \in Service, NEW x \in Coroutine, Moves(s, x), NEW r \in Service
  PROVE  Stands(r)'
  <1>1. CASE r # s
    BY <1>1, StandsElsewhere
  <1>2. CASE r = s
    <2>1. req' = req
      BY MoveQueue
    <2>2. ASSUME req.pc = "stand"
          PROVE  StandsFirst(s)' /\ (Stood(s)' => GoesAway(s, req.u)')
      <3>1. RunStep(s, x) \/ (x = "R" /\ Request(s)) \/ x = "T"
        BY DEF Moves, Acts
      <3>2. CASE x = "T"
        BY <2>2, <3>2, StandsByTimer
      <3>3. CASE x = "R" /\ Request(s)
        BY <2>2, <3>3, StandsByRequest
      <3>4. CASE x = "R" /\ RunStep(s, x)
        BY <2>2, <3>4, StandsByRun
      <3>5. QED
        BY <3>1, <3>2, <3>3, <3>4 DEF Coroutine
    <2>3. QED
      BY <1>2, <2>1, <2>2 DEF Stands
  <1>3. QED
    BY <1>1, <1>2

-----------------------------------------------------------------------------
(* Together.                                                               *)
LEMMA TableSeats ==
  ASSUME AllInv, NEW s \in Service, TabNext(s), UNCHANGED mgrVars
  PROVE  SeatInv'
  <1>1. ChanTypeOK /\ TabTypeOK /\ CallInv /\ TableShape(s)
    BY AllParts DEF AllInv, ShapeInv
  <1>2. PICK x \in Coroutine : Resumed(s, x) /\ Outcome(s, x) /\ TableKind(s, x) /\ Acts(s, x)
    BY <1>1, TableKinds
  <1>3. Moves(s, x)
    BY <1>2 DEF Moves
  <1>4. Unique' /\ \A r \in Service : Known(r)'
    BY <1>3, MovesKnown
  <1>5. ASSUME NEW r \in Service
        PROVE  Agree(r)' /\ Order(r)' /\ AskFree(r)' /\ Places(r)' /\ Stands(r)'
    BY <1>3, AgreeKeeps, OrderKeeps, MovesAskFree, PlacesKept, StandsKept
  <1>6. QED
    BY <1>4, <1>5 DEF SeatInv, SeatShape

LEMMA NothingMoves ==
  ASSUME SeatInv, UNCHANGED vars
  PROVE  SeatInv'
  <1>1. UNCHANGED tabVars /\ UNCHANGED <<cur, toTab, toMgr, online, req>>
    BY DEF vars, chans, mgrVars
  <1>2. ASSUME NEW s \in Service
        PROVE  /\ \A u : Holds(s, u)' <=> Holds(s, u)
               /\ \A u : Stale(s, u)' <=> Stale(s, u)
               /\ \A u : TakesOff(s, "T", u)' <=> TakesOff(s, "T", u)
               /\ Places(s)'
               /\ StandsFirst(s) => StandsFirst(s)'
               /\ \A u : RLeaves(s, u)' <=> RLeaves(s, u)
               /\ \A u : Here(s, u)' <=> Here(s, u)
               /\ \A u : Fresh(s, u)' <=> Fresh(s, u)
               /\ Active(s, "R")' <=> Active(s, "R")
               /\ cp'[s] = cp[s] /\ co'[s] = co[s] /\ res'[s] = res[s]
    BY <1>1, TablesSame DEF SeatInv, SeatShape, Holds, Stale, Told
  <1>3. Unique' /\ \A s \in Service : Known(s)' /\ AskFree(s)'
    <2>1. Unique'
      BY <1>2 DEF SeatInv, Unique
    <2>2. \A s \in Service : \A u : Unheld(s, u)' <=> Unheld(s, u)
      BY <1>1, <1>2 DEF Unheld
    <2>3. ASSUME NEW s \in Service
          PROVE  Known(s)' /\ AskFree(s)'
      <3>1. Known(s) /\ AskFree(s)
        BY DEF SeatInv, SeatShape
      <3>2. Known(s)'
        BY <1>1, <1>2, <3>1 DEF Known, InRoom
      <3>3. AskFree(s)'
        BY <1>1, <2>2, <3>1 DEF AskFree
      <3>4. QED
        BY <3>2, <3>3
    <2>4. QED
      BY <2>1, <2>3
  <1>4. ASSUME NEW s \in Service
        PROVE  Agree(s)' /\ Order(s)' /\ Stands(s)'
    <2>1. Agree(s) /\ Order(s) /\ Stands(s)
      BY DEF SeatInv, SeatShape
    <2>2. Agree(s)'
      BY <1>1, <1>2, <2>1 DEF Agree, WillKnow
    <2>3. \A i : Behind(s, i)' <=> Behind(s, i)
      BY <1>1, <1>2 DEF Behind
    <2>4. Order(s)'
      BY <1>1, <2>1, <2>3 DEF Order, TellsT
    <2>5. \A u : GoesAway(s, u) => GoesAway(s, u)'
      BY <1>1, <1>2, <2>3 DEF GoesAway, TellsT
    <2>6. Stood(s)' <=> Stood(s)
      BY <1>1, <1>2 DEF Stood
    <2>7. Stands(s)'
      <3>1. req' = req /\ (StandsFirst(s) => StandsFirst(s)')
        BY <1>1, <1>2
      <3>2. QED
        BY <2>1, <2>5, <2>6, <3>1 DEF Stands
    <2>8. QED
      BY <2>2, <2>4, <2>7
  <1>5. QED
    BY <1>2, <1>3, <1>4 DEF SeatInv, SeatShape

LEMMA NextSeats ==
  ASSUME AllInv, [Next]_vars
  PROVE  SeatInv'
  <1>1. CASE MgrNext /\ UNCHANGED tabVars
    <2>1. Requests \/ \E s \in Service : tableevent(s)
      BY <1>1, MgrKinds DEF AllInv, IInv, ShapeInv
    <2>2. QED
      BY <1>1, <2>1, RequestSeats, EventSeats
  <1>2. CASE \E s \in Service : TabNext(s) /\ UNCHANGED mgrVars
    BY <1>2, TableSeats
  <1>3. CASE UNCHANGED vars
    BY <1>3, NothingMoves DEF AllInv
  <1>4. QED
    BY <1>1, <1>2, <1>3 DEF Next

(* Nobody is anywhere at first.                                            *)
LEMMA InitSeats ==
  ASSUME Init
  PROVE  SeatInv
  <1>1. /\ req = Request0 /\ online = [u \in User |-> NoRec]
        /\ toTab = [s \in Service |-> <<>>] /\ toMgr = [s \in Service |-> <<>>]
    BY DEF Init, MgrInit
  <1>2. req.pc = "idle"
    BY <1>1, RequestType
  <1>3. ASSUME NEW s \in Service
        PROVE  SeatShape(s) /\ \A u \in User : ~Holds(s, u)
    <2>1. /\ \A x \in Coroutine : co[s][x] = <<>>
          /\ tb[s].ob = {} /\ \A c \in Chair : tb[s].seat[c] = None
      BY DEF Init, TabInit, FreshTable, NoSeats, NoCopy
    <2>2. toMgr[s] = <<>> /\ Len(toMgr[s]) = 0 /\ Elems(toTab[s]) = {}
      BY <1>1 DEF Elems
    <2>3. \A u \in User : ~Here(s, u) /\ ~Told(s, u)
      BY <2>1, <2>2, RoomAssumption DEF Here, Seated, Told
    <2>4. \A x \in Coroutine : \A u : ~Vacates(s, x, u) /\ ~Unwatches(s, x, u)
      BY <2>1 DEF Vacates, Unwatches, NextIs
    <2>5. Known(s) /\ Agree(s) /\ \A u \in User : ~Holds(s, u)
      BY <2>3 DEF Known, Agree, Holds
    <2>6. Order(s) /\ AskFree(s)
      BY <2>2 DEF Order, AskFree
    <2>7. Places(s)
      <3>1. None \notin User
        BY RoomAssumption
      <3>2. QED
        BY <2>1, <2>4, <3>1, CoroutineNames
        DEF Places, SeatsApart, SeatsCopied, WatchersCopied, LeavesOnce
    <2>8. Stands(s)
      BY <1>2 DEF Stands
    <2>9. QED
      BY <2>5, <2>6, <2>7, <2>8 DEF SeatShape
  <1>4. QED
    BY <1>3 DEF SeatInv, Unique

-----------------------------------------------------------------------------
(* Where gamemgr and the tables place a player: at one table at most, and  *)
(* as the table's copy of him says, when gamemgr has served the events     *)
(* that the table has sent (gamemgr.lua:478-511, 695-790, 860-889,         *)
(* gametable.lua:152-181, 222-280).                                        *)
THEOREM SeatsAgree == Spec => [](IInv /\ CallInv /\ ShapeInv /\ SeatInv)
  <1>1. Init => SeatInv
    BY InitSeats
  <1>2. IInv /\ CallInv /\ ShapeInv /\ SeatInv /\ [Next]_vars => SeatInv'
    BY NextSeats DEF AllInv
  <1>3. QED
    BY <1>1, <1>2, TableShapesHold, PTL DEF Spec

(* Who is settled at a table is held by it, and gamemgr knows what the     *)
(* table's copy says: nothing about him is on its way.                     *)
LEMMA SettledHere ==
  ASSUME AllInv, NEW s \in Service, NEW u \in User, Here(s, u), Settled(s, u)
  PROVE  /\ u \in InRoom /\ Word(online[u]) = Word(cp[s][u])
         /\ ~Fresh(s, u)
         /\ \A x \in Coroutine : ~Unwatches(s, x, u) /\ \A c : ~Gives(s, x, u, c)
  <1>1. ChanTypeOK /\ TabTypeOK /\ SeatShape(s)
    BY AllParts DEF AllInv, SeatInv
  <1>2. toMgr[s] \in Seq(MgrMsg) /\ \A x \in Coroutine : co[s][x] \in Seq(Step)
    BY <1>1, TableTypes
  <1>3. ~Fresh(s, u)
    BY RoomAssumption DEF Settled, Fresh, Running, Idle
  <1>4. ASSUME NEW x \in Coroutine
        PROVE  ~Vacates(s, x, u) /\ ~Unwatches(s, x, u)
    <2>1. co[s][x] # <<>> => Top(s, x) \in Steps(s, x)
      BY <1>2 DEF Top, Steps
    <2>2. QED
      BY <2>1 DEF Settled, Leaving, Vacates, Unwatches, NextIs
  <1>5. ~Stale(s, u)
    BY <1>4, CoroutineNames DEF Stale, TakesOff
  <1>6. u \in InRoom
    BY <1>1, <1>5 DEF SeatShape, Known, Holds
  <1>7. \A j \in 1 .. Len(toMgr[s]) : ~Says(toMgr[s][j], u)
    BY DEF Settled, Told, Says
  <1>8. WillKnow(s, u, Word(cp[s][u]))
    BY <1>1, <1>3, <1>5 DEF SeatShape, Agree
  <1>9. Word(cp[s][u]) = Word(online[u])
    BY <1>7, <1>8, KnowsSilence DEF WillKnow
  <1>10. QED
    BY <1>3, <1>4, <1>6, <1>9 DEF Gives

(* A player whom a table seats, and who is not being taken off it, is in   *)
(* the room, and gamemgr's record of him says the table, the chair and the *)
(* status that the table's copy says, once no status of him is on its way  *)
(* (gametable.lua:152-181, gamemgr.lua:860-889).                           *)
THEOREM SeatsRecorded == Spec => []SeatAgreement
  <1>1. ASSUME AllInv, NEW s \in Service, NEW c \in Chair, NEW u, u = tb[s].seat[c],
               u # None, Settled(s, u)
        PROVE  /\ u \in InRoom
               /\ online[u].tid = tb[s].tid /\ online[u].chair = c
               /\ online[u].st = cp[s][u].st
    <2>1. ChanTypeOK /\ TabTypeOK /\ Places(s)
      BY <1>1, AllParts DEF AllInv, SeatInv, SeatShape
    <2>2. u \in User /\ Here(s, u)
      <3>1. tb[s].seat[c] \in User \cup {None}
        BY <1>1, <2>1, TableTypes
      <3>2. QED
        BY <1>1, <3>1 DEF Here, Seated
    <2>3. /\ u \in InRoom /\ Word(online[u]) = Word(cp[s][u]) /\ ~Fresh(s, u)
          /\ \A x \in Coroutine : ~Gives(s, x, u, c)
      BY <1>1, <2>2, SettledHere
    <2>4. SeatCopy(s, u, c)
      BY <1>1, <2>1, <2>2, <2>3 DEF Places, SeatsCopied
    <2>5. QED
      BY <2>3, <2>4 DEF SeatCopy, Word
  <1>2. IInv /\ CallInv /\ ShapeInv /\ SeatInv => SeatAgreement
    BY <1>1 DEF AllInv, SeatAgreement
  <1>3. QED
    BY <1>2, SeatsAgree, PTL

(* An observer whom a table lists, and who is not being taken off, is in   *)
(* the room, and gamemgr's record names the table and says US_OB           *)
(* (gametable.lua:152-181, gamemgr.lua:860-889).                           *)
THEOREM ObserversRecorded == Spec => []ObserverAgreement
  <1>1. ASSUME AllInv, NEW s \in Service, NEW u \in tb[s].ob, Settled(s, u)
        PROVE  u \in InRoom /\ online[u].tid = tb[s].tid /\ online[u].st = "OB"
    <2>1. ChanTypeOK /\ TabTypeOK /\ Places(s)
      BY <1>1, AllParts DEF AllInv, SeatInv, SeatShape
    <2>2. u \in User /\ Here(s, u)
      BY <2>1, TableTypes DEF Here
    <2>3. /\ u \in InRoom /\ Word(online[u]) = Word(cp[s][u]) /\ ~Fresh(s, u)
          /\ \A x \in Coroutine : ~Unwatches(s, x, u)
      BY <1>1, <2>2, SettledHere
    <2>4. WatchCopy(s, u)
      BY <2>1, <2>3 DEF Places, WatchersCopied
    <2>5. QED
      BY <2>3, <2>4 DEF WatchCopy, Word
  <1>2. IInv /\ CallInv /\ ShapeInv /\ SeatInv => ObserverAgreement
    BY <1>1 DEF AllInv, ObserverAgreement
  <1>3. QED
    BY <1>2, SeatsAgree, PTL
=============================================================================
