---------------------------- MODULE RoomGames_proofs ----------------------------
(***************************************************************************)
(* The course of the games of a room.                                      *)
(*                                                                         *)
(* The steps a coroutine has left always have one of a few forms (Form).   *)
(* Of an empty table one can then count the calls its timer's coroutine    *)
(* can still come to, and compare them with those it is sure to make       *)
(* before a clean-up reaches the table (Guard): both services take their   *)
(* messages first in, first out, so each time the request that removes the *)
(* table comes round, the timer has had a turn.                            *)
(*                                                                         *)
(* The games of a room are then ended by who started them: no game is      *)
(* ended twice, and a table has one at a time (GamesInv, EndsStarted,      *)
(* OneGame).                                                               *)
(***************************************************************************)
EXTENDS RoomSeats_proofs

(* How a coroutine's steps go on: it tidies up, or wraps a game up, ...     *)
Leading(q, op) == q # <<>> /\ Head(q).op = op

TidyOp == {"late", "rmtimer", "standup"}
WrapOp == {"sitagain", "reset", "standup", "clearrecs"}

Tidying(q) == \A i \in 1 .. Len(q) : q[i].op \in TidyOp
Wrapping(q) ==
  /\ q # <<>> /\ q[Len(q)].op = "tstatus"
  /\ \A i \in 1 .. (Len(q) - 1) : q[i].op \in WrapOp
Base(q) == Tidying(q) \/ Wrapping(q)

(* ... takes a player off the table, ...                                   *)
Readying(q)   == Leading(q, "ready") /\ Tail(q) = <<>>
Telling(q)    == Leading(q, "tstatus") /\ Base(Tail(q))
Rests(q)      == q = <<>> \/ Telling(q)
Vacating(q)   == Leading(q, "vacate") /\ Telling(Tail(q))
Unwatching(q) == Leading(q, "unwatch") /\ Base(Tail(q))

(* ... starts a game, ...                                                  *)
Beginning(q)  == Leading(q, "start") /\ Rests(Tail(q))
Going(q)      == Leading(q, "gamestart") /\ Rests(Tail(q))
Announcing(q) == Leading(q, "tstatus") /\ Going(Tail(q))
Seating(q)    == Leading(q, "seatplay") /\ Announcing(Tail(q))

(* ... settles it, and writes its records ...                              *)
Settling(q) ==
  \/ Leading(q, "gameend") /\ Tail(q) = <<>>
  \/ Leading(q, "endgame") /\ Tail(q) = <<>>
  \/ Leading(q, "write") /\ Leading(Tail(q), "endgame") /\ Tail(Tail(q)) = <<>>
Recording(q) == Leading(q, "record") /\ Wrapping(Tail(q))
Detailing(q) == Leading(q, "detail") /\ Recording(Tail(q))

(* ... or has a status to report first.                                    *)
Reporting(q) ==
  /\ Leading(q, "status")
  /\ \/ Seating(Tail(q)) \/ Vacating(Tail(q)) \/ Unwatching(Tail(q)) \/ Base(Tail(q))

Form(q) ==
  \/ Base(q) \/ Readying(q) \/ Telling(q) \/ Vacating(q) \/ Unwatching(q)
  \/ Beginning(q) \/ Going(q) \/ Announcing(q) \/ Seating(q)
  \/ Settling(q) \/ Recording(q) \/ Detailing(q) \/ Reporting(q)

(* In between a game's start and its cards, and in its course: from there  *)
(* on the game is the coroutine's own to begin, or to end.                 *)
Opening(q) ==
  Announcing(q) \/ Seating(q) \/ (Leading(q, "status") /\ Seating(Tail(q)))
InCourse(q) == Opening(q) \/ Going(q) \/ Settling(q)

(* How many more calls the steps can come to at a table that is empty.     *)
Rank(q) ==
  IF Base(q) \/ Readying(q) THEN 0
  ELSE IF \/ Telling(q) \/ Vacating(q) \/ Going(q) \/ Settling(q)
          \/ Recording(q) \/ Detailing(q) THEN 1
  ELSE 2

Empty(s) == Occupied(tb[s].seat) = {}

-----------------------------------------------------------------------------
(* Tidying up and wrapping up, step by step.                               *)
LEMMA TidyFacts ==
  /\ Tidying(<<>>) /\ Base(<<>>)
  /\ \A q \in Seq(Step) : q # <<>> /\ Tidying(q) => Head(q).op \in TidyOp /\ Tidying(Tail(q))
  /\ \A a \in Step, k \in Seq(Step) : a.op \in TidyOp /\ Tidying(k) => Tidying(<<a>> \o k)
  <1>1. Tidying(<<>>) /\ Base(<<>>)
    BY DEF Tidying, Base
  <1>2. ASSUME NEW q \in Seq(Step), q # <<>>, Tidying(q)
        PROVE  Head(q).op \in TidyOp /\ Tidying(Tail(q))
    <2>1. /\ Len(q) \in Nat \ {0} /\ Len(Tail(q)) = Len(q) - 1 /\ Head(q) = q[1]
          /\ \A i \in 1 .. (Len(q) - 1) : Tail(q)[i] = q[i + 1]
      BY <1>2
    <2>2. \A i \in 1 .. (Len(q) - 1) : i + 1 \in 1 .. Len(q)
      BY <2>1
    <2>3. 1 \in 1 .. Len(q)
      BY <2>1
    <2>4. QED
      BY <1>2, <2>1, <2>2, <2>3 DEF Tidying
  <1>3. ASSUME NEW a \in Step, NEW k \in Seq(Step), a.op \in TidyOp, Tidying(k)
        PROVE  Tidying(<<a>> \o k)
    <2>1. PICK q : q = <<a>> \o k
      OBVIOUS
    <2>2. /\ Len(q) = Len(k) + 1 /\ Len(k) \in Nat
          /\ q[1] = a /\ \A i \in 1 .. Len(k) : q[i + 1] = k[i]
      BY <2>1
    <2>3. ASSUME NEW i \in 1 .. Len(q)
          PROVE  q[i].op \in TidyOp
      <3>1. CASE i = 1
        BY <1>3, <2>2, <3>1
      <3>2. CASE i # 1
        <4>1. i - 1 \in 1 .. Len(k) /\ i - 1 + 1 = i
          BY <2>2, <3>2
        <4>2. q[i] = k[i - 1]
          BY <2>2, <4>1
        <4>3. QED
          BY <1>3, <4>1, <4>2 DEF Tidying
      <3>3. QED
        BY <3>1, <3>2
    <2>4. QED
      BY <2>1, <2>3 DEF Tidying
  <1>4. QED
    BY <1>1, <1>2, <1>3

LEMMA WrapFacts ==
  /\ \A a \in Step : a.op = "tstatus" => Wrapping(<<a>>)
  /\ \A q \in Seq(Step) : Wrapping(q) =>
       \/ Head(q).op = "tstatus" /\ Tail(q) = <<>>
       \/ Head(q).op \in WrapOp /\ Wrapping(Tail(q))
  /\ \A a \in Step, k \in Seq(Step) : a.op \in WrapOp /\ Wrapping(k) => Wrapping(<<a>> \o k)
  <1>1. \A a \in Step : a.op = "tstatus" => Wrapping(<<a>>)
    BY DEF Wrapping
  <1>2. ASSUME NEW q \in Seq(Step), Wrapping(q)
        PROVE  \/ Head(q).op = "tstatus" /\ Tail(q) = <<>>
               \/ Head(q).op \in WrapOp /\ Wrapping(Tail(q))
    <2>1. q # <<>> /\ q[Len(q)].op = "tstatus" /\ \A i \in 1 .. (Len(q) - 1) : q[i].op \in WrapOp
      BY <1>2 DEF Wrapping
    <2>2. PICK t : t = Tail(q)
      OBVIOUS
    <2>3. /\ Len(q) \in Nat \ {0} /\ Len(t) = Len(q) - 1 /\ Head(q) = q[1] /\ t \in Seq(Step)
          /\ \A i \in 1 .. (Len(q) - 1) : t[i] = q[i + 1]
      BY <2>1, <2>2
    <2>4. CASE Len(q) = 1
      BY <2>1, <2>2, <2>3, <2>4
    <2>5. CASE Len(q) # 1
      <3>1. 1 \in 1 .. (Len(q) - 1) /\ Len(t) \in 1 .. (Len(q) - 1) /\ Len(t) + 1 = Len(q)
        BY <2>3, <2>5
      <3>2. Head(q).op \in WrapOp /\ t # <<>> /\ t[Len(t)].op = "tstatus"
        BY <2>1, <2>3, <3>1
      <3>3. ASSUME NEW i \in 1 .. (Len(t) - 1)
            PROVE  t[i].op \in WrapOp
        <4>1. i \in 1 .. (Len(q) - 1) /\ i + 1 \in 1 .. (Len(q) - 1)
          BY <2>3, <3>1
        <4>2. QED
          BY <2>1, <2>3, <4>1
      <3>4. QED
        BY <2>2, <3>2, <3>3 DEF Wrapping
    <2>6. QED
      BY <2>4, <2>5
  <1>3. ASSUME NEW a \in Step, NEW k \in Seq(Step), a.op \in WrapOp, Wrapping(k)
        PROVE  Wrapping(<<a>> \o k)
    <2>1. PICK q : q = <<a>> \o k
      OBVIOUS
    <2>2. /\ Len(q) = Len(k) + 1 /\ Len(k) \in Nat /\ q \in Seq(Step)
          /\ q[1] = a /\ \A i \in 1 .. Len(k) : q[i + 1] = k[i]
      BY <2>1
    <2>3. k # <<>> /\ k[Len(k)].op = "tstatus" /\ \A i \in 1 .. (Len(k) - 1) : k[i].op \in WrapOp
      BY <1>3 DEF Wrapping
    <2>4. Len(k) \in 1 .. Len(k)
      BY <2>2, <2>3
    <2>5. q # <<>> /\ q[Len(q)].op = "tstatus"
      BY <2>2, <2>3, <2>4
    <2>6. ASSUME NEW i \in 1 .. (Len(q) - 1)
          PROVE  q[i].op \in WrapOp
      <3>1. CASE i = 1
        BY <1>3, <2>2, <3>1
      <3>2. CASE i # 1
        <4>1. i - 1 \in 1 .. (Len(k) - 1) /\ i - 1 \in 1 .. Len(k) /\ i - 1 + 1 = i
          BY <2>2, <3>2
        <4>2. q[i] = k[i - 1]
          BY <2>2, <4>1
        <4>3. QED
          BY <2>3, <4>1, <4>2
      <3>3. QED
        BY <3>1, <3>2
    <2>7. QED
      BY <2>1, <2>5, <2>6 DEF Wrapping
  <1>4. QED
    BY <1>1, <1>2, <1>3

LEMMA Joined ==
  ASSUME NEW S, NEW k \in Seq(S), NEW l \in Seq(S)
  PROVE  /\ k \o l \in Seq(S) /\ Len(k \o l) = Len(k) + Len(l)
         /\ \A i \in 1 .. Len(k) : (k \o l)[i] = k[i]
         /\ \A i \in 1 .. Len(l) : (k \o l)[Len(k) + i] = l[i]
  OBVIOUS

(* A player to be stood up is put before the last step.                    *)
LEMMA WrapLate ==
  ASSUME NEW k \in Seq(Step), Wrapping(k), NEW e \in Step, e.op \in WrapOp
  PROVE  BeforeLast(k, e) \in Seq(Step) /\ Wrapping(BeforeLast(k, e))
  <1>1. k # <<>> /\ k[Len(k)].op = "tstatus" /\ \A i \in 1 .. (Len(k) - 1) : k[i].op \in WrapOp
    BY DEF Wrapping
  <1>2. PICK h, f : h = SubSeq(k, 1, Len(k) - 1) /\ f = <<e, k[Len(k)]>>
    OBVIOUS
  <1>3. /\ Len(k) \in Nat \ {0} /\ k[Len(k)] \in Step
        /\ h \in Seq(Step) /\ Len(h) = Len(k) - 1
        /\ \A i \in 1 .. (Len(k) - 1) : h[i] = k[i]
    <2>1. Len(k) \in Nat \ {0} /\ k[Len(k)] \in Step
      BY <1>1
    <2>2. PICK n \in Nat : n = Len(k) - 1
      BY <2>1
    <2>3. 1 \in Int /\ n \in Int /\ \A i \in 1 .. n : k[i] \in Step
      BY <2>1, <2>2
    <2>4. /\ SubSeq(k, 1, n) \in Seq(Step)
          /\ Len(SubSeq(k, 1, n)) = IF 1 <= n THEN n - 1 + 1 ELSE 0
          /\ \A i \in 1 .. (n - 1 + 1) : SubSeq(k, 1, n)[i] = k[1 + i - 1]
      BY <2>3, SubSeqProperties
    <2>5. h = SubSeq(k, 1, n)
      BY <1>2, <2>2
    <2>6. Len(h) = n /\ \A i \in 1 .. n : h[i] = k[i]
      BY <2>2, <2>4, <2>5
    <2>7. QED
      BY <2>1, <2>2, <2>4, <2>5, <2>6
  <1>4. f \in Seq(Step) /\ Len(f) = 2 /\ f[1] = e /\ f[2] = k[Len(k)]
    BY <1>2, <1>3
  <1>5. PICK q : q = h \o f
    OBVIOUS
  <1>6. /\ q \in Seq(Step) /\ Len(q) = Len(k) + 1
        /\ \A i \in 1 .. Len(h) : q[i] = h[i]
        /\ \A i \in 1 .. Len(f) : q[Len(h) + i] = f[i]
    <2>1. h \in Seq(Step) /\ f \in Seq(Step)
      BY <1>3, <1>4
    <2>2. PICK hh \in Seq(Step), ff \in Seq(Step) : hh = h /\ ff = f
      BY <2>1
    <2>3. /\ hh \o ff \in Seq(Step) /\ Len(hh \o ff) = Len(hh) + Len(ff)
          /\ \A i \in 1 .. Len(hh) : (hh \o ff)[i] = hh[i]
          /\ \A i \in 1 .. Len(ff) : (hh \o ff)[Len(hh) + i] = ff[i]
      BY Joined
    <2>4. Len(h) + Len(f) = Len(k) + 1
      BY <1>3, <1>4
    <2>5. QED
      BY <1>5, <2>2, <2>3, <2>4
  <1>7. q[Len(k)] = e /\ q[Len(k) + 1] = k[Len(k)]
    <2>1. 1 \in 1 .. Len(f) /\ 2 \in 1 .. Len(f) /\ Len(h) + 1 = Len(k) /\ Len(h) + 2 = Len(k) + 1
      BY <1>3, <1>4
    <2>2. QED
      BY <1>4, <1>6, <2>1
  <1>8. ASSUME NEW i \in 1 .. (Len(q) - 1)
        PROVE  q[i].op \in WrapOp
    <2>1. CASE i = Len(k)
      BY <1>7, <2>1
    <2>2. CASE i # Len(k)
      <3>1. i \in 1 .. (Len(k) - 1) /\ i \in 1 .. Len(h)
        BY <1>3, <1>6, <2>2
      <3>2. QED
        BY <1>1, <1>3, <1>6, <3>1
    <2>3. QED
      BY <2>1, <2>2
  <1>9. q # <<>> /\ q[Len(q)].op = "tstatus"
    BY <1>1, <1>3, <1>6, <1>7
  <1>10. Wrapping(q)
    BY <1>8, <1>9 DEF Wrapping
  <1>11. BeforeLast(k, e) = q
    BY <1>1, <1>2, <1>5 DEF BeforeLast
  <1>12. QED
    BY <1>6, <1>10, <1>11


-----------------------------------------------------------------------------
(* What a form says, by its next step and those after it.                  *)
LEMMA BaseHead ==
  ASSUME NEW q \in Seq(Step), Base(q), q # <<>>
  PROVE  /\ Head(q).op \in TidyOp \cup WrapOp \cup {"tstatus"} /\ Base(Tail(q))
         /\ Head(q).op = "tstatus" => Tail(q) = <<>>
         /\ Head(q).op \in {"late", "rmtimer"} => Tidying(Tail(q))
         /\ Head(q).op \in {"sitagain", "reset", "clearrecs"} => Wrapping(Tail(q))
  <1>1. CASE Tidying(q)
    <2>1. Head(q).op \in TidyOp /\ Tidying(Tail(q))
      BY <1>1, TidyFacts
    <2>2. QED
      BY <2>1 DEF Base, TidyOp
  <1>2. CASE Wrapping(q)
    <2>1. \/ Head(q).op = "tstatus" /\ Tail(q) = <<>>
          \/ Head(q).op \in WrapOp /\ Wrapping(Tail(q))
      BY <1>2, WrapFacts
    <2>2. QED
      BY <2>1, TidyFacts DEF Base, WrapOp
  <1>3. QED
    BY <1>1, <1>2 DEF Base

(* The steps after the next one.                                           *)
After(op, k) ==
  /\ op = "status" => Seating(k) \/ Vacating(k) \/ Unwatching(k) \/ Base(k)
  /\ op = "tstatus" => Base(k) \/ Going(k)
  /\ op \in {"standup", "unwatch"} => Base(k)
  /\ op = "vacate" => Telling(k)
  /\ op \in {"start", "gamestart"} => Rests(k)
  /\ op = "seatplay" => Announcing(k)
  /\ op \in {"gameend", "endgame", "ready"} => k = <<>>
  /\ op = "write" => Leading(k, "endgame") /\ Tail(k) = <<>>
  /\ op = "detail" => Recording(k)
  /\ op \in {"record", "clearrecs", "sitagain", "reset"} => Wrapping(k)
  /\ op \in {"late", "rmtimer"} => Tidying(k)

LEMMA FormAfter ==
  ASSUME NEW q \in Seq(Step), Form(q), q # <<>>
  PROVE  After(Head(q).op, Tail(q))
  <1>1. CASE Base(q)
    BY <1>1, BaseHead DEF After, TidyOp, WrapOp, Base
  <1>2. CASE \/ Readying(q) \/ Telling(q) \/ Vacating(q) \/ Unwatching(q)
             \/ Beginning(q) \/ Going(q)
    BY <1>2 DEF After, Leading, Readying, Telling, Vacating, Unwatching, Beginning, Going
  <1>3. CASE \/ Announcing(q) \/ Seating(q) \/ Recording(q) \/ Detailing(q) \/ Reporting(q)
    BY <1>3 DEF After, Leading, Announcing, Seating, Recording, Detailing, Reporting
  <1>4. CASE Settling(q)
    BY <1>4 DEF After, Leading, Settling
  <1>5. QED
    BY <1>1, <1>2, <1>3, <1>4 DEF Form

LEMMA AfterForm ==
  ASSUME NEW q \in Seq(Step), q # <<>>, After(Head(q).op, Tail(q))
  PROVE  Form(q)
  <1>1. PICK a, k : a = Head(q) /\ k = Tail(q)
    OBVIOUS
  <1>2. a \in Step /\ k \in Seq(Step) /\ q = <<a>> \o k /\ After(a.op, k)
    BY <1>1, SeqParts
  <1>3. a.op \in UserStep \cup TableStep
    BY <1>2 DEF Step, StepRec
  <1>4. CASE a.op = "status"
    BY <1>1, <1>2, <1>4 DEF After, Form, Reporting, Leading
  <1>5. CASE a.op = "tstatus"
    BY <1>1, <1>2, <1>5 DEF After, Form, Telling, Announcing, Leading
  <1>6. CASE a.op \in {"standup", "late", "rmtimer"}
    <2>1. CASE Tidying(k)
      <3>1. Tidying(<<a>> \o k)
        BY <1>2, <1>6, <2>1, TidyFacts DEF TidyOp
      <3>2. QED
        BY <1>2, <3>1 DEF Form, Base
    <2>2. CASE a.op = "standup" /\ Wrapping(k)
      <3>1. Wrapping(<<a>> \o k)
        BY <1>2, <2>2, WrapFacts DEF WrapOp
      <3>2. QED
        BY <1>2, <3>1 DEF Form, Base
    <2>3. QED
      BY <1>2, <1>6, <2>1, <2>2 DEF After, Base
  <1>7. CASE a.op \in {"clearrecs", "sitagain", "reset"}
    <2>1. Wrapping(<<a>> \o k)
      BY <1>2, <1>7, WrapFacts DEF After, WrapOp
    <2>2. QED
      BY <1>2, <2>1 DEF Form, Base
  <1>8. CASE a.op \in {"vacate", "unwatch", "start", "gamestart", "seatplay", "ready"}
    BY <1>1, <1>2, <1>8
    DEF After, Form, Vacating, Unwatching, Beginning, Going, Seating, Readying, Leading
  <1>9. CASE a.op \in {"gameend", "endgame", "write", "detail", "record"}
    BY <1>1, <1>2, <1>9 DEF After, Form, Settling, Detailing, Recording, Leading
  <1>10. QED
    BY <1>3, <1>4, <1>5, <1>6, <1>7, <1>8, <1>9 DEF UserStep, TableStep

(* Whether they are a game's, and how many calls they come to, by the next *)
(* two steps.                                                              *)
OpensBy(op, k) ==
  \/ op = "seatplay"
  \/ op = "tstatus" /\ Leading(k, "gamestart")
  \/ op = "status" /\ Leading(k, "seatplay")

CallsBy(op, k) ==
  IF op \in TidyOp \cup WrapOp \cup {"ready"} THEN 0
  ELSE IF op \in {"vacate", "gamestart", "gameend", "endgame", "write", "detail", "record"}
    THEN 1
  ELSE IF op = "tstatus" /\ k = <<>> THEN 0
  ELSE IF op = "tstatus" /\ ~Leading(k, "gamestart") THEN 1
  ELSE 2

(* Which steps lead which form.                                            *)
LEMMA FormHead ==
  ASSUME NEW k \in Seq(Step)
  PROVE  /\ Base(k) \/ Telling(k) \/ Vacating(k) \/ Unwatching(k) \/ Recording(k) =>
              \A op \in GameSteps : ~Leading(k, op)
         /\ Going(k) => Leading(k, "gamestart")
         /\ Seating(k) => Leading(k, "seatplay")
         /\ Rests(k) => \A op \in GameSteps : ~Leading(k, op)
  <1>1. ASSUME Base(k), NEW op \in GameSteps
        PROVE  ~Leading(k, op)
    <2>1. k # <<>> => Head(k).op \in TidyOp \cup WrapOp \cup {"tstatus"}
      BY <1>1, BaseHead
    <2>2. QED
      BY <1>1, <2>1 DEF Leading, TidyOp, WrapOp, GameSteps
  <1>2. ASSUME NEW op \in GameSteps
        PROVE  Telling(k) \/ Vacating(k) \/ Unwatching(k) \/ Recording(k) => ~Leading(k, op)
    BY <1>2 DEF Leading, GameSteps, Telling, Vacating, Unwatching, Recording
  <1>3. /\ Going(k) => Leading(k, "gamestart")
        /\ Seating(k) => Leading(k, "seatplay")
    BY DEF Going, Seating
  <1>4. k = <<>> => \A op \in GameSteps : ~Leading(k, op)
    BY DEF Leading
  <1>5. QED
    BY <1>1, <1>2, <1>3, <1>4 DEF Rests

LEMMA FormCounts ==
  ASSUME NEW q \in Seq(Step), Form(q), q # <<>>
  PROVE  /\ Opening(q) <=> OpensBy(Head(q).op, Tail(q))
         /\ InCourse(q) <=> Head(q).op \in GameSteps \/ OpensBy(Head(q).op, Tail(q))
         /\ Rank(q) = CallsBy(Head(q).op, Tail(q))
         /\ Rank(q) \in 0 .. 2
         /\ Beginning(q) <=> Head(q).op = "start"
  <1>1. PICK op, k : op = Head(q).op /\ k = Tail(q)
    OBVIOUS
  <1>2. k \in Seq(Step) /\ After(op, k) /\ op \in UserStep \cup TableStep
    BY <1>1, FormAfter, SeqParts DEF Step, StepRec
  <1>3. \A o : Leading(q, o) <=> op = o
    BY <1>1 DEF Leading
  <1>4. /\ Base(q) => op \in TidyOp \cup WrapOp \cup {"tstatus"}
        /\ Base(q) /\ op = "tstatus" => k = <<>>
    BY <1>1, BaseHead
  <1>5. op \in TidyOp \cup WrapOp => Base(q)
    BY <1>1, <1>3, <1>4
    DEF Form, Readying, Telling, Vacating, Unwatching, Beginning, Going, Announcing, Seating,
        Settling, Recording, Detailing, Reporting, TidyOp, WrapOp
  <1>6. op = "tstatus" /\ k = <<>> => Base(q)
    <2>1. SUFFICES ASSUME op = "tstatus", k = <<>>
                   PROVE  Base(q)
      OBVIOUS
    <2>2. q = <<Head(q)>> \o <<>> /\ Head(q) \in Step
      BY <1>1, <2>1, SeqParts
    <2>3. q = <<Head(q)>>
      BY <2>2
    <2>4. Wrapping(<<Head(q)>>)
      BY <1>1, <2>1, <2>2, WrapFacts
    <2>5. QED
      BY <2>3, <2>4 DEF Base
  <1>7. /\ Announcing(q) <=> op = "tstatus" /\ Going(k)
        /\ Seating(q) <=> op = "seatplay"
        /\ Going(q) <=> op = "gamestart"
        /\ Settling(q) <=> op \in {"gameend", "endgame", "write"}
        /\ Telling(q) <=> op = "tstatus" /\ Base(k)
        /\ Vacating(q) <=> op = "vacate"
        /\ Unwatching(q) <=> op = "unwatch"
        /\ Recording(q) <=> op = "record"
        /\ Detailing(q) <=> op = "detail"
        /\ Readying(q) <=> op = "ready"
        /\ Beginning(q) <=> op = "start"
    BY <1>1, <1>2, <1>3
    DEF After, Announcing, Seating, Going, Settling, Telling, Vacating, Unwatching, Recording,
        Detailing, Readying, Beginning
  <1>8. /\ op = "tstatus" => (Going(k) <=> Leading(k, "gamestart"))
        /\ op = "tstatus" => (Base(k) <=> ~Leading(k, "gamestart"))
        /\ op = "status" => (Seating(k) <=> Leading(k, "seatplay"))
    BY <1>2, FormHead DEF After, GameSteps
  <1>9. Opening(q) <=> OpensBy(op, k)
    BY <1>3, <1>1, <1>7, <1>8 DEF Opening, OpensBy
  <1>10. InCourse(q) <=> op \in GameSteps \/ OpensBy(op, k)
    BY <1>7, <1>9 DEF InCourse, GameSteps, OpensBy
  <1>11. Rank(q) = CallsBy(op, k)
    <2>1. CASE op \in TidyOp \cup WrapOp \cup {"ready"}
      BY <1>5, <1>7, <2>1 DEF Rank, CallsBy
    <2>2. CASE op \in {"vacate", "gamestart", "gameend", "endgame", "write", "detail", "record"}
      BY <1>4, <1>7, <2>2 DEF Rank, CallsBy, TidyOp, WrapOp
    <2>3. CASE op = "tstatus"
      BY <1>4, <1>6, <1>7, <1>8, <2>3 DEF Rank, CallsBy, TidyOp, WrapOp
    <2>4. CASE op \in {"status", "unwatch", "start", "seatplay"}
      BY <1>4, <1>7, <2>4 DEF Rank, CallsBy, TidyOp, WrapOp
    <2>5. QED
      BY <1>2, <2>1, <2>2, <2>3, <2>4 DEF UserStep, TableStep, TidyOp, WrapOp
  <1>12. QED
    BY <1>1, <1>7, <1>9, <1>10, <1>11 DEF CallsBy

LEMMA NoSteps ==
  /\ Form(<<>>) /\ ~InCourse(<<>>) /\ ~Opening(<<>>) /\ Rank(<<>>) = 0 /\ ~Beginning(<<>>)
  /\ Base(<<>>)
  BY TidyFacts
  DEF Form, InCourse, Opening, Rank, Beginning, Announcing, Seating, Going, Settling, Leading

(* A step put in front of others.                                          *)
LEMMA FormCons ==
  ASSUME NEW a \in Step, NEW k \in Seq(Step), After(a.op, k), NEW q, q = <<a>> \o k
  PROVE  /\ q \in Seq(Step) /\ q # <<>> /\ Head(q) = a /\ Tail(q) = k /\ Form(q)
         /\ Opening(q) <=> OpensBy(a.op, k)
         /\ InCourse(q) <=> a.op \in GameSteps \/ OpensBy(a.op, k)
         /\ Rank(q) = CallsBy(a.op, k)
         /\ Beginning(q) <=> a.op = "start"
  <1>1. q \in Seq(Step) /\ q # <<>> /\ Head(q) = a /\ Tail(q) = k
    BY ConsFacts
  <1>2. Form(q)
    BY <1>1, AfterForm
  <1>3. QED
    BY <1>1, <1>2, FormCounts

(* The other coroutine of a table may have been made to miss a chair: its  *)
(* steps are those it had.                                                 *)
LEMMA MissedForm ==
  ASSUME NEW k \in Seq(Step), NEW l \in Seq(Step), Missed(k, l), Form(k)
  PROVE  /\ Form(l) /\ k # <<>> /\ l # <<>>
         /\ InCourse(l) <=> InCourse(k)
         /\ Opening(l) <=> Opening(k)
         /\ Rank(l) = Rank(k)
         /\ ~Beginning(l)
  <1>1. PICK c \in Chair : l = <<Again(Head(k), c)>> \o Tail(k)
    BY DEF Missed
  <1>2. k # <<>> /\ Head(k).op \in SeatLoop /\ Head(k) \in Step /\ Tail(k) \in Seq(Step)
    BY SeqParts DEF Missed
  <1>3. PICK a : a = Again(Head(k), c)
    OBVIOUS
  <1>4. a \in Step /\ a.op = Head(k).op
    <2>1. a.op = Head(k).op
      BY <1>3 DEF Again, Loop, StepOf
    <2>2. l # <<>> /\ Head(l) = a
      <3>1. Len(l) = Len(Tail(k)) + 1
        BY <1>1, <1>2, <1>3
      <3>2. l # <<>> /\ Head(l) = l[1]
        BY <1>2, <3>1
      <3>3. l[1] = a
        BY <1>1, <1>2, <1>3
      <3>4. QED
        BY <3>2, <3>3
    <2>3. QED
      BY <2>1, <2>2, SeqParts
  <1>5. PICK h \in Seq(Step) : h = Tail(k)
    BY <1>2
  <1>6. After(a.op, h)
    BY <1>2, <1>4, <1>5, FormAfter
  <1>7. /\ Form(l) /\ l # <<>>
        /\ Opening(l) <=> OpensBy(a.op, h)
        /\ InCourse(l) <=> a.op \in GameSteps \/ OpensBy(a.op, h)
        /\ Rank(l) = CallsBy(a.op, h)
        /\ Beginning(l) <=> a.op = "start"
    <2>1. l = <<a>> \o h
      BY <1>1, <1>3, <1>5
    <2>2. QED
      BY <1>4, <1>6, <2>1, FormCons
  <1>8. /\ Opening(k) <=> OpensBy(a.op, h)
        /\ InCourse(k) <=> a.op \in GameSteps \/ OpensBy(a.op, h)
        /\ Rank(k) = CallsBy(a.op, h)
    BY <1>2, <1>4, <1>5, FormCounts
  <1>9. QED
    BY <1>2, <1>4, <1>7, <1>8 DEF SeatLoop

(* These are not a game's.                                                 *)
LEMMA NotGames ==
  ASSUME NEW k \in Seq(Step),
         \/ Base(k) \/ Telling(k) \/ Vacating(k) \/ Unwatching(k) \/ Recording(k) \/ Rests(k)
         \/ Detailing(k) \/ Readying(k) \/ Beginning(k)
  PROVE  Form(k) /\ ~InCourse(k) /\ ~Opening(k)
  <1>1. CASE k = <<>>
    BY <1>1, NoSteps
  <1>2. CASE k # <<>>
    <2>1. Form(k)
      BY <1>2 DEF Form, Rests
    <2>2. PICK op, h : op = Head(k).op /\ h = Tail(k) /\ h \in Seq(Step)
      BY <1>2, SeqParts
    <2>3. /\ Opening(k) <=> OpensBy(op, h)
          /\ InCourse(k) <=> op \in GameSteps \/ OpensBy(op, h)
      BY <1>2, <2>1, <2>2, FormCounts
    <2>4. CASE Base(k)
      <3>1. op \in TidyOp \cup WrapOp \cup {"tstatus"} /\ (op = "tstatus" => h = <<>>)
        BY <1>2, <2>2, <2>4, BaseHead
      <3>2. QED
        BY <2>1, <2>3, <3>1 DEF TidyOp, WrapOp, GameSteps, OpensBy, Leading
    <2>5. CASE Telling(k)
      <3>1. op = "tstatus" /\ Base(h)
        BY <2>2, <2>5 DEF Telling, Leading
      <3>2. ~Leading(h, "gamestart")
        BY <2>2, <3>1, FormHead DEF GameSteps
      <3>3. QED
        BY <2>1, <2>3, <3>1, <3>2 DEF GameSteps, OpensBy
    <2>6. CASE \/ Vacating(k) \/ Unwatching(k) \/ Recording(k) \/ Detailing(k) \/ Readying(k)
               \/ Beginning(k)
      <3>1. op \in {"vacate", "unwatch", "record", "detail", "ready", "start"}
        BY <2>2, <2>6
        DEF Vacating, Unwatching, Recording, Detailing, Readying, Beginning, Leading
      <3>2. QED
        BY <2>1, <2>3, <3>1 DEF GameSteps, OpensBy
    <2>7. QED
      BY <1>2, <2>4, <2>5, <2>6 DEF Rests
  <1>3. QED
    BY <1>1, <1>2

(* A step that is done leaves a form, and no more calls than there were.    *)
LEMMA AfterDone ==
  ASSUME NEW op \in UserStep \cup TableStep, NEW k \in Seq(Step), After(op, k)
  PROVE  /\ Form(k) /\ ~Beginning(k)
         /\ InCourse(k) => op \in {"seatplay", "write"} \/ OpensBy(op, k)
         /\ Opening(k) => op = "seatplay" \/ (op = "status" /\ Leading(k, "seatplay"))
         /\ Rank(k) \in Nat /\ Rank(k) <= CallsBy(op, k)
         /\ op = "tstatus" => Bit(k # <<>>) + Rank(k) <= CallsBy(op, k)
         /\ op = "record" => Rank(k) = 0
  <1>1. /\ Rank(k) \in {0, 1, 2} /\ (Base(k) => Rank(k) = 0)
        /\ \/ Telling(k) \/ Rests(k) \/ Going(k) \/ Vacating(k) \/ Settling(k) \/ Recording(k)
           => Rank(k) \in {0, 1}
        /\ Going(k) => Rank(k) = 1
    <2>1. Going(k) => ~Base(k) /\ ~Readying(k)
      <3>1. Base(k) => ~Leading(k, "gamestart")
        BY FormHead DEF GameSteps
      <3>2. QED
        BY <3>1 DEF Going, Readying, Leading
    <2>2. Rests(k) => Rank(k) \in {0, 1}
      BY NoSteps DEF Rests, Rank
    <2>3. QED
      BY <2>1, <2>2 DEF Rank
  <1>2. /\ ~Leading(k, "start") => ~Beginning(k)
        /\ k = <<>> => ~Beginning(k)
    BY DEF Beginning, Leading
  <1>3. Base(k) \/ Rests(k) => ~Beginning(k)
    <2>1. Base(k) /\ k # <<>> => Head(k).op \in TidyOp \cup WrapOp \cup {"tstatus"}
      BY BaseHead
    <2>2. QED
      BY <2>1 DEF Beginning, Leading, Rests, Telling, TidyOp, WrapOp
  <1>4. CASE op \in {"status"}
    <2>1. CASE Seating(k)
      <3>1. Leading(k, "seatplay") /\ ~Beginning(k) /\ Form(k)
        BY <2>1 DEF Seating, Beginning, Leading, Form
      <3>2. QED
        BY <1>1, <1>4, <3>1 DEF OpensBy, CallsBy, TidyOp, WrapOp
    <2>2. CASE Vacating(k) \/ Unwatching(k) \/ Base(k)
      <3>1. ~Beginning(k)
        BY <1>3, <2>2 DEF Vacating, Unwatching, Beginning, Leading
      <3>2. QED
        BY <1>1, <1>4, <2>2, <3>1, NotGames DEF CallsBy, TidyOp, WrapOp
    <2>3. QED
      BY <1>4, <2>1, <2>2 DEF After
  <1>5. CASE op = "tstatus"
    <2>1. CASE Base(k)
      <3>1. ~Leading(k, "gamestart")
        BY <2>1, FormHead DEF GameSteps
      <3>2. QED
        BY <1>1, <1>3, <1>5, <2>1, <3>1, NotGames DEF CallsBy, TidyOp, WrapOp, Bit
    <2>2. CASE Going(k)
      <3>1. Leading(k, "gamestart") /\ ~Beginning(k) /\ Form(k) /\ k # <<>>
        BY <2>2 DEF Going, Beginning, Leading, Form
      <3>2. Form(k) /\ ~Opening(k)
        <4>1. ~OpensBy(Head(k).op, Tail(k))
          BY <3>1 DEF Leading, OpensBy
        <4>2. QED
          BY <3>1, <4>1, FormCounts
      <3>3. QED
        BY <1>1, <1>5, <2>2, <3>1, <3>2 DEF CallsBy, TidyOp, WrapOp, Bit, OpensBy
    <2>3. QED
      BY <1>5, <2>1, <2>2 DEF After
  <1>6. CASE op = "seatplay"
    <2>1. Announcing(k) /\ Form(k) /\ ~Beginning(k)
      BY <1>6 DEF After, Form, Announcing, Beginning, Leading
    <2>2. QED
      BY <1>1, <1>6, <2>1 DEF CallsBy, TidyOp, WrapOp
  <1>7. CASE op = "write"
    <2>1. Settling(k) /\ Leading(k, "endgame") /\ k # <<>>
      BY <1>7 DEF After, Settling, Leading
    <2>2. Form(k) /\ ~Beginning(k) /\ ~Opening(k)
      <3>1. Form(k) /\ ~Beginning(k)
        BY <2>1 DEF Form, Beginning, Leading
      <3>2. ~OpensBy(Head(k).op, Tail(k))
        BY <2>1 DEF Leading, OpensBy
      <3>3. QED
        BY <2>1, <3>1, <3>2, FormCounts
    <2>3. QED
      BY <1>1, <1>7, <2>1, <2>2 DEF CallsBy, TidyOp, WrapOp
  <1>8. CASE op \in {"standup", "unwatch", "clearrecs", "sitagain", "reset", "late", "rmtimer",
                     "record"}
    <2>1. Base(k)
      BY <1>8 DEF After, Base
    <2>2. QED
      BY <1>1, <1>3, <1>8, <2>1, NotGames DEF CallsBy, TidyOp, WrapOp
  <1>9. CASE op \in {"vacate", "start", "gamestart", "gameend", "endgame", "ready", "detail"}
    <2>1. /\ op = "vacate" => Telling(k)
          /\ op \in {"start", "gamestart"} => Rests(k)
          /\ op \in {"gameend", "endgame", "ready"} => k = <<>>
          /\ op = "detail" => Recording(k)
      BY <1>9 DEF After
    <2>2. ~Beginning(k)
      BY <1>2, <1>3, <1>9, <2>1 DEF Telling, Recording, Beginning, Leading
    <2>3. Form(k) /\ ~InCourse(k) /\ ~Opening(k)
      BY <1>9, <2>1, NotGames, NoSteps
    <2>4. Rank(k) <= CallsBy(op, k)
      BY <1>1, <1>9, <2>1, NoSteps DEF CallsBy, TidyOp, WrapOp
    <2>5. QED
      BY <1>1, <1>9, <2>2, <2>3, <2>4
  <1>10. QED
    BY <1>4, <1>5, <1>6, <1>7, <1>8, <1>9 DEF UserStep, TableStep

-----------------------------------------------------------------------------
(* What a step of coroutine x of s, which turns its steps o into p, means  *)
(* for the course of the game: nothing; the next phase; the start of a     *)
(* game by the coroutine that is to announce it; or the step that begins   *)
(* the phases, or ends the game, by the one coroutine that does.           *)
SameGame(s) == tb'[s].started = tb[s].started /\ tb'[s].gstat = tb[s].gstat

CourseStep(s, o, p) ==
  \/ SameGame(s) /\ (InCourse(p) => InCourse(o))
  \/ /\ tb[s].gstat # "FREE" /\ tb'[s].started = tb[s].started
     /\ InCourse(p) => tb'[s].gstat = "FREE"
  \/ ~tb[s].started /\ tb'[s].started /\ tb'[s].gstat = tb[s].gstat /\ Beginning(o)
  \/ /\ InCourse(o) /\ ~InCourse(p)
     /\ tb'[s].gstat = tb[s].gstat \/ tb'[s].started = tb[s].started

(* What the timer's coroutine spends, at an empty table, of the calls it   *)
(* may still come to.                                                      *)
Spends(s, o, p) ==
  /\ Bit("T" \in wt'[s] /\ InCourse(p)) + Bit(Opening(p)) <= Bit(Opening(o))
  /\ tb[s].ob = {} => Bit("T" \in wt'[s] /\ p # <<>>) + Rank(p) <= Rank(o)

(* A step that empties the table goes on, if at all, with the table's      *)
(* status.                                                                 *)
GoesBy(s, x, o, p) ==
  /\ Form(p) /\ (Beginning(p) => Running(s, x)' /\ ~Empty(s)')
  /\ CourseStep(s, o, p)
  /\ Empty(s) /\ Empty(s)' /\ x = "T" => Spends(s, o, p)
  /\ ~Empty(s) /\ Empty(s)' => (Base(p) \/ Telling(p)) /\ x \notin wt'[s]

Goes(s, x) == GoesBy(s, x, co[s][x], co'[s][x])

(* What the form of a coroutine says of the step it is at.                 *)
LEMMA AtForm ==
  ASSUME TabTypeOK, NEW s \in Service, NEW x \in Coroutine, NEW op, At(s, x, op),
         Form(co[s][x])
  PROVE  /\ Rest(s, x) \in Seq(Step) /\ After(op, Rest(s, x)) /\ op \in UserStep \cup TableStep
         /\ Opening(co[s][x]) <=> OpensBy(op, Rest(s, x))
         /\ InCourse(co[s][x]) <=> op \in GameSteps \/ OpensBy(op, Rest(s, x))
         /\ Rank(co[s][x]) = CallsBy(op, Rest(s, x))
         /\ Beginning(co[s][x]) <=> op = "start"
  <1>1. /\ co[s][x] # <<>> /\ co[s][x] \in Seq(Step) /\ Tail(co[s][x]) \in Seq(Step)
        /\ Top(s, x) \in Step /\ Top(s, x).op = op
    BY AtFacts
  <1>2. op \in UserStep \cup TableStep
    BY <1>1, StepShape
  <1>3. Head(co[s][x]).op = op
    BY <1>1 DEF Top
  <1>4. QED
    BY <1>1, <1>2, <1>3, FormAfter, FormCounts DEF Rest

LEMMA NotSuspended ==
  ASSUME TabTypeOK, NEW s \in Service, NEW x, Taken(s, x)
  PROVE  x \notin wt'[s]
  BY DEF TabTypeOK, Taken

LEMMA SamePlacesEmpty ==
  ASSUME NEW s \in Service, SamePlaces(s)
  PROVE  Empty(s)' <=> Empty(s)
  BY DEF SamePlaces, Empty, Occupied

(* A step that is not suspended and leaves everybody in his place.         *)
LEMMA QuietGoes ==
  ASSUME NEW s \in Service, NEW x, SamePlaces(s), x \notin wt'[s],
         NEW o, NEW p, p = co'[s][x], o = co[s][x], Form(p), CourseStep(s, o, p),
         Rank(p) \in Nat, Rank(o) \in Nat,
         Beginning(p) => Running(s, x)' /\ ~Empty(s),
         Empty(s) => /\ Opening(p) => Opening(o)
                     /\ tb[s].ob = {} => Rank(p) <= Rank(o)
  PROVE  Goes(s, x)
  <1>1. Empty(s)' <=> Empty(s)
    BY SamePlacesEmpty
  <1>2. Empty(s) /\ x = "T" => Spends(s, o, p)
    BY DEF Spends, Bit
  <1>3. QED
    BY <1>1, <1>2 DEF Goes, GoesBy

LEMMA ThenGoes ==
  ASSUME ChanTypeOK, TabTypeOK, NEW s \in Service, NEW x \in Coroutine, NEW op, At(s, x, op),
         Form(co[s][x]), SamePlaces(s), NEW steps, Then(s, x, steps),
         NEW p \in Seq(Step), p = steps \o Rest(s, x), Form(p), Rank(p) \in Nat,
         CourseStep(s, co[s][x], p),
         Beginning(p) => ~Empty(s),
         Empty(s) => (Opening(p) => OpensBy(op, Rest(s, x))) /\ Rank(p) <= CallsBy(op, Rest(s, x))
  PROVE  Goes(s, x)
  <1>1. p = co'[s][x] /\ (p = <<>> \/ Running(s, x)')
    BY ThenCo
  <1>2. x \notin wt'[s]
    BY NotSuspended DEF Then
  <1>3. /\ Opening(co[s][x]) <=> OpensBy(op, Rest(s, x))
        /\ Rank(co[s][x]) = CallsBy(op, Rest(s, x))
    BY AtForm
  <1>4. Rank(co[s][x]) \in Nat
    BY <1>3 DEF CallsBy
  <1>5. Beginning(p) => Running(s, x)' /\ ~Empty(s)
    BY <1>1, NoSteps
  <1>6. QED
    BY <1>1, <1>2, <1>3, <1>4, <1>5, QuietGoes

(* The step is done, and the game as it was.                               *)
LEMMA StepDone ==
  ASSUME ChanTypeOK, TabTypeOK, NEW s \in Service, NEW x \in Coroutine, NEW op, At(s, x, op),
         Form(co[s][x]), SamePlaces(s), Then(s, x, <<>>),
         SameGame(s) \/ CourseStep(s, co[s][x], Rest(s, x)), op # "status"
  PROVE  Goes(s, x)
  <1>1. PICK k \in Seq(Step) : /\ k = Rest(s, x) /\ After(op, k) /\ op \in UserStep \cup TableStep
                               /\ InCourse(co[s][x]) <=> op \in GameSteps \/ OpensBy(op, k)
    BY AtForm
  <1>2. /\ Form(k) /\ ~Beginning(k)
        /\ InCourse(k) => op \in {"seatplay", "write"} \/ OpensBy(op, k)
        /\ Opening(k) => op = "seatplay" \/ (op = "status" /\ Leading(k, "seatplay"))
        /\ Rank(k) \in Nat /\ Rank(k) <= CallsBy(op, k)
    BY <1>1, AfterDone
  <1>3. CourseStep(s, co[s][x], k)
    BY <1>1, <1>2 DEF CourseStep, GameSteps
  <1>4. k = <<>> \o Rest(s, x)
    BY <1>1, NoCons
  <1>5. Opening(k) => OpensBy(op, Rest(s, x))
    BY <1>2 DEF OpensBy
  <1>6. QED
    BY <1>1, <1>2, <1>3, <1>4, <1>5, ThenGoes

-----------------------------------------------------------------------------
(* Each of the steps a coroutine does.  An error ends it.                  *)
LEMMA CrashGoes ==
  ASSUME ChanTypeOK, TabTypeOK, NEW s \in Service, NEW x \in Coroutine, NEW op, At(s, x, op),
         Form(co[s][x]), Crash(s, x)
  PROVE  Goes(s, x)
  <1>1. co'[s][x] = <<>> /\ SamePlaces(s)
    BY CrashCo
  <1>2. SameGame(s) /\ x \notin wt'[s]
    BY DEF Crash, SameGame, TabTypeOK, TableState
  <1>3. CourseStep(s, co[s][x], <<>>)
    BY <1>2, NoSteps DEF CourseStep
  <1>4. Rank(co[s][x]) \in Nat
    BY DEF Rank
  <1>5. QED
    BY <1>1, <1>2, <1>3, <1>4, NoSteps, QuietGoes

LEMMA TableStatusGoes ==
  ASSUME ChanTypeOK, TabTypeOK, NEW s \in Service, NEW x \in Coroutine, Form(co[s][x]),
         update_table_status(s, x)
  PROVE  Goes(s, x)
  <1>1. At(s, x, "tstatus") /\ tb' = tb
    BY DEF update_table_status
  <1>2. PICK ev : CallMgr(s, x, ev, <<>>)
    BY DEF update_table_status
  <1>3. co'[s][x] = <<>> \o Rest(s, x) /\ x \in wt'[s]
    BY <1>2, CallCo
  <1>4. PICK k \in Seq(Step) : /\ k = Rest(s, x) /\ After("tstatus", k)
                               /\ Opening(co[s][x]) <=> OpensBy("tstatus", k)
                               /\ InCourse(co[s][x]) <=>
                                    "tstatus" \in GameSteps \/ OpensBy("tstatus", k)
                               /\ Rank(co[s][x]) = CallsBy("tstatus", k)
                               /\ "tstatus" \in UserStep \cup TableStep
    BY <1>1, AtForm
  <1>5. co'[s][x] = k
    BY <1>3, <1>4, NoCons
  <1>6. /\ Form(k) /\ ~Beginning(k) /\ ~Opening(k)
        /\ InCourse(k) => OpensBy("tstatus", k)
        /\ Bit(k # <<>>) + Rank(k) <= CallsBy("tstatus", k)
    BY <1>4, AfterDone
  <1>7. SameGame(s) /\ (Empty(s)' <=> Empty(s))
    BY <1>1 DEF SameGame, Empty, Occupied
  <1>8. CourseStep(s, co[s][x], k)
    BY <1>4, <1>6, <1>7 DEF CourseStep
  <1>9. x = "T" => Spends(s, co[s][x], k)
    BY <1>3, <1>4, <1>6 DEF Spends, Bit
  <1>10. QED
    BY <1>5, <1>6, <1>7, <1>8, <1>9 DEF Goes, GoesBy

LEMMA StatusGoes ==
  ASSUME ChanTypeOK, TabTypeOK, Waits, NEW s \in Service, NEW x \in Coroutine, Form(co[s][x]),
         Shape(s, x), update_user_status(s, x)
  PROVE  Goes(s, x)
  <1>1. At(s, x, "status") /\ Informs(s, x)
    BY InformsKind DEF update_user_status
  <1>2. PICK k \in Seq(Step) : /\ k = Rest(s, x) /\ After("status", k)
                               /\ Opening(co[s][x]) <=> OpensBy("status", k)
                               /\ InCourse(co[s][x]) <=>
                                    "status" \in GameSteps \/ OpensBy("status", k)
                               /\ Rank(co[s][x]) = CallsBy("status", k)
                               /\ "status" \in UserStep \cup TableStep
    BY <1>1, AtForm
  <1>3. /\ Form(k) /\ ~Beginning(k)
        /\ InCourse(k) => OpensBy("status", k)
        /\ Opening(k) => Leading(k, "seatplay")
    BY <1>2, AfterDone
  <1>4. co'[s][x] = k /\ SameGame(s) /\ (Empty(s)' <=> Empty(s))
    BY <1>1, <1>2 DEF Informs, SameGame, Empty, Occupied
  <1>5. CourseStep(s, co[s][x], k)
    BY <1>2, <1>3, <1>4 DEF CourseStep
  <1>6. ASSUME Empty(s), x = "T"
        PROVE  ~Leading(k, "seatplay") /\ tb[s].ob # {}
    <2>1. \A c \in Chair : tb[s].seat[c] = None
      BY <1>6 DEF Empty, Occupied
    <2>2. PICK q \in Step : /\ q = Top(s, x) /\ Leads(s, x, q, k) /\ q.op = "status"
                            /\ Running(s, x) /\ q.u \in User
      BY <1>1, <1>2, StepShape DEF Informs, UserStep
    <2>3. ~Seated(s, q.u) /\ ~SitsAt(s, q)
      BY <2>1, <2>2, RoomAssumption DEF Seated, SitsAt
    <2>4. ~Fresh(s, q.u)
      BY <1>6, <2>2, WhoRuns DEF Fresh, Running
    <2>5. /\ k # <<>> /\ Head(k).op = "unwatch" /\ q.u \in tb[s].ob
      BY <2>2, <2>3, <2>4 DEF Leads, Fits, Frees
    <2>6. QED
      BY <2>5 DEF Leading
  <1>7. Empty(s) /\ x = "T" => Spends(s, co[s][x], k)
    BY <1>2, <1>3, <1>6 DEF Spends, Bit, OpensBy
  <1>8. QED
    BY <1>3, <1>4, <1>5, <1>7 DEF Goes, GoesBy

(* Two steps put in front of others.                                       *)
LEMMA StepsTwo ==
  ASSUME NEW a \in Step, NEW b \in Step, NEW k \in Seq(Step)
  PROVE  <<a, b>> \o k = <<a>> \o (<<b>> \o k)
  <1>1. <<b>> \o k \in Seq(Step) /\ <<a, b>> \o k = <<a>> \o (<<b>> \o k)
    BY ConsTwo, ConsFacts
  <1>2. QED
    BY <1>1

LEMMA FormTwo ==
  ASSUME NEW a \in Step, NEW b \in Step, NEW k \in Seq(Step), After(b.op, k),
         NEW h, h = <<b>> \o k, After(a.op, h), NEW q, q = <<a, b>> \o k
  PROVE  /\ q \in Seq(Step) /\ q # <<>> /\ Form(q) /\ h # <<>> /\ Head(h) = b /\ Form(h)
         /\ Opening(q) <=> OpensBy(a.op, h)
         /\ InCourse(q) <=> a.op \in GameSteps \/ OpensBy(a.op, h)
         /\ Rank(q) = CallsBy(a.op, h)
         /\ Beginning(q) <=> a.op = "start"
  <1>1. h \in Seq(Step) /\ Form(h) /\ h # <<>> /\ Head(h) = b
    BY FormCons
  <1>2. q = <<a>> \o h
    <2>1. <<a, b>> \o k = <<a>> \o (<<b>> \o k)
      <3>1. a \in Step /\ b \in Step /\ k \in Seq(Step)
        OBVIOUS
      <3>2. QED
        BY <3>1, StepsTwo, Zenon
    <2>2. QED
      BY <2>1, Zenon
  <1>3. QED
    BY <1>1, <1>2, FormCons

LEMMA StandupGoes ==
  ASSUME ChanTypeOK, TabTypeOK, Waits, NEW s \in Service, NEW x \in Coroutine, Form(co[s][x]),
         user_standup(s, x)
  PROVE  Goes(s, x)
  <1>1. At(s, x, "standup") /\ Framed(s)
    BY StandupSteps
  <1>2. PICK k \in Seq(Step) : /\ k = Rest(s, x) /\ After("standup", k)
                               /\ Opening(co[s][x]) <=> OpensBy("standup", k)
                               /\ Rank(co[s][x]) = CallsBy("standup", k)
                               /\ "standup" \in UserStep \cup TableStep
    BY <1>1, AtForm
  <1>3. SameGame(s) /\ SamePlaces(s) /\ x \notin wt'[s]
    BY <1>1, NotSuspended DEF user_standup, SameGame, Framed
  <1>4. PICK q : q = Top(s, x) /\ q \in Step /\ q.op = "standup" /\ q.u \in User
    BY <1>1, AtFacts, StepShape DEF UserStep
  <1>5. CASE ~StandsUp(s, x)
    <2>1. co'[s][x] = k
      BY <1>2, <1>5, StandupSteps
    <2>2. /\ Form(k) /\ ~Beginning(k) /\ ~InCourse(k) /\ ~Opening(k)
          /\ Rank(k) \in Nat /\ Rank(k) <= CallsBy("standup", k)
      BY <1>2, AfterDone DEF OpensBy
    <2>3. CourseStep(s, co[s][x], k)
      BY <1>3, <2>2 DEF CourseStep
    <2>4. Rank(co[s][x]) \in Nat
      BY DEF Rank
    <2>5. QED
      BY <1>2, <1>3, <2>1, <2>2, <2>3, <2>4, QuietGoes
  <1>6. CASE StandsUp(s, x) /\ q.c \in Chair /\ tb[s].seat[q.c] = q.u
    <2> DEFINE old == cp[s][q.u].chair
    <2>1. PICK a, b, c : /\ a = SetStatus(q.u, "FREE", 0) /\ b = DoFor("vacate", q.u, old)
                         /\ c = Do("tstatus")
      OBVIOUS
    <2>2. old \in 0 .. MaxChair /\ 0 \in 0 .. MaxChair
      BY <1>4, RoomAssumption DEF TabTypeOK, CopyRec
    <2> HIDE DEF old
    <2>3. /\ a \in Step /\ b \in Step /\ c \in Step
          /\ a.op = "status" /\ b.op = "vacate" /\ c.op = "tstatus"
      <3>1. "status" \in UserStep /\ "vacate" \in UserStep /\ "unwatch" \in UserStep
            /\ "tstatus" \in TableStep /\ "FREE" \in Status
        BY DEF UserStep, TableStep, Status
      <3>2. a \in Step /\ b \in Step /\ c \in Step
        BY <1>4, <2>1, <2>2, <3>1, DoType
      <3>3. QED
        BY <2>1, <3>2 DEF SetStatus, DoFor, Do, StepOf
    <2>4. co'[s][x] = <<a, b, c>> \o k
      BY <1>2, <1>4, <1>6, <2>1, StandupSteps DEF old
    <2>5. PICK h \in Seq(Step) : h = <<c>> \o k /\ Telling(h)
      <3>1. Base(k) /\ After("tstatus", k)
        BY <1>2 DEF After
      <3>2. PICK h \in Seq(Step) : h = <<c>> \o k /\ h # <<>> /\ Head(h) = c /\ Tail(h) = k
        BY <2>3, <3>1, FormCons
      <3>3. QED
        BY <2>3, <3>1, <3>2 DEF Telling, Leading
    <2>6. PICK g \in Seq(Step) : g = <<b>> \o h /\ Vacating(g)
      <3>1. After("vacate", h)
        BY <2>5 DEF After
      <3>2. PICK g \in Seq(Step) : g = <<b>> \o h /\ g # <<>> /\ Head(g) = b /\ Tail(g) = h
        BY <2>3, <3>1, FormCons
      <3>3. QED
        BY <2>3, <2>5, <3>2 DEF Vacating, Leading
    <2>7. co'[s][x] = <<a>> \o g
      <3>1. <<a, b, c>> \o k = <<a>> \o (<<b>> \o (<<c>> \o k))
        <4>1. a \in Step /\ b \in Step /\ c \in Step /\ k \in Seq(Step)
          BY <2>3
        <4>2. QED
          BY <4>1, ConsThree, Zenon
      <3>2. QED
        BY <2>4, <2>5, <2>6, <3>1, Zenon
    <2>8. After("status", g) /\ ~OpensBy("status", g)
      BY <2>6 DEF After, OpensBy, Vacating, Leading
    <2>9. /\ Form(co'[s][x]) /\ ~Opening(co'[s][x]) /\ ~InCourse(co'[s][x])
          /\ ~Beginning(co'[s][x])
      BY <2>3, <2>7, <2>8, FormCons DEF GameSteps
    <2>10. ~Empty(s)
      BY <1>4, <1>6, RoomAssumption DEF Empty, Occupied
    <2>11. CourseStep(s, co[s][x], co'[s][x])
      BY <1>3, <2>9 DEF CourseStep
    <2>12. QED
      BY <1>3, <2>9, <2>10, <2>11, QuietGoes DEF Rank
  <1>7. CASE StandsUp(s, x) /\ ~(q.c \in Chair /\ tb[s].seat[q.c] = q.u)
    <2> DEFINE old == cp[s][q.u].chair
    <2>1. PICK a, b : a = SetStatus(q.u, "FREE", 0) /\ b = DoFor("unwatch", q.u, old)
      OBVIOUS
    <2>2. old \in 0 .. MaxChair /\ 0 \in 0 .. MaxChair
      BY <1>4, RoomAssumption DEF TabTypeOK, CopyRec
    <2> HIDE DEF old
    <2>3. a \in Step /\ b \in Step /\ a.op = "status" /\ b.op = "unwatch"
      <3>1. "status" \in UserStep /\ "vacate" \in UserStep /\ "unwatch" \in UserStep
            /\ "tstatus" \in TableStep /\ "FREE" \in Status
        BY DEF UserStep, TableStep, Status
      <3>2. a \in Step /\ b \in Step
        BY <1>4, <2>1, <2>2, <3>1, DoType
      <3>3. QED
        BY <2>1, <3>2 DEF SetStatus, DoFor, Do, StepOf
    <2>4. co'[s][x] = <<a, b>> \o k
      BY <1>2, <1>4, <1>7, <2>1, StandupSteps DEF old
    <2>5. PICK h \in Seq(Step) : h = <<b>> \o k /\ Unwatching(h)
      <3>1. Base(k) /\ After("unwatch", k)
        BY <1>2 DEF After
      <3>2. PICK h \in Seq(Step) : h = <<b>> \o k /\ h # <<>> /\ Head(h) = b /\ Tail(h) = k
        BY <2>3, <3>1, FormCons
      <3>3. QED
        BY <2>3, <3>1, <3>2 DEF Unwatching, Leading
    <2>6. co'[s][x] = <<a>> \o h
      <3>1. <<a, b>> \o k = <<a>> \o (<<b>> \o k)
        <4>1. a \in Step /\ b \in Step /\ k \in Seq(Step)
          BY <2>3
        <4>2. QED
          BY <4>1, StepsTwo, Zenon
      <3>2. QED
        BY <2>4, <2>5, <3>1, Zenon
    <2>7. After("status", h) /\ ~OpensBy("status", h)
      BY <2>5 DEF After, OpensBy, Unwatching, Leading
    <2>8. /\ Form(co'[s][x]) /\ ~Opening(co'[s][x]) /\ ~InCourse(co'[s][x])
          /\ ~Beginning(co'[s][x])
      BY <2>3, <2>6, <2>7, FormCons DEF GameSteps
    <2>9. tb[s].ob # {}
      BY <1>4, <1>7 DEF StandsUp
    <2>10. CourseStep(s, co[s][x], co'[s][x])
      BY <1>3, <2>8 DEF CourseStep
    <2>11. QED
      BY <1>3, <2>8, <2>9, <2>10, QuietGoes DEF Rank
  <1>8. QED
    BY <1>5, <1>6, <1>7

(* A table that may start has players.                                     *)
LEMMA StartsOccupied ==
  ASSUME NEW seat, NEW copy, NEW c, CheckStart(seat, copy, c)
  PROVE  Occupied(seat) # {}
  <1>1. SUFFICES ASSUME Occupied(seat) = {}
                 PROVE  FALSE
    OBVIOUS
  <1>2. Cardinality({}) = 0
    BY FS_EmptySet
  <1>3. 1 \in Chair
    BY RoomAssumption DEF Chair
  <1>4. QED
    BY <1>1, <1>2, <1>3 DEF CheckStart

LEMMA VacateGoes ==
  ASSUME ChanTypeOK, TabTypeOK, NEW s \in Service, NEW x \in Coroutine, Form(co[s][x]),
         vacate(s, x)
  PROVE  Goes(s, x)
  <1>1. At(s, x, "vacate")
    BY DEF vacate
  <1>2. PICK seat : /\ seat = Cleared(s, Top(s, x).c)
                    /\ Forget(s, seat, IF Occupied(seat) = {} THEN {} ELSE tb[s].ob)
                    /\ Then(s, x, IF CheckStart(seat, cp[s], 0) THEN <<Do("start")>> ELSE <<>>)
    BY DEF vacate
  <1>3. PICK k \in Seq(Step) : /\ k = Rest(s, x) /\ After("vacate", k)
                               /\ Opening(co[s][x]) <=> OpensBy("vacate", k)
                               /\ Rank(co[s][x]) = CallsBy("vacate", k)
                               /\ "vacate" \in UserStep \cup TableStep
    BY <1>1, AtForm
  <1>4. tb'[s].seat = seat /\ SameGame(s) /\ x \notin wt'[s]
    BY <1>2, NotSuspended DEF Forget, TabTypeOK, TableState, SameGame, Then
  <1>5. Telling(k) /\ Form(k) /\ ~InCourse(k) /\ ~Opening(k) /\ ~Beginning(k)
        /\ Rank(k) \in Nat /\ Rank(k) <= CallsBy("vacate", k)
    BY <1>3, AfterDone DEF After, OpensBy
  <1>6. CASE ~CheckStart(seat, cp[s], 0)
    <2>1. co'[s][x] = k
      <3>1. Then(s, x, <<>>)
        BY <1>2, <1>6
      <3>2. QED
        BY <1>3, <3>1, ThenCo, NoCons
    <2>2. CourseStep(s, co[s][x], k)
      BY <1>4, <1>5 DEF CourseStep
    <2>3. x = "T" => Spends(s, co[s][x], k)
      BY <1>3, <1>4, <1>5 DEF Spends, Bit
    <2>4. QED
      BY <1>4, <1>5, <2>1, <2>2, <2>3 DEF Goes, GoesBy
  <1>7. CASE CheckStart(seat, cp[s], 0)
    <2>1. PICK a : a = Do("start")
      OBVIOUS
    <2>2. a \in Step /\ a.op = "start"
      BY <2>1, DoType DEF TableStep, Do, StepOf
    <2>3. co'[s][x] = <<a>> \o k
      <3>1. Then(s, x, <<a>>)
        BY <1>2, <1>7, <2>1
      <3>2. QED
        BY <1>3, <3>1, ThenCo
    <2>4. After("start", k)
      BY <1>5 DEF After, Rests
    <2>5. PICK p \in Seq(Step) :
                 /\ p = co'[s][x] /\ p # <<>> /\ Form(p)
                 /\ InCourse(p) <=> a.op \in GameSteps \/ OpensBy(a.op, k)
      BY <2>2, <2>3, <2>4, FormCons
    <2>6. ~InCourse(p)
      BY <2>2, <2>5 DEF GameSteps, OpensBy
    <2>7. Running(s, x)'
      <3>1. Then(s, x, <<a>>)
        BY <1>2, <1>7, <2>1
      <3>2. QED
        BY <2>5, <3>1, ThenCo
    <2>8. ~Empty(s)'
      BY <1>4, <1>7, StartsOccupied DEF Empty
    <2>9. CourseStep(s, co[s][x], p)
      BY <1>4, <2>6 DEF CourseStep
    <2>10. QED
      BY <2>5, <2>7, <2>8, <2>9 DEF Goes, GoesBy
  <1>8. QED
    BY <1>6, <1>7

LEMMA UnwatchGoes ==
  ASSUME ChanTypeOK, TabTypeOK, NEW s \in Service, NEW x \in Coroutine, Form(co[s][x]),
         unwatch(s, x)
  PROVE  Goes(s, x)
  <1>1. /\ At(s, x, "unwatch") /\ Then(s, x, <<>>)
        /\ Forget(s, Cleared(s, Top(s, x).c), tb[s].ob \ {Top(s, x).u})
    BY DEF unwatch
  <1>2. PICK k \in Seq(Step) : /\ k = Rest(s, x) /\ After("unwatch", k)
                               /\ Opening(co[s][x]) <=> OpensBy("unwatch", k)
                               /\ Rank(co[s][x]) = CallsBy("unwatch", k)
                               /\ "unwatch" \in UserStep \cup TableStep
    BY <1>1, AtForm
  <1>3. SameGame(s) /\ x \notin wt'[s]
    BY <1>1, NotSuspended DEF Forget, TabTypeOK, TableState, SameGame, Then
  <1>4. Base(k) /\ Form(k) /\ ~InCourse(k) /\ ~Opening(k) /\ ~Beginning(k)
        /\ Rank(k) \in Nat /\ Rank(k) <= CallsBy("unwatch", k)
    BY <1>2, AfterDone DEF After, OpensBy
  <1>5. co'[s][x] = k
    BY <1>1, <1>2, ThenCo, NoCons
  <1>6. CourseStep(s, co[s][x], k)
    BY <1>3, <1>4 DEF CourseStep
  <1>7. x = "T" => Spends(s, co[s][x], k)
    BY <1>2, <1>3, <1>4 DEF Spends, Bit
  <1>8. QED
    BY <1>3, <1>4, <1>5, <1>6, <1>7 DEF Goes, GoesBy

LEMMA StartGoes ==
  ASSUME ChanTypeOK, TabTypeOK, NEW s \in Service, NEW x \in Coroutine, Form(co[s][x]),
         Beginning(co[s][x]) => ~Empty(s), start_game(s, x)
  PROVE  Goes(s, x)
  <1>1. /\ At(s, x, "start") /\ tb' = [tb EXCEPT ![s].started = TRUE]
        /\ Then(s, x, IF tb[s].started THEN <<>>
                ELSE <<Loop("seatplay", {}), Do("tstatus"), Do("gamestart")>>)
    BY DEF start_game
  <1>2. PICK k \in Seq(Step) : k = Rest(s, x) /\ After("start", k) /\ Beginning(co[s][x])
    BY <1>1, AtForm
  <1>3. /\ SamePlaces(s) /\ tb'[s].started /\ tb'[s].gstat = tb[s].gstat
        /\ tb[s].started \in BOOLEAN
    BY <1>1 DEF TabTypeOK, TableState, SamePlaces
  <1>4. CASE tb[s].started
    <2>1. Then(s, x, <<>>) /\ SameGame(s)
      BY <1>1, <1>3, <1>4 DEF SameGame
    <2>2. QED
      BY <1>1, <1>3, <2>1, StepDone
  <1>5. CASE ~tb[s].started
    <2>1. PICK a, b, c : a = Loop("seatplay", {}) /\ b = Do("tstatus") /\ c = Do("gamestart")
      OBVIOUS
    <2>2. /\ a \in Step /\ b \in Step /\ c \in Step
          /\ a.op = "seatplay" /\ b.op = "tstatus" /\ c.op = "gamestart"
      BY <2>1, DoType DEF TableStep, Do, Loop, StepOf
    <2>3. Then(s, x, <<a, b, c>>)
      BY <1>1, <1>5, <2>1
    <2>4. PICK h \in Seq(Step) : h = <<c>> \o k /\ Going(h)
      <3>1. Rests(k) /\ After("gamestart", k)
        BY <1>2 DEF After
      <3>2. PICK h \in Seq(Step) : h = <<c>> \o k /\ h # <<>> /\ Head(h) = c /\ Tail(h) = k
        BY <2>2, <3>1, FormCons
      <3>3. QED
        BY <2>2, <3>1, <3>2 DEF Going, Leading
    <2>5. PICK g \in Seq(Step) : g = <<b>> \o h /\ Announcing(g)
      <3>1. After("tstatus", h)
        BY <2>4 DEF After
      <3>2. PICK g \in Seq(Step) : g = <<b>> \o h /\ g # <<>> /\ Head(g) = b /\ Tail(g) = h
        BY <2>2, <3>1, FormCons
      <3>3. QED
        BY <2>2, <2>4, <3>2 DEF Announcing, Leading
    <2>6. PICK p \in Seq(Step) : p = <<a>> \o g /\ Form(p) /\ ~Beginning(p) /\ p # <<>>
      <3>1. After("seatplay", g)
        BY <2>5 DEF After
      <3>2. QED
        BY <2>2, <3>1, FormCons
    <2>7. p = <<a, b, c>> \o Rest(s, x)
      <3>1. <<a, b, c>> \o k = <<a>> \o (<<b>> \o (<<c>> \o k))
        <4>1. a \in Step /\ b \in Step /\ c \in Step /\ k \in Seq(Step)
          BY <2>2
        <4>2. QED
          BY <4>1, ConsThree, Zenon
      <3>2. QED
        BY <1>2, <2>4, <2>5, <2>6, <3>1, Zenon
    <2>8. CourseStep(s, co[s][x], p)
      BY <1>2, <1>3, <1>5 DEF CourseStep
    <2>9. ~Empty(s) /\ Rank(p) \in Nat
      BY <1>2 DEF Rank
    <2>10. QED
      BY <1>1, <1>3, <2>3, <2>6, <2>7, <2>8, <2>9, ThenGoes
  <1>6. QED
    BY <1>4, <1>5

(* The seat a loop visits shows that the table is not empty.               *)
LEMMA VisitOccupied ==
  ASSUME TabTypeOK, NEW s \in Service, NEW q, NEW c \in ToVisit(s, q)
  PROVE  /\ ~Empty(s) /\ c \in Occupied(tb[s].seat) /\ c \in Chair /\ c \in 0 .. MaxChair
         /\ tb[s].seat[c] \in User
  BY SeatType DEF ToVisit, Empty

LEMMA AgainStep ==
  ASSUME NEW q \in Step, q.op \in TableStep, NEW c \in 0 .. MaxChair
  PROVE  Again(q, c) \in Step /\ Again(q, c).op = q.op
  BY AgainType DEF Again, Loop, StepOf

LEMMA StatusStep ==
  ASSUME NEW u \in User, NEW st \in Status, NEW c \in 0 .. MaxChair
  PROVE  SetStatus(u, st, c) \in Step /\ SetStatus(u, st, c).op = "status"
  BY DoType DEF SetStatus, StepOf

LEMMA SeatPlayGoes ==
  ASSUME ChanTypeOK, TabTypeOK, NEW s \in Service, NEW x \in Coroutine, Form(co[s][x]),
         start_game_seat(s, x)
  PROVE  Goes(s, x)
  <1> DEFINE q == Top(s, x)
  <1>1. At(s, x, "seatplay") /\ SamePlaces(s) /\ SameGame(s)
    BY DEF start_game_seat, SamePlaces, SameGame
  <1>2. q \in Step /\ q.op = "seatplay" /\ q.op \in TableStep
    BY <1>1, AtFacts DEF TableStep
  <1>3. PICK k \in Seq(Step) : /\ k = Rest(s, x) /\ After("seatplay", k)
                               /\ InCourse(co[s][x]) <=>
                                    "seatplay" \in GameSteps \/ OpensBy("seatplay", k)
    BY <1>1, AtForm
  <1>4. CASE Then(s, x, <<>>)
    BY <1>1, <1>4, StepDone
  <1>5. ASSUME NEW p \in Seq(Step), Form(p), ~Beginning(p), NEW steps,
               p = steps \o Rest(s, x), Then(s, x, steps), ~Empty(s)
        PROVE  Goes(s, x)
    <2>1. InCourse(co[s][x])
      BY <1>3 DEF GameSteps
    <2>2. CourseStep(s, co[s][x], p)
      BY <1>1, <2>1 DEF CourseStep
    <2>3. Rank(p) \in Nat
      BY DEF Rank
    <2>4. QED
      BY <1>1, <1>5, <2>2, <2>3, ThenGoes
  <1>6. ASSUME NEW c \in ToVisit(s, q), Then(s, x, <<Again(q, c)>>)
        PROVE  Goes(s, x)
    <2>1. PICK r \in Step : r = Again(q, c) /\ r.op = "seatplay"
      BY <1>2, VisitOccupied, AgainStep
    <2>2. PICK p \in Seq(Step) : p = <<r>> \o k /\ Form(p) /\ ~Beginning(p)
      BY <1>3, <2>1, FormCons
    <2>3. QED
      BY <1>3, <1>5, <1>6, <2>1, <2>2, VisitOccupied
  <1>7. ASSUME NEW c \in ToVisit(s, q),
               Then(s, x, <<SetStatus(tb[s].seat[c], "PLAYING", c), Again(q, c)>>)
        PROVE  Goes(s, x)
    <2>1. PICK r \in Step : r = Again(q, c) /\ r.op = "seatplay"
      BY <1>2, VisitOccupied, AgainStep
    <2>2. PICK a \in Step : a = SetStatus(tb[s].seat[c], "PLAYING", c) /\ a.op = "status"
      BY VisitOccupied, StatusStep DEF Status
    <2>3. PICK h \in Seq(Step) : h = <<r>> \o k /\ Seating(h)
      <3>1. PICK h \in Seq(Step) : h = <<r>> \o k /\ h # <<>> /\ Head(h) = r /\ Tail(h) = k
        BY <1>3, <2>1, FormCons
      <3>2. QED
        BY <1>3, <2>1, <3>1 DEF Seating, Leading, After
    <2>4. After(r.op, k) /\ After(a.op, h)
      BY <1>3, <2>1, <2>2, <2>3 DEF After
    <2>5. PICK p : p = <<a, r>> \o k
      OBVIOUS
    <2>6. p \in Seq(Step) /\ Form(p) /\ ~Beginning(p)
      BY <2>2, <2>3, <2>4, <2>5, FormTwo
    <2>7. Then(s, x, <<a, r>>) /\ p = <<a, r>> \o Rest(s, x)
      BY <1>3, <1>7, <2>1, <2>2, <2>5
    <2>8. QED
      BY <1>5, <2>6, <2>7, VisitOccupied
  <1>8. QED
    BY <1>4, <1>6, <1>7, Zenon DEF start_game_seat

(* The step gives way to others of the same game, at a table with players.  *)
LEMMA ThenInto ==
  ASSUME ChanTypeOK, TabTypeOK, NEW s \in Service, NEW x \in Coroutine, NEW op, At(s, x, op),
         Form(co[s][x]), SamePlaces(s), SameGame(s), NEW steps, Then(s, x, steps),
         NEW p \in Seq(Step), p = steps \o Rest(s, x), Form(p),
         InCourse(p) => InCourse(co[s][x]), ~Empty(s)
  PROVE  Goes(s, x)
  <1>1. CourseStep(s, co[s][x], p)
    BY DEF CourseStep
  <1>2. Rank(p) \in Nat
    BY DEF Rank
  <1>3. QED
    BY <1>1, <1>2, ThenGoes

(* A call to gamemgr at a table with players.                              *)
LEMMA CallInto ==
  ASSUME ChanTypeOK, TabTypeOK, NEW s \in Service, NEW x \in Coroutine, NEW op, At(s, x, op),
         SamePlaces(s), SameGame(s), NEW ev, NEW steps, CallMgr(s, x, ev, steps),
         NEW p \in Seq(Step), p = steps \o Rest(s, x), Form(p), ~Beginning(p),
         InCourse(p) => InCourse(co[s][x]), ~Empty(s)
  PROVE  Goes(s, x)
  <1>1. co'[s][x] = p
    BY CallCo
  <1>2. ~Empty(s)'
    BY SamePlacesEmpty
  <1>3. CourseStep(s, co[s][x], p)
    BY DEF CourseStep
  <1>4. QED
    BY <1>1, <1>2, <1>3 DEF Goes, GoesBy

LEMMA OnGameStartGoes ==
  ASSUME ChanTypeOK, TabTypeOK, NEW s \in Service, NEW x \in Coroutine, Form(co[s][x]),
         on_game_start(s, x)
  PROVE  Goes(s, x)
  <1>1. /\ At(s, x, "gamestart") /\ Then(s, x, <<>>)
        /\ tb' = [tb EXCEPT ![s].rtimer = FALSE, ![s].gstat = "CALL",
                            ![s].playing = @ \cup Occupied(tb[s].seat)]
    BY DEF on_game_start
  <1>2. SamePlaces(s) /\ tb'[s].started = tb[s].started
    BY <1>1 DEF SamePlaces, TabTypeOK, TableState
  <1>3. PICK k \in Seq(Step) : /\ k = Rest(s, x) /\ After("gamestart", k)
                               /\ InCourse(co[s][x]) <=>
                                    "gamestart" \in GameSteps \/ OpensBy("gamestart", k)
    BY <1>1, AtForm
  <1>4. ~InCourse(k)
    BY <1>3, NotGames DEF After
  <1>5. CourseStep(s, co[s][x], Rest(s, x))
    BY <1>2, <1>3, <1>4 DEF CourseStep, GameSteps
  <1>6. QED
    BY <1>1, <1>2, <1>5, StepDone

LEMMA GameEndGoes ==
  ASSUME ChanTypeOK, TabTypeOK, NEW s \in Service, NEW x \in Coroutine, Form(co[s][x]),
         game_end(s, x)
  PROVE  Goes(s, x)
  <1>1. At(s, x, "gameend")
    BY DEF game_end
  <1>2. CASE Crash(s, x)
    BY <1>1, <1>2, CrashGoes
  <1>3. CASE ~Crash(s, x)
    <2>1. PICK a, b : a = Loop("write", {}) /\ b = Do("endgame")
      OBVIOUS
    <2>2. /\ tb' = tb /\ tb[s].banker \in Occupied(tb[s].seat)
          /\ Then(s, x, <<a, b>>)
      BY <1>3, <2>1 DEF game_end
    <2>3. a \in Step /\ b \in Step /\ a.op = "write" /\ b.op = "endgame"
      BY <2>1, DoType DEF TableStep, Do, Loop, StepOf
    <2>4. PICK k \in Seq(Step) : /\ k = Rest(s, x) /\ After("gameend", k)
                                 /\ InCourse(co[s][x]) <=>
                                      "gameend" \in GameSteps \/ OpensBy("gameend", k)
      BY <1>1, AtForm
    <2>5. After(b.op, k)
      BY <2>3, <2>4 DEF After
    <2>6. PICK h \in Seq(Step) : h = <<b>> \o k /\ h # <<>> /\ Head(h) = b /\ Tail(h) = k
      BY <2>3, <2>4, <2>5, FormCons
    <2>7. After(a.op, h)
      BY <2>3, <2>4, <2>6 DEF After, Leading
    <2>8. PICK p : p = <<a, b>> \o k
      OBVIOUS
    <2>9. p \in Seq(Step) /\ Form(p)
      BY <2>3, <2>4, <2>5, <2>6, <2>7, <2>8, FormTwo
    <2>10. SamePlaces(s) /\ SameGame(s) /\ ~Empty(s) /\ InCourse(co[s][x])
      BY <2>2, <2>4 DEF SamePlaces, SameGame, Empty, GameSteps
    <2>11. p = <<a, b>> \o Rest(s, x)
      BY <2>4, <2>8
    <2>12. QED
      BY <1>1, <2>2, <2>9, <2>10, <2>11, ThenInto
  <1>4. QED
    BY <1>2, <1>3

LEMMA WriteGoes ==
  ASSUME ChanTypeOK, TabTypeOK, NEW s \in Service, NEW x \in Coroutine, Form(co[s][x]),
         write_user_score(s, x)
  PROVE  Goes(s, x)
  <1> DEFINE q == Top(s, x)
  <1>1. At(s, x, "write")
    BY DEF write_user_score
  <1>2. PICK k \in Seq(Step) : /\ k = Rest(s, x) /\ After("write", k)
                               /\ InCourse(co[s][x]) <=>
                                    "write" \in GameSteps \/ OpensBy("write", k)
    BY <1>1, AtForm
  <1>3. q \in Step /\ q.op = "write" /\ q.op \in TableStep
    BY <1>1, AtFacts DEF TableStep
  <1>4. CASE Then(s, x, <<>>) /\ tb' = tb
    <2>1. SamePlaces(s) /\ SameGame(s)
      BY <1>4 DEF SamePlaces, SameGame
    <2>2. QED
      BY <1>1, <1>4, <2>1, StepDone
  <1>5. ASSUME NEW c \in ToVisit(s, q), NEW ev, CallMgr(s, x, ev, <<Again(q, c)>>),
               tb' = [tb EXCEPT ![s].recs = @ \cup {c}]
        PROVE  Goes(s, x)
    <2>1. PICK r \in Step : r = Again(q, c) /\ r.op = "write"
      BY <1>3, VisitOccupied, AgainStep
    <2>2. PICK p \in Seq(Step) : p = <<r>> \o k /\ Form(p) /\ ~Beginning(p)
      BY <1>2, <2>1, FormCons
    <2>3. SamePlaces(s) /\ SameGame(s)
      BY <1>5 DEF SamePlaces, SameGame, TabTypeOK, TableState
    <2>4. InCourse(co[s][x]) /\ ~Empty(s)
      BY <1>2, <1>5, VisitOccupied DEF GameSteps
    <2>5. CallMgr(s, x, ev, <<r>>) /\ p = <<r>> \o Rest(s, x)
      BY <1>2, <1>5, <2>1, <2>2
    <2>6. QED
      BY <1>1, <2>2, <2>3, <2>4, <2>5, CallInto
  <1>6. QED
    BY <1>4, <1>5 DEF write_user_score

LEMMA EndGameGoes ==
  ASSUME ChanTypeOK, TabTypeOK, NEW s \in Service, NEW x \in Coroutine, Form(co[s][x]),
         end_game(s, x)
  PROVE  Goes(s, x)
  <1>1. At(s, x, "endgame")
    BY DEF end_game
  <1>2. CASE Crash(s, x)
    BY <1>1, <1>2, CrashGoes
  <1>3. CASE ~Crash(s, x)
    <2>1. PICK a, b, c, d, e : /\ a = Loop("detail", {}) /\ b = Do("record")
                               /\ c = Loop("sitagain", {}) /\ d = Do("reset")
                               /\ e = Do("tstatus")
      OBVIOUS
    <2>2. /\ tb' = [tb EXCEPT ![s].started = FALSE] /\ Then(s, x, <<a, b, c, d, e>>)
      BY <1>3, <2>1 DEF end_game
    <2>3. /\ a \in Step /\ b \in Step /\ c \in Step /\ d \in Step /\ e \in Step
          /\ a.op = "detail" /\ b.op = "record" /\ c.op = "sitagain" /\ d.op = "reset"
          /\ e.op = "tstatus"
      BY <2>1, DoType DEF TableStep, Do, Loop, StepOf
    <2>4. PICK k \in Seq(Step) : /\ k = Rest(s, x) /\ After("endgame", k)
                                 /\ InCourse(co[s][x]) <=>
                                      "endgame" \in GameSteps \/ OpensBy("endgame", k)
      BY <1>1, AtForm
    <2>5. k = <<>>
      BY <2>4 DEF After
    <2>6. PICK p, h, g \in Seq(Step) : p = <<a, b, c, d, e>> /\ h = <<b, c, d, e>>
                                       /\ g = <<c, d, e>>
      <3>1. <<a, b, c, d, e>> \in Seq(Step) /\ <<b, c, d, e>> \in Seq(Step)
            /\ <<c, d, e>> \in Seq(Step)
        BY <2>3
      <3>2. QED
        BY <3>1, Zenon
    <2>7. Wrapping(g)
      BY <2>3, <2>6 DEF Wrapping, WrapOp
    <2>8. h # <<>> /\ Head(h) = b /\ Tail(h) = g
      BY <2>6
    <2>9. Recording(h)
      BY <2>3, <2>7, <2>8 DEF Recording, Leading
    <2>10. p # <<>> /\ Head(p) = a /\ Tail(p) = h
      BY <2>6
    <2>11. Detailing(p) /\ ~Beginning(p)
      BY <2>3, <2>9, <2>10 DEF Detailing, Leading, Beginning
    <2>12. Form(p) /\ ~InCourse(p) /\ ~Opening(p) /\ Rank(p) \in Nat
      BY <2>11, NotGames DEF Rank
    <2>13. p = <<a, b, c, d, e>> \o Rest(s, x)
      BY <2>4, <2>5, <2>6
    <2>14. SamePlaces(s) /\ tb'[s].gstat = tb[s].gstat
      BY <2>2 DEF SamePlaces, TabTypeOK, TableState
    <2>15. CourseStep(s, co[s][x], p)
      BY <2>4, <2>12, <2>14 DEF CourseStep, GameSteps
    <2>16. Rank(p) <= 1
      <3>1. Rank(p) = CallsBy("detail", h)
        BY <2>3, <2>10, <2>12, FormCounts
      <3>2. QED
        BY <3>1 DEF CallsBy, TidyOp, WrapOp
    <2>17. CallsBy("endgame", Rest(s, x)) = 1
      BY DEF CallsBy, TidyOp, WrapOp
    <2>18. QED
      BY <1>1, <2>2, <2>11, <2>12, <2>13, <2>14, <2>15, <2>16, <2>17, ThenGoes
  <1>4. QED
    BY <1>2, <1>3

LEMMA DetailGoes ==
  ASSUME ChanTypeOK, TabTypeOK, NEW s \in Service, NEW x \in Coroutine, Form(co[s][x]),
         write_game_record_detail(s, x)
  PROVE  Goes(s, x)
  <1> DEFINE q == Top(s, x)
  <1>1. At(s, x, "detail")
    BY DEF write_game_record_detail
  <1>2. PICK k \in Seq(Step) : /\ k = Rest(s, x) /\ After("detail", k)
    BY <1>1, AtForm
  <1>3. q \in Step /\ q.op = "detail" /\ q.op \in TableStep
    BY <1>1, AtFacts DEF TableStep
  <1>4. CASE Then(s, x, <<>>) /\ tb' = tb
    <2>1. SamePlaces(s) /\ SameGame(s)
      BY <1>4 DEF SamePlaces, SameGame
    <2>2. QED
      BY <1>1, <1>4, <2>1, StepDone
  <1>5. CASE Crash(s, x)
    BY <1>1, <1>5, CrashGoes
  <1>6. ASSUME NEW c \in Occupied(tb[s].seat), NEW ev, CallMgr(s, x, ev, <<Again(q, c)>>),
               tb' = tb
        PROVE  Goes(s, x)
    <2>1. c \in 0 .. MaxChair
      BY <1>6, SeatType
    <2>2. PICK r \in Step : r = Again(q, c) /\ r.op = "detail"
      BY <1>3, <2>1, AgainStep
    <2>3. PICK p \in Seq(Step) :
                 /\ p = <<r>> \o k /\ Form(p) /\ ~Beginning(p)
                 /\ InCourse(p) <=> r.op \in GameSteps \/ OpensBy(r.op, k)
      BY <1>2, <2>2, FormCons
    <2>4. SamePlaces(s) /\ SameGame(s) /\ ~Empty(s) /\ ~InCourse(p)
      BY <1>6, <2>2, <2>3 DEF SamePlaces, SameGame, Empty, GameSteps, OpensBy
    <2>5. CallMgr(s, x, ev, <<r>>) /\ p = <<r>> \o Rest(s, x)
      BY <1>2, <1>6, <2>2, <2>3
    <2>6. QED
      BY <1>1, <2>3, <2>4, <2>5, CallInto
  <1>7. QED
    BY <1>4, <1>5, <1>6 DEF write_game_record_detail

LEMMA RecordGoes ==
  ASSUME ChanTypeOK, TabTypeOK, NEW s \in Service, NEW x \in Coroutine, Form(co[s][x]),
         write_game_record(s, x)
  PROVE  Goes(s, x)
  <1>1. PICK a : a = Do("clearrecs")
    OBVIOUS
  <1>2. At(s, x, "record") /\ CallMgr(s, x, RecordEvent(x), <<a>>) /\ tb' = tb
    BY <1>1 DEF write_game_record
  <1>3. a \in Step /\ a.op = "clearrecs"
    BY <1>1, DoType DEF TableStep, Do, StepOf
  <1>4. PICK k \in Seq(Step) : /\ k = Rest(s, x) /\ After("record", k)
                               /\ Rank(co[s][x]) = CallsBy("record", k)
    BY <1>2, AtForm
  <1>5. After(a.op, k)
    BY <1>3, <1>4 DEF After
  <1>6. PICK p \in Seq(Step) : p = <<a>> \o k /\ Wrapping(p)
    <2>1. PICK p \in Seq(Step) : p = <<a>> \o k
      BY <1>3, <1>4, ConsFacts
    <2>2. Wrapping(k)
      BY <1>4 DEF After
    <2>3. QED
      BY <1>3, <1>4, <2>1, <2>2, WrapFacts DEF WrapOp
  <1>7. Form(p) /\ ~InCourse(p) /\ ~Opening(p) /\ ~Beginning(p) /\ Rank(p) = 0
    <2>1. Base(p)
      BY <1>6 DEF Base
    <2>2. PICK pp \in Seq(Step) : /\ pp = <<a>> \o k /\ (Beginning(pp) <=> a.op = "start")
      BY <1>3, <1>4, <1>5, FormCons
    <2>3. QED
      BY <1>3, <1>6, <2>1, <2>2, NotGames DEF Rank
  <1>8. co'[s][x] = p
    BY <1>2, <1>4, <1>6, CallCo
  <1>9. SameGame(s) /\ (Empty(s)' <=> Empty(s))
    BY <1>2 DEF SameGame, Empty, Occupied
  <1>10. Spends(s, co[s][x], p)
    BY <1>4, <1>7 DEF Spends, Bit, CallsBy, TidyOp, WrapOp
  <1>11. CourseStep(s, co[s][x], p)
    BY <1>7, <1>9 DEF CourseStep
  <1>12. QED
    BY <1>7, <1>8, <1>9, <1>10, <1>11 DEF Goes, GoesBy

(* The steps that only tidy the table's own fields.                        *)
LEMMA FieldGoes ==
  ASSUME ChanTypeOK, TabTypeOK, NEW s \in Service, NEW x \in Coroutine, Form(co[s][x]),
         clear_records(s, x) \/ on_game_reset(s, x) \/ remove_timer(s, x)
  PROVE  Goes(s, x)
  <1>1. PICK op \in {"clearrecs", "reset", "rmtimer"} : At(s, x, op)
    BY DEF clear_records, on_game_reset, remove_timer
  <1>2. Then(s, x, <<>>) /\ SamePlaces(s) /\ SameGame(s)
    BY DEF clear_records, on_game_reset, remove_timer, SamePlaces, SameGame, TabTypeOK,
           TableState
  <1>3. QED
    BY <1>1, <1>2, StepDone

LEMMA SitAgainGoes ==
  ASSUME ChanTypeOK, TabTypeOK, NEW s \in Service, NEW x \in Coroutine, Form(co[s][x]),
         end_game_seat(s, x)
  PROVE  Goes(s, x)
  <1> DEFINE q == Top(s, x)
  <1>1. At(s, x, "sitagain") /\ SamePlaces(s) /\ SameGame(s)
    BY DEF end_game_seat, SamePlaces, SameGame
  <1>2. q \in Step /\ q.op = "sitagain" /\ q.op \in TableStep
    BY <1>1, AtFacts DEF TableStep
  <1>3. PICK k \in Seq(Step) : k = Rest(s, x) /\ Wrapping(k)
    <2>1. Rest(s, x) \in Seq(Step) /\ After("sitagain", Rest(s, x))
      BY <1>1, AtForm
    <2>2. QED
      BY <2>1 DEF After
  <1>4. CASE Then(s, x, <<>>)
    BY <1>1, <1>4, StepDone
  <1>5. ASSUME NEW c \in ToVisit(s, q),
               Then(s, x, <<SetStatus(tb[s].seat[c], "SIT", c), Again(q, c)>>)
        PROVE  Goes(s, x)
    <2>1. PICK r \in Step : r = Again(q, c) /\ r.op = "sitagain"
      BY <1>2, VisitOccupied, AgainStep
    <2>2. PICK a \in Step : a = SetStatus(tb[s].seat[c], "SIT", c) /\ a.op = "status"
      BY VisitOccupied, StatusStep DEF Status
    <2>3. PICK h \in Seq(Step) : h = <<r>> \o k /\ Head(h) = r /\ Base(h)
      <3>1. PICK h \in Seq(Step) : h = <<r>> \o k /\ Head(h) = r
        BY <2>1, ConsFacts
      <3>2. Wrapping(h)
        BY <1>3, <2>1, <3>1, WrapFacts DEF WrapOp
      <3>3. QED
        BY <3>1, <3>2 DEF Base
    <2>4. After(r.op, k) /\ After(a.op, h)
      BY <1>3, <2>1, <2>2, <2>3 DEF After
    <2>5. PICK p : p = <<a, r>> \o k
      OBVIOUS
    <2>6. /\ p \in Seq(Step) /\ Form(p)
          /\ InCourse(p) <=> a.op \in GameSteps \/ OpensBy(a.op, h)
      <3>1. /\ a \in Step /\ r \in Step /\ k \in Seq(Step) /\ After(r.op, k)
            /\ h = <<r>> \o k /\ After(a.op, h) /\ p = <<a, r>> \o k
        BY <1>3, <2>1, <2>2, <2>3, <2>4, <2>5
      <3>2. QED
        BY <3>1, FormTwo, Zenon
    <2>7. ~InCourse(p)
      BY <2>1, <2>2, <2>3, <2>6 DEF GameSteps, OpensBy, Leading
    <2>8. Then(s, x, <<a, r>>) /\ p = <<a, r>> \o Rest(s, x)
      BY <1>3, <1>5, <2>1, <2>2, <2>5
    <2>9. QED
      BY <1>1, <2>6, <2>7, <2>8, ThenInto, VisitOccupied
  <1>6. ASSUME NEW c \in ToVisit(s, q), Taken(s, x),
               Continues(s, x, <<Again(q, c)>> \o
                  BeforeLast(Tail(co[s][x]), DoFor("standup", tb[s].seat[c], c)))
        PROVE  Goes(s, x)
    <2>1. PICK r \in Step : r = Again(q, c) /\ r.op = "sitagain"
      BY <1>2, VisitOccupied, AgainStep
    <2>2. PICK e \in Step : e = DoFor("standup", tb[s].seat[c], c) /\ e.op = "standup"
      <3>1. tb[s].seat[c] \in User /\ c \in 0 .. MaxChair
        BY VisitOccupied
      <3>2. QED
        BY <3>1, DoType DEF UserStep, DoFor, StepOf
    <2>3. PICK w \in Seq(Step) : w = BeforeLast(k, e) /\ Wrapping(w)
      BY <1>3, <2>2, WrapLate DEF WrapOp
    <2>4. PICK p \in Seq(Step) : p = <<r>> \o w /\ p # <<>> /\ Head(p) = r /\ Base(p)
      <3>1. PICK p \in Seq(Step) : p = <<r>> \o w /\ p # <<>> /\ Head(p) = r
        BY <2>1, <2>3, ConsFacts
      <3>2. Wrapping(p)
        BY <2>1, <2>3, <3>1, WrapFacts DEF WrapOp
      <3>3. QED
        BY <3>1, <3>2 DEF Base
    <2>5. Continues(s, x, p)
      BY <1>3, <1>6, <2>1, <2>2, <2>3, <2>4 DEF Rest
    <2>6. p = co'[s][x] /\ x \notin wt'[s]
      BY <1>6, <2>5, ContinuesCo, NotSuspended
    <2>7. Form(p) /\ ~InCourse(p) /\ ~Opening(p) /\ ~Beginning(p)
      BY <2>1, <2>4, NotGames DEF Beginning, Leading
    <2>8. CourseStep(s, co[s][x], p) /\ ~Empty(s)
      BY <1>1, <2>7, VisitOccupied DEF CourseStep
    <2>9. QED
      BY <1>1, <2>6, <2>7, <2>8, QuietGoes DEF Rank
  <1>7. QED
    BY <1>4, <1>5, <1>6 DEF end_game_seat

LEMMA LateGoes ==
  ASSUME ChanTypeOK, TabTypeOK, NEW s \in Service, NEW x \in Coroutine, Form(co[s][x]),
         ready_timeout_seat(s, x)
  PROVE  Goes(s, x)
  <1> DEFINE q == Top(s, x)
  <1>1. At(s, x, "late") /\ SamePlaces(s) /\ SameGame(s)
    BY DEF ready_timeout_seat, SamePlaces, SameGame
  <1>2. q \in Step /\ q.op = "late" /\ q.op \in TableStep
    BY <1>1, AtFacts DEF TableStep
  <1>3. PICK k \in Seq(Step) : k = Rest(s, x) /\ Tidying(k)
    <2>1. Rest(s, x) \in Seq(Step) /\ After("late", Rest(s, x))
      BY <1>1, AtForm
    <2>2. QED
      BY <2>1 DEF After
  <1>4. CASE Then(s, x, <<>>)
    BY <1>1, <1>4, StepDone
  <1>5. ASSUME NEW c \in ToVisit(s, q)
        PROVE  \E h \in Seq(Step), r \in Step :
                 /\ r = Again(q, c) /\ r.op = "late" /\ h = <<r>> \o k /\ Tidying(h)
                 /\ After("late", k) /\ ~Empty(s)
    <2>1. PICK r \in Step : r = Again(q, c) /\ r.op = "late"
      BY <1>2, VisitOccupied, AgainStep
    <2>2. PICK h \in Seq(Step) : h = <<r>> \o k
      BY <2>1, ConsFacts
    <2>3. Tidying(h)
      BY <1>3, <2>1, <2>2, TidyFacts DEF TidyOp
    <2>4. QED
      BY <1>3, <2>1, <2>2, <2>3, VisitOccupied DEF After
  <1>6. ASSUME NEW c \in ToVisit(s, q), Then(s, x, <<Again(q, c)>>)
        PROVE  Goes(s, x)
    <2>1. PICK h \in Seq(Step), r \in Step :
                 r = Again(q, c) /\ h = <<r>> \o k /\ Tidying(h) /\ ~Empty(s)
      BY <1>5
    <2>2. Form(h) /\ ~InCourse(h)
      BY <2>1, NotGames DEF Base
    <2>3. Then(s, x, <<r>>) /\ h = <<r>> \o Rest(s, x)
      BY <1>3, <1>6, <2>1
    <2>4. QED
      BY <1>1, <2>1, <2>2, <2>3, ThenInto
  <1>7. ASSUME NEW c \in ToVisit(s, q), NEW d, d = cp[s][tb[s].seat[c]].chair,
               Then(s, x, <<DoFor("standup", tb[s].seat[c], d), Again(q, c)>>)
        PROVE  Goes(s, x)
    <2>1. PICK h \in Seq(Step), r \in Step :
                 /\ r = Again(q, c) /\ r.op = "late" /\ h = <<r>> \o k /\ Tidying(h)
                 /\ After("late", k) /\ ~Empty(s)
      BY <1>5
    <2>2. d \in 0 .. MaxChair /\ tb[s].seat[c] \in User
      BY <1>7, VisitOccupied, RoomAssumption DEF TabTypeOK, CopyRec
    <2>3. PICK a \in Step : a = DoFor("standup", tb[s].seat[c], d) /\ a.op = "standup"
      BY <2>2, DoType DEF UserStep, DoFor, StepOf
    <2>4. After(r.op, k) /\ After(a.op, h)
      BY <2>1, <2>3 DEF After, Base
    <2>5. PICK p : p = <<a, r>> \o k
      OBVIOUS
    <2>6. /\ p \in Seq(Step) /\ Form(p)
          /\ InCourse(p) <=> a.op \in GameSteps \/ OpensBy(a.op, h)
      <3>1. /\ a \in Step /\ r \in Step /\ k \in Seq(Step) /\ After(r.op, k)
            /\ h = <<r>> \o k /\ After(a.op, h) /\ p = <<a, r>> \o k
        BY <1>3, <2>1, <2>3, <2>4, <2>5
      <3>2. QED
        BY <3>1, FormTwo, Zenon
    <2>7. ~InCourse(p)
      BY <2>3, <2>6 DEF GameSteps, OpensBy
    <2>8. Then(s, x, <<a, r>>) /\ p = <<a, r>> \o Rest(s, x)
      BY <1>3, <1>7, <2>1, <2>3, <2>5
    <2>9. QED
      BY <1>1, <2>1, <2>6, <2>7, <2>8, ThenInto
  <1>8. QED
    BY <1>4, <1>6, <1>7 DEF ready_timeout_seat

LEMMA ReadyGoes ==
  ASSUME ChanTypeOK, TabTypeOK, NEW s \in Service, NEW x \in Coroutine, Form(co[s][x]),
         user_ready(s, x)
  PROVE  Goes(s, x)
  <1> DEFINE c == Top(s, x).c
             u == IF c = 0 THEN None ELSE tb[s].seat[c]
  <1>1. At(s, x, "ready") /\ SamePlaces(s) /\ SameGame(s)
    BY DEF user_ready, SamePlaces, SameGame
  <1>2. Rest(s, x) \in Seq(Step) /\ Rest(s, x) = <<>>
    <2>1. Rest(s, x) \in Seq(Step) /\ After("ready", Rest(s, x))
      BY <1>1, AtForm
    <2>2. QED
      BY <2>1 DEF After
  <1>3. c \in 0 .. MaxChair
    <2>1. Top(s, x) \in Step
      BY <1>1, AtFacts
    <2>2. QED
      BY <2>1 DEF Step, StepRec
  <1>4. CASE Then(s, x, <<>>)
    BY <1>1, <1>4, StepDone
  <1>5. ASSUME u # None
        PROVE  c \in Chair /\ u = tb[s].seat[c] /\ u \in User /\ ~Empty(s)
    <2>1. c # 0 /\ u = tb[s].seat[c]
      BY <1>5
    <2>2. c \in Chair
      BY <1>3, <2>1, RoomAssumption DEF Chair
    <2>3. c \in Occupied(tb[s].seat)
      BY <1>5, <2>1, <2>2 DEF Occupied
    <2>4. QED
      BY <2>1, <2>2, <2>3, SeatType DEF Empty
  <1>6. CASE u # None /\ Then(s, x, <<Do("start")>>)
    <2>1. PICK a \in Step : a = Do("start") /\ a.op = "start"
      BY DoType DEF TableStep, Do, StepOf
    <2>2. After("start", <<>>) /\ <<>> \in Seq(Step)
      BY DEF After, Rests
    <2>3. PICK p \in Seq(Step) :
                 /\ p = <<a>> \o <<>> /\ Form(p)
                 /\ InCourse(p) <=> a.op \in GameSteps \/ OpensBy(a.op, <<>>)
      BY <2>1, <2>2, FormCons
    <2>4. ~InCourse(p) /\ p = <<a>> \o Rest(s, x)
      BY <1>2, <2>1, <2>3 DEF GameSteps, OpensBy
    <2>5. QED
      BY <1>1, <1>5, <1>6, <2>1, <2>3, <2>4, ThenInto
  <1>7. CASE u # None /\ Then(s, x, <<SetStatus(u, "READY", c)>>)
    <2>1. PICK a \in Step : a = SetStatus(u, "READY", c) /\ a.op = "status"
      BY <1>3, <1>5, <1>7, StatusStep DEF Status
    <2>2. After("status", <<>>) /\ <<>> \in Seq(Step)
      BY NoSteps DEF After
    <2>3. PICK p \in Seq(Step) :
                 /\ p = <<a>> \o <<>> /\ Form(p)
                 /\ InCourse(p) <=> a.op \in GameSteps \/ OpensBy(a.op, <<>>)
      BY <2>1, <2>2, FormCons
    <2>4. ~InCourse(p) /\ p = <<a>> \o Rest(s, x)
      BY <1>2, <2>1, <2>3 DEF GameSteps, OpensBy, Leading
    <2>5. QED
      BY <1>1, <1>5, <1>7, <2>1, <2>3, <2>4, ThenInto
  <1>8. QED
    BY <1>4, <1>6, <1>7 DEF user_ready

LEMMA FinishGoes ==
  ASSUME ChanTypeOK, TabTypeOK, NEW s \in Service, NEW x \in Coroutine, Finish(s, x)
  PROVE  Goes(s, x)
  <1>1. co'[s][x] = <<>> /\ co[s][x] = <<>> /\ x \notin wt'[s]
    BY ContinuesCo, NotSuspended DEF Finish
  <1>2. SamePlaces(s) /\ SameGame(s)
    BY DEF Finish, SamePlaces, SameGame
  <1>3. CourseStep(s, <<>>, <<>>)
    BY <1>2, NoSteps DEF CourseStep
  <1>4. QED
    BY <1>1, <1>2, <1>3, NoSteps, QuietGoes

LEMMA RunStepGoes ==
  ASSUME ChanTypeOK, TabTypeOK, Waits, NEW s \in Service, NEW x \in Coroutine,
         Form(co[s][x]), Shape(s, x), Beginning(co[s][x]) => ~Empty(s), RunStep(s, x)
  PROVE  Goes(s, x)
  <1>1. CASE \/ update_user_status(s, x) \/ update_table_status(s, x) \/ user_standup(s, x)
             \/ vacate(s, x) \/ unwatch(s, x) \/ start_game(s, x) \/ start_game_seat(s, x)
    BY <1>1, StatusGoes, TableStatusGoes, StandupGoes, VacateGoes, UnwatchGoes, StartGoes,
       SeatPlayGoes
  <1>2. CASE \/ on_game_start(s, x) \/ game_end(s, x) \/ write_user_score(s, x)
             \/ end_game(s, x) \/ write_game_record_detail(s, x) \/ write_game_record(s, x)
    BY <1>2, OnGameStartGoes, GameEndGoes, WriteGoes, EndGameGoes, DetailGoes, RecordGoes
  <1>3. CASE \/ clear_records(s, x) \/ end_game_seat(s, x) \/ on_game_reset(s, x)
             \/ ready_timeout_seat(s, x) \/ remove_timer(s, x) \/ user_ready(s, x)
             \/ Finish(s, x)
    BY <1>3, FieldGoes, SitAgainGoes, LateGoes, ReadyGoes, FinishGoes
  <1>4. QED
    BY <1>1, <1>2, <1>3 DEF RunStep

-----------------------------------------------------------------------------
(* Timers and requests.  A single step to begin with:                       *)
LEMMA FormOne ==
  ASSUME NEW a \in Step, After(a.op, <<>>)
  PROVE  /\ <<a>> \in Seq(Step) /\ <<a>> # <<>> /\ Form(<<a>>)
         /\ InCourse(<<a>>) <=> a.op \in GameSteps
         /\ Beginning(<<a>>) <=> a.op = "start"
  <1>1. PICK p \in Seq(Step) :
               /\ p = <<a>> \o <<>> /\ p # <<>> /\ Form(p)
               /\ InCourse(p) <=> a.op \in GameSteps \/ OpensBy(a.op, <<>>)
               /\ Beginning(p) <=> a.op = "start"
    <2>1. <<>> \in Seq(Step)
      OBVIOUS
    <2>2. PICK k \in Seq(Step) : k = <<>>
      BY <2>1
    <2>3. After(a.op, k)
      BY <2>2
    <2>4. QED
      BY <2>2, <2>3, FormCons
  <1>2. p = <<a>>
    BY <1>1
  <1>3. OpensBy(a.op, <<>>) => a.op \in GameSteps
    BY DEF OpensBy, GameSteps, Leading
  <1>4. QED
    BY <1>1, <1>2, <1>3

(* The next phase of a game begins no game and ends none.                  *)
LEMMA PhaseGoes ==
  ASSUME TabTypeOK, NEW s \in Service, NEW by, NEW steps, NextPhase(s, by, steps)
  PROVE  /\ SamePlaces(s) /\ steps \in Seq(Step) /\ Form(steps) /\ ~Beginning(steps)
         /\ CourseStep(s, <<>>, steps)
  <1>1. SamePlaces(s) /\ tb'[s].started = tb[s].started /\ tb[s].gstat # "FREE"
    BY DEF NextPhase, Settles, SamePlaces, TabTypeOK, TableState
  <1>2. CASE steps = <<>>
    BY <1>1, <1>2, NoSteps DEF CourseStep
  <1>3. CASE steps = <<Do("gameend")>> /\ tb' = [tb EXCEPT ![s].gstat = "FREE"]
    <2>1. PICK a \in Step : a = Do("gameend") /\ a.op = "gameend"
      BY DoType DEF TableStep, Do, StepOf
    <2>2. After(a.op, <<>>)
      BY <2>1 DEF After
    <2>3. <<a>> \in Seq(Step) /\ Form(<<a>>) /\ ~Beginning(<<a>>)
      BY <2>1, <2>2, FormOne
    <2>4. tb'[s].gstat = "FREE"
      BY <1>3 DEF TabTypeOK, TableState
    <2>5. QED
      BY <1>1, <1>3, <2>1, <2>3, <2>4 DEF CourseStep
  <1>4. QED
    BY <1>2, <1>3 DEF NextPhase, Settles

LEMMA FiresGoes ==
  ASSUME ChanTypeOK, TabTypeOK, Waits, NEW s \in Service, NEW p \in Seq(Step),
         TimerFires(s, p),
         SamePlaces(s), Form(p), ~Beginning(p), CourseStep(s, <<>>, p), Empty(s) => Base(p)
  PROVE  Goes(s, "T") /\ co[s]["T"] = <<>>
  <1>1. "T" \in Coroutine /\ cur = Idle /\ "T" \notin wt[s] /\ wt' = wt
    BY DEF TimerFires, Coroutine
  <1>2. co[s]["T"] = <<>>
    BY <1>1, WhoRuns DEF Waits, Active, Running
  <1>3. co'[s]["T"] = p
    BY <1>1, ContinuesCo DEF TimerFires
  <1>4. Rank(p) \in Nat /\ (Base(p) => Rank(p) = 0)
    BY DEF Rank
  <1>5. Empty(s) => ~Opening(p)
    BY NotGames
  <1>6. QED
    BY <1>1, <1>2, <1>3, <1>4, <1>5, NoSteps, QuietGoes

LEMMA TimerGoes ==
  ASSUME ChanTypeOK, TabTypeOK, Waits, NEW s \in Service, Timer(s)
  PROVE  Goes(s, "T") /\ co[s]["T"] = <<>>
  <1>1. CASE ReadyTimeout(s)
    <2>1. PICK a, b \in Step : /\ a = Loop("late", {}) /\ b = Do("rmtimer")
                               /\ a.op = "late" /\ b.op = "rmtimer"
      <3>1. Loop("late", {}) \in Step /\ Do("rmtimer") \in Step
        BY DoType DEF TableStep
      <3>2. QED
        BY <3>1 DEF Do, Loop, StepOf
    <2>2. PICK p : TimerFires(s, p) /\ p = (IF tb[s].gstat = "FREE" THEN <<a>> ELSE <<>>) \o <<b>>
      BY <1>1, <2>1 DEF ReadyTimeout
    <2>3. <<b>> \in Seq(Step) /\ Tidying(<<b>>)
      BY <2>1 DEF Tidying, TidyOp
    <2>4. p \in Seq(Step) /\ Tidying(p)
      <3>1. CASE tb[s].gstat = "FREE"
        <4>1. p = <<a>> \o <<b>> /\ <<a>> \in Seq(Step)
          BY <2>1, <2>2, <3>1
        <4>2. QED
          BY <2>1, <2>3, <4>1, TidyFacts, ConsFacts DEF TidyOp
      <3>2. CASE tb[s].gstat # "FREE"
        <4>1. p = <<>> \o <<b>>
          BY <2>2, <3>2
        <4>2. QED
          BY <2>3, <4>1, NoCons
      <3>3. QED
        BY <3>1, <3>2
    <2>5. Form(p) /\ ~InCourse(p) /\ Base(p)
      BY <2>4, NotGames DEF Base
    <2>6. ~Beginning(p)
      BY <2>4, TidyFacts DEF Beginning, Leading, TidyOp
    <2>7. SamePlaces(s) /\ SameGame(s)
      BY <1>1 DEF ReadyTimeout, SamePlaces, SameGame
    <2>8. CourseStep(s, <<>>, p)
      BY <2>5, <2>7 DEF CourseStep
    <2>9. QED
      BY <2>2, <2>4, <2>5, <2>6, <2>7, <2>8, FiresGoes
  <1>2. CASE GameTimeout(s)
    <2>1. ~Empty(s)
      BY <1>2 DEF GameTimeout, Players, Empty
    <2>2. PICK steps : NextPhase(s, Players(s), steps) /\ TimerFires(s, steps)
      BY <1>2 DEF GameTimeout
    <2>3. QED
      BY <2>1, <2>2, PhaseGoes, FiresGoes
  <1>3. CASE RobotReady(s)
    <2>1. PICK c \in Occupied(tb[s].seat) :
                 TimerFires(s, <<DoFor("ready", None, cp[s][tb[s].seat[c]].chair)>>)
      BY <1>3 DEF RobotReady
    <2>2. PICK d : d = cp[s][tb[s].seat[c]].chair /\ d \in 0 .. MaxChair
      <3>1. cp[s][tb[s].seat[c]] \in CopyRec
        BY SeatType
      <3>2. QED
        BY <3>1, RoomAssumption DEF CopyRec
    <2>3. PICK a \in Step : a = DoFor("ready", None, d) /\ a.op = "ready"
      BY <2>2, DoType DEF TableStep, DoFor, StepOf
    <2>4. After(a.op, <<>>)
      BY <2>3 DEF After
    <2>5. <<a>> \in Seq(Step) /\ Form(<<a>>) /\ ~InCourse(<<a>>) /\ ~Beginning(<<a>>)
      BY <2>3, <2>4, FormOne DEF GameSteps
    <2>6. SamePlaces(s) /\ SameGame(s) /\ ~Empty(s)
      BY <1>3 DEF RobotReady, SamePlaces, SameGame, Empty
    <2>7. CourseStep(s, <<>>, <<a>>)
      BY <2>5, <2>6 DEF CourseStep
    <2>8. TimerFires(s, <<a>>)
      BY <2>1, <2>2, <2>3
    <2>9. QED
      BY <2>5, <2>6, <2>7, <2>8, FiresGoes
  <1>4. QED
    BY <1>1, <1>2, <1>3 DEF Timer

LEMMA BegunGoes ==
  ASSUME ChanTypeOK, TabTypeOK, NEW s \in Service, co[s]["R"] = <<>>,
         NEW p, Continues(s, "R", p), Empty(s)' <=> Empty(s), Form(p),
         CourseStep(s, <<>>, p), Beginning(p) => ~Empty(s)
  PROVE  Goes(s, "R")
  <1>1. "R" \in Coroutine /\ "R" # "T"
    BY CoroutineNames
  <1>2. co'[s]["R"] = p /\ (p = <<>> \/ Running(s, "R")')
    BY <1>1, ContinuesCo
  <1>3. QED
    BY <1>1, <1>2, NoSteps DEF Goes, GoesBy

(* A request that leaves the game alone, and goes on with one step or none. *)
LEMMA BegunOne ==
  ASSUME ChanTypeOK, TabTypeOK, NEW s \in Service, co[s]["R"] = <<>>,
         SameGame(s), Empty(s)' <=> Empty(s),
         NEW p, Begin(s, p),
         p = <<>> \/ \E a \in Step : p = <<a>> /\ a.op \in {"status", "standup", "ready"}
  PROVE  Goes(s, "R")
  <1>1. Continues(s, "R", p)
    BY DEF Begin
  <1>2. Form(p) /\ ~InCourse(p) /\ ~Beginning(p)
    <2>1. ASSUME NEW a \in Step, p = <<a>>, a.op \in {"status", "standup", "ready"}
          PROVE  Form(p) /\ ~InCourse(p) /\ ~Beginning(p)
      <3>1. After(a.op, <<>>)
        BY <2>1, NoSteps DEF After
      <3>2. QED
        BY <2>1, <3>1, FormOne DEF GameSteps
    <2>2. QED
      BY <2>1, NoSteps
  <1>3. CourseStep(s, <<>>, p)
    BY <1>2 DEF CourseStep
  <1>4. QED
    BY <1>1, <1>2, <1>3, BegunGoes

LEMMA RepliedGoes ==
  ASSUME NEW s \in Service, co[s]["R"] = <<>>, co' = co, tb' = tb
  PROVE  Goes(s, "R")
  <1>1. SameGame(s) /\ (Empty(s)' <=> Empty(s)) /\ "R" # "T"
    BY DEF SameGame, Empty, Occupied
  <1>2. CourseStep(s, <<>>, <<>>)
    BY <1>1, NoSteps DEF CourseStep
  <1>3. QED
    BY <1>1, <1>2, NoSteps DEF Goes, GoesBy

LEMMA SeatedRequestGoes ==
  ASSUME ChanTypeOK, TabTypeOK, Waits, OneAsked, NEW s \in Service,
         \/ request_user_standup(s) \/ robot_standup(s) \/ user_offline(s)
         \/ update_user_conn(s) \/ request_user_ready(s)
  PROVE  Goes(s, "R") /\ co[s]["R"] = <<>>
  <1>1. tb' = tb
    BY DEF request_user_standup, robot_standup, user_offline, update_user_conn,
           request_user_ready
  <1>2. SameGame(s) /\ (Empty(s)' <=> Empty(s))
    BY <1>1 DEF SameGame, Empty, Occupied
  <1>3. ASSUME NEW op, Takes(s, op)
        PROVE  co[s]["R"] = <<>>
    BY <1>3, TakesResumed
  <1>4. ASSUME NEW op, Takes(s, op), Begin(s, <<>>)
        PROVE  Goes(s, "R") /\ co[s]["R"] = <<>>
    BY <1>2, <1>3, <1>4, BegunOne
  <1>5. ASSUME NEW op, Takes(s, op), NEW a \in Step,
               a.op \in {"status", "standup", "ready"}, Begin(s, <<a>>)
        PROVE  Goes(s, "R") /\ co[s]["R"] = <<>>
    BY <1>2, <1>3, <1>5, BegunOne
  <1>6. CASE request_user_standup(s)
    <2>1. /\ Takes(s, "user_standup")
          /\ Begin(s, <<DoFor("standup", Arg(s).u, Arg(s).c)>>)
      BY <1>6 DEF request_user_standup
    <2>2. Arg(s).u \in User /\ Arg(s).c \in 0 .. MaxChair
      BY <2>1, TakesType DEF UserOp
    <2>3. PICK a \in Step : a = DoFor("standup", Arg(s).u, Arg(s).c) /\ a.op = "standup"
      BY <2>2, DoType DEF UserStep, DoFor, StepOf
    <2>4. QED
      BY <1>5, <2>1, <2>3
  <1>7. CASE robot_standup(s)
    <2>1. Takes(s, "robot_standup")
      BY <1>7 DEF robot_standup
    <2>2. CASE Begin(s, <<>>)
      BY <1>4, <2>1, <2>2
    <2>3. ASSUME NEW c \in Occupied(tb[s].seat),
                 Begin(s, <<DoFor("standup", tb[s].seat[c], c)>>)
          PROVE  Goes(s, "R") /\ co[s]["R"] = <<>>
      <3>1. c \in 0 .. MaxChair /\ tb[s].seat[c] \in User
        BY SeatType, RoomAssumption DEF Occupied, Chair
      <3>2. PICK a \in Step : a = DoFor("standup", tb[s].seat[c], c) /\ a.op = "standup"
        BY <3>1, DoType DEF UserStep, DoFor, StepOf
      <3>3. QED
        BY <1>5, <2>1, <2>3, <3>2
    <2>4. QED
      BY <1>7, <2>2, <2>3, Zenon DEF robot_standup
  <1>8. CASE user_offline(s)
    <2> DEFINE u == AtSeat(s)
               c == Arg(s).c
    <2>1. /\ Takes(s, "user_offline")
          /\ \/ Begin(s, <<>>)
             \/ u # None /\ Begin(s, <<SetStatus(u, "OFFLINE", c)>>)
             \/ u # None /\ Begin(s, <<DoFor("standup", u, c)>>)
      BY <1>8 DEF user_offline
    <2>2. u # None => c \in 0 .. MaxChair /\ u \in User
      BY <2>1, AtSeatOccupied
    <2>3. CASE Begin(s, <<>>)
      BY <1>4, <2>1, <2>3
    <2>4. CASE u # None /\ Begin(s, <<SetStatus(u, "OFFLINE", c)>>)
      <3>1. PICK a \in Step : a = SetStatus(u, "OFFLINE", c) /\ a.op = "status"
        BY <2>2, <2>4, StatusStep DEF Status
      <3>2. QED
        BY <1>5, <2>1, <2>4, <3>1
    <2>5. CASE u # None /\ Begin(s, <<DoFor("standup", u, c)>>)
      <3>1. PICK a \in Step : a = DoFor("standup", u, c) /\ a.op = "standup"
        BY <2>2, <2>5, DoType DEF UserStep, DoFor, StepOf
      <3>2. QED
        BY <1>5, <2>1, <2>5, <3>1
    <2>6. QED
      BY <2>1, <2>3, <2>4, <2>5
  <1>9. CASE update_user_conn(s)
    <2> DEFINE u == AtSeat(s)
    <2>1. /\ Takes(s, "update_user_conn")
          /\ \/ Begin(s, <<>>)
             \/ u # None /\ Begin(s, <<SetStatus(u, "PLAYING", cp[s][u].chair)>>)
      BY <1>9 DEF update_user_conn
    <2>2. u # None => u \in User
      BY <2>1, AtSeatOccupied
    <2>3. CASE Begin(s, <<>>)
      BY <1>4, <2>1, <2>3
    <2>4. CASE u # None /\ Begin(s, <<SetStatus(u, "PLAYING", cp[s][u].chair)>>)
      <3>1. cp[s][u].chair \in 0 .. MaxChair
        BY <2>2, <2>4 DEF TabTypeOK, CopyRec
      <3>2. PICK a \in Step : a = SetStatus(u, "PLAYING", cp[s][u].chair) /\ a.op = "status"
        BY <2>2, <2>4, <3>1, StatusStep DEF Status
      <3>3. QED
        BY <1>5, <2>1, <2>4, <3>2
    <2>5. QED
      BY <2>1, <2>3, <2>4
  <1>10. CASE request_user_ready(s)
    <2>1. Takes(s, "user_ready") /\ Begin(s, <<DoFor("ready", None, Arg(s).c)>>)
      BY <1>10 DEF request_user_ready
    <2>2. Arg(s).c \in 0 .. MaxChair
      BY <2>1, TakesType
    <2>3. PICK a \in Step : a = DoFor("ready", None, Arg(s).c) /\ a.op = "ready"
      BY <2>2, DoType DEF TableStep, DoFor, StepOf
    <2>4. QED
      BY <1>5, <2>1, <2>3
  <1>11. QED
    BY <1>6, <1>7, <1>8, <1>9, <1>10

(* What a seated player sends may begin a game or end one.                 *)
LEMMA GameRequestGoes ==
  ASSUME ChanTypeOK, TabTypeOK, Waits, OneAsked, NEW s \in Service,
         game_msg(s) \/ init_game(s)
  PROVE  Goes(s, "R") /\ co[s]["R"] = <<>>
  <1>1. PICK op : Takes(s, op) /\ co[s]["R"] = <<>>
    <2>1. Takes(s, "game_msg") \/ Takes(s, "init_game")
      BY DEF game_msg, init_game
    <2>2. QED
      BY <2>1, TakesResumed
  <1>2. ASSUME tb' = tb, Begin(s, <<>>)
        PROVE  Goes(s, "R")
    <2>1. SameGame(s) /\ (Empty(s)' <=> Empty(s))
      BY <1>2 DEF SameGame, Empty, Occupied
    <2>2. QED
      BY <1>1, <1>2, <2>1, BegunOne
  <1>3. CASE game_msg(s)
    <2>1. ASSUME NEW steps, NextPhase(s, {Arg(s).c}, steps), Begin(s, steps)
          PROVE  Goes(s, "R")
      <3>1. /\ SamePlaces(s) /\ Form(steps) /\ ~Beginning(steps)
            /\ CourseStep(s, <<>>, steps)
        BY <2>1, PhaseGoes
      <3>2. Empty(s)' <=> Empty(s)
        BY <3>1, SamePlacesEmpty
      <3>3. Continues(s, "R", steps)
        BY <2>1 DEF Begin
      <3>4. QED
        BY <1>1, <3>1, <3>2, <3>3, BegunGoes
    <2>2. QED
      BY <1>1, <1>2, <1>3, <2>1 DEF game_msg
  <1>4. CASE init_game(s)
    <2>1. tb' = tb
      BY <1>4 DEF init_game
    <2>2. \/ Begin(s, <<>>)
          \/ CheckStart(tb[s].seat, cp'[s], Arg(s).c) /\ Begin(s, <<Do("start")>>)
      BY <1>4, Zenon DEF init_game
    <2>3. CASE CheckStart(tb[s].seat, cp'[s], Arg(s).c) /\ Begin(s, <<Do("start")>>)
      <3>1. ~Empty(s)
        BY <2>3, StartsOccupied DEF Empty
      <3>2. PICK a \in Step : a = Do("start") /\ a.op = "start"
        BY DoType DEF TableStep, Do, StepOf
      <3>3. After(a.op, <<>>)
        BY <3>2 DEF After, Rests
      <3>4. Form(<<a>>) /\ ~InCourse(<<a>>)
        BY <3>2, <3>3, FormOne DEF GameSteps
      <3>5. SameGame(s) /\ (Empty(s)' <=> Empty(s))
        BY <2>1 DEF SameGame, Empty, Occupied
      <3>6. CourseStep(s, <<>>, <<a>>)
        BY <3>4, <3>5 DEF CourseStep
      <3>7. Continues(s, "R", <<a>>)
        BY <2>3, <3>2 DEF Begin
      <3>8. QED
        BY <1>1, <3>1, <3>4, <3>5, <3>6, <3>7, BegunGoes
    <2>4. QED
      BY <1>1, <1>2, <2>1, <2>2, <2>3
  <1>5. QED
    BY <1>1, <1>3, <1>4

LEMMA SitRequestGoes ==
  ASSUME ChanTypeOK, TabTypeOK, Waits, OneAsked, NEW s \in Service, AsksWell(s),
         user_sitdown(s) \/ user_sitdown_ob(s)
  PROVE  Goes(s, "R") /\ co[s]["R"] = <<>>
  <1> DEFINE m == Arg(s)
  <1>1. CASE user_sitdown(s)
    <2>1. Takes(s, "user_sitdown")
      BY <1>1 DEF user_sitdown
    <2>2. co[s]["R"] = <<>>
      BY <2>1, TakesResumed
    <2>3. CASE UNCHANGED <<tb, cp>> /\ \E ok, val : Reply(s, ok, val)
      BY <2>2, <2>3, RepliedGoes DEF Reply
    <2>4. CASE /\ m.tid = 0
               /\ tb' = [tb EXCEPT ![s].seat[m.c] = m.u]
               /\ \E t : co' = [co EXCEPT ![s]["R"] = <<SetStatus(m.u, "SIT", m.c)>>,
                                          ![s]["T"] = t]
      <3>1. m.u \in User /\ m.c \in 0 .. MaxChair /\ m \in Asked /\ m \in Elems(toTab[s])
            /\ m.op = "user_sitdown"
        BY <2>1, TakesType, TakesAsked DEF UserOp
      <3>2. m.c \in Chair
        BY <2>4, <3>1 DEF AsksWell, AskedFor, Sits
      <3>3. PICK a \in Step : a = SetStatus(m.u, "SIT", m.c) /\ a.op = "status"
        BY <3>1, StatusStep DEF Status
      <3>4. co'[s]["R"] = <<a>>
        BY <2>4, <3>3, CoroutineNames DEF TabTypeOK
      <3>5. SameGame(s) /\ tb'[s].seat[m.c] = m.u
        BY <2>4, <3>2 DEF TabTypeOK, TableState, SameGame
      <3>6. ~Empty(s)'
        BY <3>1, <3>2, <3>5, RoomAssumption DEF Empty, Occupied
      <3>7. Form(<<a>>) /\ ~InCourse(<<a>>) /\ ~Beginning(<<a>>)
        <4>1. After(a.op, <<>>)
          BY <3>3, NoSteps DEF After
        <4>2. QED
          BY <3>3, <4>1, FormOne DEF GameSteps
      <3>8. CourseStep(s, <<>>, <<a>>)
        BY <3>5, <3>7 DEF CourseStep
      <3>9. QED
        BY <2>2, <3>4, <3>6, <3>7, <3>8 DEF Goes, GoesBy
    <2>5. QED
      BY <1>1, <2>3, <2>4 DEF user_sitdown
  <1>2. CASE user_sitdown_ob(s)
    <2>1. Takes(s, "user_sitdown_ob")
      BY <1>2 DEF user_sitdown_ob
    <2>2. co[s]["R"] = <<>>
      BY <2>1, TakesResumed
    <2>3. CASE Reply(s, TRUE, 0) /\ UNCHANGED <<tb, cp>>
      BY <2>2, <2>3, RepliedGoes DEF Reply
    <2>4. CASE /\ tb' = [tb EXCEPT ![s].ob = @ \cup {m.u}]
               /\ Begin(s, <<SetStatus(m.u, "OB", m.c)>>)
      <3>1. m.u \in User /\ m.c \in 0 .. MaxChair
        BY <2>1, TakesType DEF UserOp
      <3>2. PICK a \in Step : a = SetStatus(m.u, "OB", m.c) /\ a.op = "status"
        BY <3>1, StatusStep DEF Status
      <3>3. tb'[s].seat = tb[s].seat /\ SameGame(s)
        BY <2>4 DEF TabTypeOK, TableState, SameGame
      <3>4. Empty(s)' <=> Empty(s)
        BY <3>3 DEF Empty, Occupied
      <3>5. QED
        BY <2>2, <2>4, <3>2, <3>3, <3>4, BegunOne
    <2>5. QED
      BY <1>2, <2>3, <2>4 DEF user_sitdown_ob
  <1>3. QED
    BY <1>1, <1>2

(* Every request, but those that start a table or clean it up.             *)
LEMMA RequestGoes ==
  ASSUME ChanTypeOK, TabTypeOK, Waits, OneAsked, NEW s \in Service, AsksWell(s), Request(s),
         ~Empties(s)
  PROVE  Goes(s, "R") /\ co[s]["R"] = <<>>
  <1>1. CASE get_can_sit_chairid(s) \/ get_table_info(s)
    <2>1. PICK op : Takes(s, op) /\ co' = co /\ tb' = tb
      BY <1>1 DEF get_can_sit_chairid, get_table_info, Reply
    <2>2. co[s]["R"] = <<>>
      BY <2>1, TakesResumed
    <2>3. QED
      BY <2>1, <2>2, RepliedGoes
  <1>2. QED
    BY <1>1, SitRequestGoes, GameRequestGoes, SeatedRequestGoes, EmptiesKind DEF Request
-----------------------------------------------------------------------------
(* What the steps of a table mean to a game that is under way there.       *)
Course(s) ==
  /\ \A x \in Coroutine :
       /\ Form(co[s][x])
       /\ Beginning(co[s][x]) => Running(s, x) /\ ~Empty(s)
       /\ InCourse(co[s][x]) => /\ tb[s].started /\ tb[s].gstat = "FREE"
                                /\ \A y \in Coroutine \ {x} : ~InCourse(co[s][y])
  /\ tb[s].gstat # "FREE" => tb[s].started
  /\ tb[s].tid = 0 => ~tb[s].started

(* The timer's coroutine is the next to be answered by gamemgr, or its     *)
(* call comes before what the request sent.                                *)
TimerNext(q) == q # <<>> /\ Head(q) \in Answers("T")
TimerFirst(q) ==
  \E i, j \in 1 .. Len(q) : i < j /\ q[i] \in CallsOf("T") /\ q[j] \in Returned \cup CallsOf("R")
Ahead(s) == TimerNext(toTab[s]) \/ TimerFirst(toMgr[s])

(* The table is about to be cleaned up, or will be as soon as gamemgr has  *)
(* heard that nobody is at it.                                             *)
Closing(s) ==
  \/ \E m \in Elems(toTab[s]) : m \in Asked /\ m.op = "cleanup"
  \/ req.pc = "info" /\ \E m \in Elems(toMgr[s]) : m \in Returned /\ m.val = 0

(* How many calls the timer's coroutine can at least make before that, and *)
(* how many it can still come to at an empty table: in all, and in a game. *)
Guard(s) ==
  IF Closing(s) THEN Bit(Ahead(s))
  ELSE 1 + Bit(Ahead(s) \/ Active(s, "R"))
         + Bit(Active(s, "R") /\ (WillCall(co[s]["R"]) \/ ("R" \in wt[s] /\ Ahead(s))))
Turns(s) == Bit("T" \in wt[s] /\ InCourse(co[s]["T"])) + Bit(Opening(co[s]["T"]))
Need(s)  == Bit("T" \in wt[s] /\ co[s]["T"] # <<>>) + Rank(co[s]["T"])

(* A table that has an id is the one gamemgr lists under it, or it has     *)
(* just been started under it.                                             *)
Names(s) ==
  tb[s].tid # 0 =>
    \/ gt[tb[s].tid] = s
    \/ Starting(s) /\ req.t = tb[s].tid /\ \A m \in Elems(toTab[s]) : m \notin Asked

(* The request that removes a table asks that table and no other, and has  *)
(* it cleaned up.                                                          *)
Removing(s) ==
  /\ req.pc \in {"info", "clean"} => ~Active(s, "R")
  /\ req.pc \in {"info", "clean"} /\ gt[req.t] # s => \A m \in Elems(toMgr[s]) : m \notin Returned
  /\ req.pc = "clean" /\ gt[req.t] = s => tb[s].tid = 0 \/ \E m \in Elems(toTab[s]) : m \in Asked

Games(s) ==
  /\ Course(s) /\ Names(s) /\ Removing(s)
  /\ Closing(s) => Empty(s)
  /\ Empty(s) => Turns(s) <= Guard(s)

-----------------------------------------------------------------------------
(* What is ahead, in a queue.                                              *)
LEMMA FirstOf ==
  ASSUME NEW q \in Seq(MgrMsg), TimerFirst(q)
  PROVE  /\ \E m \in Elems(q) : m \in CallsOf("T")
         /\ \E m \in Elems(q) : m \in Returned \cup CallsOf("R")
  BY DEF TimerFirst, Elems

LEMMA FirstAppend ==
  ASSUME NEW q \in Seq(MgrMsg), NEW e \in MgrMsg
  PROVE  /\ TimerFirst(q) => TimerFirst(Append(q, e))
         /\ (\E m \in Elems(q) : m \in CallsOf("T")) /\ e \in Returned \cup CallsOf("R")
              => TimerFirst(Append(q, e))
  <1>1. PICK p : p = Append(q, e)
    OBVIOUS
  <1>2. /\ Len(q) \in Nat /\ Len(p) = Len(q) + 1 /\ p[Len(q) + 1] = e
        /\ \A i \in 1 .. Len(q) : p[i] = q[i]
    BY <1>1
  <1>3. ASSUME TimerFirst(q)
        PROVE  TimerFirst(p)
    <2>1. PICK i, j \in 1 .. Len(q) :
                 i < j /\ q[i] \in CallsOf("T") /\ q[j] \in Returned \cup CallsOf("R")
      BY <1>3 DEF TimerFirst
    <2>2. i \in 1 .. Len(p) /\ j \in 1 .. Len(p) /\ p[i] = q[i] /\ p[j] = q[j]
      BY <1>2
    <2>3. QED
      BY <2>1, <2>2 DEF TimerFirst
  <1>4. ASSUME NEW m \in Elems(q), m \in CallsOf("T"), e \in Returned \cup CallsOf("R")
        PROVE  TimerFirst(p)
    <2>1. PICK i \in 1 .. Len(q) : m = q[i]
      BY <1>4 DEF Elems
    <2>2. PICK j : j = Len(q) + 1
      OBVIOUS
    <2>3. i \in 1 .. Len(p) /\ j \in 1 .. Len(p) /\ i < j /\ p[i] = m /\ p[j] = e
      BY <1>2, <2>1, <2>2
    <2>4. QED
      BY <1>4, <2>3 DEF TimerFirst
  <1>5. QED
    BY <1>1, <1>3, <1>4

LEMMA FirstTail ==
  ASSUME NEW q \in Seq(MgrMsg), q # <<>>, TimerFirst(q), Head(q) \notin CallsOf("T")
  PROVE  TimerFirst(Tail(q))
  <1>1. PICK p : p = Tail(q)
    OBVIOUS
  <1>2. /\ Len(q) \in Nat \ {0} /\ Len(p) = Len(q) - 1 /\ Head(q) = q[1]
        /\ \A i \in 1 .. (Len(q) - 1) : p[i] = q[i + 1]
    BY <1>1
  <1>3. PICK i, j \in 1 .. Len(q) :
               i < j /\ q[i] \in CallsOf("T") /\ q[j] \in Returned \cup CallsOf("R")
    BY DEF TimerFirst
  <1>4. i # 1
    BY <1>2, <1>3
  <1>5. PICK h, k : h = i - 1 /\ k = j - 1
    OBVIOUS
  <1>6. /\ h \in 1 .. Len(p) /\ k \in 1 .. Len(p) /\ h < k
        /\ h \in 1 .. (Len(q) - 1) /\ k \in 1 .. (Len(q) - 1) /\ h + 1 = i /\ k + 1 = j
    BY <1>2, <1>3, <1>4, <1>5
  <1>7. p[h] = q[i] /\ p[k] = q[j]
    BY <1>2, <1>6
  <1>8. QED
    BY <1>1, <1>3, <1>6, <1>7 DEF TimerFirst

LEMMA NextAppend ==
  ASSUME NEW q \in Seq(TabMsg), NEW e \in TabMsg
  PROVE  /\ TimerNext(q) => TimerNext(Append(q, e))
         /\ q = <<>> /\ e \in Answers("T") => TimerNext(Append(q, e))
  BY DEF TimerNext

-----------------------------------------------------------------------------
(* What a coroutine that is not suspended, or is, has on its way.          *)
LEMMA WaitFacts ==
  ASSUME ChanTypeOK, Waits, NEW s \in Service, NEW x \in Coroutine
  PROVE  /\ x \notin wt[s] => /\ \A m \in Elems(toTab[s]) : m \notin Answers(x)
                              /\ \A m \in Elems(toMgr[s]) : m \notin CallsOf(x)
         /\ x \in wt[s] => \/ \E m \in Elems(toTab[s]) : m \in Answers(x)
                           \/ \E m \in Elems(toMgr[s]) : m \in CallsOf(x)
         /\ \/ \A m \in Elems(toTab[s]) : m \notin Answers(x)
            \/ \A m \in Elems(toMgr[s]) : m \notin CallsOf(x)
         /\ toMgr[s] # <<>> /\ Head(toMgr[s]) \in CallsOf(x) =>
              \A m \in Elems(Tail(toMgr[s])) : m \notin CallsOf(x)
         /\ toTab[s] # <<>> /\ Head(toTab[s]) \in Answers(x) =>
              \A m \in Elems(Tail(toTab[s])) : m \notin Answers(x)
  <1>1. toTab[s] \in Seq(TabMsg) /\ toMgr[s] \in Seq(MgrMsg)
    BY DEF ChanTypeOK
  <1>2. PICK a, b, w : /\ a = NumIn(toTab[s], Answers(x)) /\ b = NumIn(toMgr[s], CallsOf(x))
                       /\ w = Bit(x \in wt[s])
    OBVIOUS
  <1>3. a \in Nat /\ b \in Nat /\ a + b = w /\ w = (IF x \in wt[s] THEN 1 ELSE 0)
    BY <1>2, CountTypes DEF Waits, Owes, Bit
  <1>4. a = 0 <=> \A m \in Elems(toTab[s]) : m \notin Answers(x)
    BY <1>1, <1>2, NoneIn
  <1>5. b = 0 <=> \A m \in Elems(toMgr[s]) : m \notin CallsOf(x)
    BY <1>1, <1>2, NoneIn
  <1>6. ASSUME toMgr[s] # <<>>, Head(toMgr[s]) \in CallsOf(x)
        PROVE  \A m \in Elems(Tail(toMgr[s])) : m \notin CallsOf(x)
    <2>1. Tail(toMgr[s]) \in Seq(MgrMsg)
      BY <1>1, <1>6
    <2>2. PICK d : d = NumIn(Tail(toMgr[s]), CallsOf(x)) /\ d \in Nat
      BY <2>1, NumInType
    <2>3. b = d + 1
      BY <1>1, <1>2, <1>6, <2>2, NumInTail DEF Bit
    <2>4. d = 0
      BY <1>3, <2>2, <2>3
    <2>5. QED
      BY <2>1, <2>2, <2>4, NoneIn
  <1>7. ASSUME toTab[s] # <<>>, Head(toTab[s]) \in Answers(x)
        PROVE  \A m \in Elems(Tail(toTab[s])) : m \notin Answers(x)
    <2>1. Tail(toTab[s]) \in Seq(TabMsg)
      BY <1>1, <1>7
    <2>2. PICK d : d = NumIn(Tail(toTab[s]), Answers(x)) /\ d \in Nat
      BY <2>1, NumInType
    <2>3. a = d + 1
      BY <1>1, <1>2, <1>7, <2>2, NumInTail DEF Bit
    <2>4. d = 0
      BY <1>3, <2>2, <2>3
    <2>5. QED
      BY <2>1, <2>2, <2>4, NoneIn
  <1>8. a = 0 \/ b = 0
    BY <1>3
  <1>9. x \notin wt[s] => a = 0 /\ b = 0
    BY <1>3
  <1>10. x \in wt[s] => a # 0 \/ b # 0
    BY <1>3
  <1>11. QED
    BY <1>4, <1>5, <1>6, <1>7, <1>8, <1>9, <1>10

(* One question at most is being asked, run or answered.                   *)
LEMMA OneFacts ==
  ASSUME ChanTypeOK, OneAsked, NEW s \in Service
  PROVE  /\ Active(s, "R") => /\ \A m \in Elems(toTab[s]) : m \notin Asked
                              /\ \A m \in Elems(toMgr[s]) : m \notin Returned
         /\ (\E m \in Elems(toTab[s]) : m \in Asked) =>
              /\ ~Active(s, "R") /\ \A m \in Elems(toMgr[s]) : m \notin Returned
         /\ (\E m \in Elems(toMgr[s]) : m \in Returned) =>
              /\ ~Active(s, "R") /\ \A m \in Elems(toTab[s]) : m \notin Asked
  <1>1. toTab[s] \in Seq(TabMsg) /\ toMgr[s] \in Seq(MgrMsg)
    BY DEF ChanTypeOK
  <1>2. PICK a, b, w : /\ a = NumIn(toTab[s], Asked) /\ b = NumIn(toMgr[s], Returned)
                       /\ w = Bit(Active(s, "R"))
    OBVIOUS
  <1>3. Engaged(s) = 0 \/ Engaged(s) = 1
    BY Zenon DEF OneAsked, NoneEngaged, OneEngaged
  <1>4. /\ a \in Nat /\ b \in Nat /\ a + b + w \in {0, 1}
        /\ w = (IF Active(s, "R") THEN 1 ELSE 0)
    BY <1>2, <1>3, CountTypes DEF Engaged, Bit
  <1>5. a = 0 <=> \A m \in Elems(toTab[s]) : m \notin Asked
    BY <1>1, <1>2, NoneIn
  <1>6. b = 0 <=> \A m \in Elems(toMgr[s]) : m \notin Returned
    BY <1>1, <1>2, NoneIn
  <1>7. /\ a # 0 => ~Active(s, "R") /\ b = 0
        /\ b # 0 => ~Active(s, "R") /\ a = 0
        /\ Active(s, "R") => a = 0 /\ b = 0
    BY <1>4
  <1>8. QED
    BY <1>5, <1>6, <1>7

(* What there is in a queue.                                               *)
LEMMA QueueKinds ==
  ASSUME ChanTypeOK, NEW s \in Service
  PROVE  /\ toTab[s] \in Seq(TabMsg) /\ toMgr[s] \in Seq(MgrMsg)
         /\ \A m \in Elems(toTab[s]) :
              m \in TabMsg /\ (m \in Asked \/ m \in Answers("R") \/ m \in Answers("T"))
         /\ \A m \in Elems(toMgr[s]) :
              m \in MgrMsg /\ (m \in Returned \/ m \in CallsOf("R") \/ m \in CallsOf("T"))
  <1>1. toTab[s] \in Seq(TabMsg) /\ toMgr[s] \in Seq(MgrMsg)
    BY DEF ChanTypeOK
  <1>2. \A m \in TabMsg : m \in Asked \/ m \in Answers("R") \/ m \in Answers("T")
    BY DEF TabMsg, ReqMsg, RespMsg, Asked, Answers, Coroutine
  <1>3. \A m \in MgrMsg : m \in Returned \/ m \in CallsOf("R") \/ m \in CallsOf("T")
    BY DEF MgrMsg, EventMsg, StatusMsg, TableMsg, ScoreMsg, RecordMsg, ReturnMsg, Returned,
           CallsOf, Coroutine
  <1>4. QED
    BY <1>1, <1>2, <1>3, ElemsType
-----------------------------------------------------------------------------
(* A coroutine that at most misses a chair is where it was.                *)
LEMMA MissedCalls ==
  ASSUME NEW k \in Seq(Step), NEW l \in Seq(Step), Missed(k, l)
  PROVE  (WillCall(l) <=> WillCall(k)) /\ \A op : Leading(l, op) <=> Leading(k, op)
  <1>1. PICK c \in Chair : l = <<Again(Head(k), c)>> \o Tail(k)
    BY DEF Missed
  <1>2. PICK a, h : a = Again(Head(k), c) /\ h = Tail(k)
    OBVIOUS
  <1>3. a.op = Head(k).op /\ k # <<>>
    BY <1>2 DEF Again, Loop, StepOf, Missed
  <1>4. l = <<a>> \o h
    BY <1>1, <1>2
  <1>5. /\ Len(k) \in Nat \ {0} /\ h \in Seq(Step) /\ Len(h) = Len(k) - 1 /\ k[1] = Head(k)
        /\ \A i \in 1 .. Len(h) : h[i] = k[i + 1]
    BY <1>2, <1>3
  <1>6. /\ Len(l) = Len(k) /\ l[1] = a /\ l # <<>> /\ Head(l) = a
        /\ \A i \in 1 .. Len(h) : l[i + 1] = h[i]
    BY <1>4, <1>5
  <1>7. \A i \in 1 .. Len(k) : l[i].op = k[i].op
    <2>1. SUFFICES ASSUME NEW i \in 1 .. Len(k), i # 1 PROVE l[i] = k[i]
      BY <1>3, <1>5, <1>6
    <2>2. i - 1 \in 1 .. Len(h) /\ (i - 1) + 1 = i
      BY <1>5, <2>1
    <2>3. QED
      BY <1>5, <1>6, <2>2
  <1>8. \A i \in 1 .. Len(k) : \A j \in 1 .. (i - 1) : j \in 1 .. Len(k)
    BY <1>5
  <1>9. WillCall(l) <=> WillCall(k)
    <2>1. ASSUME NEW i \in 1 .. Len(k), k[i].op \in Calling,
                 \A j \in 1 .. (i - 1) : k[j].op \in Surely
          PROVE  WillCall(l)
      BY <1>6, <1>7, <1>8, <2>1 DEF WillCall
    <2>2. ASSUME NEW i \in 1 .. Len(l), l[i].op \in Calling,
                 \A j \in 1 .. (i - 1) : l[j].op \in Surely
          PROVE  WillCall(k)
      BY <1>6, <1>7, <1>8, <2>2 DEF WillCall
    <2>3. QED
      BY <2>1, <2>2 DEF WillCall
  <1>10. QED
    BY <1>3, <1>6, <1>9 DEF Leading

LEMMA KeptForm ==
  ASSUME NEW k \in Seq(Step), NEW l \in Seq(Step), l = k \/ Missed(k, l), Form(k)
  PROVE  /\ Form(l) /\ (l = <<>> <=> k = <<>>) /\ Rank(l) = Rank(k)
         /\ InCourse(l) <=> InCourse(k)
         /\ Opening(l) <=> Opening(k)
         /\ Beginning(l) => Beginning(k)
         /\ WillCall(l) <=> WillCall(k)
         /\ \A op : Leading(l, op) <=> Leading(k, op)
  BY MissedForm, MissedCalls

(* What another coroutine, of this table or another, is left with.         *)
LEMMA OthersKept ==
  ASSUME TabTypeOK, TabTypeOK', NEW s \in Service, NEW x \in Coroutine, Untouched(s, x),
         NEW r \in Service, NEW y \in Coroutine, r # s \/ y # x, Form(co[r][y])
  PROVE  /\ Form(co'[r][y]) /\ (co'[r][y] = <<>> <=> co[r][y] = <<>>)
         /\ Rank(co'[r][y]) = Rank(co[r][y])
         /\ InCourse(co'[r][y]) <=> InCourse(co[r][y])
         /\ Opening(co'[r][y]) <=> Opening(co[r][y])
         /\ Beginning(co'[r][y]) => Beginning(co[r][y])
         /\ WillCall(co'[r][y]) <=> WillCall(co[r][y])
         /\ \A op : Leading(co'[r][y], op) <=> Leading(co[r][y], op)
  <1>1. PICK k, l : k = co[r][y] /\ l = co'[r][y]
    OBVIOUS
  <1>2. k \in Seq(Step) /\ l \in Seq(Step) /\ (l = k \/ Missed(k, l))
    BY <1>1 DEF TabTypeOK, Untouched
  <1>3. QED
    BY <1>1, <1>2, KeptForm, Zenon

-----------------------------------------------------------------------------
(* A step keeps the course of the game, unless it empties the table.       *)
LEMMA CourseKept ==
  ASSUME ChanTypeOK, TabTypeOK, TabTypeOK', Waits, NEW s \in Service, NEW x \in Coroutine,
         Resumed(s, x), Outcome(s, x), TableKind(s, x), ~Empties(s), Goes(s, x),
         Copies(s), Course(s)
  PROVE  Course(s)'
  <1> DEFINE o == co[s][x]
             p == co'[s][x]
  <1>1. Untouched(s, x) /\ tb'[s].tid = tb[s].tid
    BY OtherTables, SameTid
  <1>2. /\ Form(p) /\ (Beginning(p) => Running(s, x)' /\ ~Empty(s)') /\ CourseStep(s, o, p)
    BY DEF Goes, GoesBy
  <1>3. \A y \in Coroutine \ {x} :
          /\ Form(co'[s][y]) /\ (InCourse(co'[s][y]) <=> InCourse(co[s][y]))
          /\ Beginning(co'[s][y]) => Beginning(co[s][y])
    <2>1. ASSUME NEW y \in Coroutine \ {x}
          PROVE  /\ Form(co'[s][y]) /\ (InCourse(co'[s][y]) <=> InCourse(co[s][y]))
                 /\ Beginning(co'[s][y]) => Beginning(co[s][y])
      <3>1. Form(co[s][y])
        BY DEF Course
      <3>2. QED
        BY <1>1, <3>1, OthersKept
    <2>2. QED
      BY <2>1
  <1>4. \A y \in Coroutine \ {x} : ~Beginning(co'[s][y])
    <2>1. \A y \in Coroutine \ {x} : ~Running(s, y)
      BY OthersWait
    <2>2. QED
      BY <1>3, <2>1 DEF Course
  <1>5. tb[s].tid = 0 => Empty(s)
    <2>1. ASSUME NEW c \in Occupied(tb[s].seat) PROVE tb[s].tid # 0
      <3>1. c \in Chair /\ tb[s].seat[c] \in User
        BY SeatType DEF Occupied
      <3>2. QED
        BY <3>1 DEF Copies, Here, Seated
    <2>2. QED
      BY <2>1 DEF Empty
  <1>6. /\ \A y \in Coroutine : InCourse(co[s][y]) => tb[s].started /\ tb[s].gstat = "FREE"
        /\ tb[s].gstat # "FREE" => tb[s].started
        /\ tb[s].tid = 0 => ~tb[s].started
        /\ Beginning(o) => ~Empty(s)
        /\ \A y, z \in Coroutine : InCourse(co[s][y]) /\ InCourse(co[s][z]) => y = z
    BY DEF Course
  <1>7. PICK st, g, t : st = tb'[s].started /\ g = tb'[s].gstat /\ t = tb'[s].tid
    OBVIOUS
  <1>8. /\ \A y \in Coroutine : InCourse(co'[s][y]) => st /\ g = "FREE"
        /\ g # "FREE" => st
        /\ t = 0 => ~st
        /\ \A y, z \in Coroutine : InCourse(co'[s][y]) /\ InCourse(co'[s][z]) => y = z
    <2>1. CASE SameGame(s) /\ (InCourse(p) => InCourse(o))
      <3>1. \A y \in Coroutine : InCourse(co'[s][y]) => InCourse(co[s][y])
        BY <1>3, <2>1
      <3>2. QED
        BY <1>1, <1>6, <1>7, <2>1, <3>1 DEF SameGame
    <2>2. CASE /\ tb[s].gstat # "FREE" /\ tb'[s].started = tb[s].started
               /\ InCourse(p) => tb'[s].gstat = "FREE"
      <3>1. \A y \in Coroutine : InCourse(co'[s][y]) => y = x
        BY <1>3, <1>6, <2>2
      <3>2. tb[s].started
        BY <1>6, <2>2
      <3>3. QED
        BY <1>1, <1>6, <1>7, <2>2, <3>1, <3>2
    <2>3. CASE /\ ~tb[s].started /\ tb'[s].started /\ tb'[s].gstat = tb[s].gstat
               /\ Beginning(o)
      <3>1. \A y \in Coroutine : InCourse(co'[s][y]) => y = x
        BY <1>3, <1>6, <2>3
      <3>2. tb[s].tid # 0 /\ tb[s].gstat = "FREE"
        BY <1>5, <1>6, <2>3
      <3>3. QED
        BY <1>1, <1>7, <2>3, <3>1, <3>2
    <2>4. CASE /\ InCourse(o) /\ ~InCourse(p)
               /\ tb'[s].gstat = tb[s].gstat \/ tb'[s].started = tb[s].started
      <3>1. \A y \in Coroutine : ~InCourse(co'[s][y])
        BY <1>3, <1>6, <2>4
      <3>2. tb[s].started /\ tb[s].gstat = "FREE" /\ tb[s].tid # 0
        BY <1>6, <2>4
      <3>3. QED
        BY <1>1, <1>7, <2>4, <3>1, <3>2
    <2>5. QED
      BY <1>2, <2>1, <2>2, <2>3, <2>4 DEF CourseStep
  <1>9. \A y \in Coroutine : Form(co'[s][y]) /\ (Beginning(co'[s][y]) => Running(s, y)' /\ ~Empty(s)')
    BY <1>2, <1>3, <1>4
  <1>10. QED
    BY <1>7, <1>8, <1>9 DEF Course
-----------------------------------------------------------------------------
(* The timer's turn: it has been answered, or it has nothing on its way.   *)
LEMMA TimerTurn ==
  ASSUME ChanTypeOK, TabTypeOK, CallInv, NEW s \in Service, Acts(s, "T")
  PROVE  \/ /\ "T" \in wt[s] /\ Answered(s, "T") /\ toTab'[s] = Tail(toTab[s])
            /\ toTab[s] # <<>> /\ Head(toTab[s]) \in Answers("T")
         \/ "T" \notin wt[s] /\ ~Answered(s, "T") /\ toTab'[s] = toTab[s] /\ ~Ahead(s)
  <1>1. Waits /\ "T" \in Coroutine /\ "T" # "R"
    BY CoroutineNames DEF CallInv
  <1>2. ASSUME toTab[s] # <<>>
        PROVE  Head(toTab[s]) \in Elems(toTab[s]) /\ Head(toTab[s]) \in TabMsg
    BY <1>2, QueueKinds, ElemsTail
  <1>3. Answered(s, "T") => toTab[s] # <<>> /\ Head(toTab[s]) \in Answers("T")
    BY <1>2 DEF Answered, Answers
  <1>4. "T" \notin wt[s] => ~Answered(s, "T") /\ ~Ahead(s)
    <2>1. ASSUME "T" \notin wt[s]
          PROVE  /\ \A m \in Elems(toTab[s]) : m \notin Answers("T")
                 /\ \A m \in Elems(toMgr[s]) : m \notin CallsOf("T")
      BY <1>1, <2>1, WaitFacts
    <2>2. ASSUME TimerFirst(toMgr[s])
          PROVE  \E m \in Elems(toMgr[s]) : m \in CallsOf("T")
      BY <2>2, QueueKinds, FirstOf
    <2>3. QED
      BY <1>2, <1>3, <2>1, <2>2 DEF Ahead, TimerNext
  <1>5. CASE Timer(s)
    <2>1. "T" \notin wt[s] /\ toTab' = toTab
      BY <1>5 DEF Timer, ReadyTimeout, GameTimeout, RobotReady, TimerFires
    <2>2. QED
      BY <1>4, <2>1
  <1>6. CASE RunStep(s, "T")
    <2>1. (Running(s, "T") \/ Answered(s, "T")) /\ AnswerTaken(s)
      BY <1>1, <1>6, RunStretch DEF Stretch
    <2>2. CASE Running(s, "T")
      <3>1. cur # Idle
        BY <2>2, WhoRuns DEF Running
      <3>2. "T" \notin wt[s] /\ toTab' = toTab
        BY <1>1, <2>1, <2>2, <3>1 DEF Waits, AnswerTaken
      <3>3. QED
        BY <1>4, <3>2
    <2>3. CASE Answered(s, "T")
      <3>1. cur = Idle
        BY <2>3 DEF Answered
      <3>2. toTab'[s] = Tail(toTab[s])
        BY <2>1, <3>1 DEF AnswerTaken, ChanTypeOK
      <3>3. "T" \in wt[s]
        BY <1>4, <2>3
      <3>4. QED
        BY <1>3, <2>3, <3>2, <3>3
    <2>4. QED
      BY <2>1, <2>2, <2>3
  <1>7. QED
    BY <1>1, <1>5, <1>6 DEF Acts

(* What a coroutine that is not the request sends is not an answer.        *)
LEMMA TimerSends ==
  ASSUME ChanTypeOK, NEW s \in Service, Outcome(s, "T")
  PROVE  \A m \in Returned : m \in Elems(toMgr'[s]) <=> m \in Elems(toMgr[s])
  <1>1. toMgr[s] \in Seq(MgrMsg)
    BY DEF ChanTypeOK
  <1>2. CASE WaitsForMgr(s, "T")
    <2>1. PICK e \in CallsOf("T") : toMgr' = [toMgr EXCEPT ![s] = Append(@, e)]
      BY <1>2 DEF WaitsForMgr
    <2>2. toMgr'[s] = Append(toMgr[s], e) /\ e \in MgrMsg /\ e \notin Returned
      BY <2>1 DEF ChanTypeOK, CallsOf, Returned
    <2>3. Elems(toMgr'[s]) = Elems(toMgr[s]) \cup {e}
      BY <1>1, <2>2, ElemsAppend
    <2>4. QED
      BY <2>2, <2>3
  <1>3. CASE RunsOn(s, "T") \/ Ends(s, "T")
    BY <1>3, CoroutineNames DEF RunsOn, Ends
  <1>4. QED
    BY <1>2, <1>3 DEF Outcome

LEMMA GuardTimer ==
  ASSUME ChanTypeOK, TabTypeOK, TabTypeOK', CallInv, UNCHANGED mgrVars,
         NEW s \in Service, Resumed(s, "T"), Outcome(s, "T"), Untouched(s, "T"),
         Acts(s, "T"), Form(co[s]["R"])
  PROVE  /\ Closing(s)' <=> Closing(s)
         /\ Guard(s)' + Bit("T" \in wt[s]) >= Guard(s) /\ Guard(s) >= 0 /\ Guard(s)' >= 0
         /\ ~Closing(s) => Guard(s)' >= 1
  <1>1. "T" \in Coroutine /\ "R" \in Coroutine /\ "T" # "R" /\ Waits
    BY CoroutineNames DEF CallInv
  <1>2. toTab[s] \in Seq(TabMsg)
    BY DEF ChanTypeOK
  <1>3. \A m \in Asked : m \in Elems(toTab'[s]) <=> m \in Elems(toTab[s])
    <2>1. CASE /\ toTab'[s] = Tail(toTab[s])
               /\ toTab[s] # <<>> /\ Head(toTab[s]) \in Answers("T")
      <3>1. Elems(toTab[s]) = Elems(toTab'[s]) \cup {Head(toTab[s])}
        BY <1>2, <2>1, ElemsTail
      <3>2. Head(toTab[s]) \notin Asked
        BY <2>1 DEF Answers, Asked
      <3>3. QED
        BY <3>1, <3>2
    <2>2. CASE toTab'[s] = toTab[s]
      BY <2>2
    <2>3. QED
      BY <2>1, <2>2, TimerTurn
  <1>4. Closing(s)' <=> Closing(s)
    <2>1. req' = req
      BY DEF mgrVars
    <2>2. QED
      BY <1>3, <2>1, TimerSends DEF Closing
  <1>5. /\ Active(s, "R")' <=> Active(s, "R")
        /\ "R" \in wt'[s] <=> "R" \in wt[s]
    BY <1>1, OthersWait DEF Active
  <1>6. WillCall(co'[s]["R"]) <=> WillCall(co[s]["R"])
    BY <1>1, OthersKept
  <1>7. /\ Active(s, "R") <=> "R" \in wt[s]
    BY <1>1, OthersWait DEF Active
  <1>8. "T" \notin wt[s] => ~Ahead(s)
    BY TimerTurn
  <1>9. QED
    BY <1>4, <1>5, <1>6, <1>7, <1>8 DEF Guard, Bit

-----------------------------------------------------------------------------
(* The request's turn: only the timer has something on its way.            *)
LEMMA RequestTurn ==
  ASSUME ChanTypeOK, TabTypeOK, CallInv, NEW s \in Service, Acts(s, "R")
  PROVE  /\ \A m \in Elems(toTab'[s]) : m \in Answers("T")
         /\ \A m \in Elems(toTab[s]) : m \in Answers("T") => m \in Elems(toTab'[s])
         /\ toTab'[s] \in Seq(TabMsg)
         /\ \A m \in Elems(toMgr[s]) : m \notin Returned /\ m \notin CallsOf("R")
         /\ ~TimerFirst(toMgr[s])
         /\ \/ RunStep(s, "R") /\ Active(s, "R")
               /\ (\A m \in Elems(toTab[s]) : m \notin Asked)
               /\ ("R" \in wt[s] => ~TimerNext(toTab[s]))
            \/ /\ Request(s) /\ ~Active(s, "R") /\ ~TimerNext(toTab[s])
               /\ toTab[s] # <<>> /\ Head(toTab[s]) \in Asked
               /\ Takes(s, Head(toTab[s]).op)
  <1>1. Waits /\ OneAsked /\ "T" \in Coroutine /\ "R" \in Coroutine /\ "T" # "R"
    BY CoroutineNames DEF CallInv
  <1>2. toTab[s] \in Seq(TabMsg) /\ toMgr[s] \in Seq(MgrMsg)
    BY DEF ChanTypeOK
  <1>3. ASSUME toTab[s] # <<>>
        PROVE  /\ Head(toTab[s]) \in Elems(toTab[s]) /\ Head(toTab[s]) \in TabMsg
               /\ Elems(toTab[s]) = Elems(Tail(toTab[s])) \cup {Head(toTab[s])}
               /\ Tail(toTab[s]) \in Seq(TabMsg)
    BY <1>2, <1>3, ElemsTail, SeqParts
  <1>4. \A m : /\ m \in Asked => m \notin Answers("T") /\ m \notin Answers("R")
               /\ m \in Answers("R") => m \notin Answers("T")
    BY <1>1 DEF Asked, Answers
  <1>5. ASSUME \A m \in Elems(toMgr[s]) : m \notin Returned /\ m \notin CallsOf("R")
        PROVE  ~TimerFirst(toMgr[s])
    BY <1>2, <1>5, FirstOf
  <1>6. CASE RunStep(s, "R")
    <2>1. (Running(s, "R") \/ Answered(s, "R")) /\ AnswerTaken(s)
      BY <1>1, <1>6, RunStretch DEF Stretch
    <2>2. CASE Running(s, "R")
      <3>1. cur # Idle /\ Active(s, "R")
        BY <2>2, WhoRuns DEF Running, Active
      <3>2. "R" \notin wt[s] /\ toTab' = toTab
        BY <1>1, <2>1, <2>2, <3>1 DEF Waits, AnswerTaken
      <3>3. /\ \A m \in Elems(toTab[s]) : m \notin Asked /\ m \notin Answers("R")
            /\ \A m \in Elems(toMgr[s]) : m \notin Returned /\ m \notin CallsOf("R")
        BY <1>1, <3>1, <3>2, OneFacts, WaitFacts
      <3>4. \A m \in Elems(toTab[s]) : m \in Answers("T")
        BY <3>3, QueueKinds
      <3>5. QED
        BY <1>2, <1>5, <1>6, <3>1, <3>2, <3>3, <3>4
    <2>3. CASE Answered(s, "R")
      <3>1. cur = Idle /\ toTab[s] # <<>> /\ Head(toTab[s]) \in Answers("R")
        BY <1>3, <2>3 DEF Answered, Answers
      <3>2. toTab'[s] = Tail(toTab[s])
        BY <2>1, <3>1 DEF AnswerTaken, ChanTypeOK
      <3>3. "R" \in wt[s] /\ Active(s, "R")
        BY <1>1, <1>3, <3>1, WaitFacts DEF Active
      <3>4. /\ \A m \in Elems(toTab[s]) : m \notin Asked
            /\ \A m \in Elems(toMgr[s]) : m \notin Returned
        BY <1>1, <3>3, OneFacts
      <3>5. /\ \A m \in Elems(toTab'[s]) : m \notin Answers("R")
            /\ \A m \in Elems(toMgr[s]) : m \notin CallsOf("R")
        BY <1>1, <1>3, <3>1, <3>2, WaitFacts
      <3>6. \A m \in Elems(toTab'[s]) : m \in Answers("T")
        BY <1>3, <3>1, <3>2, <3>4, <3>5, QueueKinds
      <3>7. \A m \in Elems(toTab[s]) : m \in Answers("T") => m \in Elems(toTab'[s])
        BY <1>3, <1>4, <3>1, <3>2
      <3>8. ~TimerNext(toTab[s])
        BY <1>4, <3>1 DEF TimerNext
      <3>9. toTab'[s] \in Seq(TabMsg)
        BY <1>3, <3>1, <3>2
      <3>10. QED
        BY <1>5, <1>6, <3>3, <3>4, <3>5, <3>6, <3>7, <3>8, <3>9
    <2>4. QED
      BY <2>1, <2>2, <2>3
  <1>7. CASE Request(s)
    <2>1. TakesHead(s) /\ Head(toTab[s]).k = "req" /\ Takes(s, Head(toTab[s]).op)
      BY <1>7 DEF Request, start, cleanup, get_can_sit_chairid, get_table_info, user_sitdown,
         user_sitdown_ob, request_user_standup, robot_standup, user_offline,
         update_user_conn, game_msg, init_game, request_user_ready, Takes, TakesHead
    <2>2. toTab[s] # <<>> /\ toTab'[s] = Tail(toTab[s]) /\ Head(toTab[s]) \in Asked
      BY <1>3, <2>1 DEF TakesHead, ChanTypeOK, Asked
    <2>3. \A m \in Elems(toTab'[s]) : m \notin Asked
      BY <1>1, <2>2, AskedOnce
    <2>4. ~Active(s, "R") /\ \A m \in Elems(toMgr[s]) : m \notin Returned
      BY <1>1, <1>3, <2>2, OneFacts
    <2>5. /\ \A m \in Elems(toTab[s]) : m \notin Answers("R")
          /\ \A m \in Elems(toMgr[s]) : m \notin CallsOf("R")
      BY <1>1, <2>4, WaitFacts DEF Active
    <2>6. \A m \in Elems(toTab'[s]) : m \in Answers("T")
      BY <1>3, <2>2, <2>3, <2>5, QueueKinds
    <2>7. \A m \in Elems(toTab[s]) : m \in Answers("T") => m \in Elems(toTab'[s])
      BY <1>3, <1>4, <2>2
    <2>8. ~TimerNext(toTab[s])
      BY <1>4, <2>2 DEF TimerNext
    <2>9. toTab'[s] \in Seq(TabMsg)
      BY <1>3, <2>2
    <2>10. QED
      BY <1>5, <1>7, <2>1, <2>2, <2>4, <2>5, <2>6, <2>7, <2>8, <2>9
  <1>8. QED
    BY <1>1, <1>6, <1>7 DEF Acts
-----------------------------------------------------------------------------
(* How a request leaves a table whose timer is suspended.                  *)
LEMMA RequestLeaves ==
  ASSUME ChanTypeOK, TabTypeOK, CallInv, UNCHANGED mgrVars, NEW s \in Service,
         Resumed(s, "R"), Outcome(s, "R"), Acts(s, "R")
  PROVE  /\ Guard(s)' \in Nat
         /\ Closing(s)' => Ends(s, "R") /\ req.pc = "info"
                           /\ \E m \in Elems(toMgr'[s]) : m \in Returned /\ m.val = 0
         /\ ~Closing(s)' => Guard(s)' >= 1
         /\ RunsOn(s, "R") =>
              Guard(s)' >= 2 /\ (WillCall(co'[s]["R"]) => Guard(s)' >= 3)
         /\ "T" \in wt[s] =>
              /\ WaitsForMgr(s, "R") => Guard(s)' >= 3
              /\ Ends(s, "R") => Guard(s)' >= 1 /\ (~Closing(s)' => Guard(s)' >= 2)
  <1>1. Waits /\ "T" \in Coroutine /\ "R" \in Coroutine /\ "T" # "R"
    BY CoroutineNames DEF CallInv
  <1>2. toTab[s] \in Seq(TabMsg) /\ toMgr[s] \in Seq(MgrMsg)
    BY DEF ChanTypeOK
  <1>3. /\ \A m \in Elems(toTab'[s]) : m \in Answers("T")
        /\ \A m \in Elems(toTab[s]) : m \in Answers("T") => m \in Elems(toTab'[s])
        /\ toTab'[s] \in Seq(TabMsg)
        /\ \A m \in Elems(toMgr[s]) : m \notin Returned /\ m \notin CallsOf("R")
    BY RequestTurn
  <1>4. \A m \in Answers("T") : m \notin Asked
    BY DEF Answers, Asked
  <1>5. req' = req
    BY DEF mgrVars
  <1>6. /\ RunsOn(s, "R") => toMgr'[s] = toMgr[s]
        /\ WaitsForMgr(s, "R") =>
             \E e \in CallsOf("R") : toMgr'[s] = Append(toMgr[s], e) /\ e \in MgrMsg
        /\ Ends(s, "R") =>
             \E e \in Returned : toMgr'[s] = Append(toMgr[s], e) /\ e \in MgrMsg
    BY DEF RunsOn, WaitsForMgr, Ends, ChanTypeOK, CallsOf, Returned
  <1>7. \A e \in CallsOf("R") : e \notin Returned
    BY DEF CallsOf, Returned
  <1>8. RunsOn(s, "R") \/ WaitsForMgr(s, "R") =>
          \A m \in Elems(toMgr'[s]) : m \notin Returned
    <2>1. ASSUME WaitsForMgr(s, "R")
          PROVE  \A m \in Elems(toMgr'[s]) : m \notin Returned
      <3>1. PICK e \in CallsOf("R") : toMgr'[s] = Append(toMgr[s], e) /\ e \in MgrMsg
        BY <1>6, <2>1
      <3>2. Elems(toMgr'[s]) = Elems(toMgr[s]) \cup {e}
        BY <1>2, <3>1, ElemsAppend
      <3>3. QED
        BY <1>3, <1>7, <3>2
    <2>2. QED
      BY <1>3, <1>6, <2>1
  <1>9. Closing(s)' => Ends(s, "R") /\ req.pc = "info"
                       /\ \E m \in Elems(toMgr'[s]) : m \in Returned /\ m.val = 0
    <2>1. ASSUME Closing(s)'
          PROVE  req'.pc = "info" /\ \E m \in Elems(toMgr'[s]) : m \in Returned /\ m.val = 0
      BY <1>3, <1>4, <2>1 DEF Closing
    <2>2. QED
      BY <1>5, <1>8, <2>1 DEF Outcome
  <1>10. ASSUME "T" \in wt[s], WaitsForMgr(s, "R") \/ Ends(s, "R")
         PROVE  Ahead(s)'
    <2>1. CASE \E m \in Elems(toTab[s]) : m \in Answers("T")
      <3>1. toTab'[s] # <<>>
        BY <1>3, <2>1 DEF Elems
      <3>2. Head(toTab'[s]) \in Elems(toTab'[s])
        BY <1>3, <3>1, ElemsTail
      <3>3. TimerNext(toTab'[s])
        BY <1>3, <3>1, <3>2 DEF TimerNext
      <3>4. QED
        BY <3>3 DEF Ahead
    <2>2. CASE \E m \in Elems(toMgr[s]) : m \in CallsOf("T")
      <3>1. PICK e \in Returned \cup CallsOf("R") :
                   toMgr'[s] = Append(toMgr[s], e) /\ e \in MgrMsg
        BY <1>6, <1>10
      <3>2. TimerFirst(toMgr'[s])
        BY <1>2, <2>2, <3>1, FirstAppend
      <3>3. QED
        BY <3>2 DEF Ahead
    <2>3. QED
      BY <1>1, <1>10, <2>1, <2>2, WaitFacts
  <1>11. RunsOn(s, "R") => Active(s, "R")'
    BY DEF RunsOn, Active, Running
  <1>12. WaitsForMgr(s, "R") => Active(s, "R")' /\ "R" \in wt'[s]
    BY DEF WaitsForMgr, Active, TabTypeOK
  <1>13. /\ RunsOn(s, "R") => ~Ends(s, "R") /\ ~Closing(s)'
         /\ WaitsForMgr(s, "R") => ~Ends(s, "R") /\ ~Closing(s)'
    <2>1. ASSUME Ends(s, "R")
          PROVE  \E m \in Elems(toMgr'[s]) : m \in Returned
      <3>1. PICK e \in Returned : toMgr'[s] = Append(toMgr[s], e) /\ e \in MgrMsg
        BY <1>6, <2>1
      <3>2. Elems(toMgr'[s]) = Elems(toMgr[s]) \cup {e}
        BY <1>2, <3>1, ElemsAppend
      <3>3. QED
        BY <3>1, <3>2
    <2>2. QED
      BY <1>8, <1>9, <2>1
  <1>14. Guard(s)' \in Nat /\ (~Closing(s)' => Guard(s)' >= 1)
    BY DEF Guard, Bit
  <1>15. RunsOn(s, "R") =>
           Guard(s)' >= 2 /\ (WillCall(co'[s]["R"]) => Guard(s)' >= 3)
    BY <1>11, <1>13 DEF Guard, Bit
  <1>16. "T" \in wt[s] /\ WaitsForMgr(s, "R") => Guard(s)' >= 3
    BY <1>10, <1>12, <1>13 DEF Guard, Bit
  <1>17. "T" \in wt[s] /\ Ends(s, "R") =>
           Guard(s)' >= 1 /\ (~Closing(s)' => Guard(s)' >= 2)
    BY <1>10 DEF Guard, Bit
  <1>18. QED
    BY <1>9, <1>14, <1>15, <1>16, <1>17

(* A step of a request that runs leaves the timer as many calls.           *)
LEMMA GuardRun ==
  ASSUME ChanTypeOK, TabTypeOK, CallInv, UNCHANGED mgrVars, NEW s \in Service,
         Resumed(s, "R"), Outcome(s, "R"), Removing(s), RunStep(s, "R"), CallStays(s)
  PROVE  /\ ~Closing(s) /\ ~Closing(s)' /\ Guard(s)' >= 1
         /\ "T" \in wt[s] => Guard(s)' >= Guard(s) /\ Guard(s)' >= 2
         /\ Guard(s) \in Nat /\ Guard(s)' \in Nat
  <1>1. Acts(s, "R") /\ "R" # "T"
    BY CoroutineNames DEF Acts
  <1>2. /\ \A m \in Elems(toMgr[s]) : m \notin Returned /\ m \notin CallsOf("R")
        /\ ~TimerFirst(toMgr[s])
        /\ Active(s, "R") => /\ \A m \in Elems(toTab[s]) : m \notin Asked
                             /\ "R" \in wt[s] => ~TimerNext(toTab[s])
    BY <1>1, RequestTurn
  <1>3. Active(s, "R")
    <2>1. Running(s, "R") \/ Answered(s, "R")
      BY RunStretch, CoroutineNames DEF Stretch
    <2>2. Answered(s, "R") => "R" \in wt[s]
      <3>1. ASSUME Answered(s, "R")
            PROVE  \E m \in Elems(toTab[s]) : m \in Answers("R")
        <4>1. toTab[s] # <<>> /\ toTab[s] \in Seq(TabMsg)
          BY <3>1 DEF Answered, ChanTypeOK
        <4>2. Head(toTab[s]) \in Elems(toTab[s]) /\ Head(toTab[s]) \in TabMsg
          BY <4>1, ElemsTail, SeqParts
        <4>3. QED
          BY <3>1, <4>2 DEF Answered, Answers
      <3>2. QED
        BY <3>1, WaitFacts, CoroutineNames DEF CallInv
    <2>3. QED
      BY <2>1, <2>2 DEF Active
  <1>4. ~Closing(s) /\ req.pc # "info"
    BY <1>2, <1>3 DEF Closing, Removing
  <1>5. "R" \in wt[s] => ~Ahead(s)
    BY <1>2, <1>3 DEF Ahead
  <1>6. /\ WillCall(co[s]["R"]) => Guard(s) = 3
        /\ ~WillCall(co[s]["R"]) => Guard(s) = 2
    BY <1>3, <1>4, <1>5 DEF Guard, Bit
  <1>7. /\ ~Closing(s)'
        /\ Guard(s)' >= 1 /\ Guard(s)' \in Nat
        /\ RunsOn(s, "R") =>
             Guard(s)' >= 2 /\ (WillCall(co'[s]["R"]) => Guard(s)' >= 3)
        /\ "T" \in wt[s] => /\ WaitsForMgr(s, "R") => Guard(s)' >= 3
                            /\ Ends(s, "R") => Guard(s)' >= 2
    BY <1>1, <1>4, RequestLeaves
  <1>8. ASSUME RunsOn(s, "R"), WillCall(co[s]["R"])
        PROVE  WillCall(co'[s]["R"])
    <2>1. toMgr'[s] = toMgr[s] /\ toMgr[s] \in Seq(MgrMsg)
      BY <1>8 DEF RunsOn, ChanTypeOK
    <2>2. \A m \in CallsOf("R") : Append(toMgr[s], m) # toMgr[s]
      BY <2>1 DEF CallsOf
    <2>3. QED
      BY <1>8, <2>1, <2>2 DEF CallStays
  <1>9. ASSUME Ends(s, "R")
        PROVE  ~WillCall(co[s]["R"])
    <2>1. ~WillCall(co'[s]["R"])
      BY <1>9, NoCallLeft DEF Ends
    <2>2. PICK e \in Returned : toMgr'[s] = Append(toMgr[s], e)
      BY <1>9 DEF Ends, ChanTypeOK
    <2>3. \A m \in CallsOf("R") : Append(toMgr[s], m) # Append(toMgr[s], e)
      <3>1. toMgr[s] \in Seq(MgrMsg) /\ e \in MgrMsg /\ Len(toMgr[s]) \in Nat
        BY DEF ChanTypeOK, Returned
      <3>2. \A m \in MgrMsg : Append(toMgr[s], m)[Len(toMgr[s]) + 1] = m
        BY <3>1
      <3>3. \A m \in CallsOf("R") : m # e /\ m \in MgrMsg
        BY DEF CallsOf, Returned
      <3>4. QED
        BY <3>1, <3>2, <3>3
    <2>4. QED
      BY <2>1, <2>2, <2>3 DEF CallStays
  <1>10. RunsOn(s, "R") => Guard(s)' >= Guard(s) /\ Guard(s)' >= 2
    BY <1>6, <1>7, <1>8
  <1>11. "T" \in wt[s] /\ WaitsForMgr(s, "R") => Guard(s)' >= Guard(s) /\ Guard(s)' >= 2
    BY <1>6, <1>7
  <1>12. "T" \in wt[s] /\ Ends(s, "R") => Guard(s)' >= Guard(s) /\ Guard(s)' >= 2
    BY <1>6, <1>7, <1>9
  <1>13. QED
    BY <1>4, <1>6, <1>7, <1>10, <1>11, <1>12 DEF Outcome

(* Nor does a request that is taken, but to clean the table up.            *)
LEMMA GuardAsked ==
  ASSUME ChanTypeOK, TabTypeOK, CallInv, UNCHANGED mgrVars, NEW s \in Service,
         Resumed(s, "R"), Outcome(s, "R"), Request(s), ~Empties(s)
  PROVE  /\ ~Closing(s)
         /\ "T" \in wt[s] => Guard(s)' >= Guard(s)
         /\ Guard(s) \in Nat /\ Guard(s)' \in Nat
  <1>1. Acts(s, "R") /\ OneAsked
    BY DEF Acts, CallInv
  <1>2. /\ \A m \in Elems(toMgr[s]) : m \notin Returned /\ m \notin CallsOf("R")
        /\ ~TimerFirst(toMgr[s])
    BY <1>1, RequestTurn
  <1>3. /\ ~Active(s, "R") /\ ~TimerNext(toTab[s])
        /\ toTab[s] # <<>> /\ Head(toTab[s]) \in Asked /\ Takes(s, Head(toTab[s]).op)
    <2>1. TakesHead(s) /\ Head(toTab[s]).k = "req"
      BY DEF Request, start, cleanup, get_can_sit_chairid, get_table_info, user_sitdown,
         user_sitdown_ob, request_user_standup, robot_standup, user_offline,
         update_user_conn, game_msg, init_game, request_user_ready, Takes, TakesHead
    <2>2. toTab[s] # <<>> /\ toTab[s] \in Seq(TabMsg)
      BY <2>1 DEF TakesHead, ChanTypeOK
    <2>3. Head(toTab[s]) \in Elems(toTab[s]) /\ Head(toTab[s]) \in TabMsg
      BY <2>2, ElemsTail, SeqParts
    <2>4. Head(toTab[s]) \in Asked
      BY <2>1, <2>3 DEF Asked
    <2>5. QED
      BY <1>1, <2>2, <2>3, <2>4, RequestTurn
  <1>4. Head(toTab[s]).op # "cleanup"
    <2>1. ASSUME Head(toTab[s]).op = "cleanup"
          PROVE  cleanup(s)
      BY <2>1 DEF Request, start, get_can_sit_chairid, get_table_info, user_sitdown,
         user_sitdown_ob, request_user_standup, robot_standup, user_offline,
         update_user_conn, game_msg, init_game, request_user_ready, Takes
    <2>2. QED
      BY <2>1, EmptiesKind DEF CallInv
  <1>5. \A m \in Elems(toTab[s]) : m \in Asked => m = Head(toTab[s])
    <2>1. \A m \in Elems(Tail(toTab[s])) : m \notin Asked
      BY <1>1, <1>3, AskedOnce
    <2>2. Elems(toTab[s]) = Elems(Tail(toTab[s])) \cup {Head(toTab[s])}
      BY <1>3, ElemsTail DEF ChanTypeOK
    <2>3. QED
      BY <2>1, <2>2
  <1>6. ~Closing(s)
    BY <1>2, <1>4, <1>5 DEF Closing
  <1>7. Guard(s) = 1
    BY <1>2, <1>3, <1>6 DEF Guard, Bit, Ahead
  <1>8. "T" \in wt[s] => Guard(s)' >= 1
    <2>1. /\ RunsOn(s, "R") => Guard(s)' >= 2
          /\ "T" \in wt[s] /\ WaitsForMgr(s, "R") => Guard(s)' >= 3
          /\ "T" \in wt[s] /\ Ends(s, "R") => Guard(s)' >= 1
          /\ Guard(s)' \in Nat
      BY <1>1, RequestLeaves
    <2>2. QED
      BY <2>1 DEF Outcome
  <1>9. Guard(s)' \in Nat
    BY <1>1, RequestLeaves
  <1>10. QED
    BY <1>6, <1>7, <1>8, <1>9
-----------------------------------------------------------------------------
(* How a step bears on whether anybody sits at the table: only a player    *)
(* who is let in does at an empty one, and no request takes anybody away.  *)
LEMMA EmptyKept ==
  ASSUME TabTypeOK, NEW s \in Service, NEW x \in Coroutine, TableKind(s, x),
         ~(x = "R" /\ LetsIn(s)), Empty(s)
  PROVE  Empty(s)'
  <1>1. CASE Silent(s, x)
    BY <1>1 DEF Silent, SamePlaces, Empty
  <1>2. CASE Informs(s, x)
    BY <1>2 DEF Informs, Empty
  <1>3. CASE TakesAway(s, x)
    <2>1. tb'[s].seat = Cleared(s, Top(s, x).c) /\ tb[s].seat \in [Chair -> UserOrNone]
      BY <1>3 DEF TakesAway, TabTypeOK, TableState
    <2>2. Occupied(Cleared(s, Top(s, x).c)) \subseteq Occupied(tb[s].seat)
      BY <2>1 DEF Occupied, Cleared
    <2>3. QED
      BY <2>1, <2>2 DEF Empty
  <1>4. CASE Empties(s)
    BY <1>4 DEF Empties, Empty, Occupied, NoSeats
  <1>5. QED
    BY <1>1, <1>2, <1>3, <1>4 DEF TableKind

LEMMA RequestEmpty ==
  ASSUME ChanTypeOK, TabTypeOK, NEW s \in Service, Silent(s, "R") \/ LetsIn(s), Empty(s)'
  PROVE  Empty(s)
  <1>1. CASE Silent(s, "R")
    BY <1>1 DEF Silent, SamePlaces, Empty
  <1>2. CASE LetsIn(s)
    <2>1. tb[s] \in TableState /\ None \notin User
      BY RoomAssumption DEF TabTypeOK
    <2>2. Arg(s).u \in User
      BY <1>2, LetsInFresh
    <2>3. Occupied(tb[s].seat) \subseteq Occupied(tb'[s].seat)
      BY <1>2, <2>1, <2>2 DEF LetsIn, Occupied, TableState
    <2>4. QED
      BY <2>3 DEF Empty
  <1>3. QED
    BY <1>1, <1>2

(* While the request runs, the timer's coroutine has the calls it had.     *)
LEMMA TurnsKept ==
  ASSUME ChanTypeOK, TabTypeOK, TabTypeOK', Waits, NEW s \in Service,
         Resumed(s, "R"), Outcome(s, "R"), Untouched(s, "R"), Form(co[s]["T"])
  PROVE  Turns(s)' = Turns(s) /\ Turns(s) \in 0 .. 2 /\ ("T" \notin wt[s] => Turns(s) = 0)
  <1>1. "T" \in Coroutine /\ "R" \in Coroutine /\ "T" # "R"
    BY CoroutineNames
  <1>2. ~Running(s, "T") /\ ("T" \in wt'[s] <=> "T" \in wt[s])
    BY <1>1, OthersWait
  <1>3. /\ InCourse(co'[s]["T"]) <=> InCourse(co[s]["T"])
        /\ Opening(co'[s]["T"]) <=> Opening(co[s]["T"])
    BY <1>1, OthersKept
  <1>4. "T" \notin wt[s] => co[s]["T"] = <<>>
    BY <1>1, <1>2 DEF Waits, Active
  <1>5. "T" \notin wt[s] => Turns(s) = 0
    BY <1>4, NoSteps DEF Turns, Bit
  <1>6. Turns(s)' = Turns(s) /\ Turns(s) \in 0 .. 2
    BY <1>2, <1>3 DEF Turns, Bit
  <1>7. QED
    BY <1>5, <1>6

-----------------------------------------------------------------------------
(* The table under its id, when the id stays.                              *)
LEMMA NamesKept ==
  ASSUME ChanTypeOK, TabTypeOK, NEW s \in Service, TabNext(s), UNCHANGED mgrVars,
         NEW r \in Service, tb'[r].tid = tb[r].tid, Names(r)
  PROVE  Names(r)'
  <1>1. Elems(toTab'[r]) \subseteq Elems(toTab[r])
    BY StillAsked
  <1>2. req' = req /\ gt' = gt
    BY DEF mgrVars
  <1>3. QED
    BY <1>1, <1>2 DEF Names, Starting

(* While a table is being removed, its request only looks at it and then   *)
(* cleans it up.                                                           *)
LEMMA RemovingTurn ==
  ASSUME ChanTypeOK, TabTypeOK, CallInv, NEW s \in Service, Acts(s, "R"), Removing(s),
         AsksWell(s), req.pc \in {"info", "clean"}, ~Empties(s)
  PROVE  get_table_info(s) /\ req.pc = "info" /\ gt[req.t] = s /\ ~Active(s, "R")
  <1>1. /\ Request(s) /\ ~Active(s, "R") /\ toTab[s] # <<>> /\ Head(toTab[s]) \in Asked
        /\ Takes(s, Head(toTab[s]).op)
    BY RequestTurn DEF Removing
  <1>2. AskedFor(s, Head(toTab[s]))
    BY <1>1, ElemsTail DEF AsksWell, ChanTypeOK
  <1>3. CASE req.pc = "info"
    <2>1. Head(toTab[s]).op = "get_table_info" /\ gt[req.t] = s
      BY <1>2, <1>3 DEF AskedFor
    <2>2. get_table_info(s)
      BY <1>1, <2>1 DEF Request, start, cleanup, get_can_sit_chairid, user_sitdown,
         user_sitdown_ob, request_user_standup, robot_standup, user_offline,
         update_user_conn, game_msg, init_game, request_user_ready, Takes
    <2>3. QED
      BY <1>1, <1>3, <2>1, <2>2
  <1>4. CASE req.pc = "clean"
    <2>1. Head(toTab[s]).op = "cleanup"
      BY <1>2, <1>4 DEF AskedFor
    <2>2. cleanup(s)
      BY <1>1, <2>1 DEF Request, start, get_table_info, get_can_sit_chairid, user_sitdown,
         user_sitdown_ob, request_user_standup, robot_standup, user_offline,
         update_user_conn, game_msg, init_game, request_user_ready, Takes
    <2>3. QED
      BY <2>2, EmptiesKind DEF CallInv
  <1>5. QED
    BY <1>3, <1>4

(* What it hears of the table, and how the table is left.                   *)
LEMMA InfoLeaves ==
  ASSUME ChanTypeOK, TabTypeOK, NEW s \in Service, get_table_info(s),
         \A m \in Elems(toMgr[s]) : m \notin Returned
  PROVE  /\ \A m \in Elems(toMgr'[s]) : m \in Returned /\ m.val = 0 => Empty(s)'
         /\ cur' = cur /\ wt' = wt /\ tb' = tb
  <1>1. PICK e : e = Return(TRUE, Cardinality(Occupied(tb[s].seat)))
    OBVIOUS
  <1>2. toMgr' = [toMgr EXCEPT ![s] = Append(@, e)] /\ cur' = cur /\ wt' = wt /\ tb' = tb
    BY <1>1 DEF get_table_info, Reply
  <1>3. toMgr'[s] = Append(toMgr[s], e) /\ toMgr[s] \in Seq(MgrMsg)
    BY <1>2 DEF ChanTypeOK
  <1>4. IsFiniteSet(Occupied(tb[s].seat)) /\ Cardinality(Occupied(tb[s].seat)) \in 0 .. MaxChair
    <2>1. IsFiniteSet(Chair) /\ Occupied(tb[s].seat) \in SUBSET Chair
      BY RoomAssumption, FS_Interval DEF Occupied, Chair
    <2>2. QED
      BY <2>1, FS_Subset, CountType
  <1>5. e \in MgrMsg
    BY <1>1, <1>4 DEF Return, MgrMsg, ReturnMsg
  <1>6. Elems(toMgr'[s]) = Elems(toMgr[s]) \cup {e}
    BY <1>3, <1>5, ElemsAppend
  <1>7. e.val = 0 => Empty(s)
    BY <1>1, <1>4, FS_EmptySet DEF Return, Empty
  <1>8. Empty(s) => Empty(s)'
    BY <1>2 DEF Empty
  <1>9. QED
    BY <1>2, <1>6, <1>7, <1>8
-----------------------------------------------------------------------------
(* A step of the timer's coroutine.  It leaves the request alone, ...      *)
LEMMA TimerLeaves ==
  ASSUME ChanTypeOK, TabTypeOK, CallInv, NEW s \in Service,
         Resumed(s, "T"), Outcome(s, "T"), Acts(s, "T")
  PROVE  /\ ~Empties(s)
         /\ \A m \in Asked : m \in Elems(toTab'[s]) <=> m \in Elems(toTab[s])
         /\ \A m \in Returned : m \in Elems(toMgr'[s]) <=> m \in Elems(toMgr[s])
         /\ Active(s, "R")' <=> Active(s, "R")
  <1>1. "T" \in Coroutine /\ "R" \in Coroutine /\ "T" # "R" /\ Waits
    BY CoroutineNames DEF CallInv
  <1>2. toTab[s] \in Seq(TabMsg)
    BY DEF ChanTypeOK
  <1>3. ASSUME toTab'[s] = Tail(toTab[s]), toTab[s] # <<>>, Head(toTab[s]) \in Answers("T")
        PROVE  /\ ~Empties(s)
               /\ \A m \in Asked : m \in Elems(toTab'[s]) <=> m \in Elems(toTab[s])
    <2>1. Elems(toTab[s]) = Elems(toTab'[s]) \cup {Head(toTab[s])}
      BY <1>2, <1>3, ElemsTail
    <2>2. Head(toTab[s]) \notin Asked
      BY <1>3 DEF Answers, Asked
    <2>3. ~Empties(s)
      BY <2>2 DEF Empties, Arg
    <2>4. QED
      BY <2>1, <2>2, <2>3
  <1>4. ASSUME toTab'[s] = toTab[s]
        PROVE  /\ ~Empties(s)
               /\ \A m \in Asked : m \in Elems(toTab'[s]) <=> m \in Elems(toTab[s])
    <2>1. ~Empties(s)
      <3>1. ASSUME Empties(s)
            PROVE  FALSE
        <4>1. toTab[s] # <<>> /\ toTab' = [toTab EXCEPT ![s] = Tail(@)]
          BY <3>1 DEF Empties, Takes
        <4>2. toTab'[s] = Tail(toTab[s])
          BY <4>1 DEF ChanTypeOK
        <4>3. PICK q : q = toTab[s]
          OBVIOUS
        <4>4. Len(Tail(q)) = Len(q) - 1 /\ Len(q) \in Nat
          BY <1>2, <4>1, <4>3, SeqParts
        <4>5. Tail(q) # q
          BY <4>4
        <4>6. QED
          BY <1>4, <4>2, <4>3, <4>5
      <3>2. QED
        BY <3>1
    <2>2. QED
      BY <1>4, <2>1
  <1>5. \A m \in Returned : m \in Elems(toMgr'[s]) <=> m \in Elems(toMgr[s])
    BY TimerSends
  <1>6. Active(s, "R")' <=> Active(s, "R")
    BY <1>1, OthersWait DEF Active
  <1>7. ~Empties(s) /\ \A m \in Asked : m \in Elems(toTab'[s]) <=> m \in Elems(toTab[s])
    BY <1>3, <1>4, TimerTurn
  <1>8. QED
    BY <1>5, <1>6, <1>7

(* ... and spends its calls.                                               *)
LEMMA TimerTurns ==
  ASSUME ChanTypeOK, TabTypeOK, TabTypeOK', CallInv, UNCHANGED mgrVars, NEW s \in Service,
         Resumed(s, "T"), Outcome(s, "T"), TableKind(s, "T"), Acts(s, "T"), Goes(s, "T"),
         Games(s), Empty(s)'
  PROVE  Turns(s)' <= Guard(s)'
  <1>1. "T" \in Coroutine /\ "R" \in Coroutine /\ "T" # "R"
    BY CoroutineNames
  <1>2. Untouched(s, "T") /\ Form(co[s]["R"])
    BY <1>1, OtherTables DEF Games, Course
  <1>3. PICK g, h : g = Guard(s) /\ h = Guard(s)'
    OBVIOUS
  <1>4. g \in Nat /\ h \in Nat
    BY <1>3 DEF Guard, Bit
  <1>5. /\ Closing(s)' <=> Closing(s)
        /\ h + Bit("T" \in wt[s]) >= g
        /\ ~Closing(s) => h >= 1
    BY <1>1, <1>2, <1>3, GuardTimer
  <1>6. /\ "T" \in wt[s] => h + 1 >= g
        /\ "T" \notin wt[s] => h >= g
    BY <1>4, <1>5 DEF Bit
  <1>7. CASE Empty(s)
    <2>1. Turns(s) <= g
      BY <1>3, <1>7 DEF Games
    <2>2. /\ Opening(co[s]["T"]) => Turns(s) >= 1
          /\ Opening(co[s]["T"]) /\ "T" \in wt[s] => Turns(s) >= 2
      BY DEF Turns, InCourse, Bit
    <2>3. Turns(s)' <= Bit(Opening(co[s]["T"]))
      BY <1>1, <1>7 DEF Goes, GoesBy, Spends, Turns
    <2>4. Turns(s)' \in Nat /\ Turns(s) \in Nat
      BY DEF Turns, Bit
    <2>5. CASE Opening(co[s]["T"])
      <3>1. Turns(s)' <= 1
        BY <2>3, <2>5 DEF Bit
      <3>2. h >= 1
        BY <1>4, <1>6, <2>1, <2>2, <2>4, <2>5
      <3>3. QED
        BY <1>3, <1>4, <2>4, <3>1, <3>2
    <2>6. CASE ~Opening(co[s]["T"])
      <3>1. Turns(s)' <= 0
        BY <2>3, <2>6 DEF Bit
      <3>2. QED
        BY <1>3, <1>4, <2>4, <3>1
    <2>7. QED
      BY <2>5, <2>6
  <1>8. CASE ~Empty(s)
    <2>1. (Base(co'[s]["T"]) \/ Telling(co'[s]["T"])) /\ "T" \notin wt'[s]
      BY <1>8 DEF Goes, GoesBy
    <2>2. co'[s]["T"] \in Seq(Step)
      BY <1>1 DEF TabTypeOK
    <2>3. ~Opening(co'[s]["T"])
      BY <2>1, <2>2, NotGames
    <2>4. Turns(s)' = 0
      BY <2>1, <2>3 DEF Turns, Bit
    <2>5. QED
      BY <1>3, <1>4, <2>4
  <1>9. QED
    BY <1>7, <1>8

LEMMA TimerGames ==
  ASSUME IInv, TabTypeOK', CallInv, UNCHANGED mgrVars, NEW s \in Service, TabNext(s),
         Resumed(s, "T"), Outcome(s, "T"), TableKind(s, "T"), Acts(s, "T"), Goes(s, "T"),
         TableShape(s), Games(s)
  PROVE  Games(s)'
  <1>1. ChanTypeOK /\ TabTypeOK /\ Waits /\ "T" \in Coroutine /\ "R" \in Coroutine /\ "T" # "R"
    BY CoroutineNames DEF IInv, MgrInv, CallInv
  <1>2. /\ ~Empties(s)
        /\ \A m \in Asked : m \in Elems(toTab'[s]) <=> m \in Elems(toTab[s])
        /\ \A m \in Returned : m \in Elems(toMgr'[s]) <=> m \in Elems(toMgr[s])
        /\ Active(s, "R")' <=> Active(s, "R")
    BY <1>1, TimerLeaves
  <1>3. tb'[s].tid = tb[s].tid /\ Untouched(s, "T")
    BY <1>1, <1>2, SameTid, OtherTables
  <1>4. Course(s)'
    BY <1>1, <1>2, CourseKept DEF Games, TableShape
  <1>5. Names(s)'
    BY <1>1, <1>3, NamesKept DEF Games
  <1>6. Removing(s)'
    <2>1. req' = req /\ gt' = gt /\ Removing(s)
      BY DEF mgrVars, Games
    <2>2. \A r \in Elems(toMgr'[s]) : r \notin Returned \/ r \in Elems(toMgr[s])
      BY <1>2
    <2>3. \A m \in Elems(toTab[s]) : m \notin Asked \/ m \in Elems(toTab'[s])
      BY <1>2
    <2>4. QED
      BY <1>2, <1>3, <2>1, <2>2, <2>3 DEF Removing
  <1>7. Closing(s)' => Empty(s)'
    <2>1. Closing(s)' <=> Closing(s)
      BY <1>1, <1>3, GuardTimer DEF Games, Course
    <2>2. QED
      BY <1>1, <2>1, EmptyKept DEF Games
  <1>8. Empty(s)' => Turns(s)' <= Guard(s)'
    BY <1>1, TimerTurns
  <1>9. QED
    BY <1>4, <1>5, <1>6, <1>7, <1>8 DEF Games

-----------------------------------------------------------------------------
(* A step of the request, unless it starts the table or cleans it up.      *)
LEMMA RequestRemoving ==
  ASSUME ChanTypeOK, TabTypeOK, CallInv, UNCHANGED mgrVars, NEW s \in Service,
         Acts(s, "R"), AsksWell(s), ~Empties(s), Removing(s)
  PROVE  /\ Removing(s)'
         /\ req.pc = "info" => \A m \in Elems(toMgr'[s]) : m \in Returned /\ m.val = 0 => Empty(s)'
  <1>1. req' = req /\ gt' = gt
    BY DEF mgrVars
  <1>2. CASE req.pc \in {"info", "clean"}
    <2>1. get_table_info(s) /\ req.pc = "info" /\ gt[req.t] = s /\ ~Active(s, "R")
      BY <1>2, RemovingTurn
    <2>2. \A m \in Elems(toMgr[s]) : m \notin Returned
      BY RequestTurn
    <2>3. /\ \A m \in Elems(toMgr'[s]) : m \in Returned /\ m.val = 0 => Empty(s)'
          /\ cur' = cur /\ wt' = wt /\ tb' = tb
      BY <2>1, <2>2, InfoLeaves
    <2>4. ~Active(s, "R")'
      BY <2>1, <2>3 DEF Active, Running
    <2>5. Removing(s)'
      BY <1>1, <2>1, <2>4 DEF Removing
    <2>6. QED
      BY <2>3, <2>5
  <1>3. CASE req.pc \notin {"info", "clean"}
    <2>1. Removing(s)'
      BY <1>1, <1>3 DEF Removing
    <2>2. QED
      BY <1>3, <2>1
  <1>4. QED
    BY <1>2, <1>3

LEMMA RequestGames ==
  ASSUME IInv, TabTypeOK', CallInv, UNCHANGED mgrVars, NEW s \in Service, TabNext(s),
         Resumed(s, "R"), Outcome(s, "R"), TableKind(s, "R"), Acts(s, "R"), Goes(s, "R"),
         ~Empties(s), TableShape(s), Games(s)
  PROVE  Games(s)'
  <1>1. /\ ChanTypeOK /\ TabTypeOK /\ Waits /\ OneAsked
        /\ "T" \in Coroutine /\ "R" \in Coroutine /\ "T" # "R"
    BY CoroutineNames DEF IInv, MgrInv, CallInv
  <1>2. tb'[s].tid = tb[s].tid /\ Untouched(s, "R") /\ AsksWell(s)
    BY <1>1, SameTid, OtherTables DEF TableShape
  <1>3. Course(s)' /\ Form(co[s]["T"])
    BY <1>1, CourseKept DEF Games, TableShape, Course
  <1>4. Names(s)'
    BY <1>1, <1>2, NamesKept DEF Games
  <1>5. /\ Removing(s)'
        /\ req.pc = "info" => \A m \in Elems(toMgr'[s]) : m \in Returned /\ m.val = 0 => Empty(s)'
    BY <1>1, <1>2, RequestRemoving DEF Games
  <1>6. Closing(s)' => Empty(s)'
    <2>1. Closing(s)' => req.pc = "info" /\ \E m \in Elems(toMgr'[s]) : m \in Returned /\ m.val = 0
      BY <1>1, RequestLeaves
    <2>2. QED
      BY <1>5, <2>1
  <1>7. Turns(s)' = Turns(s) /\ Turns(s) \in 0 .. 2 /\ ("T" \notin wt[s] => Turns(s) = 0)
    BY <1>1, <1>2, <1>3, TurnsKept
  <1>8. Guard(s) \in Nat /\ Guard(s)' \in Nat
    BY DEF Guard, Bit
  <1>9. ASSUME Empty(s)', "T" \in wt[s], RunStep(s, "R")
        PROVE  Guard(s)' >= 2
    <2>1. Silent(s, "R") \/ Informs(s, "R") \/ TakesAway(s, "R")
      BY <1>1, <1>9, RunStepKinds DEF TableShape
    <2>2. Informs(s, "R") => \E m \in CallsOf("R") : toMgr'[s] = Append(toMgr[s], m)
      BY <1>1 DEF Informs, ChanTypeOK
    <2>3. CallStays(s)
      BY <2>1, <2>2 DEF Silent, TakesAway, CallStays
    <2>4. QED
      BY <1>1, <1>9, <2>3, GuardRun DEF Games
  <1>10. ASSUME Empty(s)', "T" \in wt[s], Request(s)
         PROVE  Turns(s) <= Guard(s)'
    <2>1. Guard(s)' >= Guard(s)
      BY <1>1, <1>10, GuardAsked
    <2>2. Empty(s)
      BY <1>1, <1>2, <1>10, RequestKinds, RequestEmpty
    <2>3. QED
      BY <1>7, <1>8, <2>1, <2>2 DEF Games
  <1>11. Empty(s)' => Turns(s)' <= Guard(s)'
    <2>1. CASE "T" \notin wt[s]
      BY <1>7, <1>8, <2>1
    <2>2. ASSUME Empty(s)', "T" \in wt[s]
          PROVE  Turns(s) <= Guard(s)'
      <3>1. CASE RunStep(s, "R")
        BY <1>7, <1>8, <1>9, <2>2, <3>1
      <3>2. CASE Request(s)
        BY <1>10, <2>2, <3>2
      <3>3. QED
        BY <1>1, <3>1, <3>2 DEF Acts
    <2>3. QED
      BY <1>7, <2>1, <2>2
  <1>12. QED
    BY <1>3, <1>4, <1>5, <1>6, <1>11 DEF Games
-----------------------------------------------------------------------------
(* A table that is started has been given no id since it was pooled, and   *)
(* no game is left at it; one that is cleaned up has nobody at it, and its *)
(* timer has come to the end of its game's calls.                          *)
LEMMA NothingLeft ==
  ASSUME IInv, CallInv, NEW s \in Service, Acts(s, "R"), Empties(s), AsksWell(s), Games(s)
  PROVE  /\ \A x \in Coroutine : ~InCourse(co[s][x])
         /\ ~Active(s, "R")
         /\ AskedFor(s, Arg(s)) /\ Arg(s) \in Elems(toTab[s]) /\ Arg(s) \in Asked
  <1>1. /\ ChanTypeOK /\ TabTypeOK /\ MgrTypeOK /\ ResourcePartition /\ Waits /\ OneAsked
        /\ "T" \in Coroutine /\ "R" \in Coroutine /\ "T" # "R"
        /\ Coroutine = {"R", "T"}
    BY CoroutineNames DEF IInv, MgrInv, CallInv, Coroutine
  <1>2. /\ Arg(s) \in Elems(toTab[s]) /\ Arg(s) \in Asked /\ Arg(s).op \in {"start", "cleanup"}
    BY <1>1, EmptiesTakes
  <1>3. AskedFor(s, Arg(s)) /\ cur = Idle /\ co[s]["R"] = <<>>
    BY <1>2 DEF AsksWell, Empties, Takes
  <1>4. ~Active(s, "R") /\ \A m \in Elems(toMgr[s]) : m \notin Returned
    BY <1>1, <1>2, OneFacts
  <1>5. ~InCourse(co[s]["R"])
    BY <1>3, NoSteps
  <1>6. CASE Arg(s).op = "start"
    <2>1. Starting(s)
      BY <1>3, <1>6 DEF AskedFor
    <2>2. tb[s].tid \in TableId \cup {0}
      BY <1>1, RoomAssumption DEF TabTypeOK, TableState, TableId
    <2>3. ASSUME tb[s].tid # 0
          PROVE  FALSE
      <3>1. gt[tb[s].tid] = s
        BY <1>2, <2>3 DEF Games, Names
      <3>2. tb[s].tid \in Live
        BY <2>2, <2>3, <3>1, RoomAssumption DEF Live
      <3>3. QED
        BY <1>1, <2>1, <3>1, <3>2 DEF ResourcePartition
    <2>4. ~InCourse(co[s]["T"])
      BY <1>1, <2>3 DEF Games, Course
    <2>5. QED
      BY <1>1, <1>2, <1>3, <1>4, <1>5, <2>4
  <1>7. CASE Arg(s).op = "cleanup"
    <2>1. Closing(s)
      BY <1>2, <1>7 DEF Closing
    <2>2. toTab[s] # <<>> /\ Head(toTab[s]) \in Asked
      BY <1>2 DEF Arg, Empties, Takes
    <2>3. ~TimerNext(toTab[s])
      BY <2>2 DEF TimerNext, Answers, Asked
    <2>4. \A m \in Elems(toMgr[s]) : m \notin CallsOf("R")
      BY <1>1, <1>4, WaitFacts DEF Active
    <2>5. ~TimerFirst(toMgr[s])
      BY <1>1, <1>4, <2>4, FirstOf DEF ChanTypeOK
    <2>6. Guard(s) = 0
      BY <2>1, <2>3, <2>5 DEF Guard, Ahead, Bit
    <2>7. Turns(s) <= 0
      BY <2>1, <2>6 DEF Games
    <2>8. ~("T" \in wt[s] /\ InCourse(co[s]["T"]))
      BY <2>7 DEF Turns, Bit
    <2>9. ~Running(s, "T")
      BY <1>3, WhoRuns DEF Running
    <2>10. "T" \notin wt[s] => co[s]["T"] = <<>>
      BY <1>1, <2>9 DEF Waits, Active
    <2>11. ~InCourse(co[s]["T"])
      BY <2>8, <2>10, NoSteps
    <2>12. QED
      BY <1>1, <1>2, <1>3, <1>4, <1>5, <2>11
  <1>8. QED
    BY <1>2, <1>6, <1>7

LEMMA EmptiesGames ==
  ASSUME IInv, CallInv, UNCHANGED mgrVars, NEW s \in Service, Acts(s, "R"),
         Empties(s), AsksWell(s), Games(s)
  PROVE  Games(s)'
  <1>1. ChanTypeOK /\ TabTypeOK /\ OneAsked
    BY DEF IInv, MgrInv, CallInv
  <1>2. /\ \A x \in Coroutine : ~InCourse(co[s][x])
        /\ ~Active(s, "R")
        /\ AskedFor(s, Arg(s)) /\ Arg(s) \in Elems(toTab[s]) /\ Arg(s) \in Asked
    BY NothingLeft
  <1>3. /\ \A m \in Elems(toTab'[s]) : m \notin Asked
        /\ Arg(s).op \in {"start", "cleanup"}
        /\ tb'[s].tid = IF Arg(s).op = "start" THEN Arg(s).tid ELSE 0
    BY <1>1, EmptiesTakes
  <1>4. /\ co' = co /\ wt' = wt /\ cur' = cur /\ cur = Idle
        /\ tb'[s].seat = NoSeats
    BY DEF Empties, Takes
  <1>5. req' = req /\ gt' = gt
    BY DEF mgrVars
  <1>6. ~tb'[s].started /\ tb'[s].gstat = "FREE"
    <2>1. start(s) \/ cleanup(s)
      <3>1. Request(s) /\ Takes(s, Arg(s).op)
        BY <1>1, <1>2, RequestTurn DEF Empties, CallInv, Arg
      <3>2. QED
        BY <1>3, <3>1 DEF Request, get_table_info, get_can_sit_chairid, user_sitdown,
           user_sitdown_ob, request_user_standup, robot_standup, user_offline,
           update_user_conn, game_msg, init_game, request_user_ready, Takes, Arg
    <2>2. \/ tb' = [tb EXCEPT ![s] = [FreshTable EXCEPT !.tid = Arg(s).tid, !.recs = tb[s].recs,
                               !.rtimer = tb[s].rtimer, !.alive = tb[s].alive]]
          \/ tb' = [tb EXCEPT ![s] = [FreshTable EXCEPT !.recs = tb[s].recs, !.alive = tb[s].alive,
                               !.playing = tb[s].playing, !.banker = tb[s].banker]]
      BY <2>1 DEF start, cleanup
    <2>3. QED
      BY <1>1, <2>2 DEF FreshTable, TabTypeOK
  <1>7. Course(s)'
    <2>1. \A x \in Coroutine : ~Running(s, x)
      BY <1>4, WhoRuns DEF Running
    <2>2. \A x \in Coroutine : Form(co[s][x]) /\ ~Beginning(co[s][x])
      BY <2>1 DEF Games, Course
    <2>3. QED
      BY <1>2, <1>4, <1>6, <2>2 DEF Course
  <1>8. Names(s)'
    BY <1>2, <1>3, <1>5 DEF Names, AskedFor, Starting
  <1>9. Removing(s)'
    <2>1. ~Active(s, "R")'
      BY <1>2, <1>4 DEF Active, Running
    <2>2. /\ req.pc # "info"
          /\ req.pc = "clean" => Arg(s).op = "cleanup" /\ gt[req.t] = s
      BY <1>2, <1>3 DEF AskedFor
    <2>3. QED
      BY <1>3, <1>5, <2>1, <2>2 DEF Removing
  <1>10. Empty(s)'
    BY <1>4 DEF Empty, Occupied, NoSeats
  <1>11. Turns(s)' <= Guard(s)'
    <2>1. ~InCourse(co'[s]["T"])
      BY <1>2, <1>4, CoroutineNames
    <2>2. Turns(s)' = 0
      BY <2>1 DEF Turns, InCourse, Bit
    <2>3. Guard(s)' \in Nat
      BY DEF Guard, Bit
    <2>4. QED
      BY <2>2, <2>3
  <1>12. QED
    BY <1>7, <1>8, <1>9, <1>10, <1>11 DEF Games

-----------------------------------------------------------------------------
(* The games of another table.                                             *)
LEMMA OtherGames ==
  ASSUME IInv, TabTypeOK', CallInv, UNCHANGED mgrVars, NEW s \in Service, NEW x \in Coroutine,
         TabNext(s), Resumed(s, x), Outcome(s, x), TableKind(s, x),
         NEW r \in Service, r # s, Games(r)
  PROVE  Games(r)'
  <1>1. /\ ChanTypeOK /\ TabTypeOK /\ Waits /\ Untouched(s, x)
        /\ "T" \in Coroutine /\ "R" \in Coroutine
    BY CoroutineNames, OtherTables DEF IInv, MgrInv, CallInv
  <1>2. req' = req /\ gt' = gt /\ tb'[r] = tb[r]
    BY <1>1 DEF mgrVars, Untouched
  <1>3. /\ toTab'[r] = toTab[r] /\ toMgr'[r] = toMgr[r] /\ wt'[r] = wt[r]
        /\ \A y : ~Running(r, y) /\ ~Running(r, y)'
    BY <1>1, OthersWait
  <1>4. ASSUME NEW y \in Coroutine
        PROVE  /\ Form(co'[r][y])
               /\ InCourse(co'[r][y]) <=> InCourse(co[r][y])
               /\ Opening(co'[r][y]) <=> Opening(co[r][y])
               /\ Beginning(co'[r][y]) => Beginning(co[r][y])
               /\ WillCall(co'[r][y]) <=> WillCall(co[r][y])
    <2>1. Form(co[r][y])
      BY DEF Games, Course
    <2>2. QED
      BY <1>1, <2>1, OthersKept
  <1>5. Course(r)'
    <2>1. Course(r)
      BY DEF Games
    <2>2. \A y \in Coroutine : ~Beginning(co'[r][y])
      BY <1>3, <1>4, <2>1 DEF Course
    <2>3. QED
      BY <1>2, <1>4, <2>1, <2>2 DEF Course
  <1>6. /\ Active(r, "R")' <=> Active(r, "R")
        /\ Ahead(r)' <=> Ahead(r)
        /\ Closing(r)' <=> Closing(r)
        /\ Empty(r)' <=> Empty(r)
    BY <1>2, <1>3 DEF Active, Ahead, Closing, Empty
  <1>7. Names(r)' /\ Removing(r)'
    BY <1>2, <1>3, <1>6 DEF Games, Names, Removing, Starting
  <1>8. Turns(r)' = Turns(r)
    BY <1>1, <1>3, <1>4 DEF Turns, Bit
  <1>9. Guard(r)' = Guard(r)
    BY <1>1, <1>3, <1>4, <1>6 DEF Guard, Bit
  <1>10. QED
    BY <1>5, <1>6, <1>7, <1>8, <1>9 DEF Games

(* A step of a table.                                                      *)
LEMMA TabGames ==
  ASSUME IInv, TabTypeOK', CallInv, ShapeInv, UNCHANGED mgrVars, NEW s \in Service, TabNext(s),
         \A r \in Service : Games(r)
  PROVE  \A r \in Service : Games(r)'
  <1>1. /\ ChanTypeOK /\ TabTypeOK /\ Waits /\ OneAsked /\ TableShape(s)
        /\ "T" \in Coroutine /\ "R" \in Coroutine /\ Coroutine = {"R", "T"}
    BY CoroutineNames DEF IInv, MgrInv, CallInv, ShapeInv, Coroutine
  <1>2. PICK x \in Coroutine :
               Resumed(s, x) /\ Outcome(s, x) /\ TableKind(s, x) /\ Acts(s, x)
    BY <1>1, TableKinds
  <1>3. ASSUME x = "R", Empties(s)
        PROVE  Games(s)'
    BY <1>1, <1>2, <1>3, EmptiesGames DEF TableShape
  <1>4. ASSUME ~(x = "R" /\ Empties(s))
        PROVE  Goes(s, x)
    <2>1. CASE RunStep(s, x)
      <3>1. Form(co[s][x]) /\ (Beginning(co[s][x]) => ~Empty(s)) /\ Shape(s, x)
        BY <1>1 DEF Games, Course, TableShape
      <3>2. QED
        BY <1>1, <2>1, <3>1, RunStepGoes
    <2>2. CASE x = "R" /\ Request(s)
      BY <1>1, <1>4, <2>2, RequestGoes DEF TableShape
    <2>3. CASE x = "T" /\ Timer(s)
      BY <1>1, <2>3, TimerGoes
    <2>4. QED
      BY <1>2, <2>1, <2>2, <2>3 DEF Acts
  <1>5. ASSUME x = "R", ~Empties(s)
        PROVE  Games(s)'
    BY <1>1, <1>2, <1>4, <1>5, RequestGames
  <1>6. ASSUME x = "T"
        PROVE  Games(s)'
    BY <1>1, <1>2, <1>4, <1>6, CoroutineNames, TimerGames
  <1>7. Games(s)'
    BY <1>1, <1>3, <1>5, <1>6
  <1>8. ASSUME NEW r \in Service, r # s
        PROVE  Games(r)'
    BY <1>2, <1>8, OtherGames
  <1>9. QED
    BY <1>7, <1>8
-----------------------------------------------------------------------------
(* A step of gamemgr leaves the games alone, as long as it keeps what is   *)
(* ahead of a table's end.                                                 *)
LEMMA GamesStay ==
  ASSUME UNCHANGED <<tabVars, cur>>, NEW s \in Service, Games(s), Names(s)', Removing(s)',
         Closing(s)' => Closing(s), Ahead(s) => Ahead(s)'
  PROVE  Games(s)'
  <1>1. tb' = tb /\ co' = co /\ wt' = wt /\ cur' = cur
    BY DEF tabVars
  <1>2. Course(s)' /\ (Empty(s)' <=> Empty(s)) /\ (Active(s, "R")' <=> Active(s, "R"))
    BY <1>1 DEF Games, Course, Empty, Active, Running
  <1>3. Turns(s)' = Turns(s) /\ Turns(s) \in Nat
    BY <1>1 DEF Turns, Bit
  <1>4. Guard(s)' >= Guard(s) /\ Guard(s) \in Nat /\ Guard(s)' \in Nat
    BY <1>1, <1>2 DEF Guard, Bit
  <1>5. QED
    BY <1>2, <1>3, <1>4 DEF Games

(* While gamemgr decides what to ask next, no table is engaged.            *)
LEMMA NoneAhead ==
  ASSUME ChanTypeOK, ChanTypeOK', CallInv, Requests, NEW s \in Service
  PROVE  /\ ~Active(s, "R")
         /\ \A m \in Elems(toTab[s]) : m \notin Asked
         /\ \A m \in Elems(toMgr'[s]) : m \notin Returned
         /\ ~TimerFirst(toMgr[s])
  <1>1. /\ NumIn(toTab[s], Asked) = 0 /\ NumIn(toMgr'[s], Returned) = 0 /\ ~Active(s, "R")
        /\ "R" \in Coroutine
    BY CoroutineNames DEF Requests, Unengaged
  <1>2. toTab[s] \in Seq(TabMsg) /\ toMgr[s] \in Seq(MgrMsg) /\ toMgr'[s] \in Seq(MgrMsg)
    BY DEF ChanTypeOK
  <1>3. /\ \A m \in Elems(toTab[s]) : m \notin Asked
        /\ \A m \in Elems(toMgr'[s]) : m \notin Returned
    BY <1>1, <1>2, NoneIn
  <1>4. \A m \in Elems(toMgr[s]) : m \notin CallsOf("R")
    BY <1>1, WaitFacts DEF Active, CallInv
  <1>5. CASE toMgr'[s] = toMgr[s]
    BY <1>1, <1>2, <1>3, <1>4, <1>5, FirstOf
  <1>6. ASSUME toMgr[s] # <<>>, Head(toMgr[s]) \in Returned, toMgr'[s] = Tail(toMgr[s])
        PROVE  ~TimerFirst(toMgr[s])
    <2>1. Head(toMgr[s]) \notin CallsOf("T")
      BY <1>6 DEF Returned, CallsOf
    <2>2. Elems(toMgr'[s]) \subseteq Elems(toMgr[s])
      BY <1>2, <1>6, ElemsTail
    <2>3. ~TimerFirst(toMgr'[s])
      BY <1>2, <1>3, <1>4, <2>2, FirstOf
    <2>4. QED
      BY <1>2, <1>6, <2>1, <2>3, FirstTail
  <1>7. QED
    BY <1>1, <1>3, <1>5, <1>6 DEF Requests, Hears

(* A table is listed as long as it has an id, ...                          *)
LEMMA RequestsName ==
  ASSUME IInv, Requests, UNCHANGED tabVars, NEW s \in Service,
         \A m \in Elems(toTab[s]) : m \notin Asked, Games(s)
  PROVE  Names(s)'
  <1>1. MgrTypeOK /\ ResourcePartition /\ TabTypeOK /\ tb' = tb
    BY DEF IInv, MgrInv, tabVars
  <1>2. PICK t : t = tb[s].tid
    OBVIOUS
  <1>3. t \in TableId \cup {0} /\ s # None
    BY <1>1, <1>2, RoomAssumption DEF TabTypeOK, TableState, TableId
  <1>4. gt \in [TableId -> Service \cup {None}]
    BY <1>1 DEF MgrTypeOK
  <1>5. ASSUME t # 0
        PROVE  gt'[t] = s
    <2>1. gt[t] = s \/ (Starting(s) /\ req.t = t)
      BY <1>2, <1>5 DEF Games, Names
    <2>2. CASE gt' = gt /\ req.pc \notin {"start", "clean"}
      BY <2>1, <2>2 DEF Starting
    <2>3. CASE req.pc = "start" /\ gt' = [gt EXCEPT ![req.t] = req.svc]
      <3>1. req.t \in TableId \ Live
        BY <1>1, <2>3 DEF ResourcePartition
      <3>2. gt[t] = s => t \in Live
        BY <1>3, <1>5 DEF Live
      <3>3. QED
        BY <1>3, <1>4, <1>5, <2>1, <2>3, <3>1, <3>2 DEF Starting
    <2>4. CASE req.pc = "clean" /\ gt' = [gt EXCEPT ![req.t] = None]
      <3>1. gt[t] = s
        BY <2>1, <2>4 DEF Starting
      <3>2. req.t # t
        BY <1>2, <1>5, <2>4, <3>1 DEF Games, Removing
      <3>3. QED
        BY <1>3, <1>4, <1>5, <2>4, <3>1, <3>2
    <2>5. QED
      BY <2>2, <2>3, <2>4 DEF Requests, Tables
  <1>6. QED
    BY <1>1, <1>2, <1>5 DEF Names

(* ... is removed by the request that has asked it, ...                    *)
LEMMA RequestsRemove ==
  ASSUME ChanTypeOK, ChanTypeOK', CallInv, Requests, UNCHANGED tabVars, NEW s \in Service,
         \A r \in Service : Removing(r)
  PROVE  Removing(s)' /\ (Closing(s)' => Closing(s))
  <1>1. /\ ~Active(s, "R")
        /\ \A m \in Elems(toTab[s]) : m \notin Asked
        /\ \A m \in Elems(toMgr'[s]) : m \notin Returned
    BY NoneAhead
  <1>2. ~Active(s, "R")'
    BY <1>1 DEF Active, Running, Requests, Unengaged
  <1>3. CASE AsksNone
    <2>1. req'.pc \notin {"info", "clean"} /\ toTab' = toTab
      BY <1>3 DEF AsksNone
    <2>2. QED
      BY <1>1, <2>1 DEF Removing, Closing
  <1>4. ASSUME NEW r \in Service, NEW m \in Asked, AsksTable(r, m)
        PROVE  Removing(s)' /\ (Closing(s)' => Closing(s))
    <2>1. /\ m \in TabMsg /\ toTab[r] \in Seq(TabMsg) /\ toTab'[r] = Append(toTab[r], m)
          /\ \A q \in Service \ {r} : toTab'[q] = toTab[q]
      BY <1>4 DEF Asked, AsksTable, CallTable, ChanTypeOK
    <2>2. Elems(toTab'[r]) = Elems(toTab[r]) \cup {m}
      BY <2>1, ElemsAppend
    <2>3. req'.pc = "clean" => m.op = "cleanup"
      BY <1>4 DEF AsksTable
    <2>4. m.op = "cleanup" => /\ gt[req.t] = r /\ req'.t = req.t /\ gt' = gt
                              /\ \E ok : Answer("info", ok, 0)
      BY <1>4 DEF AsksTable, SameRoom
    <2>5. Removing(s)'
      <3>1. req'.pc = "clean" /\ gt'[req'.t] = s => \E n \in Elems(toTab'[s]) : n \in Asked
        BY <2>2, <2>3, <2>4
      <3>2. QED
        BY <1>1, <1>2, <3>1 DEF Removing
    <2>6. ASSUME Closing(s)'
          PROVE  Closing(s)
      <3>1. \E n \in Elems(toTab'[s]) : n \in Asked /\ n.op = "cleanup"
        BY <1>1, <2>6 DEF Closing
      <3>2. s = r /\ m.op = "cleanup"
        BY <1>1, <2>1, <2>2, <3>1
      <3>3. PICK ok : Answer("info", ok, 0)
        BY <2>4, <3>2
      <3>4. PICK q \in Service : /\ toMgr[q] # <<>> /\ Head(toMgr[q]).k = "ret"
                                 /\ Head(toMgr[q]).val = 0 /\ req.pc = "info"
        BY <3>3 DEF Answer
      <3>5. Head(toMgr[q]) \in Returned /\ Head(toMgr[q]) \in Elems(toMgr[q])
        BY <3>4, ElemsTail, SeqParts DEF ChanTypeOK, Returned
      <3>6. gt[req.t] = q
        BY <3>4, <3>5 DEF Removing
      <3>7. q = s
        BY <2>4, <3>2, <3>6
      <3>8. QED
        BY <3>4, <3>5, <3>7 DEF Closing
    <2>7. QED
      BY <2>5, <2>6
  <1>5. QED
    BY <1>3, <1>4 DEF Requests, GoesOn

(* ... and what was ahead of its end is.                                   *)
LEMMA RequestsAhead ==
  ASSUME ChanTypeOK, ChanTypeOK', CallInv, Requests, NEW s \in Service, Ahead(s)
  PROVE  Ahead(s)'
  <1>1. TimerNext(toTab[s]) /\ toTab[s] \in Seq(TabMsg)
    BY NoneAhead DEF Ahead, ChanTypeOK
  <1>2. CASE AsksNone
    BY <1>1, <1>2 DEF AsksNone, Ahead
  <1>3. ASSUME NEW r \in Service, NEW m \in Asked, AsksTable(r, m)
        PROVE  Ahead(s)'
    <2>1. m \in TabMsg /\ (toTab'[s] = Append(toTab[s], m) \/ toTab'[s] = toTab[s])
      BY <1>3 DEF Asked, AsksTable, CallTable, ChanTypeOK
    <2>2. TimerNext(toTab'[s])
      BY <1>1, <2>1, NextAppend
    <2>3. QED
      BY <2>2 DEF Ahead
  <1>4. QED
    BY <1>2, <1>3 DEF Requests, GoesOn

(* The games of all tables go on.                                          *)
LEMMA RequestsGames ==
  ASSUME IInv, ChanTypeOK', CallInv, Requests, UNCHANGED tabVars, \A s \in Service : Games(s)
  PROVE  \A s \in Service : Games(s)'
  <1> SUFFICES ASSUME NEW s \in Service
               PROVE  Games(s)'
    OBVIOUS
  <1>1. ChanTypeOK /\ cur' = cur /\ Games(s)
    BY DEF IInv, MgrInv, Requests, Unengaged
  <1>2. \A m \in Elems(toTab[s]) : m \notin Asked
    BY <1>1, NoneAhead
  <1>3. Names(s)'
    BY <1>1, <1>2, RequestsName
  <1>4. Removing(s)' /\ (Closing(s)' => Closing(s))
    BY <1>1, RequestsRemove DEF Games
  <1>5. Ahead(s) => Ahead(s)'
    BY <1>1, RequestsAhead
  <1>6. QED
    BY <1>1, <1>3, <1>4, <1>5, GamesStay

(* An event that is answered, while another waits, wakes its coroutine.     *)
LEMMA EventAhead ==
  ASSUME IInv, CallInv, NEW s \in Service, tableevent(s), UNCHANGED tabVars, Ahead(s)
  PROVE  Ahead(s)'
  <1>1. PICK e, a : e = Head(toMgr[s]) /\ a = Resume(Head(toMgr[s]).x)
    OBVIOUS
  <1>2. /\ toMgr[s] # <<>> /\ e \in MgrMsg /\ e.k # "ret" /\ e.x \in Coroutine /\ a \in TabMsg
        /\ toMgr'[s] = Tail(toMgr[s]) /\ toTab'[s] = Append(toTab[s], a)
    BY <1>1, EventKeeps
  <1>3. /\ ChanTypeOK /\ Waits /\ OneAsked /\ toMgr[s] \in Seq(MgrMsg) /\ toTab[s] \in Seq(TabMsg)
        /\ "R" \in Coroutine /\ "T" \in Coroutine /\ Coroutine = {"R", "T"} /\ "T" # "R"
    BY CoroutineNames DEF IInv, MgrInv, ChanTypeOK, CallInv, Coroutine
  <1>4. e \in CallsOf(e.x) /\ a \in Answers(e.x)
    BY <1>1, <1>2 DEF CallsOf, Answers, Resume
  <1>5. CASE TimerNext(toTab[s])
    BY <1>2, <1>3, <1>5, NextAppend DEF Ahead
  <1>6. ASSUME TimerFirst(toMgr[s])
        PROVE  Ahead(s)'
    <2>1. CASE e.x = "T"
      <3>1. e \in Elems(toMgr[s])
        BY <1>1, <1>2, <1>3, ElemsTail
      <3>2. \A m \in Elems(toTab[s]) : m \notin Answers("T")
        BY <1>3, <1>4, <2>1, <3>1, WaitFacts
      <3>3. \E m \in Elems(toMgr[s]) : m \in Returned \cup CallsOf("R")
        BY <1>3, <1>6, FirstOf
      <3>4. ASSUME NEW m \in Elems(toMgr[s]), m \in CallsOf("R")
            PROVE  \A n \in Elems(toTab[s]) : n \notin Asked /\ n \notin Answers("R")
        <4>1. "R" \in wt[s] /\ \A n \in Elems(toTab[s]) : n \notin Answers("R")
          BY <1>3, <3>4, WaitFacts
        <4>2. \A n \in Elems(toTab[s]) : n \notin Asked
          BY <1>3, <4>1, OneFacts DEF Active
        <4>3. QED
          BY <4>1, <4>2
      <3>5. Elems(toTab[s]) = {}
        <4>1. ASSUME NEW n \in Elems(toTab[s])
              PROVE  FALSE
          <5>1. n \in Asked \/ n \in Answers("R") \/ n \in Answers("T")
            BY <1>3, QueueKinds
          <5>2. CASE \E m \in Elems(toMgr[s]) : m \in Returned
            <6>1. ~Active(s, "R") /\ n \notin Asked
              BY <1>3, <5>2, OneFacts
            <6>2. n \notin Answers("R")
              BY <1>3, <6>1, WaitFacts DEF Active
            <6>3. QED
              BY <3>2, <5>1, <6>1, <6>2
          <5>3. CASE \E m \in Elems(toMgr[s]) : m \in CallsOf("R")
            BY <3>2, <3>4, <5>1, <5>3
          <5>4. QED
            BY <3>3, <5>2, <5>3
        <4>2. QED
          BY <4>1
      <3>6. toTab[s] = <<>>
        BY <1>3, <3>5, ElemsTail
      <3>7. QED
        BY <1>2, <1>3, <1>4, <2>1, <3>6, NextAppend DEF Ahead
    <2>2. CASE e.x = "R"
      <3>1. e \notin CallsOf("T")
        BY <1>3, <2>2 DEF CallsOf
      <3>2. TimerFirst(toMgr'[s])
        BY <1>1, <1>2, <1>3, <1>6, <3>1, FirstTail
      <3>3. QED
        BY <3>2 DEF Ahead
    <2>3. QED
      BY <1>2, <1>3, <2>1, <2>2
  <1>7. QED
    BY <1>5, <1>6 DEF Ahead

(* An event takes away nothing of what is ahead of a table's end, and      *)
(* nothing that gamemgr has asked or heard.                                *)
LEMMA EventLeaves ==
  ASSUME IInv, CallInv, NEW s \in Service, tableevent(s), UNCHANGED tabVars, NEW r \in Service
  PROVE  /\ UNCHANGED <<cur, gt, req>>
         /\ Elems(toMgr'[r]) \subseteq Elems(toMgr[r])
         /\ \A m \in Asked : m \in Elems(toTab'[r]) <=> m \in Elems(toTab[r])
         /\ Closing(r)' => Closing(r)
         /\ Ahead(r) => Ahead(r)'
  <1>1. PICK a : a = Resume(Head(toMgr[s]).x)
    OBVIOUS
  <1>2. /\ UNCHANGED <<cur, gt, req>>
        /\ toMgr[s] # <<>> /\ a \in TabMsg /\ a \notin Asked
        /\ toMgr'[s] = Tail(toMgr[s]) /\ toTab'[s] = Append(toTab[s], a)
        /\ \A q \in Service \ {s} : toMgr'[q] = toMgr[q] /\ toTab'[q] = toTab[q]
    BY <1>1, EventKeeps
  <1>3. toMgr[s] \in Seq(MgrMsg) /\ toTab[s] \in Seq(TabMsg)
    BY DEF IInv, MgrInv, ChanTypeOK
  <1>4. Elems(toMgr'[r]) \subseteq Elems(toMgr[r])
    BY <1>2, <1>3, ElemsTail
  <1>5. Elems(toTab'[s]) = Elems(toTab[s]) \cup {a}
    BY <1>2, <1>3, ElemsAppend
  <1>6. \A m \in Asked : m \in Elems(toTab'[r]) <=> m \in Elems(toTab[r])
    BY <1>2, <1>5
  <1>7. Closing(r)' => Closing(r)
    <2>1. \A m \in Elems(toTab'[r]) : m \in Asked => m \in Elems(toTab[r])
      BY <1>6
    <2>2. \A m \in Elems(toMgr'[r]) : m \in Elems(toMgr[r])
      BY <1>4
    <2>3. QED
      BY <1>2, <2>1, <2>2 DEF Closing
  <1>8. Ahead(r) => Ahead(r)'
    <2>1. CASE r = s
      BY <2>1, EventAhead
    <2>2. CASE r # s
      BY <1>2, <2>2 DEF Ahead
    <2>3. QED
      BY <2>1, <2>2
  <1>9. QED
    BY <1>2, <1>4, <1>6, <1>7, <1>8

LEMMA EventGames ==
  ASSUME IInv, CallInv, NEW s \in Service, tableevent(s), UNCHANGED tabVars,
         \A r \in Service : Games(r)
  PROVE  \A r \in Service : Games(r)'
  <1> SUFFICES ASSUME NEW r \in Service
               PROVE  Games(r)'
    OBVIOUS
  <1>1. /\ UNCHANGED <<cur, gt, req>>
        /\ Elems(toMgr'[r]) \subseteq Elems(toMgr[r])
        /\ \A m \in Asked : m \in Elems(toTab'[r]) <=> m \in Elems(toTab[r])
        /\ (Closing(r)' => Closing(r)) /\ (Ahead(r) => Ahead(r)')
    BY EventLeaves
  <1>2. tb' = tb /\ wt' = wt /\ cur' = cur /\ req' = req /\ gt' = gt /\ Names(r) /\ Removing(r)
    BY <1>1 DEF tabVars, Games
  <1>3. \A m \in Elems(toTab'[r]) : m \in Asked => m \in Elems(toTab[r])
    BY <1>1
  <1>4. \A m \in Elems(toTab[r]) : m \in Asked => m \in Elems(toTab'[r])
    BY <1>1
  <1>5. \A m \in Elems(toMgr'[r]) : m \in Elems(toMgr[r])
    BY <1>1
  <1>6. Names(r)'
    BY <1>2, <1>3 DEF Names, Starting
  <1>7. Removing(r)'
    BY <1>2, <1>4, <1>5 DEF Removing, Active, Running
  <1>8. QED
    BY <1>1, <1>2, <1>6, <1>7, GamesStay
-----------------------------------------------------------------------------
(* No game is under way at first, and no table has an id.                  *)
LEMMA InitGames ==
  ASSUME Init
  PROVE  \A s \in Service : Games(s)
  <1>1. req = Request0 /\ toTab = [s \in Service |-> <<>>] /\ toMgr = [s \in Service |-> <<>>]
    BY DEF Init, MgrInit
  <1>2. req.pc = "idle"
    BY <1>1, RequestType
  <1>3. ASSUME NEW s \in Service
        PROVE  Games(s)
    <2>1. /\ \A x \in Coroutine : co[s][x] = <<>>
          /\ wt[s] = {} /\ ~tb[s].started /\ tb[s].gstat = "FREE" /\ tb[s].tid = 0
      BY <1>3 DEF Init, TabInit, FreshTable
    <2>2. Elems(toTab[s]) = {} /\ Elems(toMgr[s]) = {}
      BY <1>1 DEF Elems
    <2>3. Course(s)
      BY <2>1, NoSteps DEF Course
    <2>4. Names(s) /\ Removing(s) /\ ~Closing(s)
      BY <1>2, <2>1, <2>2 DEF Names, Removing, Closing
    <2>5. Turns(s) = 0
      BY <2>1, CoroutineNames, NoSteps DEF Turns, Bit
    <2>6. Guard(s) \in Nat
      BY DEF Guard, Bit
    <2>7. QED
      BY <2>3, <2>4, <2>5, <2>6 DEF Games
  <1>4. QED
    BY <1>3

LEMMA StillGames ==
  ASSUME UNCHANGED vars, NEW s \in Service, Games(s)
  PROVE  Games(s)'
  <1>1. UNCHANGED <<tabVars, cur>> /\ UNCHANGED <<toTab, toMgr, gt, req>> /\ tb' = tb /\ wt' = wt
    BY DEF vars, chans, mgrVars, tabVars
  <1>2. Names(s)' /\ Removing(s)'
    BY <1>1 DEF Games, Names, Removing, Starting, Active, Running
  <1>3. (Closing(s)' => Closing(s)) /\ (Ahead(s) => Ahead(s)')
    BY <1>1 DEF Closing, Ahead
  <1>4. QED
    BY <1>1, <1>2, <1>3, GamesStay

LEMMA NextGames ==
  ASSUME IInv, IInv', CallInv, ShapeInv, \A s \in Service : Games(s), [Next]_vars
  PROVE  \A s \in Service : Games(s)'
  <1>1. ChanTypeOK' /\ TabTypeOK' /\ MgrInv /\ Open
    BY DEF IInv, MgrInv, ShapeInv
  <1>2. CASE MgrNext /\ UNCHANGED tabVars
    <2>1. Requests \/ \E s \in Service : tableevent(s)
      BY <1>1, <1>2, MgrKinds
    <2>2. QED
      BY <1>1, <1>2, <2>1, RequestsGames, EventGames
  <1>3. CASE \E s \in Service : TabNext(s) /\ UNCHANGED mgrVars
    BY <1>1, <1>3, TabGames
  <1>4. CASE UNCHANGED vars
    BY <1>4, StillGames
  <1>5. QED
    BY <1>2, <1>3, <1>4 DEF Next

GamesInv == \A s \in Service : Games(s)

(* A coroutine that is about to end a game is the one in whose course it   *)
(* is, and the game has been started.                                      *)
LEMMA EndsOwnGame ==
  ASSUME IInv, GamesInv
  PROVE  EndsStarted
  <1>1. ASSUME NEW s \in Service, NEW x \in Coroutine, At(s, x, "endgame")
        PROVE  tb[s].started
    <2>1. TabTypeOK /\ Course(s)
      BY DEF IInv, GamesInv, Games
    <2>2. InCourse(co[s][x])
      BY <1>1, <2>1, AtForm DEF Course, GameSteps
    <2>3. QED
      BY <2>1, <2>2 DEF Course
  <1>2. QED
    BY <1>1 DEF EndsStarted

(* The games of every room take this course: whoever starts a game is the  *)
(* one to begin its phases and to end it, and a table that nobody sits at  *)
(* has no more to report than the question that removes it leaves time for *)
(* (gametable.lua:584-660, gamemgr.lua:320-342).                           *)
THEOREM GamesTakeTheirCourse == Spec => [](IInv /\ CallInv /\ ShapeInv /\ GamesInv)
  <1>1. Init => GamesInv
    BY InitGames DEF GamesInv
  <1>2. IInv /\ IInv' /\ CallInv /\ ShapeInv /\ GamesInv /\ [Next]_vars => GamesInv'
    BY NextGames DEF GamesInv
  <1>3. QED
    BY <1>1, <1>2, TableShapesHold, PTL DEF Spec

(* end_game never finds its game already over: the assertion of            *)
(* gametable.lua:611 cannot fail, however the calls that write the scores  *)
(* are interleaved with the requests of players.                           *)
THEOREM NoGameEndsTwice == Spec => []EndsStarted
  <1>1. IInv /\ GamesInv => EndsStarted
    BY EndsOwnGame
  <1>2. QED
    BY <1>1, GamesTakeTheirCourse, PTL
-----------------------------------------------------------------------------
(* Which coroutine conducts a game: a step of its course is left to one in *)
(* whose course the game is, and to no other.                              *)
Conducting(q) == \E i \in 1 .. Len(q) : q[i].op \in GameSteps

LEMMA ConductingParts ==
  ASSUME NEW q \in Seq(Step), Conducting(q)
  PROVE  q # <<>> /\ (Head(q).op \in GameSteps \/ Conducting(Tail(q)))
  <1>1. PICK i \in 1 .. Len(q) : q[i].op \in GameSteps
    BY DEF Conducting
  <1>2. q # <<>>
    BY <1>1
  <1>3. PICK t : t = Tail(q)
    OBVIOUS
  <1>4. /\ Len(q) \in Nat \ {0} /\ Len(t) = Len(q) - 1 /\ Head(q) = q[1]
        /\ \A j \in 1 .. (Len(q) - 1) : t[j] = q[j + 1]
    BY <1>2, <1>3
  <1>5. CASE i = 1
    BY <1>1, <1>2, <1>4, <1>5
  <1>6. CASE i # 1
    <2>1. PICK j \in 1 .. (Len(q) - 1) : j + 1 = i
      BY <1>1, <1>4, <1>6
    <2>2. t[j].op \in GameSteps /\ j \in 1 .. Len(t)
      BY <1>1, <1>4, <2>1
    <2>3. QED
      BY <1>2, <1>3, <2>2 DEF Conducting
  <1>7. QED
    BY <1>5, <1>6

LEMMA BaseConducts ==
  ASSUME NEW q \in Seq(Step), Base(q)
  PROVE  ~Conducting(q)
  <1>1. ASSUME NEW i \in 1 .. Len(q)
        PROVE  q[i].op \in TidyOp \cup WrapOp \cup {"tstatus"}
    <2>1. CASE Tidying(q)
      BY <2>1 DEF Tidying
    <2>2. CASE Wrapping(q)
      <3>1. i = Len(q) \/ i \in 1 .. (Len(q) - 1)
        OBVIOUS
      <3>2. QED
        BY <2>2, <3>1 DEF Wrapping
    <2>3. QED
      BY <2>1, <2>2 DEF Base
  <1>2. QED
    BY <1>1 DEF Conducting, TidyOp, WrapOp, GameSteps

LEMMA NothingConducts == ~Conducting(<<>>)
  BY DEF Conducting

LEMMA FormConducts ==
  ASSUME NEW q \in Seq(Step), Form(q), Conducting(q)
  PROVE  InCourse(q)
  <1>1. PICK t : t = Tail(q)
    OBVIOUS
  <1>2. q # <<>> /\ t \in Seq(Step) /\ (Head(q).op \in GameSteps \/ Conducting(t))
    BY <1>1, ConductingParts
  <1>3. ~Base(q) /\ (Base(t) => ~Conducting(t)) /\ (t = <<>> => ~Conducting(t))
    BY <1>2, BaseConducts, NothingConducts
  <1>4. ASSUME Telling(t) \/ Recording(t) \/ Vacating(t) \/ Unwatching(t)
        PROVE  ~Conducting(t)
    <2>1. PICK u : u = Tail(t)
      OBVIOUS
    <2>2. /\ t # <<>> /\ u \in Seq(Step) /\ Head(t).op \notin GameSteps
          /\ Base(u) \/ Telling(u)
      BY <1>2, <1>4, <2>1
      DEF Telling, Recording, Vacating, Unwatching, Leading, GameSteps, Base
    <2>3. Telling(u) => ~Conducting(u)
      <3>1. SUFFICES ASSUME Telling(u)
                     PROVE  ~Conducting(u)
        OBVIOUS
      <3>2. u # <<>> /\ Tail(u) \in Seq(Step) /\ Base(Tail(u)) /\ Head(u).op \notin GameSteps
        BY <2>2, <3>1 DEF Telling, Leading, GameSteps
      <3>3. ~Conducting(Tail(u))
        BY <3>2, BaseConducts
      <3>4. QED
        BY <2>2, <3>2, <3>3, ConductingParts
    <2>4. ~Conducting(u)
      BY <2>2, <2>3, BaseConducts
    <2>5. QED
      BY <1>2, <2>1, <2>2, <2>4, ConductingParts
  <1>5. CASE Readying(q) \/ Telling(q) \/ Vacating(q) \/ Unwatching(q) \/ Beginning(q)
             \/ Recording(q) \/ Detailing(q)
    BY <1>1, <1>2, <1>3, <1>4, <1>5
    DEF Readying, Telling, Vacating, Unwatching, Beginning, Rests, Recording, Detailing,
        Leading, GameSteps, Base
  <1>6. CASE Reporting(q)
    BY <1>1, <1>2, <1>3, <1>4, <1>6 DEF Reporting, InCourse, Opening, Leading, GameSteps
  <1>7. QED
    BY <1>3, <1>5, <1>6 DEF Form, InCourse, Opening

LEMMA OneInCourse ==
  ASSUME IInv, GamesInv
  PROVE  OneGame
  <1>1. ASSUME NEW s \in Service, NEW x \in Coroutine, Conducts(s, x)
        PROVE  InCourse(co[s][x])
    <2>1. Form(co[s][x]) /\ co[s][x] \in Seq(Step)
      BY <1>1 DEF IInv, TabTypeOK, GamesInv, Games, Course
    <2>2. Conducting(co[s][x])
      BY <1>1 DEF Conducts, Steps, Conducting
    <2>3. QED
      BY <2>1, <2>2, FormConducts
  <1>2. QED
    BY <1>1 DEF OneGame, GamesInv, Games, Course

(* A table has one game at a time and one coroutine that conducts it: who  *)
(* announces a new game, or settles one, is alone in it, and no cards are  *)
(* out (gametable.lua:584-660), although check_start_game tests a field    *)
(* nobody sets (gametable.lua:189).                                        *)
THEOREM OneGameAtATime == Spec => []OneGame
  <1>1. IInv /\ GamesInv => OneGame
    BY OneInCourse
  <1>2. QED
    BY <1>1, GamesTakeTheirCourse, PTL
=============================================================================
