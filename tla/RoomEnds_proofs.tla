---------------------------- MODULE RoomEnds_proofs ----------------------------
(***************************************************************************)
(* The ends of games and of tables.                                        *)
(*                                                                         *)
(* Who is in a game stays in it to its end: with the seats (SeatInv) and   *)
(* the course of games (GamesInv), what is about to be reported of a       *)
(* player fits the game (FitInv, PlayersKept).                             *)
(*                                                                         *)
(* In a room where nobody may watch, a table has come to rest before       *)
(* gamemgr has let go of it: the calls its timer's coroutine can still     *)
(* come to at an empty table (Need) are never more than those it is sure   *)
(* to make before a clean-up reaches the table (Guard), and a table that   *)
(* has lost its id is at rest (RestInv, PooledIdle, EventsLive).           *)
(***************************************************************************)
EXTENDS RoomGames_proofs

-----------------------------------------------------------------------------
(* Who is in the running game stays in it.  A step that would take him out *)
(* reports him first, as something else than playing or offline, and       *)
(* gamemgr is never told so while the game runs (FitInv): who stands up is *)
(* looked at before, and one coroutine at a time goes on (PlayersKept).    *)

(* What is about to be reported of a player who is in the game: that he    *)
(* plays, or is offline.                                                   *)
Fit(s, q) ==
  Playing(s) /\ ~WindingUp(s) =>
    \/ q.st \in {"PLAYING", "OFFLINE"}
    \/ \A c \in InGame(s) : tb[s].seat[c] # q.u

StatusFits(s) ==
  \A x \in Coroutine :
    Running(s, x) /\ Leading(co[s][x], "status") => Fit(s, Top(s, x))

FitInv == \A s \in Service : StatusFits(s)

-----------------------------------------------------------------------------
(* Only a coroutine that runs on has a status to report.                   *)
LEMMA SteadyLeads ==
  ASSUME NEW x, NEW k \in Seq(Steady(x))
  PROVE  ~Leading(k, "status")
  <1>1. k # <<>> => Head(k) \in Steady(x)
    OBVIOUS
  <1>2. QED
    BY <1>1 DEF Leading, Steady

LEMMA ThenLeads ==
  ASSUME AllInv, NEW s \in Service, NEW x \in Coroutine, NEW op, op # "status",
         At(s, x, op), NEW steps \in Seq(Steady(x)), Then(s, x, steps)
  PROVE  ~Leading(co'[s][x], "status")
  <1>1. ChanTypeOK /\ TabTypeOK /\ Waits /\ Shape(s, x)
    BY AllParts
  <1>2. Rest(s, x) \in Seq(Steady(x))
    BY <1>1, AtShape DEF Follows
  <1>3. co'[s][x] = steps \o Rest(s, x)
    BY <1>1, ThenCo
  <1> HIDE DEF Steady
  <1>4. steps \o Rest(s, x) \in Seq(Steady(x))
    BY <1>2
  <1>5. QED
    BY <1>3, <1>4, SteadyLeads

(* A step that puts one in front of those left.                            *)
LEMMA ThenFirst ==
  ASSUME AllInv, NEW s \in Service, NEW x \in Coroutine, NEW op, op # "status",
         At(s, x, op), NEW a \in Step, NEW k \in Seq(Steady(x)), Then(s, x, <<a>> \o k)
  PROVE  /\ Head(co'[s][x]) = a /\ Tail(co'[s][x]) = k \o Rest(s, x) /\ co'[s][x] # <<>>
         /\ co'[s][x] \in Seq(Step)
  <1>1. ChanTypeOK /\ TabTypeOK /\ Waits /\ Shape(s, x)
    BY AllParts
  <1>2. Rest(s, x) \in Seq(Steady(x))
    BY <1>1, AtShape DEF Follows
  <1>3. co'[s][x] = (<<a>> \o k) \o Rest(s, x)
    BY <1>1, ThenCo
  <1>4. PICK r \in Seq(Step) : r = k \o Rest(s, x)
    <2>1. k \in Seq(Step) /\ Rest(s, x) \in Seq(Step)
      BY <1>2, SteadySteps
    <2>2. k \o Rest(s, x) \in Seq(Step)
      BY <2>1
    <2>3. QED
      BY <2>2, Zenon
  <1>5. (<<a>> \o k) \o Rest(s, x) = <<a>> \o r
    <2>1. k \in Seq(Step) /\ Rest(s, x) \in Seq(Step) /\ <<a>> \in Seq(Step)
      BY <1>2, SteadySteps
    <2>2. QED
      BY <1>4, <2>1, ConcatAssociative
  <1>6. QED
    BY <1>3, <1>4, <1>5, ConsFacts

(* A step that leaves the players and their copies alone leaves the game.  *)
LEMMA UnchangedGame ==
  ASSUME NEW s \in Service, tb' = tb, cp' = cp
  PROVE  /\ Playing(s)' <=> Playing(s)
         /\ InGame(s)' = InGame(s)
  <1>1. Playing(s)' <=> Playing(s)
    BY Zenon DEF Playing
  <1>2. Players(s)' = Players(s)
    BY Zenon DEF Players, Occupied
  <1>3. InGame(s)' = InGame(s)
    BY <1>2, Zenon DEF InGame
  <1>4. QED
    BY <1>1, <1>3, Zenon

(* A coroutine that is suspended, or has returned, has nothing to report.  *)
LEMMA NotRunning ==
  ASSUME cur' = Idle, NEW s \in Service, NEW x
  PROVE  ~Running(s, x)'
  BY RoomAssumption DEF Running, Idle

-----------------------------------------------------------------------------
(* What each step of a table puts next.                                    *)
LEMMA SilentRunFits ==
  ASSUME AllInv, NEW s \in Service, NEW x \in Coroutine, Running(s, x)',
         \/ update_user_status(s, x) \/ update_table_status(s, x)
         \/ write_game_record(s, x) \/ vacate(s, x) \/ unwatch(s, x)
         \/ start_game(s, x) \/ on_game_start(s, x) \/ clear_records(s, x)
         \/ on_game_reset(s, x) \/ remove_timer(s, x) \/ Finish(s, x)
  PROVE  ~Leading(co'[s][x], "status")
  <1>1. ChanTypeOK /\ TabTypeOK /\ Waits /\ Shape(s, x) /\ <<>> \in Seq(Steady(x))
    BY AllParts, SteadySteps
  <1>2. CASE update_user_status(s, x) \/ update_table_status(s, x) \/ write_game_record(s, x)
    <2>1. cur' = Idle
      BY <1>2 DEF update_user_status, update_table_status, write_game_record, CallMgr
    <2>2. QED
      BY <2>1, NotRunning
  <1>3. CASE vacate(s, x) \/ unwatch(s, x)
    <2>1. co'[s][x] \in Seq(Steady(x))
      BY <1>1, <1>3, TakesAwayKind DEF TakesAway
    <2>2. QED
      BY <2>1, SteadyLeads
  <1>4. CASE start_game(s, x)
    <2> DEFINE a == Loop("seatplay", {})
               b == Do("tstatus")
               c == Do("gamestart")
    <2>1. At(s, x, "start") /\ (Then(s, x, <<>>) \/ Then(s, x, <<a, b, c>>))
      BY <1>4 DEF start_game
    <2>2. a \in Steady(x) /\ b \in Steady(x) /\ c \in Steady(x)
      BY SteadyKinds DEF TableStep
    <2> HIDE DEF a, b, c
    <2>3. <<a, b, c>> \in Seq(Steady(x))
      BY <2>2, SteadySteps
    <2>4. QED
      BY <1>1, <2>1, <2>3, ThenLeads
  <1>5. CASE \/ on_game_start(s, x) \/ clear_records(s, x)
             \/ on_game_reset(s, x) \/ remove_timer(s, x)
    <2>1. /\ Then(s, x, <<>>)
          /\ \E op \in {"gamestart", "clearrecs", "reset", "rmtimer"} : At(s, x, op)
      BY <1>5 DEF on_game_start, clear_records, on_game_reset, remove_timer
    <2>2. QED
      BY <1>1, <2>1, ThenLeads
  <1>6. CASE Finish(s, x)
    <2>1. co'[s][x] = <<>>
      BY <1>1, <1>6, ContinuesCo DEF Finish
    <2>2. QED
      BY <2>1 DEF Leading
  <1>7. QED
    BY <1>2, <1>3, <1>4, <1>5, <1>6

LEMMA EndRunFits ==
  ASSUME AllInv, NEW s \in Service, NEW x \in Coroutine, Running(s, x)',
         \/ game_end(s, x) \/ write_user_score(s, x) \/ end_game(s, x)
         \/ write_game_record_detail(s, x) \/ ready_timeout_seat(s, x)
  PROVE  ~Leading(co'[s][x], "status")
  <1>1. ChanTypeOK /\ TabTypeOK /\ Waits /\ Shape(s, x) /\ <<>> \in Seq(Steady(x))
    BY AllParts, SteadySteps
  <1>2. cur' # Idle
    BY RoomAssumption DEF Running, Idle
  <1>3. CASE game_end(s, x)
    <2> DEFINE a == Loop("write", {})
               b == Do("endgame")
    <2>1. At(s, x, "gameend") /\ Then(s, x, <<a, b>>)
      BY <1>2, <1>3 DEF game_end, Crash
    <2>2. a \in Steady(x) /\ b \in Steady(x)
      BY SteadyKinds DEF TableStep
    <2> HIDE DEF a, b
    <2>3. <<a, b>> \in Seq(Steady(x))
      BY <2>2, SteadySteps
    <2>4. QED
      BY <2>1, <2>3, ThenLeads
  <1>4. CASE write_user_score(s, x)
    <2>1. At(s, x, "write") /\ Then(s, x, <<>>)
      BY <1>2, <1>4 DEF write_user_score, CallMgr
    <2>2. QED
      BY <1>1, <2>1, ThenLeads
  <1>5. CASE end_game(s, x)
    <2> DEFINE k == <<Loop("detail", {}), Do("record"), Loop("sitagain", {}),
                      Do("reset"), Do("tstatus")>>
    <2>1. At(s, x, "endgame") /\ Then(s, x, k)
      BY <1>2, <1>5 DEF end_game, Crash
    <2>2. k \in Seq(Steady(x))
      <3>1. /\ Loop("detail", {}) \in Steady(x) /\ Do("record") \in Steady(x)
            /\ Loop("sitagain", {}) \in Steady(x) /\ Do("reset") \in Steady(x)
            /\ Do("tstatus") \in Steady(x)
        BY SteadyKinds DEF TableStep
      <3> HIDE DEF Steady
      <3>2. QED
        BY <3>1
    <2> HIDE DEF k
    <2>3. QED
      BY <2>1, <2>2, ThenLeads
  <1>6. CASE write_game_record_detail(s, x)
    <2>1. At(s, x, "detail") /\ Then(s, x, <<>>)
      BY <1>2, <1>6 DEF write_game_record_detail, CallMgr, Crash
    <2>2. QED
      BY <1>1, <2>1, ThenLeads
  <1>7. CASE ready_timeout_seat(s, x)
    <2> DEFINE q == Top(s, x)
    <2>1. At(s, x, "late")
      BY <1>7 DEF ready_timeout_seat
    <2>2. q \in Step /\ q.op \in TableStep
      BY <1>1, <2>1, AtFacts DEF TableStep
    <2>3. ASSUME NEW c \in ToVisit(s, q)
          PROVE  /\ Again(q, c) \in Steady(x) /\ c \in Chair
                 /\ tb[s].seat[c] \in User /\ cp[s][tb[s].seat[c]].chair \in 0 .. MaxChair
      <3>1. /\ c \in 0 .. MaxChair /\ c \in Chair /\ tb[s].seat[c] \in User
            /\ cp[s][tb[s].seat[c]] \in CopyRec
        BY <1>1, <2>3, SeatType DEF ToVisit
      <3>2. QED
        BY <2>2, <3>1, SteadyKinds DEF CopyRec
    <2>4. CASE Then(s, x, <<>>)
      BY <1>1, <2>1, <2>4, ThenLeads
    <2>5. ASSUME NEW c \in ToVisit(s, q), Then(s, x, <<Again(q, c)>>)
          PROVE  ~Leading(co'[s][x], "status")
      <3>1. PICK k \in Seq(Steady(x)) : k = <<Again(q, c)>>
        BY <2>3, SteadySteps
      <3>2. QED
        BY <2>1, <2>5, <3>1, ThenLeads
    <2>6. ASSUME NEW c \in ToVisit(s, q), NEW u, u = tb[s].seat[c],
                 Then(s, x, <<DoFor("standup", u, cp[s][u].chair), Again(q, c)>>)
          PROVE  ~Leading(co'[s][x], "status")
      <3>1. PICK r \in Steady(x) : r = Again(q, c)
        BY <2>3
      <3>2. DoFor("standup", u, cp[s][u].chair) \in Step
        BY <2>3, <2>6, DoType DEF UserStep
      <3>3. PICK a \in Step : a = DoFor("standup", u, cp[s][u].chair)
        BY <3>2
      <3>4. <<r>> \in Seq(Steady(x)) /\ <<a, r>> = <<a>> \o <<r>>
        BY <3>1, SteadySteps
      <3>5. Then(s, x, <<a>> \o <<r>>)
        BY <2>6, <3>1, <3>3, <3>4
      <3>6. Head(co'[s][x]) = a
        BY <2>1, <3>4, <3>5, ThenFirst
      <3>7. QED
        BY <3>3, <3>6 DEF Leading, DoFor, StepOf
    <2>7. QED
      BY <1>7, <2>4, <2>5, <2>6, Zenon DEF ready_timeout_seat
  <1>8. QED
    BY <1>3, <1>4, <1>5, <1>6, <1>7

(* Who stands up is not in the game: his seat is that of no other player,  *)
(* and an observer has none.                                               *)
LEMMA StandupFits ==
  ASSUME AllInv, NEW s \in Service, NEW x \in Coroutine, user_standup(s, x),
         Leading(co'[s][x], "status")
  PROVE  Fit(s, Top(s, x))'
  <1> DEFINE q == Top(s, x)
  <1>1. /\ ChanTypeOK /\ TabTypeOK /\ Waits /\ Shape(s, x) /\ SeatsApart(s)
    BY AllParts DEF Places
  <1>2. /\ At(s, x, "standup") /\ tb' = tb /\ cp' = cp
        /\ ~StandsUp(s, x) => co'[s][x] = Rest(s, x)
    BY <1>1, StandupSteps DEF user_standup
  <1>3. Rest(s, x) \in Seq(Steady(x)) /\ Rest(s, x) \in Seq(Step) /\ q \in Step
        /\ q.u \in User /\ q.c \in 0 .. MaxChair /\ cp[s][q.u].chair \in 0 .. MaxChair
    <2>1. q \in Step /\ q.op = "standup"
      BY <1>1, <1>2, AtFacts
    <2>2. q.u \in User /\ q.c \in 0 .. MaxChair
      BY <2>1, StepShape DEF UserStep
    <2>3. cp[s][q.u].chair \in 0 .. MaxChair
      BY <1>1, <2>2 DEF TabTypeOK, CopyRec
    <2>4. Rest(s, x) \in Seq(Steady(x))
      BY <1>1, <1>2, AtShape DEF LeaveOp
    <2>5. QED
      BY <2>1, <2>2, <2>3, <2>4, SteadySteps
  <1>4. StandsUp(s, x)
    BY <1>2, <1>3, SteadyLeads
  <1>5. Top(s, x)' = SetStatus(q.u, "FREE", 0)
    <2> DEFINE a == SetStatus(q.u, "FREE", 0)
               b == DoFor("vacate", q.u, cp[s][q.u].chair)
               d == DoFor("unwatch", q.u, cp[s][q.u].chair)
               e == Do("tstatus")
    <2>1. \/ co'[s][x] = <<a, b, e>> \o Rest(s, x)
          \/ co'[s][x] = <<a, d>> \o Rest(s, x)
      BY <1>1, <1>4, StandupSteps
    <2>2. a \in Step /\ b \in Step /\ d \in Step /\ e \in Step
      <3>1. "vacate" \in UserStep /\ "unwatch" \in UserStep /\ "tstatus" \in TableStep
            /\ "FREE" \in Status /\ 0 \in 0 .. MaxChair
        BY RoomAssumption DEF UserStep, TableStep, Status
      <3>2. QED
        BY <1>3, <3>1, DoType, Zenon
    <2> HIDE DEF a, b, d, e
    <2>3. /\ <<a, b, e>> \o Rest(s, x) = <<a>> \o (<<b>> \o (<<e>> \o Rest(s, x)))
          /\ <<a, d>> \o Rest(s, x) = <<a>> \o (<<d>> \o Rest(s, x))
      <3>1. <<a, b, e>> \o Rest(s, x) = <<a>> \o (<<b>> \o (<<e>> \o Rest(s, x)))
        <4>1. a \in Step /\ b \in Step /\ e \in Step /\ Rest(s, x) \in Seq(Step)
          BY <1>3, <2>2
        <4>2. QED
          BY <4>1, ConsThree, Zenon
      <3>2. <<a, d>> \o Rest(s, x) = <<a>> \o (<<d>> \o Rest(s, x))
        <4>1. a \in Step /\ d \in Step /\ Rest(s, x) \in Seq(Step)
          BY <1>3, <2>2
        <4>2. QED
          BY <4>1, StepsTwo, Zenon
      <3>3. QED
        BY <3>1, <3>2
    <2>4. /\ <<e>> \o Rest(s, x) \in Seq(Step) /\ <<d>> \o Rest(s, x) \in Seq(Step)
      BY <1>3, <2>2, ConsFacts
    <2>5. <<b>> \o (<<e>> \o Rest(s, x)) \in Seq(Step)
      BY <2>2, <2>4, ConsFacts
    <2>6. Head(co'[s][x]) = a
      BY <2>1, <2>2, <2>3, <2>4, <2>5, ConsFacts
    <2>7. QED
      BY <2>6 DEF a, Top
  <1>6. ASSUME NEW c \in InGame(s), Playing(s)
        PROVE  tb[s].seat[c] # q.u
    <2>1. /\ c \in Chair /\ c \in tb[s].playing /\ tb[s].seat[c] # None /\ tb[s].started
          /\ cp[s][tb[s].seat[c]].st \in {"PLAYING", "OFFLINE"}
      BY <1>6 DEF InGame, Players, Occupied, Playing
    <2>2. SUFFICES ASSUME tb[s].seat[c] = q.u
                   PROVE  FALSE
      OBVIOUS
    <2>3. CASE q.c \in Chair /\ tb[s].seat[q.c] = q.u
      <3>1. q.c = c
        BY <1>1, <2>1, <2>2, <2>3 DEF SeatsApart
      <3>2. ~PlayingSeat(s, c)
        BY <1>4, <2>3, <3>1 DEF StandsUp
      <3>3. QED
        BY <2>1, <3>2 DEF PlayingSeat
    <2>4. CASE ~(q.c \in Chair /\ tb[s].seat[q.c] = q.u)
      <3>1. q.u \in tb[s].ob
        BY <1>4, <2>4 DEF StandsUp
      <3>2. QED
        BY <1>1, <2>1, <2>2, <3>1 DEF SeatsApart
    <2>5. QED
      BY <2>3, <2>4
  <1>7. Playing(s)' = Playing(s) /\ InGame(s)' = InGame(s)
    BY <1>2, UnchangedGame, Zenon DEF Playing
  <1>8. ASSUME NEW c \in InGame(s)', Playing(s)'
        PROVE  tb'[s].seat[c] # Top(s, x)'.u
    <2>1. Top(s, x)'.u = q.u
      BY <1>5 DEF SetStatus, StepOf
    <2>2. QED
      BY <1>2, <1>6, <1>7, <1>8, <2>1
  <1>9. QED
    BY <1>8 DEF Fit

(* A report that goes with a game's start.                                 *)
LEMMA SeatingFits ==
  ASSUME AllInv, NEW s \in Service, NEW x \in Coroutine, start_game_seat(s, x),
         Leading(co'[s][x], "status")
  PROVE  Fit(s, Top(s, x))'
  <1> DEFINE q == Top(s, x)
  <1>1. ChanTypeOK /\ TabTypeOK /\ Waits /\ Shape(s, x) /\ At(s, x, "seatplay")
    BY AllParts DEF start_game_seat
  <1>2. q \in Step /\ q.op = "seatplay"
    BY <1>1, AtFacts
  <1>3. CASE Then(s, x, <<>>)
    BY <1>1, <1>3, ThenLeads, SteadySteps
  <1>4. ASSUME NEW c \in ToVisit(s, q)
        PROVE  Again(q, c) \in Steady(x) /\ c \in Occupied(tb[s].seat)
    <2>1. c \in Occupied(tb[s].seat) /\ c \in 0 .. MaxChair /\ q.op \in TableStep
      BY <1>1, <1>2, <1>4, SeatType DEF ToVisit, TableStep
    <2>2. QED
      BY <1>2, <2>1, SteadyKinds
  <1>5. ASSUME NEW c \in ToVisit(s, q), Then(s, x, <<Again(q, c)>>)
        PROVE  FALSE
    <2>1. PICK k \in Seq(Steady(x)) : k = <<Again(q, c)>>
      BY <1>4, SteadySteps
    <2>2. QED
      BY <1>1, <1>5, <2>1, ThenLeads
  <1>6. ASSUME NEW c \in ToVisit(s, q),
               Then(s, x, <<SetStatus(tb[s].seat[c], "PLAYING", c), Again(q, c)>>)
        PROVE  Fit(s, Top(s, x))'
    <2>1. PICK r \in Steady(x) : r = Again(q, c)
      BY <1>4
    <2>2. PICK a \in Step : /\ a = SetStatus(tb[s].seat[c], "PLAYING", c)
                            /\ <<a, r>> = <<a>> \o <<r>>
      BY <1>1, <1>4, OpensFirst DEF Status
    <2>3. <<r>> \in Seq(Steady(x)) /\ Then(s, x, <<a>> \o <<r>>)
      <3>1. Then(s, x, <<a, r>>)
        BY <1>6, <2>1, <2>2
      <3>2. QED
        BY <2>2, <3>1, SteadySteps
    <2>4. Head(co'[s][x]) = a
      BY <1>1, <2>3, ThenFirst
    <2>5. Top(s, x)'.st = "PLAYING"
      BY <2>2, <2>4 DEF Top, SetStatus, StepOf
    <2>6. QED
      BY <2>5 DEF Fit
  <1>7. QED
    BY <1>3, <1>5, <1>6, Zenon DEF start_game_seat

(* A report that sets a player back goes with a game being wound up.       *)
LEMMA SitsAgainFits ==
  ASSUME AllInv, NEW s \in Service, NEW x \in Coroutine, end_game_seat(s, x),
         Leading(co'[s][x], "status")
  PROVE  Fit(s, Top(s, x))'
  <1> DEFINE q == Top(s, x)
  <1>1. ChanTypeOK /\ TabTypeOK /\ Waits /\ Shape(s, x) /\ At(s, x, "sitagain")
    BY AllParts DEF end_game_seat
  <1>2. q \in Step /\ q.op = "sitagain"
    BY <1>1, AtFacts
  <1>3. CASE Then(s, x, <<>>)
    BY <1>1, <1>3, ThenLeads, SteadySteps
  <1>4. ASSUME NEW c \in ToVisit(s, q)
        PROVE  /\ Again(q, c) \in Steady(x) /\ c \in Occupied(tb[s].seat)
               /\ DoFor("standup", tb[s].seat[c], c) \in Steady(x)
    <2>1. /\ c \in Occupied(tb[s].seat) /\ c \in 0 .. MaxChair /\ q.op \in TableStep
          /\ c \in Chair /\ tb[s].seat[c] \in User
      BY <1>1, <1>2, <1>4, SeatType DEF ToVisit, TableStep
    <2>2. QED
      BY <1>2, <2>1, SteadyKinds
  <1>5. ASSUME NEW c \in ToVisit(s, q),
               Then(s, x, <<SetStatus(tb[s].seat[c], "SIT", c), Again(q, c)>>)
        PROVE  Fit(s, Top(s, x))'
    <2>1. PICK r \in Steady(x) : r = Again(q, c)
      BY <1>4
    <2>2. PICK a \in Step : /\ a = SetStatus(tb[s].seat[c], "SIT", c)
                            /\ <<a, r>> = <<a>> \o <<r>>
      BY <1>1, <1>4, OpensFirst DEF Status
    <2>3. <<r>> \in Seq(Steady(x)) /\ Then(s, x, <<a>> \o <<r>>)
      <3>1. Then(s, x, <<a, r>>)
        BY <1>5, <2>1, <2>2
      <3>2. QED
        BY <2>2, <3>1, SteadySteps
    <2>4. /\ co'[s][x] # <<>> /\ co'[s][x] \in Seq(Step)
          /\ Tail(co'[s][x]) = <<r>> \o Rest(s, x)
      BY <1>1, <2>3, ThenFirst
    <2>5. r \in Step /\ Rest(s, x) \in Seq(Step) /\ r.op = "sitagain"
      <3>1. Rest(s, x) \in Seq(Step) /\ r \in Step
        BY <1>1, AtFacts, SteadySteps DEF Rest
      <3>2. QED
        BY <1>2, <2>1, <3>1 DEF Again, Loop, StepOf
    <2>6. r \in Elems(co'[s][x])
      <3>1. /\ <<r>> \o Rest(s, x) \in Seq(Step) /\ <<r>> \o Rest(s, x) # <<>>
            /\ Head(<<r>> \o Rest(s, x)) = r
        BY <2>5, ConsFacts
      <3>2. r \in Elems(<<r>> \o Rest(s, x))
        BY <3>1, ElemsTail
      <3>3. Elems(Tail(co'[s][x])) \subseteq Elems(co'[s][x])
        BY <2>4, ElemsTail
      <3>4. QED
        BY <2>4, <3>2, <3>3
    <2>7. WindingUp(s)'
      BY <2>5, <2>6 DEF WindingUp, Steps, Elems
    <2>8. QED
      BY <2>7 DEF Fit
  <1>6. ASSUME NEW c \in ToVisit(s, q),
               Continues(s, x, <<Again(q, c)>> \o
                  BeforeLast(Tail(co[s][x]), DoFor("standup", tb[s].seat[c], c)))
        PROVE  FALSE
    <2>1. PICK r \in Steady(x), e \in Steady(x) :
                 r = Again(q, c) /\ e = DoFor("standup", tb[s].seat[c], c)
      BY <1>4
    <2>2. Rest(s, x) \in Seq(Steady(x))
      BY <1>1, AtShape DEF LeaveOp
    <2>3. BeforeLast(Rest(s, x), e) \in Seq(Steady(x)) /\ <<r>> \in Seq(Steady(x))
      BY <2>1, <2>2, BeforeLastSteady, SteadySteps
    <2> HIDE DEF Steady
    <2>4. PICK left \in Seq(Steady(x)) : left = <<r>> \o BeforeLast(Rest(s, x), e)
      <3>1. <<r>> \o BeforeLast(Rest(s, x), e) \in Seq(Steady(x))
        BY <2>3
      <3>2. QED
        BY <3>1, Zenon
    <2>5. Continues(s, x, left)
      BY <1>6, <2>1, <2>4 DEF Rest
    <2>6. co'[s][x] = left
      BY <1>1, <2>5, ContinuesCo
    <2>7. QED
      BY <2>4, <2>6, SteadyLeads
  <1>7. QED
    BY <1>3, <1>5, <1>6, Zenon DEF end_game_seat

(* Who gets ready only sits.                                               *)
LEMMA ReadyFits ==
  ASSUME AllInv, NEW s \in Service, NEW x \in Coroutine, user_ready(s, x),
         Leading(co'[s][x], "status")
  PROVE  Fit(s, Top(s, x))'
  <1> DEFINE c == Top(s, x).c
             u == IF c = 0 THEN None ELSE tb[s].seat[c]
  <1>1. /\ ChanTypeOK /\ TabTypeOK /\ Waits /\ Shape(s, x) /\ At(s, x, "ready")
        /\ tb' = tb /\ cp' = cp
    BY AllParts DEF user_ready
  <1>2. \/ Then(s, x, <<>>) \/ Then(s, x, <<Do("start")>>)
        \/ u # None /\ cp[s][u].st = "SIT" /\ Then(s, x, <<SetStatus(u, "READY", c)>>)
    BY DEF user_ready
  <1>3. CASE Then(s, x, <<>>)
    BY <1>1, <1>3, ThenLeads, SteadySteps
  <1>4. CASE Then(s, x, <<Do("start")>>)
    <2>1. PICK k \in Seq(Steady(x)) : k = <<Do("start")>>
      BY SteadyKinds, SteadySteps DEF TableStep
    <2>2. QED
      BY <1>1, <1>4, <2>1, ThenLeads
  <1>5. CASE u # None /\ cp[s][u].st = "SIT" /\ Then(s, x, <<SetStatus(u, "READY", c)>>)
    <2>1. c \in 0 .. MaxChair /\ c # 0 /\ u = tb[s].seat[c]
      BY <1>1, <1>5, AtFacts, StepShape
    <2>2. c \in Occupied(tb[s].seat)
      BY <1>5, <2>1, RoomAssumption DEF Occupied, Chair
    <2>3. PICK a \in Step : a = SetStatus(u, "READY", c) /\ <<a>> = <<a>> \o <<>>
      BY <1>1, <2>1, <2>2, OpensFirst DEF Status
    <2>4. Then(s, x, <<a>> \o <<>>) /\ <<>> \in Seq(Steady(x))
      BY <1>5, <2>3, SteadySteps
    <2>5. Head(co'[s][x]) = a
      BY <1>1, <2>4, ThenFirst
    <2>6. Top(s, x)'.u = u
      BY <2>3, <2>5 DEF Top, SetStatus, StepOf
    <2>7. \A d \in InGame(s) : tb[s].seat[d] # u
      BY <1>5 DEF InGame
    <2>8. InGame(s)' = InGame(s)
      BY <1>1, UnchangedGame
    <2>9. QED
      BY <1>1, <2>6, <2>7, <2>8 DEF Fit
  <1>6. QED
    BY <1>2, <1>3, <1>4, <1>5

LEMMA RunFits ==
  ASSUME AllInv, NEW s \in Service, NEW x \in Coroutine, RunStep(s, x), Running(s, x)',
         Leading(co'[s][x], "status")
  PROVE  Fit(s, Top(s, x))'
  <1>1. /\ ~update_user_status(s, x) /\ ~update_table_status(s, x)
        /\ ~write_game_record(s, x) /\ ~vacate(s, x) /\ ~unwatch(s, x)
        /\ ~start_game(s, x) /\ ~on_game_start(s, x) /\ ~clear_records(s, x)
        /\ ~on_game_reset(s, x) /\ ~remove_timer(s, x) /\ ~Finish(s, x)
    BY SilentRunFits
  <1>2. /\ ~game_end(s, x) /\ ~write_user_score(s, x) /\ ~end_game(s, x)
        /\ ~write_game_record_detail(s, x) /\ ~ready_timeout_seat(s, x)
    BY EndRunFits
  <1>3. \/ user_standup(s, x) \/ start_game_seat(s, x)
        \/ end_game_seat(s, x) \/ user_ready(s, x)
    BY <1>1, <1>2 DEF RunStep
  <1>4. QED
    BY <1>3, StandupFits, SeatingFits, SitsAgainFits, ReadyFits

-----------------------------------------------------------------------------
(* A request, or a timer, begins with these steps.                         *)
LEMMA BeginsWith ==
  ASSUME ChanTypeOK, TabTypeOK, NEW s \in Service, NEW x \in Coroutine, NEW steps,
         Begin(s, steps), Running(s, x)'
  PROVE  x = "R" /\ co'[s][x] = steps
  <1>1. Continues(s, "R", steps)
    BY DEF Begin
  <1>2. cur' = Idle \/ cur' = [svc |-> s, co |-> "R"]
    BY <1>1 DEF Continues
  <1>3. cur' # Idle
    BY RoomAssumption DEF Running, Idle
  <1>4. x = "R"
    BY <1>2, <1>3 DEF Running
  <1>5. QED
    BY <1>1, <1>4, ContinuesCo

LEMMA PlainRequestFits ==
  ASSUME AllInv, NEW s \in Service, NEW x \in Coroutine, Running(s, x)',
         \/ start(s) \/ cleanup(s) \/ get_can_sit_chairid(s) \/ get_table_info(s)
         \/ request_user_standup(s) \/ robot_standup(s) \/ game_msg(s) \/ init_game(s)
         \/ request_user_ready(s)
  PROVE  ~Leading(co'[s][x], "status")
  <1>1. ChanTypeOK /\ TabTypeOK /\ <<>> \in Seq(Steady("R"))
    BY AllParts, SteadySteps
  <1>2. cur' # Idle
    BY RoomAssumption DEF Running, Idle
  <1>3. ~(start(s) \/ cleanup(s) \/ get_can_sit_chairid(s) \/ get_table_info(s))
    BY <1>2 DEF start, cleanup, get_can_sit_chairid, get_table_info, Takes, Reply
  <1>4. ASSUME NEW k \in Seq(Steady("R")), Begin(s, k)
        PROVE  ~Leading(co'[s][x], "status")
    <2>1. co'[s][x] = k
      BY <1>1, <1>4, BeginsWith
    <2>2. QED
      BY <2>1, SteadyLeads
  <1>5. CASE request_user_standup(s)
    <2>1. /\ Takes(s, "user_standup")
          /\ Begin(s, <<DoFor("standup", Arg(s).u, Arg(s).c)>>)
      BY <1>5 DEF request_user_standup
    <2>2. Arg(s).u \in User /\ Arg(s).c \in 0 .. MaxChair
      BY <1>1, <2>1, TakesType DEF UserOp
    <2>3. <<DoFor("standup", Arg(s).u, Arg(s).c)>> \in Seq(Steady("R"))
      BY <2>2, SteadyKinds, SteadySteps
    <2>4. QED
      BY <1>4, <2>1, <2>3
  <1>6. CASE robot_standup(s)
    <2>1. CASE Begin(s, <<>>)
      BY <1>1, <1>4, <2>1
    <2>2. ASSUME NEW c \in Occupied(tb[s].seat),
                 Begin(s, <<DoFor("standup", tb[s].seat[c], c)>>)
          PROVE  ~Leading(co'[s][x], "status")
      <3>1. <<DoFor("standup", tb[s].seat[c], c)>> \in Seq(Steady("R"))
        BY <1>1, SeatType, SteadyKinds, SteadySteps
      <3>2. QED
        BY <1>4, <2>2, <3>1
    <2>3. QED
      BY <1>6, <2>1, <2>2, Zenon DEF robot_standup
  <1>7. CASE game_msg(s)
    <2>1. PICK k : Begin(s, k) /\ (k = <<>> \/ k = <<Do("gameend")>>)
      BY <1>7 DEF game_msg
    <2>2. k \in Seq(Steady("R"))
      BY <1>1, <2>1, SteadyKinds, SteadySteps DEF TableStep
    <2>3. QED
      BY <1>4, <2>1, <2>2
  <1>8. CASE init_game(s)
    <2>1. PICK k : Begin(s, k) /\ (k = <<>> \/ k = <<Do("start")>>)
      BY <1>8 DEF init_game
    <2>2. k \in Seq(Steady("R"))
      BY <1>1, <2>1, SteadyKinds, SteadySteps DEF TableStep
    <2>3. QED
      BY <1>4, <2>1, <2>2
  <1>9. CASE request_user_ready(s)
    <2>1. Takes(s, "user_ready") /\ Begin(s, <<DoFor("ready", None, Arg(s).c)>>)
      BY <1>9 DEF request_user_ready
    <2>2. Arg(s).c \in 0 .. MaxChair
      BY <1>1, <2>1, TakesType
    <2>3. <<DoFor("ready", None, Arg(s).c)>> \in Seq(Steady("R"))
      BY <2>2, SteadyKinds, SteadySteps DEF TableStep
    <2>4. QED
      BY <1>4, <2>1, <2>3
  <1>10. QED
    BY <1>3, <1>5, <1>6, <1>7, <1>8, <1>9

(* Who disconnects is offline, and who comes back plays.                   *)
LEMMA ReturnFits ==
  ASSUME AllInv, NEW s \in Service, NEW x \in Coroutine, Running(s, x)',
         user_offline(s) \/ update_user_conn(s), Leading(co'[s][x], "status")
  PROVE  Fit(s, Top(s, x))'
  <1>1. ChanTypeOK /\ TabTypeOK
    BY AllParts
  <1>2. \/ Begin(s, <<>>)
        \/ \E u, c : Begin(s, <<SetStatus(u, "OFFLINE", c)>>)
        \/ \E u, c : Begin(s, <<SetStatus(u, "PLAYING", c)>>)
        \/ \E u, c : Begin(s, <<DoFor("standup", u, c)>>)
    BY DEF user_offline, update_user_conn
  <1>3. CASE Begin(s, <<>>)
    <2>1. co'[s][x] = <<>>
      BY <1>1, <1>3, BeginsWith
    <2>2. QED
      BY <2>1 DEF Leading
  <1>4. ASSUME NEW u, NEW c, NEW st \in {"OFFLINE", "PLAYING"},
               Begin(s, <<SetStatus(u, st, c)>>)
        PROVE  Fit(s, Top(s, x))'
    <2>1. co'[s][x] = <<SetStatus(u, st, c)>>
      BY <1>1, <1>4, BeginsWith
    <2>2. Top(s, x)'.st = st
      BY <2>1 DEF Top, SetStatus, StepOf
    <2>3. QED
      BY <1>4, <2>2 DEF Fit
  <1>5. ASSUME NEW u, NEW c, Begin(s, <<DoFor("standup", u, c)>>)
        PROVE  FALSE
    <2>1. co'[s][x] = <<DoFor("standup", u, c)>>
      BY <1>1, <1>5, BeginsWith
    <2>2. QED
      BY <2>1 DEF Leading, DoFor, StepOf
  <1>6. QED
    BY <1>2, <1>3, <1>4, <1>5

(* Who has just been let in is not in the game.                            *)
LEMMA LetInFits ==
  ASSUME AllInv, NEW s \in Service, NEW x \in Coroutine, Running(s, x)',
         user_sitdown(s) \/ user_sitdown_ob(s), Leading(co'[s][x], "status")
  PROVE  Fit(s, Top(s, x))'
  <1> DEFINE m == Arg(s)
  <1>1. ChanTypeOK /\ TabTypeOK
    BY AllParts
  <1>2. cur' # Idle
    BY RoomAssumption DEF Running, Idle
  <1>3. m.u \in User
    BY <1>1, TakesType DEF user_sitdown, user_sitdown_ob, UserOp
  <1>4. Top(s, x)'.u = m.u /\ cp'[s][m.u].st = "FREE"
    <2>1. CASE user_sitdown(s)
      <3>1. PICK t :
              /\ co' = [co EXCEPT ![s]["R"] = <<SetStatus(m.u, "SIT", m.c)>>, ![s]["T"] = t]
              /\ cur' = [svc |-> s, co |-> "R"]
              /\ cp' = [cp EXCEPT ![s][m.u] = NoCopy]
        BY <1>2, <2>1 DEF user_sitdown, Takes, Reply
      <3>2. x = "R"
        BY <3>1 DEF Running
      <3>3. co'[s]["R"] = <<SetStatus(m.u, "SIT", m.c)>>
        BY <1>1, <3>1, CoroutineNames DEF TabTypeOK
      <3>4. cp'[s][m.u] = NoCopy
        BY <1>1, <1>3, <3>1 DEF TabTypeOK
      <3>5. QED
        BY <3>2, <3>3, <3>4 DEF Top, SetStatus, StepOf, NoCopy
    <2>2. CASE user_sitdown_ob(s)
      <3>1. /\ Begin(s, <<SetStatus(m.u, "OB", m.c)>>)
            /\ cp' = [cp EXCEPT ![s][m.u] = [NoCopy EXCEPT !.rich = m.rich]]
        BY <1>2, <2>2 DEF user_sitdown_ob, Takes, Reply
      <3>2. co'[s][x] = <<SetStatus(m.u, "OB", m.c)>>
        BY <1>1, <3>1, BeginsWith
      <3>3. cp'[s][m.u] = [NoCopy EXCEPT !.rich = m.rich]
        BY <1>1, <1>3, <3>1 DEF TabTypeOK
      <3>4. QED
        BY <3>2, <3>3 DEF Top, SetStatus, StepOf, NoCopy
    <2>3. QED
      BY <2>1, <2>2
  <1>5. QED
    BY <1>4 DEF Fit, InGame

LEMMA TimerFits ==
  ASSUME AllInv, NEW s \in Service, NEW x \in Coroutine, Running(s, x)', Timer(s)
  PROVE  ~Leading(co'[s][x], "status")
  <1>1. ChanTypeOK /\ TabTypeOK /\ "T" \in Coroutine
    BY AllParts, CoroutineNames
  <1>2. ASSUME NEW k \in Seq(Steady("T")), TimerFires(s, k)
        PROVE  ~Leading(co'[s][x], "status")
    <2>1. Continues(s, "T", k)
      BY <1>2 DEF TimerFires
    <2>2. x = "T"
      <3>1. cur' = Idle \/ cur' = [svc |-> s, co |-> "T"]
        BY <2>1 DEF Continues
      <3>2. cur' # Idle
        BY RoomAssumption DEF Running, Idle
      <3>3. QED
        BY <3>1, <3>2 DEF Running
    <2>3. co'[s][x] = k
      BY <1>1, <2>1, <2>2, ContinuesCo
    <2>4. QED
      BY <2>2, <2>3, SteadyLeads
  <1>3. \E k \in Seq(Steady("T")) : TimerFires(s, k)
    <2>1. CASE ReadyTimeout(s)
      <3>1. \/ TimerFires(s, <<>> \o <<Do("rmtimer")>>)
            \/ TimerFires(s, <<Loop("late", {})>> \o <<Do("rmtimer")>>)
        BY <2>1 DEF ReadyTimeout
      <3>2. PICK a \in Steady("T"), b \in Steady("T") : a = Loop("late", {}) /\ b = Do("rmtimer")
        BY SteadyKinds DEF TableStep
      <3> HIDE DEF Steady
      <3>3. <<>> \o <<b>> \in Seq(Steady("T")) /\ <<a>> \o <<b>> \in Seq(Steady("T"))
        OBVIOUS
      <3>4. QED
        BY <3>1, <3>2, <3>3, Zenon
    <2>2. CASE GameTimeout(s)
      <3>1. PICK k : TimerFires(s, k) /\ (k = <<>> \/ k = <<Do("gameend")>>)
        BY <2>2 DEF GameTimeout
      <3>2. k \in Seq(Steady("T"))
        BY <3>1, SteadyKinds, SteadySteps DEF TableStep
      <3>3. QED
        BY <3>1, <3>2
    <2>3. CASE RobotReady(s)
      <3>1. PICK c \in Occupied(tb[s].seat) :
                   TimerFires(s, <<DoFor("ready", None, cp[s][tb[s].seat[c]].chair)>>)
        BY <2>3 DEF RobotReady
      <3>2. cp[s][tb[s].seat[c]].chair \in 0 .. MaxChair
        BY <1>1, SeatType DEF CopyRec
      <3>3. <<DoFor("ready", None, cp[s][tb[s].seat[c]].chair)>> \in Seq(Steady("T"))
        BY <3>2, SteadyKinds, SteadySteps DEF TableStep
      <3>4. QED
        BY <3>1, <3>3
    <2>4. QED
      BY <2>1, <2>2, <2>3 DEF Timer
  <1>4. QED
    BY <1>2, <1>3

-----------------------------------------------------------------------------
(* A step of a table is that of one of its coroutines.                     *)
LEMMA MoveOf ==
  ASSUME AllInv, NEW s \in Service, TabNext(s), UNCHANGED mgrVars
  PROVE  \E x \in Coroutine : Moves(s, x)
  <1>1. ChanTypeOK /\ TabTypeOK /\ CallInv /\ TableShape(s)
    BY AllParts
  <1>2. PICK x \in Coroutine :
               Resumed(s, x) /\ Outcome(s, x) /\ TableKind(s, x) /\ Acts(s, x)
    BY <1>1, TableKinds
  <1>3. QED
    BY <1>2 DEF Moves

(* Whatever a step of a table is about to report fits.                     *)
LEMMA MoveFits ==
  ASSUME AllInv, NEW s \in Service, NEW x \in Coroutine, Moves(s, x),
         NEW r \in Service
  PROVE  StatusFits(r)'
  <1>1. SUFFICES ASSUME NEW y \in Coroutine, Running(r, y)', Leading(co'[r][y], "status")
                 PROVE  Fit(r, Top(r, y))'
    BY DEF StatusFits
  <1>2. r = s /\ y = x
    BY <1>1, OthersKeep
  <1>3. \/ RunStep(s, x) \/ (x = "R" /\ Request(s)) \/ (x = "T" /\ Timer(s))
    BY DEF Moves, Acts
  <1>4. CASE RunStep(s, x)
    BY <1>1, <1>2, <1>4, RunFits
  <1>5. CASE Request(s)
    <2>1. ~(\/ start(s) \/ cleanup(s) \/ get_can_sit_chairid(s) \/ get_table_info(s)
            \/ request_user_standup(s) \/ robot_standup(s) \/ game_msg(s) \/ init_game(s)
            \/ request_user_ready(s))
      BY <1>1, <1>2, PlainRequestFits
    <2>2. \/ user_offline(s) \/ update_user_conn(s) \/ user_sitdown(s) \/ user_sitdown_ob(s)
      BY <1>5, <2>1 DEF Request
    <2>3. QED
      BY <1>1, <1>2, <2>2, ReturnFits, LetInFits
  <1>6. CASE Timer(s)
    BY <1>1, <1>2, <1>6, TimerFits
  <1>7. QED
    BY <1>3, <1>4, <1>5, <1>6

(* What is done elsewhere changes nothing of what is to be reported here.  *)
LEMMA StillFits ==
  ASSUME tb' = tb, cp' = cp, co' = co, cur' = cur, NEW s \in Service, StatusFits(s)
  PROVE  StatusFits(s)'
  <1>1. Playing(s)' = Playing(s) /\ InGame(s)' = InGame(s)
    BY UnchangedGame DEF Playing
  <1>2. WindingUp(s)' = WindingUp(s)
    BY DEF WindingUp, Steps
  <1>3. ASSUME NEW x \in Coroutine
        PROVE  /\ Running(s, x)' = Running(s, x)
               /\ Fit(s, Top(s, x))' = Fit(s, Top(s, x))
    BY <1>1, <1>2 DEF Running, Fit, Top
  <1>4. QED
    BY <1>3 DEF StatusFits

LEMMA NextFits ==
  ASSUME AllInv, FitInv, [Next]_vars
  PROVE  FitInv'
  <1>1. CASE MgrNext /\ UNCHANGED tabVars
    <2>1. Requests \/ \E s \in Service : tableevent(s)
      BY <1>1, MgrKinds DEF AllInv, IInv, ShapeInv
    <2>2. cur' = cur
      <3>1. CASE Requests
        BY <3>1 DEF Requests, Unengaged
      <3>2. CASE \E s \in Service : tableevent(s)
        BY <1>1, <3>2, EventKeeps DEF AllInv
      <3>3. QED
        BY <2>1, <3>1, <3>2
    <2>3. QED
      BY <1>1, <2>2, StillFits DEF FitInv, tabVars
  <1>2. CASE \E s \in Service : TabNext(s) /\ UNCHANGED mgrVars
    BY <1>2, MoveOf, MoveFits DEF FitInv
  <1>3. CASE UNCHANGED vars
    BY <1>3, StillFits DEF FitInv, vars, tabVars, chans
  <1>4. QED
    BY <1>1, <1>2, <1>3 DEF Next

(* Nothing is to be reported at first.                                     *)
LEMMA InitFits ==
  ASSUME Init
  PROVE  FitInv
  BY DEF Init, TabInit, FitInv, StatusFits, Leading

-----------------------------------------------------------------------------
(* The player on chair c stays in the game, on his seat.                   *)
Stays(s, c) ==
  /\ c \in tb'[s].playing /\ tb'[s].seat[c] = tb[s].seat[c]
  /\ cp'[s][tb[s].seat[c]].st \in {"PLAYING", "OFFLINE"}

LEMMA StaysIn ==
  ASSUME NEW s \in Service, NEW c \in InGame(s), Stays(s, c)
  PROVE  c \in InGame(s)' /\ tb'[s].seat[c] = tb[s].seat[c]
  BY DEF InGame, Players, Occupied, Stays

LEMMA GameSeat ==
  ASSUME TabTypeOK, NEW s \in Service, NEW c \in InGame(s)
  PROVE  /\ c \in Chair /\ c \in tb[s].playing /\ tb[s].seat[c] \in User /\ tb[s].seat[c] # None
         /\ cp[s][tb[s].seat[c]].st \in {"PLAYING", "OFFLINE"}
         /\ c \in Occupied(tb[s].seat)
  <1>1. /\ c \in Occupied(tb[s].seat) /\ c \in tb[s].playing
        /\ cp[s][tb[s].seat[c]].st \in {"PLAYING", "OFFLINE"}
    BY DEF InGame, Players
  <1>2. QED
    BY <1>1, SeatType DEF Occupied

(* No step but these takes anybody out of user_playing.                    *)
LEMMA PlayingGrows ==
  ASSUME TabTypeOK, NEW s \in Service, TabNext(s)
  PROVE  \/ tb[s].playing \subseteq tb'[s].playing
         \/ start(s) \/ cleanup(s)
         \/ \E x \in Coroutine : At(s, x, "reset")
  <1> DEFINE same == tb[s].playing \subseteq tb'[s].playing
  <1>1. tb \in [Service -> TableState]
    BY DEF TabTypeOK
  <1>2. tb' = tb => same
    OBVIOUS
  <1>3. ASSUME NEW x, Crash(s, x)
        PROVE  same
    BY <1>1, <1>3 DEF Crash, TableState
  <1>4. ASSUME NEW seat, NEW ob, Forget(s, seat, ob)
        PROVE  same
    BY <1>1, <1>4 DEF Forget, TableState
  <1>5. ASSUME NEW by, NEW steps, NextPhase(s, by, steps)
        PROVE  same
    BY <1>1, <1>5 DEF NextPhase, Settles, TableState
  <1>6. ASSUME Request(s), ~start(s), ~cleanup(s)
        PROVE  same
    <2>1. CASE user_sitdown(s)
      BY <1>1, <1>2, <2>1 DEF user_sitdown, TableState
    <2>2. CASE user_sitdown_ob(s)
      BY <1>1, <1>2, <2>2 DEF user_sitdown_ob, TableState
    <2>3. CASE game_msg(s)
      BY <1>2, <1>5, <2>3 DEF game_msg
    <2>4. QED
      BY <1>2, <1>6, <2>1, <2>2, <2>3
      DEF Request, get_can_sit_chairid, get_table_info, request_user_standup, robot_standup,
          user_offline, update_user_conn, init_game, request_user_ready
  <1>7. ASSUME Timer(s)
        PROVE  same
    BY <1>2, <1>5, <1>7 DEF Timer, ReadyTimeout, RobotReady, GameTimeout
  <1>8. ASSUME NEW x \in Coroutine, RunStep(s, x)
        PROVE  same \/ At(s, x, "reset")
    <2>1. CASE vacate(s, x) \/ unwatch(s, x)
      BY <1>4, <2>1 DEF vacate, unwatch
    <2>2. CASE \/ start_game(s, x) \/ on_game_start(s, x) \/ clear_records(s, x)
               \/ remove_timer(s, x)
      <3>1. tb[s] \in TableState
        BY <1>1
      <3>2. \/ tb' = [tb EXCEPT ![s].started = TRUE]
            \/ tb' = [tb EXCEPT ![s].rtimer = FALSE, ![s].gstat = "CALL",
                                 ![s].playing = @ \cup Occupied(tb[s].seat)]
            \/ tb' = [tb EXCEPT ![s].recs = {}]
            \/ tb' = [tb EXCEPT ![s].rtimer = FALSE]
        BY <2>2, Zenon DEF start_game, on_game_start, clear_records, remove_timer
      <3>3. QED
        BY <1>1, <3>1, <3>2 DEF TableState
    <2>3. CASE \/ game_end(s, x) \/ write_user_score(s, x) \/ end_game(s, x)
               \/ write_game_record_detail(s, x)
      BY <1>1, <1>2, <1>3, <2>3
      DEF game_end, write_user_score, end_game, write_game_record_detail, TableState
    <2>4. CASE on_game_reset(s, x)
      BY <2>4 DEF on_game_reset
    <2>5. CASE \/ update_user_status(s, x) \/ update_table_status(s, x) \/ user_standup(s, x)
               \/ start_game_seat(s, x) \/ write_game_record(s, x) \/ end_game_seat(s, x)
               \/ ready_timeout_seat(s, x) \/ user_ready(s, x) \/ Finish(s, x)
      BY <1>2, <2>5
      DEF update_user_status, update_table_status, user_standup, start_game_seat,
          write_game_record, end_game_seat, ready_timeout_seat, user_ready, Finish
    <2>6. QED
      BY <1>8, <2>1, <2>2, <2>3, <2>4, <2>5 DEF RunStep
  <1>9. QED
    BY <1>6, <1>7, <1>8 DEF TabNext

(* A table that is started or cleaned up has nobody in a game.             *)
LEMMA NobodyInGame ==
  ASSUME AllInv, GamesInv, NEW s \in Service, Empties(s), Playing(s)
  PROVE  InGame(s) = {}
  <1>1. /\ ChanTypeOK /\ TabTypeOK /\ ResourcePartition /\ OneAsked /\ AsksWell(s) /\ Games(s)
    BY AllParts DEF AllInv, IInv, MgrInv, GamesInv
  <1>2. /\ Arg(s) \in Elems(toTab[s]) /\ Arg(s) \in Asked /\ Arg(s).op \in {"start", "cleanup"}
    BY <1>1, EmptiesTakes
  <1>3. CASE Arg(s).op = "start"
    <2>1. Starting(s)
      BY <1>1, <1>2, <1>3 DEF AsksWell, AskedFor
    <2>2. tb[s].tid \in TableId \cup {0}
      BY <1>1, RoomAssumption DEF TabTypeOK, TableState, TableId
    <2>3. tb[s].tid # 0
      BY <1>1 DEF Games, Course, Playing
    <2>4. gt[tb[s].tid] = s
      BY <1>1, <1>2, <2>3 DEF Games, Names
    <2>5. tb[s].tid \in Live
      BY <2>2, <2>3, <2>4, RoomAssumption DEF Live
    <2>6. QED
      BY <1>1, <2>1, <2>4, <2>5 DEF ResourcePartition
  <1>4. CASE Arg(s).op = "cleanup"
    <2>1. Closing(s)
      BY <1>2, <1>4 DEF Closing
    <2>2. Occupied(tb[s].seat) = {}
      BY <1>1, <2>1 DEF Games, Empty
    <2>3. QED
      BY <2>2 DEF InGame, Players
  <1>5. QED
    BY <1>2, <1>3, <1>4

(* Each kind of step of a table leaves who is in the game there.           *)
LEMMA MoveStays ==
  ASSUME AllInv, GamesInv, FitInv, NEW s \in Service, NEW x \in Coroutine, Moves(s, x),
         Playing(s), ~WindingUp(s), NEW c \in InGame(s), ~Emptying(s, c)
  PROVE  Stays(s, c)
  <1>1. /\ ChanTypeOK /\ TabTypeOK /\ Waits /\ OneAsked /\ Places(s) /\ SeatsApart(s)
        /\ TabNext(s) /\ TableKind(s, x)
    BY AllParts DEF Moves, Places
  <1>2. PICK u \in User : u = tb[s].seat[c]
    BY <1>1, GameSeat
  <1>3. /\ c \in Chair /\ c \in tb[s].playing /\ u # None
        /\ cp[s][u].st \in {"PLAYING", "OFFLINE"}
    BY <1>1, <1>2, GameSeat
  <1>4. ~(x = "R" /\ Empties(s))
    BY NobodyInGame
  <1>5. c \in tb'[s].playing
    <2>1. ~Empties(s)
      BY NobodyInGame
    <2>2. ~start(s) /\ ~cleanup(s)
      BY <1>1, <2>1, EmptiesKind
    <2>3. ASSUME NEW y \in Coroutine, At(s, y, "reset")
          PROVE  FALSE
      <3>1. co[s][y] # <<>> /\ co[s][y] \in Seq(Step) /\ Top(s, y).op = "reset"
        BY <1>1, <2>3, AtFacts
      <3>2. Top(s, y) \in Steps(s, y)
        BY <3>1 DEF Top, Steps
      <3>3. QED
        BY <3>1, <3>2 DEF WindingUp
    <2>4. QED
      BY <1>1, <1>3, <2>2, <2>3, PlayingGrows
  <1>6. CASE Silent(s, x)
    <2>1. tb'[s].seat[c] = tb[s].seat[c] /\ cp'[s][u].st = cp[s][u].st
      BY <1>6, SilentPlaces DEF Silent, SamePlaces
    <2>2. QED
      BY <1>2, <1>3, <1>5, <2>1 DEF Stays
  <1>7. CASE Informs(s, x)
    <2> DEFINE q == Top(s, x)
    <2>1. /\ tb' = tb /\ Running(s, x) /\ co[s][x] # <<>> /\ q.op = "status"
          /\ \A w \in User \ {q.u} : cp'[s][w] = cp[s][w]
          /\ cp'[s][q.u].st = q.st
      BY <1>7 DEF Informs, Word
    <2>2. u = q.u => q.st \in {"PLAYING", "OFFLINE"}
      <3>1. StatusFits(s) /\ Leading(co[s][x], "status")
        BY <2>1 DEF FitInv, Leading, Top
      <3>2. Fit(s, q)
        BY <2>1, <3>1 DEF StatusFits
      <3>3. QED
        BY <1>2, <3>2 DEF Fit
    <2>3. cp'[s][u].st \in {"PLAYING", "OFFLINE"}
      BY <1>3, <2>1, <2>2
    <2>4. QED
      BY <1>2, <1>5, <2>1, <2>3 DEF Stays
  <1>8. CASE TakesAway(s, x)
    <2>1. c # Top(s, x).c
      BY <1>8 DEF TakesAway, Emptying, LeaveOp
    <2>2. tb'[s].seat[c] = u
      BY <1>1, <1>2, <1>3, <1>8, <2>1, AwayPlaces
    <2>3. Here(s, u)'
      BY <1>3, <2>2 DEF Here, Seated
    <2>4. cp'[s][u] = cp[s][u]
      BY <1>1, <1>8, <2>3, AwayPlaces
    <2>5. QED
      BY <1>2, <1>3, <1>5, <2>2, <2>4 DEF Stays
  <1>9. CASE x = "R" /\ LetsIn(s)
    <2> DEFINE m == Arg(s)
    <2>1. ~Here(s, m.u)
      BY <1>9, LetsInFacts
    <2>2. u # m.u
      BY <1>2, <1>3, <2>1 DEF Here, Seated
    <2>3. cp'[s][u] = cp[s][u]
      BY <2>2, <1>9 DEF LetsIn
    <2>4. tb'[s].seat[c] = u
      <3>1. tb[s] \in TableState
        BY <1>1 DEF TabTypeOK
      <3>2. QED
        BY <1>2, <1>3, <1>9, <3>1 DEF LetsIn, TableState
    <2>5. QED
      BY <1>2, <1>3, <1>5, <2>3, <2>4 DEF Stays
  <1>10. QED
    BY <1>1, <1>4, <1>6, <1>7, <1>8, <1>9 DEF TableKind

(* So does a step of another table, or of gamemgr.                         *)
LEMMA SameStays ==
  ASSUME TabTypeOK, NEW s \in Service, NEW c \in InGame(s), tb'[s] = tb[s], cp'[s] = cp[s]
  PROVE  Stays(s, c)
  BY GameSeat DEF Stays

LEMMA NextStays ==
  ASSUME AllInv, GamesInv, FitInv, [Next]_vars, NEW s \in Service,
         Playing(s), ~WindingUp(s), NEW c \in InGame(s), ~Emptying(s, c)
  PROVE  c \in InGame(s)' /\ tb'[s].seat[c] = tb[s].seat[c]
  <1>1. TabTypeOK
    BY AllParts
  <1>2. SUFFICES Stays(s, c)
    BY StaysIn
  <1>3. CASE UNCHANGED tabVars
    BY <1>1, <1>3, SameStays DEF tabVars
  <1>4. CASE \E r \in Service : TabNext(r) /\ UNCHANGED mgrVars
    <2>1. PICK r \in Service, x \in Coroutine : Moves(r, x)
      BY <1>4, MoveOf
    <2>2. CASE r = s
      BY <2>1, <2>2, MoveStays
    <2>3. CASE r # s
      <3>1. tb'[s] = tb[s] /\ cp'[s] = cp[s]
        BY <2>1, <2>3, OtherTable
      <3>2. QED
        BY <1>1, <3>1, SameStays
    <2>4. QED
      BY <2>2, <2>3
  <1>5. QED
    BY <1>3, <1>4 DEF Next, vars

(* A player who is in the running game stays in it, and keeps his seat,    *)
(* until it is settled: standing up is refused him, a disconnection makes  *)
(* him offline and a return makes him play again, and no timer takes him   *)
(* off, in whichever order the requests and the timer's coroutine reach    *)
(* the table (gametable.lua:152-181, 261-267, 367-378, 528).               *)
THEOREM PlayersStay == Spec => PlayersKept
  <1>1. Init => FitInv
    BY InitFits
  <1>2. AllInv /\ FitInv /\ [Next]_vars => FitInv'
    BY NextFits
  <1>3. IInv /\ CallInv /\ ShapeInv /\ SeatInv => AllInv
    BY DEF AllInv
  <1>4. AllInv /\ GamesInv /\ FitInv /\ [Next]_vars =>
          [\A s \in Service :
             Playing(s) /\ ~WindingUp(s) =>
               \A c \in InGame(s) :
                 ~Emptying(s, c) => c \in InGame(s)' /\ tb'[s].seat[c] = tb[s].seat[c]]_vars
    BY NextStays
  <1>5. QED
    BY <1>1, <1>2, <1>3, <1>4, SeatsAgree, GamesTakeTheirCourse, PTL DEF Spec, PlayersKept

-----------------------------------------------------------------------------
(* The end of a table, in a room where nobody may watch (allow_ob is not   *)
(* set, and nobody has a master_level, gametable.lua:343): nobody is an    *)
(* observer, or is about to stop being one.                                *)
Unwatched(s) == tb[s].ob = {} /\ \A x \in Coroutine : ~Leading(co[s][x], "unwatch")

(* A table with no id, or that gamemgr does not list, has come to rest:    *)
(* nothing is left to do there, and gamemgr has nothing of it to serve,    *)
(* except while it removes the table, a call that comes before the answer  *)
(* it waits for.                                                           *)
Quiet(s) == ~Targets(s) \/ tb[s].tid = 0

Resting(s) ==
  /\ Empty(s) /\ ~tb[s].rtimer /\ \A x \in Coroutine : co[s][x] = <<>>
  /\ \A m \in Elems(toMgr[s]) :
       /\ m \notin CallsOf("R")
       /\ m \in CallsOf("T") => TimerFirst(toMgr[s]) /\ req.pc = "clean" /\ gt[req.t] = s

(* What a table says of itself is said under an id gamemgr lists it by.    *)
Listed(s) == \A m \in Elems(toMgr[s]) : m.k = "table" => m.tid # 0 /\ gt[m.tid] = s

Rested(s) ==
  /\ Unwatched(s) /\ Listed(s)
  /\ Empty(s) => Need(s) <= Guard(s)
  /\ Quiet(s) => Resting(s)

-----------------------------------------------------------------------------
(* Nobody is let in to watch.                                              *)
LEMMA NobodyWatches ==
  ASSUME Watcher = {}, NEW s \in Service, LetsIn(s), Request(s)
  PROVE  Arg(s).op = "user_sitdown"
  <1>1. Sits(Arg(s)) /\ Takes(s, Arg(s).op) /\ Running(s, "R")'
    BY DEF LetsIn
  <1>2. ASSUME Arg(s).op = "user_sitdown_ob"
        PROVE  FALSE
    <2>1. user_sitdown_ob(s)
      BY <1>2 DEF Request, start, cleanup, get_can_sit_chairid, get_table_info, user_sitdown,
         request_user_standup, robot_standup, user_offline, update_user_conn, game_msg,
         init_game, request_user_ready, Takes, Arg
    <2>2. cur' = cur /\ cur = Idle
      BY <2>1 DEF user_sitdown_ob, Reply, Takes
    <2>3. QED
      BY <1>1, <2>2, WhoRuns DEF Running
  <1>3. QED
    BY <1>1, <1>2 DEF Sits

LEMMA UnwatchedStays ==
  ASSUME Watcher = {}, ChanTypeOK, TabTypeOK, TabTypeOK', NEW s \in Service, NEW x \in Coroutine,
         TableKind(s, x), Acts(s, x), NEW r \in Service, Unwatched(r)
  PROVE  Unwatched(r)'
  <1>1. Untouched(s, x)
    BY OtherTables
  <1>2. ASSUME NEW y \in Coroutine, r # s \/ y # x
        PROVE  ~Leading(co'[r][y], "unwatch")
    <2>1. co'[r][y] = co[r][y] \/ Missed(co[r][y], co'[r][y])
      BY <1>1, <1>2 DEF Untouched
    <2>2. co[r][y] \in Seq(Step) /\ co'[r][y] \in Seq(Step) /\ ~Leading(co[r][y], "unwatch")
      BY DEF TabTypeOK, Unwatched
    <2>3. QED
      BY <2>1, <2>2, MissedCalls
  <1>3. CASE r # s
    BY <1>1, <1>2, <1>3 DEF Untouched, Unwatched
  <1>4. ASSUME r = s
        PROVE  tb'[s].ob = {} /\ ~Leading(co'[s][x], "unwatch")
    <2>1. tb[s].ob = {} /\ ~Leading(co[s][x], "unwatch")
      BY <1>4 DEF Unwatched
    <2>2. ASSUME co'[s][x] \in Seq(Steady(x))
          PROVE  ~Leading(co'[s][x], "unwatch")
      BY <2>2, SeqParts DEF Leading, Steady, LeaveOp
    <2>3. CASE Silent(s, x)
      BY <2>1, <2>2, <2>3 DEF Silent, SamePlaces, NextShape, Leads, Leading, Top
    <2>4. CASE Informs(s, x)
      <3>1. tb' = tb /\ co'[s][x] = Rest(s, x) /\ Leads(s, x, Top(s, x), Rest(s, x))
            /\ Top(s, x).op = "status"
        BY <2>4 DEF Informs
      <3>2. Rest(s, x) \in Seq(Steady(x)) \/ Head(Rest(s, x)).op = "vacate"
        BY <2>1, <3>1 DEF Leads, Frees
      <3>3. QED
        BY <2>1, <2>2, <3>1, <3>2 DEF Leading
    <2>5. CASE TakesAway(s, x)
      BY <2>1, <2>2, <2>5 DEF TakesAway
    <2>6. CASE x = "R" /\ LetsIn(s)
      <3>1. Request(s)
        <4>1. cur = Idle /\ toTab[s] # <<>> /\ Head(toTab[s]).k = "req" /\ co[s]["R"] = <<>>
          BY <2>6 DEF LetsIn, Takes
        <4>2. ~RunStep(s, "R")
          <5>1. ~Running(s, "R") /\ ~Answered(s, "R")
            BY <4>1, WhoRuns DEF Running, Answered
          <5>2. QED
            BY <4>1, <5>1, RunStretch, CoroutineNames DEF Stretch
        <4>3. QED
          BY <2>6, <4>2, CoroutineNames DEF Acts
      <3>2. Arg(s).op = "user_sitdown"
        BY <2>6, <3>1, NobodyWatches
      <3>3. /\ co'[s]["R"] = <<SetStatus(Arg(s).u, "SIT", Arg(s).c)>>
            /\ tb'[s] = [tb[s] EXCEPT !.seat[Arg(s).c] = Arg(s).u]
        BY <2>6, <3>2 DEF LetsIn
      <3>4. tb[s] \in TableState
        BY DEF TabTypeOK
      <3>5. tb'[s].ob = tb[s].ob
        BY <3>3, <3>4 DEF TableState
      <3>6. QED
        BY <2>1, <2>6, <3>3, <3>5 DEF Leading, SetStatus, StepOf
    <2>7. CASE x = "R" /\ Empties(s)
      BY <2>1, <2>7 DEF Empties
    <2>8. QED
      BY <2>3, <2>4, <2>5, <2>6, <2>7 DEF TableKind
  <1>5. QED
    BY <1>2, <1>3, <1>4 DEF Unwatched
-----------------------------------------------------------------------------
(* The timer's coroutine comes to the end of its calls.  What it may still *)
(* come to:                                                                *)
LEMMA NeedFacts ==
  ASSUME TabTypeOK, NEW s \in Service, Form(co[s]["T"])
  PROVE  /\ Rank(co[s]["T"]) \in 0 .. 2 /\ Need(s) \in 0 .. 3
         /\ co[s]["T"] = <<>> => Need(s) = 0
  <1>1. co[s]["T"] \in Seq(Step)
    BY CoroutineNames DEF TabTypeOK
  <1>2. Rank(co[s]["T"]) \in 0 .. 2
    BY <1>1, FormCounts, NoSteps
  <1>3. QED
    BY <1>2, NoSteps DEF Need, Bit

LEMMA TimerNeeds ==
  ASSUME ChanTypeOK, TabTypeOK, TabTypeOK', CallInv, UNCHANGED mgrVars, NEW s \in Service,
         Resumed(s, "T"), Outcome(s, "T"), TableKind(s, "T"), Acts(s, "T"), Goes(s, "T"),
         Games(s), Unwatched(s), Empty(s) => Need(s) <= Guard(s), Empty(s)'
  PROVE  Need(s)' <= Guard(s)'
  <1>1. "T" \in Coroutine /\ "R" \in Coroutine /\ "T" # "R"
    BY CoroutineNames
  <1>2. Untouched(s, "T") /\ Form(co[s]["R"]) /\ Form(co[s]["T"]) /\ tb[s].ob = {}
    BY <1>1, OtherTables DEF Games, Course, Unwatched
  <1>3. PICK g, h : g = Guard(s) /\ h = Guard(s)'
    OBVIOUS
  <1>4. g \in Nat /\ h \in Nat
    BY <1>3 DEF Guard, Bit
  <1>5. /\ h + Bit("T" \in wt[s]) >= g
        /\ ~Closing(s) => h >= 1
    BY <1>1, <1>2, <1>3, GuardTimer
  <1>6. /\ "T" \in wt[s] => h + 1 >= g
        /\ "T" \notin wt[s] => h >= g
    BY <1>4, <1>5 DEF Bit
  <1>7. PICK k : k = Rank(co[s]["T"])
    OBVIOUS
  <1>8. k \in Nat /\ (co[s]["T"] = <<>> => k = 0)
    BY <1>2, <1>7, NeedFacts, NoSteps
  <1>9. CASE Empty(s)
    <2>1. Need(s)' <= k
      BY <1>1, <1>2, <1>7, <1>9 DEF Goes, GoesBy, Spends, Need
    <2>2. /\ "T" \in wt[s] /\ co[s]["T"] # <<>> => Need(s) = k + 1
          /\ ~("T" \in wt[s] /\ co[s]["T"] # <<>>) => Need(s) = k
      BY <1>7, <1>8 DEF Need, Bit
    <2>3. Need(s) <= g
      BY <1>3, <1>9
    <2>4. k <= h
      BY <1>4, <1>6, <1>8, <2>2, <2>3
    <2>5. co'[s]["T"] \in Seq(Step) /\ Form(co'[s]["T"])
      BY <1>1 DEF TabTypeOK, Goes, GoesBy
    <2>6. Rank(co'[s]["T"]) \in 0 .. 2
      BY <2>5, FormCounts, NoSteps
    <2>7. Need(s)' \in Nat
      BY <2>6 DEF Need, Bit
    <2>8. QED
      BY <1>3, <1>4, <1>8, <2>1, <2>4, <2>7
  <1>10. CASE ~Empty(s)
    <2>1. (Base(co'[s]["T"]) \/ Telling(co'[s]["T"])) /\ "T" \notin wt'[s]
      BY <1>10 DEF Goes, GoesBy
    <2>2. Rank(co'[s]["T"]) \in 0 .. 1
      BY <2>1 DEF Rank
    <2>3. Need(s)' <= 1 /\ Need(s)' \in Nat
      BY <2>1, <2>2 DEF Need, Bit
    <2>4. h >= 1
      BY <1>5, <1>10 DEF Games
    <2>5. QED
      BY <1>3, <1>4, <2>3, <2>4
  <1>11. QED
    BY <1>9, <1>10

(* A request leaves it as many, ...                                        *)
LEMMA NeedKept ==
  ASSUME ChanTypeOK, TabTypeOK, TabTypeOK', Waits, NEW s \in Service,
         Resumed(s, "R"), Outcome(s, "R"), Untouched(s, "R"), Form(co[s]["T"])
  PROVE  Need(s)' = Need(s) /\ Need(s) \in 0 .. 3 /\ ("T" \notin wt[s] => Need(s) = 0)
  <1>1. "T" \in Coroutine /\ "R" \in Coroutine /\ "T" # "R"
    BY CoroutineNames
  <1>2. ~Running(s, "T") /\ ("T" \in wt'[s] <=> "T" \in wt[s])
    BY <1>1, OthersWait
  <1>3. /\ Rank(co'[s]["T"]) = Rank(co[s]["T"])
        /\ co'[s]["T"] = <<>> <=> co[s]["T"] = <<>>
    BY <1>1, OthersKept
  <1>4. "T" \notin wt[s] => co[s]["T"] = <<>>
    BY <1>1, <1>2 DEF Waits, Active
  <1>5. Need(s) \in 0 .. 3 /\ ("T" \notin wt[s] => Need(s) = 0)
    BY <1>4, NeedFacts
  <1>6. Need(s)' = Need(s)
    BY <1>2, <1>3 DEF Need, Bit
  <1>7. QED
    BY <1>5, <1>6

(* ... also when it takes the last player off the table: it still reports  *)
(* the table's status itself.                                              *)
LEMMA LastLeaves ==
  ASSUME ChanTypeOK, TabTypeOK, CallInv, UNCHANGED mgrVars, NEW s \in Service,
         Resumed(s, "R"), Outcome(s, "R"), Removing(s), RunStep(s, "R"),
         TakesAway(s, "R"), Unwatched(s), "T" \in wt[s]
  PROVE  Guard(s)' >= 3
  <1>1. Waits /\ "R" \in Coroutine
    BY CoroutineNames DEF CallInv
  <1>2. /\ CallStays(s) /\ "R" \in wt[s] /\ co[s]["R"] # <<>> /\ co[s]["R"] \in Seq(Step)
        /\ Top(s, "R").op \in LeaveOp /\ Follows("R", Top(s, "R"), Rest(s, "R"))
    BY <1>1 DEF TakesAway, TabTypeOK
  <1>3. Top(s, "R").op = "vacate"
    BY <1>1, <1>2 DEF Unwatched, Leading, Top, LeaveOp
  <1>4. Tells(Rest(s, "R")) /\ Top(s, "R") \in Step /\ Rest(s, "R") \in Seq(Step)
        /\ co[s]["R"] = <<Top(s, "R")>> \o Rest(s, "R")
    BY <1>2, <1>3, SeqParts DEF Follows, Top, Rest
  <1>5. WillCall(Rest(s, "R"))
    <2>1. PICK k : k = Rest(s, "R")
      OBVIOUS
    <2>2. k # <<>> /\ k \in Seq(Step) /\ Head(k).op \in Calling
      BY <1>4, <2>1 DEF Tells, Calling
    <2>3. Head(k) \in Step /\ Tail(k) \in Seq(Step) /\ k = <<Head(k)>> \o Tail(k)
      BY <2>2, SeqParts
    <2>4. WillCall(<<Head(k)>> \o Tail(k))
      BY <2>2, <2>3, CallAhead
    <2>5. QED
      BY <2>1, <2>3, <2>4
  <1>6. WillCall(co[s]["R"])
    <2>1. Top(s, "R").op \in Surely
      BY <1>3 DEF Surely
    <2>2. WillCall(<<Top(s, "R")>> \o Rest(s, "R"))
      BY <1>4, <1>5, <2>1, CallAhead
    <2>3. QED
      BY <1>4, <2>2
  <1>7. ~Closing(s) /\ Guard(s)' >= Guard(s) /\ Guard(s)' \in Nat
    BY <1>2, GuardRun
  <1>8. Guard(s) = 3
    BY <1>2, <1>6, <1>7 DEF Guard, Active, Bit
  <1>9. QED
    BY <1>7, <1>8

LEMMA RequestNeeds ==
  ASSUME IInv, TabTypeOK', CallInv, UNCHANGED mgrVars, NEW s \in Service,
         Resumed(s, "R"), Outcome(s, "R"), TableKind(s, "R"), Acts(s, "R"),
         ~Empties(s), TableShape(s), Games(s), Unwatched(s),
         Empty(s) => Need(s) <= Guard(s), Empty(s)'
  PROVE  Need(s)' <= Guard(s)'
  <1>1. /\ ChanTypeOK /\ TabTypeOK /\ Waits /\ OneAsked
        /\ "T" \in Coroutine /\ "R" \in Coroutine /\ "T" # "R"
    BY CoroutineNames DEF IInv, MgrInv, CallInv
  <1>2. Untouched(s, "R") /\ AsksWell(s) /\ Form(co[s]["T"]) /\ Removing(s)
    BY <1>1, OtherTables DEF TableShape, Games, Course
  <1>3. Need(s)' = Need(s) /\ Need(s) \in 0 .. 3 /\ ("T" \notin wt[s] => Need(s) = 0)
    BY <1>1, <1>2, NeedKept
  <1>4. Guard(s) \in Nat /\ Guard(s)' \in Nat
    BY DEF Guard, Bit
  <1>5. ASSUME "T" \in wt[s], RunStep(s, "R")
        PROVE  Need(s) <= Guard(s)'
    <2>1. Silent(s, "R") \/ Informs(s, "R") \/ TakesAway(s, "R")
      BY <1>1, <1>5, RunStepKinds DEF TableShape
    <2>2. Informs(s, "R") => \E m \in CallsOf("R") : toMgr'[s] = Append(toMgr[s], m)
      BY <1>1 DEF Informs, ChanTypeOK
    <2>3. CallStays(s)
      BY <2>1, <2>2 DEF Silent, TakesAway, CallStays
    <2>4. CASE Empty(s)
      <3>1. Guard(s)' >= Guard(s)
        BY <1>1, <1>2, <1>5, <2>3, GuardRun
      <3>2. QED
        BY <1>3, <1>4, <2>4, <3>1
    <2>5. CASE ~Empty(s)
      <3>1. TakesAway(s, "R")
        BY <2>1, <2>5 DEF Silent, Informs, SamePlaces, Empty
      <3>2. Guard(s)' >= 3
        BY <1>1, <1>2, <1>5, <3>1, LastLeaves
      <3>3. QED
        BY <1>3, <1>4, <3>2
    <2>6. QED
      BY <2>4, <2>5
  <1>6. ASSUME "T" \in wt[s], Request(s)
        PROVE  Need(s) <= Guard(s)'
    <2>1. Guard(s)' >= Guard(s)
      BY <1>1, <1>6, GuardAsked
    <2>2. Empty(s)
      BY <1>1, <1>2, <1>6, RequestKinds, RequestEmpty
    <2>3. QED
      BY <1>3, <1>4, <2>1, <2>2
  <1>7. QED
    BY <1>1, <1>3, <1>4, <1>5, <1>6 DEF Acts

(* ... and one that cleans the table up finds it at its end.               *)
LEMMA EmptiesNeeds ==
  ASSUME IInv, CallInv, UNCHANGED mgrVars, NEW s \in Service, Acts(s, "R"),
         Empties(s), AsksWell(s), Games(s), Empty(s) => Need(s) <= Guard(s),
         Quiet(s) => Resting(s)
  PROVE  \A x \in Coroutine : co[s][x] = <<>>
  <1>1. /\ ChanTypeOK /\ TabTypeOK /\ MgrTypeOK /\ ResourcePartition /\ Waits /\ OneAsked
        /\ "T" \in Coroutine /\ "R" \in Coroutine /\ "T" # "R" /\ Coroutine = {"R", "T"}
    BY CoroutineNames DEF IInv, MgrInv, CallInv, Coroutine
  <1>2. /\ Arg(s) \in Elems(toTab[s]) /\ Arg(s) \in Asked /\ Arg(s).op \in {"start", "cleanup"}
    BY <1>1, EmptiesTakes
  <1>3. AskedFor(s, Arg(s)) /\ cur = Idle /\ co[s]["R"] = <<>>
    BY <1>2 DEF AsksWell, Empties, Takes
  <1>4. ~Active(s, "R") /\ \A m \in Elems(toMgr[s]) : m \notin Returned
    BY <1>1, <1>2, OneFacts
  <1>5. CASE Arg(s).op = "start"
    <2>1. Starting(s)
      BY <1>3, <1>5 DEF AskedFor
    <2>2. ~Targets(s)
      BY <1>1, <2>1 DEF ResourcePartition, Targets
    <2>3. QED
      BY <2>2 DEF Quiet, Resting
  <1>6. CASE Arg(s).op = "cleanup"
    <2>1. Closing(s) /\ Empty(s)
      BY <1>2, <1>6 DEF Closing, Games
    <2>2. toTab[s] # <<>> /\ Head(toTab[s]) \in Asked
      BY <1>2 DEF Arg, Empties, Takes
    <2>3. ~TimerNext(toTab[s])
      BY <2>2 DEF TimerNext, Answers, Asked
    <2>4. \A m \in Elems(toMgr[s]) : m \notin CallsOf("R")
      BY <1>1, <1>4, WaitFacts DEF Active
    <2>5. ~TimerFirst(toMgr[s])
      BY <1>1, <1>4, <2>4, FirstOf DEF ChanTypeOK
    <2>6. Guard(s) = 0
      BY <2>1, <2>3, <2>5 DEF Guard, Ahead, Bit
    <2>7. Need(s) <= 0
      BY <2>1, <2>6
    <2>8. Rank(co[s]["T"]) \in 0 .. 2
      BY <1>1, NeedFacts DEF Games, Course
    <2>9. ~("T" \in wt[s] /\ co[s]["T"] # <<>>)
      BY <2>7, <2>8 DEF Need, Bit
    <2>10. ~Running(s, "T")
      BY <1>3, WhoRuns DEF Running
    <2>11. co[s]["T"] = <<>>
      BY <1>1, <2>9, <2>10 DEF Waits, Active
    <2>12. QED
      BY <1>1, <1>3, <2>11
  <1>7. QED
    BY <1>2, <1>5, <1>6
-----------------------------------------------------------------------------
(* A table that rests goes on resting, ...                                 *)
LEMMA RestsOn ==
  ASSUME ChanTypeOK, NEW s \in Service, UNCHANGED <<req, gt>>, Resting(s),
         Empty(s)', ~tb'[s].rtimer, \A x \in Coroutine : co'[s][x] = <<>>,
         \/ toMgr'[s] = toMgr[s]
         \/ \E e \in Returned : toMgr'[s] = Append(toMgr[s], e)
  PROVE  Resting(s)'
  <1>1. toMgr[s] \in Seq(MgrMsg) /\ req' = req /\ gt' = gt
    BY DEF ChanTypeOK
  <1>2. CASE toMgr'[s] = toMgr[s]
    BY <1>1, <1>2 DEF Resting
  <1>3. ASSUME NEW e \in Returned, toMgr'[s] = Append(toMgr[s], e)
        PROVE  Resting(s)'
    <2>1. e \in MgrMsg /\ \A x : e \notin CallsOf(x)
      BY DEF Returned, CallsOf
    <2>2. Elems(toMgr'[s]) = Elems(toMgr[s]) \cup {e}
      BY <1>1, <1>3, <2>1, ElemsAppend
    <2>3. TimerFirst(toMgr[s]) => TimerFirst(toMgr'[s])
      BY <1>1, <1>3, <2>1, FirstAppend
    <2>4. ASSUME NEW m \in Elems(toMgr'[s])
          PROVE  /\ m \notin CallsOf("R")
                 /\ m \in CallsOf("T") => TimerFirst(toMgr'[s]) /\ req.pc = "clean" /\ gt[req.t] = s
      BY <2>1, <2>2, <2>3 DEF Resting
    <2>5. QED
      BY <1>1, <2>4 DEF Resting
  <1>4. QED
    BY <1>2, <1>3

(* ... since all that comes to it is a question whether a robot stands up. *)
LEMMA QuietRequest ==
  ASSUME IInv, CallInv, Open, NEW s \in Service, AsksWell(s), Request(s), ~Empties(s),
         Quiet(s)
  PROVE  robot_standup(s)
  <1>1. /\ ChanTypeOK /\ TabTypeOK /\ MgrTypeOK /\ Waits /\ OneAsked
        /\ ~(start(s) \/ cleanup(s))
    BY EmptiesKind DEF IInv, MgrInv, CallInv
  <1>2. PICK op : Takes(s, op)
    BY DEF Request, start, cleanup, get_can_sit_chairid, get_table_info, user_sitdown,
       user_sitdown_ob, request_user_standup, robot_standup, user_offline,
       update_user_conn, game_msg, init_game, request_user_ready
  <1>3. Arg(s) \in Asked /\ Arg(s) \in Elems(toTab[s]) /\ Arg(s).op = op
    BY <1>1, <1>2, TakesAsked
  <1>4. AskedFor(s, Arg(s))
    BY <1>3 DEF AsksWell
  <1>5. ASSUME op \notin {"start", "robot_standup"}
        PROVE  op = "cleanup"
    <2>1. PICK t \in Live : gt[t] = s
      BY <1>3, <1>4, <1>5 DEF AskedFor, Targets
    <2>2. tb[s].tid = 0
      BY <2>1 DEF Quiet, Targets
    <2>3. req.pc = "clean"
      BY <2>1, <2>2 DEF Open
    <2>4. QED
      BY <1>3, <1>4, <2>3 DEF AskedFor
  <1>6. op = "robot_standup" \/ op = "start" \/ op = "cleanup"
    BY <1>5
  <1>7. QED
    BY <1>1, <1>2, <1>6 DEF Request, start, cleanup, get_can_sit_chairid, get_table_info,
       user_sitdown, user_sitdown_ob, request_user_standup, robot_standup, user_offline,
       update_user_conn, game_msg, init_game, request_user_ready, Takes

LEMMA QuietActs ==
  ASSUME IInv, CallInv, Open, UNCHANGED mgrVars, NEW s \in Service, NEW x \in Coroutine,
         AsksWell(s), Acts(s, x), ~(x = "R" /\ Empties(s)), Quiet(s), Resting(s)
  PROVE  Resting(s)'
  <1>1. /\ ChanTypeOK /\ TabTypeOK /\ "R" \in Coroutine /\ "T" \in Coroutine
        /\ UNCHANGED <<req, gt>>
    BY CoroutineNames DEF IInv, MgrInv, mgrVars
  <1>2. /\ Occupied(tb[s].seat) = {} /\ ~tb[s].rtimer
        /\ \A y \in Coroutine : co[s][y] = <<>>
    BY DEF Resting, Empty
  <1>3. ASSUME tb' = tb, NEW y \in Coroutine, Continues(s, y, <<>>)
        PROVE  Resting(s)'
    <2>1. \A z \in Coroutine : co'[s][z] = <<>>
      BY <1>1, <1>2, <1>3 DEF Continues, TabTypeOK
    <2>2. PICK e : e = Return(TRUE, IF res'[s] THEN 1 ELSE 0)
      OBVIOUS
    <2>3. e \in Returned
      BY <2>2, MessageKinds
    <2>4. toMgr'[s] = toMgr[s] \/ toMgr'[s] = Append(toMgr[s], e)
      BY <1>1, <1>3, <2>2 DEF Continues, ChanTypeOK
    <2>5. Empty(s)' /\ ~tb'[s].rtimer
      BY <1>2, <1>3 DEF Empty
    <2>6. QED
      BY <1>1, <2>1, <2>3, <2>4, <2>5, RestsOn
  <1>4. CASE RunStep(s, x)
    <2>1. Finish(s, x)
      BY <1>2, <1>4 DEF RunStep, update_user_status, update_table_status, user_standup, vacate,
         unwatch, start_game, start_game_seat, on_game_start, game_end, write_user_score,
         end_game, write_game_record_detail, write_game_record, clear_records, end_game_seat,
         on_game_reset, ready_timeout_seat, remove_timer, user_ready, At
    <2>2. QED
      BY <1>3, <2>1 DEF Finish
  <1>5. ASSUME Timer(s)
        PROVE  FALSE
    BY <1>2, <1>5 DEF Timer, ReadyTimeout, GameTimeout, RobotReady, Players
  <1>6. CASE x = "R" /\ Request(s)
    <2>1. robot_standup(s)
      BY <1>6, QuietRequest
    <2>2. Begin(s, <<>>) /\ tb' = tb
      BY <1>2, <2>1 DEF robot_standup
    <2>3. QED
      BY <1>1, <1>3, <2>2 DEF Begin
  <1>7. QED
    BY <1>4, <1>5, <1>6 DEF Acts

(* A table that is started rests still, and so does one that is cleaned up. *)
LEMMA EmptiesRests ==
  ASSUME IInv, CallInv, UNCHANGED mgrVars, NEW s \in Service, Acts(s, "R"),
         Empties(s), AsksWell(s), Games(s), Empty(s) => Need(s) <= Guard(s),
         Quiet(s) => Resting(s)
  PROVE  Resting(s)' /\ (Need(s)' <= Guard(s)')
  <1>1. /\ ChanTypeOK /\ TabTypeOK /\ ResourcePartition /\ Waits /\ OneAsked
        /\ "R" \in Coroutine /\ "T" \in Coroutine /\ UNCHANGED <<req, gt>>
    BY CoroutineNames DEF IInv, MgrInv, mgrVars, CallInv
  <1>2. /\ Arg(s) \in Elems(toTab[s]) /\ Arg(s) \in Asked /\ Arg(s).op \in {"start", "cleanup"}
    BY <1>1, EmptiesTakes
  <1>3. AskedFor(s, Arg(s)) /\ co' = co /\ Takes(s, Arg(s).op)
    BY <1>2 DEF AsksWell, Empties
  <1>4. ~Active(s, "R")
    BY <1>1, <1>2, OneFacts
  <1>5. \A x \in Coroutine : co'[s][x] = <<>>
    BY <1>3, EmptiesNeeds
  <1>6. Empty(s)'
    BY DEF Empties, Empty, Occupied, NoSeats
  <1>7. PICK e \in Returned : toMgr'[s] = Append(toMgr[s], e)
    BY <1>1 DEF Empties, ChanTypeOK
  <1>8. Request(s)
    BY <1>1, <1>2, <1>4, RequestTurn DEF CallInv
  <1>9. Need(s)' <= Guard(s)'
    <2>1. co'[s]["T"] = <<>>
      BY <1>1, <1>5
    <2>2. Need(s)' = 0
      BY <2>1, NoSteps DEF Need, Bit, Rank
    <2>3. Guard(s)' \in Nat
      BY DEF Guard, Bit
    <2>4. QED
      BY <2>2, <2>3
  <1>10. CASE Arg(s).op = "start"
    <2>1. Starting(s)
      BY <1>3, <1>10 DEF AskedFor
    <2>2. ~Targets(s)
      BY <1>1, <2>1 DEF ResourcePartition, Targets
    <2>3. Resting(s)
      BY <2>2 DEF Quiet
    <2>4. start(s)
      BY <1>3, <1>8, <1>10 DEF Request, cleanup, get_can_sit_chairid, get_table_info,
         user_sitdown, user_sitdown_ob, request_user_standup, robot_standup, user_offline,
         update_user_conn, game_msg, init_game, request_user_ready, Takes
    <2>5. tb'[s].rtimer = tb[s].rtimer
      BY <1>1, <2>4 DEF start, TabTypeOK, FreshTable
    <2>6. ~tb'[s].rtimer
      BY <2>3, <2>5 DEF Resting
    <2>7. QED
      BY <1>1, <1>5, <1>6, <1>7, <1>9, <2>3, <2>6, RestsOn
  <1>11. CASE Arg(s).op = "cleanup"
    <2>1. cleanup(s)
      BY <1>3, <1>8, <1>11 DEF Request, start, get_can_sit_chairid, get_table_info,
         user_sitdown, user_sitdown_ob, request_user_standup, robot_standup, user_offline,
         update_user_conn, game_msg, init_game, request_user_ready, Takes
    <2>2. ~tb'[s].rtimer
      BY <1>1, <2>1 DEF cleanup, TabTypeOK, FreshTable
    <2>3. req.pc = "clean" /\ gt[req.t] = s
      BY <1>3, <1>11 DEF AskedFor
    <2>4. toMgr[s] \in Seq(MgrMsg) /\ e \in MgrMsg /\ \A x : e \notin CallsOf(x)
      BY <1>1 DEF ChanTypeOK, Returned, CallsOf
    <2>5. Elems(toMgr'[s]) = Elems(toMgr[s]) \cup {e}
      BY <1>7, <2>4, ElemsAppend
    <2>6. \A m \in Elems(toMgr[s]) : m \notin CallsOf("R")
      BY <1>1, <1>4, WaitFacts DEF Active
    <2>7. (\E m \in Elems(toMgr[s]) : m \in CallsOf("T")) => TimerFirst(toMgr'[s])
      BY <1>7, <2>4, FirstAppend
    <2>8. ASSUME NEW m \in Elems(toMgr'[s])
          PROVE  /\ m \notin CallsOf("R")
                 /\ m \in CallsOf("T") => TimerFirst(toMgr'[s]) /\ req'.pc = "clean" /\ gt'[req'.t] = s
      BY <1>1, <2>3, <2>4, <2>5, <2>6, <2>7
    <2>9. QED
      BY <1>5, <1>6, <1>9, <2>2, <2>8 DEF Resting
  <1>12. QED
    BY <1>2, <1>10, <1>11
-----------------------------------------------------------------------------
(* A call that speaks of the table itself.                                 *)
SpeaksOf(s, m) == m.k = "table" => m.tid = tb[s].tid

LEMMA CallSays ==
  ASSUME ChanTypeOK, TabTypeOK, NEW s \in Service, NEW x \in Coroutine, NEW ev \in CallsOf(x),
         NEW steps, CallMgr(s, x, ev, steps), SpeaksOf(s, ev)
  PROVE  \A m \in Elems(toMgr'[s]) : m \in Elems(toMgr[s]) \/ SpeaksOf(s, m)
  <1>1. toMgr'[s] = Append(toMgr[s], ev)
    BY CallCo
  <1>2. ev \in MgrMsg /\ toMgr[s] \in Seq(MgrMsg)
    BY DEF CallsOf, ChanTypeOK
  <1>3. QED
    BY <1>1, <1>2, ElemsAppend

LEMMA RunStepSays ==
  ASSUME ChanTypeOK, TabTypeOK, Waits, NEW s \in Service, NEW x \in Coroutine, Shape(s, x),
         RunStep(s, x), x \in wt'[s]
  PROVE  /\ \A m \in Elems(toMgr'[s]) : m \in Elems(toMgr[s]) \/ SpeaksOf(s, m)
         /\ co[s][x] # <<>>
  <1>1. ~Taken(s, x) /\ ~Crash(s, x)
    BY NotSuspended DEF Crash, TabTypeOK
  <1>2. \A steps : ~Then(s, x, steps)
    BY <1>1 DEF Then
  <1>3. \/ update_user_status(s, x) \/ update_table_status(s, x) \/ write_user_score(s, x)
        \/ write_game_record_detail(s, x) \/ write_game_record(s, x)
    <2>1. ~(user_standup(s, x) \/ end_game_seat(s, x) \/ Finish(s, x))
      <3>1. ~user_standup(s, x)
        BY <1>1 DEF user_standup
      <3>2. ~end_game_seat(s, x)
        BY <1>1, <1>2 DEF end_game_seat
      <3>3. QED
        BY <1>1, <3>1, <3>2 DEF Finish
    <2>2. ~(vacate(s, x) \/ unwatch(s, x) \/ start_game(s, x) \/ start_game_seat(s, x)
            \/ on_game_start(s, x) \/ game_end(s, x) \/ end_game(s, x))
      BY <1>1, <1>2 DEF vacate, unwatch, start_game, start_game_seat, on_game_start, game_end,
         end_game
    <2>3. ~(clear_records(s, x) \/ on_game_reset(s, x) \/ ready_timeout_seat(s, x)
            \/ remove_timer(s, x) \/ user_ready(s, x))
      BY <1>2 DEF clear_records, on_game_reset, ready_timeout_seat, remove_timer, user_ready
    <2>4. QED
      BY <2>1, <2>2, <2>3 DEF RunStep
  <1>4. co[s][x] # <<>>
    BY <1>3 DEF update_user_status, update_table_status, write_user_score,
       write_game_record_detail, write_game_record, At
  <1>5. CASE update_user_status(s, x)
    <2>1. Informs(s, x)
      BY <1>5, InformsKind
    <2>2. PICK e \in CallsOf(x) : toMgr' = [toMgr EXCEPT ![s] = Append(@, e)] /\ e.k = "status"
      BY <2>1 DEF Informs, Says
    <2>3. e \in MgrMsg /\ toMgr[s] \in Seq(MgrMsg) /\ toMgr'[s] = Append(toMgr[s], e)
      BY <2>2 DEF CallsOf, ChanTypeOK
    <2>4. Elems(toMgr'[s]) = Elems(toMgr[s]) \cup {e}
      BY <2>3, ElemsAppend
    <2>5. QED
      BY <1>4, <2>2, <2>4 DEF SpeaksOf
  <1>6. CASE update_table_status(s, x)
    <2>1. PICK ev : ev = TableEvent(x, tb[s].tid, tb[s].started, Cardinality(Occupied(tb[s].seat)))
      OBVIOUS
    <2>2. ev \in CallsOf(x)
      BY <2>1, CountType, MessageKinds DEF TabTypeOK, TableState
    <2>3. ev.tid = tb[s].tid
      BY <2>1 DEF TableEvent
    <2>4. CallMgr(s, x, ev, <<>>)
      BY <1>6, <2>1 DEF update_table_status
    <2>5. QED
      BY <1>4, <2>2, <2>3, <2>4, CallSays DEF SpeaksOf
  <1>7. CASE write_user_score(s, x)
    <2>1. PICK c \in ToVisit(s, Top(s, x)), rich \in Stake :
             CallMgr(s, x, ScoreEvent(x, tb[s].seat[c], rich), <<Again(Top(s, x), c)>>)
      BY <1>2, <1>7 DEF write_user_score
    <2>2. tb[s].seat[c] \in User /\ rich \in BOOLEAN
      BY VisitOccupied, RoomAssumption
    <2>3. PICK ev : ev = ScoreEvent(x, tb[s].seat[c], rich)
      OBVIOUS
    <2>4. ev \in CallsOf(x) /\ ev.k # "table"
      BY <2>2, <2>3, MessageKinds DEF ScoreEvent
    <2>5. QED
      BY <1>4, <2>1, <2>3, <2>4, CallSays DEF SpeaksOf
  <1>8. CASE write_game_record_detail(s, x) \/ write_game_record(s, x)
    <2>1. PICK steps : CallMgr(s, x, RecordEvent(x), steps)
      BY <1>1, <1>2, <1>8 DEF write_game_record_detail, write_game_record
    <2>2. PICK ev : ev = RecordEvent(x)
      OBVIOUS
    <2>3. ev \in CallsOf(x) /\ ev.k # "table"
      BY <2>2, MessageKinds DEF RecordEvent
    <2>4. QED
      BY <1>4, <2>1, <2>2, <2>3, CallSays DEF SpeaksOf
  <1>9. QED
    BY <1>3, <1>5, <1>6, <1>7, <1>8

(* Whatever the table newly reports of itself, it reports under its id.    *)
LEMMA SaysTable ==
  ASSUME ChanTypeOK, TabTypeOK, CallInv, NEW s \in Service, NEW x \in Coroutine,
         Shape(s, x), Resumed(s, x), Outcome(s, x), Acts(s, x),
         NEW m \in Elems(toMgr'[s]), m \notin Elems(toMgr[s]), m.k = "table"
  PROVE  m.tid = tb[s].tid /\ co[s][x] # <<>>
  <1>1. toMgr[s] \in Seq(MgrMsg) /\ Waits /\ OneAsked
    BY DEF ChanTypeOK, CallInv
  <1>2. ~RunsOn(s, x)
    BY DEF RunsOn
  <1>3. ~Ends(s, x)
    <2>1. ASSUME NEW e \in Returned, toMgr' = [toMgr EXCEPT ![s] = Append(@, e)]
          PROVE  FALSE
      <3>1. e \in MgrMsg /\ e.k = "ret" /\ toMgr'[s] = Append(toMgr[s], e)
        BY <2>1 DEF Returned, ChanTypeOK
      <3>2. m = e
        BY <1>1, <3>1, ElemsAppend
      <3>3. QED
        BY <3>1, <3>2
    <2>2. QED
      BY <2>1 DEF Ends
  <1>4. x \in wt'[s] /\ toMgr' # toMgr
    BY <1>2, <1>3 DEF Outcome, WaitsForMgr, TabTypeOK
  <1>5. CASE RunStep(s, x)
    BY <1>1, <1>4, <1>5, RunStepSays DEF SpeaksOf
  <1>6. ASSUME x = "R", Request(s)
        PROVE  FALSE
    <2>1. cur = Idle /\ wt = [wt EXCEPT ![s] = @ \ {"R"}]
      <3>1. PICK op : Takes(s, op)
        BY <1>6 DEF Request, start, cleanup, get_can_sit_chairid, get_table_info, user_sitdown,
           user_sitdown_ob, request_user_standup, robot_standup, user_offline,
           update_user_conn, game_msg, init_game, request_user_ready
      <3>2. QED
        BY <1>1, <3>1, TakesResumed
    <2>2. "R" \notin wt[s]
      BY <2>1 DEF TabTypeOK
    <2>3. wt' = wt
      BY <1>6 DEF Request, start, cleanup, get_can_sit_chairid, get_table_info, user_sitdown,
         user_sitdown_ob, request_user_standup, robot_standup, user_offline,
         update_user_conn, game_msg, init_game, request_user_ready, Reply, Begin
    <2>4. QED
      BY <1>4, <1>6, <2>2, <2>3
  <1>7. ASSUME x = "T", Timer(s)
        PROVE  FALSE
    <2>1. wt' = wt /\ "T" \notin wt[s]
      BY <1>7 DEF Timer, ReadyTimeout, GameTimeout, RobotReady, TimerFires
    <2>2. QED
      BY <1>4, <1>7, <2>1
  <1>8. QED
    BY <1>5, <1>6, <1>7 DEF Acts
-----------------------------------------------------------------------------
(* A step of a table.  It reports under an id that gamemgr lists.          *)
LEMMA ListedKept ==
  ASSUME IInv, CallInv, UNCHANGED mgrVars, NEW s \in Service, NEW x \in Coroutine,
         Shape(s, x), Resumed(s, x), Outcome(s, x), Acts(s, x), Games(s), Listed(s),
         Quiet(s) => Resting(s)
  PROVE  Listed(s)'
  <1>1. ChanTypeOK /\ TabTypeOK /\ ResourcePartition /\ gt' = gt
    BY DEF IInv, MgrInv, mgrVars
  <1>2. ASSUME NEW m \in Elems(toMgr'[s]), m \notin Elems(toMgr[s]), m.k = "table"
        PROVE  m.tid # 0 /\ gt[m.tid] = s
    <2>1. m.tid = tb[s].tid /\ co[s][x] # <<>>
      BY <1>1, <1>2, SaysTable
    <2>2. Targets(s) /\ tb[s].tid # 0
      BY <2>1 DEF Resting, Quiet
    <2>3. ~Starting(s)
      BY <1>1, <2>2 DEF ResourcePartition, Targets
    <2>4. QED
      BY <2>1, <2>2, <2>3 DEF Games, Names
  <1>3. QED
    BY <1>1, <1>2 DEF Listed

LEMMA OwnRested ==
  ASSUME Watcher = {}, IInv, TabTypeOK', CallInv, Open, UNCHANGED mgrVars,
         NEW s \in Service, NEW x \in Coroutine, Resumed(s, x), Outcome(s, x), TableKind(s, x),
         Acts(s, x), x = "T" => Goes(s, x), TableShape(s), Games(s), Rested(s)
  PROVE  Rested(s)'
  <1>1. /\ ChanTypeOK /\ TabTypeOK /\ Shape(s, x) /\ AsksWell(s) /\ UNCHANGED gt
        /\ Unwatched(s) /\ Listed(s) /\ (Empty(s) => Need(s) <= Guard(s))
        /\ (Quiet(s) => Resting(s)) /\ Coroutine = {"R", "T"} /\ "R" # "T"
    BY CoroutineNames DEF IInv, MgrInv, mgrVars, TableShape, Rested, Coroutine
  <1>2. Unwatched(s)'
    BY <1>1, UnwatchedStays
  <1>3. Listed(s)'
    BY <1>1, ListedKept
  <1>4. CASE x = "R" /\ Empties(s)
    BY <1>1, <1>2, <1>3, <1>4, EmptiesRests DEF Rested
  <1>5. ASSUME ~(x = "R" /\ Empties(s))
        PROVE  Rested(s)'
    <2>1. tb'[s].tid = tb[s].tid
      BY <1>1, <1>5, SameTid
    <2>2. Quiet(s)' => Quiet(s)
      BY <1>1, <2>1 DEF Quiet, Targets, Live
    <2>3. Quiet(s)' => Resting(s)'
      BY <1>1, <1>5, <2>2, QuietActs
    <2>4. Empty(s)' => Need(s)' <= Guard(s)'
      <3>1. CASE x = "R"
        BY <1>1, <1>5, <3>1, RequestNeeds
      <3>2. CASE x = "T"
        BY <1>1, <3>2, TimerNeeds
      <3>3. QED
        BY <1>1, <3>1, <3>2
    <2>5. QED
      BY <1>2, <1>3, <2>3, <2>4 DEF Rested
  <1>6. QED
    BY <1>4, <1>5

(* Another table is left as it was.                                        *)
LEMMA OtherRested ==
  ASSUME Watcher = {}, IInv, TabTypeOK', CallInv, UNCHANGED mgrVars,
         NEW s \in Service, NEW x \in Coroutine, Resumed(s, x), Outcome(s, x), TableKind(s, x),
         Acts(s, x), NEW r \in Service, r # s, Games(r), Rested(r)
  PROVE  Rested(r)'
  <1>1. /\ ChanTypeOK /\ TabTypeOK /\ Waits /\ Untouched(s, x)
        /\ "T" \in Coroutine /\ "R" \in Coroutine
    BY CoroutineNames, OtherTables DEF IInv, MgrInv, CallInv
  <1>2. req' = req /\ gt' = gt /\ tb'[r] = tb[r]
    BY <1>1 DEF mgrVars, Untouched
  <1>3. /\ toTab'[r] = toTab[r] /\ toMgr'[r] = toMgr[r] /\ wt'[r] = wt[r]
        /\ \A y : ~Running(r, y) /\ ~Running(r, y)'
    BY <1>1, OthersWait
  <1>4. ASSUME NEW y \in Coroutine
        PROVE  /\ co'[r][y] = <<>> <=> co[r][y] = <<>>
               /\ Rank(co'[r][y]) = Rank(co[r][y])
               /\ WillCall(co'[r][y]) <=> WillCall(co[r][y])
    <2>1. Form(co[r][y])
      BY DEF Games, Course
    <2>2. QED
      BY <1>1, <2>1, OthersKept
  <1>5. /\ Active(r, "R")' <=> Active(r, "R")
        /\ Ahead(r)' <=> Ahead(r)
        /\ Closing(r)' <=> Closing(r)
        /\ Empty(r)' <=> Empty(r)
    BY <1>2, <1>3 DEF Active, Ahead, Closing, Empty
  <1>6. Need(r)' = Need(r)
    BY <1>1, <1>3, <1>4 DEF Need, Bit
  <1>7. Guard(r)' = Guard(r)
    BY <1>1, <1>3, <1>4, <1>5 DEF Guard, Bit
  <1>8. /\ Quiet(r)' <=> Quiet(r)
        /\ Resting(r) => Resting(r)'
        /\ Listed(r) => Listed(r)'
    BY <1>2, <1>3, <1>4, <1>5 DEF Quiet, Targets, Live, Resting, Listed
  <1>9. Unwatched(r)'
    BY <1>1, UnwatchedStays DEF Rested
  <1>10. QED
    BY <1>5, <1>6, <1>7, <1>8, <1>9 DEF Rested

LEMMA TabRested ==
  ASSUME Watcher = {}, IInv, TabTypeOK', CallInv, ShapeInv, UNCHANGED mgrVars,
         NEW s \in Service, TabNext(s), \A r \in Service : Games(r) /\ Rested(r)
  PROVE  \A r \in Service : Rested(r)'
  <1>1. /\ ChanTypeOK /\ TabTypeOK /\ Waits /\ OneAsked /\ TableShape(s) /\ Open
        /\ "T" \in Coroutine /\ "R" \in Coroutine /\ Coroutine = {"R", "T"} /\ "R" # "T"
    BY CoroutineNames DEF IInv, MgrInv, CallInv, ShapeInv, Coroutine
  <1>2. PICK x \in Coroutine :
               Resumed(s, x) /\ Outcome(s, x) /\ TableKind(s, x) /\ Acts(s, x)
    BY <1>1, TableKinds
  <1>3. ASSUME x = "T"
        PROVE  Goes(s, x)
    <2>1. CASE RunStep(s, x)
      <3>1. Form(co[s][x]) /\ (Beginning(co[s][x]) => ~Empty(s)) /\ Shape(s, x)
        BY <1>1 DEF Games, Course, TableShape
      <3>2. QED
        BY <1>1, <2>1, <3>1, RunStepGoes
    <2>2. CASE Timer(s)
      BY <1>1, <1>3, <2>2, TimerGoes
    <2>3. QED
      BY <1>1, <1>2, <1>3, <2>1, <2>2 DEF Acts
  <1>4. Rested(s)'
    BY <1>1, <1>2, <1>3, OwnRested
  <1>5. ASSUME NEW r \in Service, r # s
        PROVE  Rested(r)'
    BY <1>2, <1>5, OtherRested
  <1>6. QED
    BY <1>4, <1>5
-----------------------------------------------------------------------------
(* A step of gamemgr.  What the timer's coroutine needs is still ahead.    *)
LEMMA NeedStays ==
  ASSUME UNCHANGED <<tabVars, cur>>, TabTypeOK, NEW s \in Service, Games(s),
         Closing(s)' => Closing(s), Ahead(s) => Ahead(s)',
         Empty(s) => Need(s) <= Guard(s), Empty(s)'
  PROVE  Need(s)' <= Guard(s)'
  <1>1. tb' = tb /\ co' = co /\ wt' = wt /\ cur' = cur
    BY DEF tabVars
  <1>2. Empty(s) /\ (Active(s, "R")' <=> Active(s, "R"))
    BY <1>1 DEF Empty, Active, Running
  <1>3. Need(s) \in 0 .. 3
    BY NeedFacts, CoroutineNames DEF Games, Course
  <1>4. Need(s)' = Need(s)
    BY <1>1 DEF Need, Bit
  <1>5. Guard(s)' >= Guard(s) /\ Guard(s) \in Nat /\ Guard(s)' \in Nat
    BY <1>1, <1>2 DEF Guard, Bit
  <1>6. QED
    BY <1>2, <1>3, <1>4, <1>5

(* Of the table it removes there is nothing left to say.                   *)
LEMMA RemovedRests ==
  ASSUME IInv, ChanTypeOK', CallInv, Requests, NEW s \in Service, Games(s), Rested(s),
         req.pc = "clean", gt[req.t] = s
  PROVE  Quiet(s) /\ Resting(s)
  <1>1. \A m \in Elems(toTab[s]) : m \notin Asked
    BY NoneAhead DEF IInv, MgrInv
  <1>2. tb[s].tid = 0
    BY <1>1 DEF Games, Removing
  <1>3. QED
    BY <1>2 DEF Rested, Quiet

(* Nothing of a resting table is ahead of a request that goes on.          *)
LEMMA RestingSilent ==
  ASSUME IInv, ChanTypeOK', CallInv, Requests, NEW s \in Service, Resting(s)
  PROVE  \A m \in Elems(toMgr[s]) : m \in Returned
  <1>1. ChanTypeOK
    BY DEF IInv, MgrInv
  <1>2. ~TimerFirst(toMgr[s])
    BY <1>1, NoneAhead
  <1>3. \A m \in Elems(toMgr[s]) : m \notin CallsOf("R") /\ m \notin CallsOf("T")
    BY <1>2 DEF Resting
  <1>4. QED
    BY <1>1, <1>3, QueueKinds

LEMMA RequestsRested ==
  ASSUME IInv, ChanTypeOK', CallInv, Requests, UNCHANGED tabVars,
         \A s \in Service : Games(s) /\ Rested(s)
  PROVE  \A s \in Service : Rested(s)'
  <1> SUFFICES ASSUME NEW s \in Service
               PROVE  Rested(s)'
    OBVIOUS
  <1>1. /\ ChanTypeOK /\ TabTypeOK /\ MgrTypeOK /\ ResourcePartition /\ cur' = cur
        /\ tb' = tb /\ co' = co /\ wt' = wt /\ Games(s) /\ Rested(s)
    BY DEF IInv, MgrInv, Requests, Unengaged, tabVars
  <1>2. \A m \in Elems(toMgr'[s]) : m \in Elems(toMgr[s])
    BY <1>1, ElemsTail DEF Requests, Hears, ChanTypeOK
  <1>3. gt \in [TableId -> Service \cup {None}] /\ s # None
    BY <1>1, RoomAssumption DEF MgrTypeOK
  <1>4. ASSUME NEW t \in TableId, gt[t] = s, ~(Quiet(s) /\ Resting(s))
        PROVE  gt'[t] = s
    <2>1. CASE gt' = gt
      BY <1>4, <2>1
    <2>2. CASE req.pc = "start" /\ gt' = [gt EXCEPT ![req.t] = req.svc]
      <3>1. req.t \in TableId \ Live /\ t \in Live
        BY <1>1, <1>3, <1>4, <2>2 DEF ResourcePartition, Live
      <3>2. QED
        BY <1>3, <1>4, <2>2, <3>1
    <2>3. CASE req.pc = "clean" /\ gt' = [gt EXCEPT ![req.t] = None]
      <3>1. req.t # t
        BY <1>1, <1>4, <2>3, RemovedRests
      <3>2. QED
        BY <1>3, <1>4, <2>3, <3>1
    <2>4. QED
      BY <2>1, <2>2, <2>3 DEF Requests, Tables
  <1>5. Unwatched(s)'
    BY <1>1 DEF Rested, Unwatched
  <1>6. Quiet(s)' => Quiet(s)
    <2>1. ASSUME Targets(s), ~Quiet(s)
          PROVE  Targets(s)'
      <3>1. PICK t \in Live : gt[t] = s
        BY <2>1 DEF Targets
      <3>2. t \in TableId /\ gt'[t] = s
        BY <1>4, <2>1, <3>1 DEF Live
      <3>3. QED
        BY <1>3, <3>2 DEF Targets, Live
    <2>2. QED
      BY <1>1, <2>1 DEF Quiet
  <1>7. Quiet(s)' => Resting(s)'
    <2>1. ASSUME Resting(s)
          PROVE  Resting(s)'
      <3>1. \A m \in Elems(toMgr'[s]) : m \in Returned
        BY <1>2, <2>1, RestingSilent
      <3>2. \A m \in Elems(toMgr'[s]) : m \notin CallsOf("R") /\ m \notin CallsOf("T")
        BY <3>1 DEF Returned, CallsOf
      <3>3. QED
        BY <1>1, <2>1, <3>2 DEF Resting, Empty
    <2>2. QED
      BY <1>1, <1>6, <2>1 DEF Rested
  <1>8. Listed(s)'
    <2>1. ASSUME NEW m \in Elems(toMgr'[s]), m.k = "table"
          PROVE  m.tid # 0 /\ gt'[m.tid] = s
      <3>1. m \in Elems(toMgr[s]) /\ m.tid # 0 /\ gt[m.tid] = s
        BY <1>1, <1>2, <2>1 DEF Rested, Listed
      <3>2. m \in MgrMsg /\ m \notin Returned
        BY <1>1, <2>1, <3>1, QueueKinds DEF Returned
      <3>3. m.tid \in TableId
        BY <2>1, <3>1, <3>2, RoomAssumption DEF MgrMsg, EventMsg, StatusMsg, TableMsg, ScoreMsg,
           RecordMsg, ReturnMsg, TableId
      <3>4. ~Resting(s)
        BY <3>1, <3>2, RestingSilent
      <3>5. QED
        BY <1>4, <3>1, <3>3, <3>4
    <2>2. QED
      BY <2>1 DEF Listed
  <1>9. Empty(s)' => Need(s)' <= Guard(s)'
    <2>1. Closing(s)' => Closing(s)
      BY <1>1, RequestsRemove DEF Games
    <2>2. Ahead(s) => Ahead(s)'
      BY <1>1, RequestsAhead
    <2>3. QED
      BY <1>1, <2>1, <2>2, NeedStays DEF Rested
  <1>10. QED
    BY <1>5, <1>7, <1>8, <1>9 DEF Rested

LEMMA EventRested ==
  ASSUME IInv, CallInv, NEW s \in Service, tableevent(s), UNCHANGED tabVars,
         \A r \in Service : Games(r) /\ Rested(r)
  PROVE  \A r \in Service : Rested(r)'
  <1> SUFFICES ASSUME NEW r \in Service
               PROVE  Rested(r)'
    OBVIOUS
  <1>1. /\ ChanTypeOK /\ TabTypeOK /\ Waits /\ tb' = tb /\ co' = co /\ Games(r) /\ Rested(r)
        /\ "R" \in Coroutine /\ "T" \in Coroutine
    BY CoroutineNames DEF IInv, MgrInv, tabVars, CallInv
  <1>2. /\ UNCHANGED <<cur, gt, req>>
        /\ Elems(toMgr'[r]) \subseteq Elems(toMgr[r])
        /\ (Closing(r)' => Closing(r)) /\ (Ahead(r) => Ahead(r)')
    BY EventLeaves
  <1>3. Unwatched(r)' /\ Listed(r)' /\ (Quiet(r)' <=> Quiet(r))
    BY <1>1, <1>2 DEF Rested, Unwatched, Listed, Quiet, Targets, Live
  <1>4. ASSUME Resting(r)
        PROVE  Resting(r)'
    <2>1. CASE r # s
      <3>1. toMgr'[r] = toMgr[r]
        BY <2>1, EventKeeps
      <3>2. QED
        BY <1>1, <1>2, <1>4, <3>1 DEF Resting, Empty
    <2>2. CASE r = s
      <3>1. /\ toMgr[s] # <<>> /\ Head(toMgr[s]).k # "ret" /\ toMgr'[s] = Tail(toMgr[s])
        BY EventKeeps
      <3>2. Head(toMgr[s]) \in Elems(toMgr[s])
        BY <1>1, <3>1, ElemsTail DEF ChanTypeOK
      <3>3. Head(toMgr[s]) \notin Returned /\ Head(toMgr[s]) \notin CallsOf("R")
        BY <1>4, <2>2, <3>1, <3>2 DEF Resting, Returned
      <3>4. Head(toMgr[s]) \in CallsOf("T")
        BY <1>1, <3>2, <3>3, QueueKinds
      <3>5. \A m \in Elems(toMgr'[s]) : m \notin CallsOf("T")
        BY <1>1, <3>1, <3>4, WaitFacts
      <3>6. \A m \in Elems(toMgr'[s]) : m \notin CallsOf("R")
        BY <1>2, <1>4, <2>2 DEF Resting
      <3>7. QED
        BY <1>1, <1>4, <2>2, <3>5, <3>6 DEF Resting, Empty
    <2>3. QED
      BY <2>1, <2>2
  <1>5. Empty(r)' => Need(r)' <= Guard(r)'
    BY <1>1, <1>2, NeedStays DEF Rested
  <1>6. QED
    BY <1>1, <1>3, <1>4, <1>5 DEF Rested
-----------------------------------------------------------------------------
(* Every service is at rest at first.                                      *)
LEMMA InitRested ==
  ASSUME Init
  PROVE  \A s \in Service : Rested(s)
  <1>1. toMgr = [s \in Service |-> <<>>]
    BY DEF Init
  <1>2. ASSUME NEW s \in Service
        PROVE  Rested(s)
    <2>1. /\ \A x \in Coroutine : co[s][x] = <<>>
          /\ wt[s] = {} /\ tb[s] = FreshTable
      BY <1>2 DEF Init, TabInit
    <2>2. /\ tb[s].tid = 0 /\ tb[s].ob = {} /\ ~tb[s].rtimer /\ tb[s].seat = NoSeats
      BY <2>1 DEF FreshTable
    <2>3. Elems(toMgr[s]) = {}
      BY <1>1 DEF Elems
    <2>4. Unwatched(s)
      BY <2>1, <2>2 DEF Unwatched, Leading
    <2>5. Empty(s)
      BY <2>2 DEF Empty, Occupied, NoSeats
    <2>6. Listed(s) /\ Resting(s)
      BY <2>1, <2>2, <2>3, <2>5 DEF Listed, Resting
    <2>7. Need(s) = 0
      BY <2>1, CoroutineNames, NoSteps DEF Need, Bit
    <2>8. Guard(s) \in Nat
      BY DEF Guard, Bit
    <2>9. QED
      BY <2>4, <2>6, <2>7, <2>8 DEF Rested
  <1>3. QED
    BY <1>2

LEMMA StillRested ==
  ASSUME UNCHANGED vars, TabTypeOK, NEW s \in Service, Games(s), Rested(s)
  PROVE  Rested(s)'
  <1>1. /\ UNCHANGED <<tabVars, cur>> /\ UNCHANGED <<toTab, toMgr, gt, req>>
        /\ tb' = tb /\ wt' = wt /\ co' = co
    BY DEF vars, chans, mgrVars, tabVars
  <1>2. Unwatched(s)' /\ Listed(s)' /\ (Quiet(s)' => Resting(s)')
    BY <1>1 DEF Rested, Unwatched, Listed, Quiet, Targets, Live, Resting, Empty
  <1>3. (Closing(s)' => Closing(s)) /\ (Ahead(s) => Ahead(s)')
    BY <1>1 DEF Closing, Ahead
  <1>4. Empty(s)' => Need(s)' <= Guard(s)'
    BY <1>1, <1>3, NeedStays DEF Rested
  <1>5. QED
    BY <1>2, <1>4 DEF Rested

LEMMA NextRested ==
  ASSUME Watcher = {}, IInv, IInv', CallInv, ShapeInv,
         \A s \in Service : Games(s) /\ Rested(s), [Next]_vars
  PROVE  \A s \in Service : Rested(s)'
  <1>1. ChanTypeOK' /\ TabTypeOK' /\ TabTypeOK /\ MgrInv /\ Open
    BY DEF IInv, MgrInv, ShapeInv
  <1>2. CASE MgrNext /\ UNCHANGED tabVars
    <2>1. Requests \/ \E s \in Service : tableevent(s)
      BY <1>1, <1>2, MgrKinds
    <2>2. QED
      BY <1>1, <1>2, <2>1, RequestsRested, EventRested
  <1>3. CASE \E s \in Service : TabNext(s) /\ UNCHANGED mgrVars
    BY <1>1, <1>3, TabRested
  <1>4. CASE UNCHANGED vars
    BY <1>1, <1>4, StillRested
  <1>5. QED
    BY <1>2, <1>3, <1>4 DEF Next

RestInv == \A s \in Service : Rested(s)

(* A report goes out under an id by which gamemgr lists the table.         *)
LEMMA ReportsListed ==
  ASSUME IInv, RestInv
  PROVE  EventsLive
  <1>1. ASSUME NEW s \in Service, NEW i \in 1 .. Len(toMgr[s]), toMgr[s][i].k = "table"
        PROVE  toMgr[s][i].tid \in Live /\ gt[toMgr[s][i].tid] = s
    <2>1. PICK m : m = toMgr[s][i]
      OBVIOUS
    <2>2. /\ ChanTypeOK /\ s # None
      BY RoomAssumption DEF IInv, MgrInv
    <2>3. m \in Elems(toMgr[s])
      BY <2>1 DEF Elems
    <2>4. m.tid # 0 /\ gt[m.tid] = s
      BY <1>1, <2>1, <2>3 DEF RestInv, Rested, Listed
    <2>5. m \in MgrMsg
      BY <2>2, <2>3, QueueKinds
    <2>6. m.tid \in TableId
      BY <1>1, <2>1, <2>4, <2>5, RoomAssumption DEF MgrMsg, EventMsg, StatusMsg, TableMsg,
         ScoreMsg, RecordMsg, ReturnMsg, TableId
    <2>7. QED
      BY <2>1, <2>2, <2>4, <2>6 DEF Live
  <1>2. QED
    BY <1>1 DEF EventsLive

(* A service of the pool has no table, so it is at rest; and what a        *)
(* resting service may still say comes while gamemgr removes its table.    *)
LEMMA PoolRests ==
  ASSUME IInv, RestInv
  PROVE  PooledIdle
  <1>1. ASSUME NEW s \in pool
        PROVE  /\ Occupied(tb[s].seat) = {} /\ tb[s].ob = {}
               /\ \A i \in 1 .. Len(toMgr[s]) : toMgr[s][i].k = "ret"
               /\ \A x \in Coroutine : co[s][x] = <<>>
    <2>1. /\ ChanTypeOK /\ ResourcePartition /\ RequestHolds /\ s \in Service
      BY DEF IInv, MgrInv, MgrTypeOK
    <2>2. \A t \in Live : gt[t] # s
      BY <2>1 DEF ResourcePartition
    <2>3. Unwatched(s) /\ Resting(s)
      BY <2>1, <2>2 DEF RestInv, Rested, Quiet, Targets
    <2>4. ASSUME NEW i \in 1 .. Len(toMgr[s])
          PROVE  toMgr[s][i].k = "ret"
      <3>1. PICK m : m = toMgr[s][i]
        OBVIOUS
      <3>2. m \in Elems(toMgr[s])
        BY <3>1 DEF Elems
      <3>3. m \notin CallsOf("R") /\ m \notin CallsOf("T")
        BY <2>1, <2>2, <2>3, <3>2 DEF Resting, RequestHolds
      <3>4. m \in Returned
        BY <2>1, <3>2, <3>3, QueueKinds
      <3>5. QED
        BY <3>1, <3>4 DEF Returned
    <2>5. QED
      BY <2>3, <2>4 DEF Unwatched, Resting, Empty
  <1>2. QED
    BY <1>1 DEF PooledIdle

-----------------------------------------------------------------------------
(* In a room where nobody may watch (gametable.lua:343), every table comes *)
(* to rest before gamemgr lets go of it: it is removed when a table event  *)
(* says that it is empty and the table, asked once more, agrees            *)
(* (gamemgr.lua:320-342, 932-940), and by then the coroutine of its timer  *)
(* has no call left to make.                                               *)
THEOREM TablesComeToRest ==
  ASSUME Watcher = {}
  PROVE  Spec => [](IInv /\ CallInv /\ ShapeInv /\ GamesInv /\ RestInv)
  <1>1. Init => RestInv
    BY InitRested DEF RestInv
  <1>2. IInv /\ IInv' /\ CallInv /\ ShapeInv /\ GamesInv /\ RestInv /\ [Next]_vars => RestInv'
    BY NextRested DEF GamesInv, RestInv
  <1>3. QED
    BY <1>1, <1>2, GamesTakeTheirCourse, PTL DEF Spec

(* What a table reports of itself finds the table: game_tables[tableid],   *)
(* which update_table_status indexes without a check                       *)
(* (gamemgr.lua:932-940), is there, and is the table of that service.      *)
THEOREM ReportsFindTheTable ==
  ASSUME Watcher = {}
  PROVE  Spec => []EventsLive
  <1>1. IInv /\ RestInv => EventsLive
    BY ReportsListed
  <1>2. QED
    BY <1>1, TablesComeToRest, PTL

(* A service that went back to the pool has nobody at it, no call under    *)
(* way and nothing to report but the answer to its clean-up                *)
(* (gamemgr.lua:320-342): the next table it is started as finds it clean.  *)
THEOREM PooledTablesIdle ==
  ASSUME Watcher = {}
  PROVE  Spec => []PooledIdle
  <1>1. IInv /\ RestInv => PooledIdle
    BY PoolRests
  <1>2. QED
    BY <1>1, TablesComeToRest, PTL
=============================================================================
