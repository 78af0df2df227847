--------------------------- MODULE GameTable_proofs ---------------------------
(***************************************************************************)
(* A table keeps its types.  The lemmas follow the module GameTable: the   *)
(* constructors of steps and messages, the ways a coroutine goes on, then  *)
(* one lemma per step, timer and request, and TableType over all of them.  *)
(***************************************************************************)
EXTENDS GameTable, FiniteSetTheorems, SequenceTheorems, WellFoundedInduction, TLAPS

USE RoomAssumption


(* The constructors of steps build steps.                                    *)
LEMMA DoType ==
  /\ \A op \in TableStep : Do(op) \in Step
  /\ \A op \in UserStep, u \in User, c \in 0 .. MaxChair : DoFor(op, u, c) \in Step
  /\ \A op \in TableStep, c \in 0 .. MaxChair : DoFor(op, None, c) \in Step
  /\ \A u \in User, st \in Status, c \in 0 .. MaxChair : SetStatus(u, st, c) \in Step
  /\ \A op \in TableStep, seen \in SUBSET (0 .. MaxChair) : Loop(op, seen) \in Step
  BY DEF StepOf, Do, DoFor, SetStatus, Loop, Step, StepRec, TableStep, UserStep, Status

(* The fields of a step.                                                     *)
LEMMA StepShape ==
  ASSUME NEW q \in Step
  PROVE  /\ q.op \in UserStep \cup TableStep
         /\ q.op \in UserStep => q.u \in User
         /\ q.c \in 0 .. MaxChair /\ q.st \in Status /\ q.seen \in SUBSET (0 .. MaxChair)
  BY DEF Step, StepRec, TableStep, UserStep

(* A loop that has visited one more seat is a loop.                          *)
LEMMA AgainType ==
  ASSUME NEW q \in Step, q.op \in TableStep, NEW c \in 0 .. MaxChair
  PROVE  Again(q, c) \in Step
  BY StepShape, DoType DEF Again

(* Changing some fields of a table's state or of a copy keeps its type.    *)
LEMMA TableUpdate ==
  ASSUME NEW r \in TableState
  PROVE  /\ \A b \in BOOLEAN : [r EXCEPT !.alive = b] \in TableState
         /\ \A b \in BOOLEAN : [r EXCEPT !.started = b] \in TableState
         /\ \A b \in BOOLEAN : [r EXCEPT !.rtimer = b] \in TableState
         /\ \A g \in GStat : [r EXCEPT !.gstat = g] \in TableState
         /\ \A S \in SUBSET Chair : [r EXCEPT !.recs = S] \in TableState
         /\ \A S \in SUBSET User : [r EXCEPT !.ob = S] \in TableState
         /\ \A c \in 0 .. MaxChair, u \in User : [r EXCEPT !.seat[c] = u] \in TableState
         /\ \A seat \in [Chair -> UserOrNone], ob \in SUBSET User :
              [r EXCEPT !.seat = seat, !.ob = ob] \in TableState
         /\ \A b \in BOOLEAN, g \in GStat, S \in SUBSET Chair :
              [r EXCEPT !.rtimer = b, !.gstat = g, !.playing = S] \in TableState
         /\ \A b \in BOOLEAN, k \in 0 .. MaxChair, S \in SUBSET Chair :
              [r EXCEPT !.playing = S, !.banker = k, !.rtimer = b] \in TableState
         /\ \A g \in GStat, k \in 0 .. MaxChair :
              [r EXCEPT !.gstat = g, !.banker = k] \in TableState
  BY Zenon DEF TableState, UserOrNone

(* The same for the table's copies of user records.                          *)
LEMMA CopyUpdate ==
  ASSUME NEW r \in CopyRec
  PROVE  /\ \A b \in BOOLEAN : [r EXCEPT !.rich = b] \in CopyRec
         /\ \A b \in BOOLEAN : [r EXCEPT !.init = b] \in CopyRec
         /\ \A st \in Status, t \in 0 .. MaxTable, c \in 0 .. MaxChair, b \in BOOLEAN :
              [r EXCEPT !.st = st, !.tid = t, !.chair = c, !.init = b] \in CopyRec
  BY Zenon DEF CopyRec

(* A non-empty set of naturals has a least element.                        *)
LEMMA LeastExists ==
  ASSUME NEW S \in SUBSET Nat, S # {}
  PROVE  \E c \in S : \A d \in S : c <= d
  <1>1. PICK c \in S : \A d \in S : ~(<<d, c>> \in OpToRel(<, Nat))
    BY WFMin, NatLessThanWellFounded
  <1>2. \A d \in S : ~(d < c)
    BY <1>1 DEF OpToRel
  <1>3. QED
    BY <1>2

(* The head count of a table fits its number of chairs.                      *)
LEMMA CountType ==
  ASSUME TabTypeOK, NEW s \in Service
  PROVE  Cardinality(Occupied(tb[s].seat)) \in 0 .. MaxChair
  <1>1. IsFiniteSet(Chair) /\ Cardinality(Chair) = MaxChair
    BY FS_Interval DEF Chair
  <1>2. Occupied(tb[s].seat) \subseteq Chair
    BY DEF Occupied
  <1>3. QED
    BY <1>1, <1>2, FS_Subset, FS_CardinalityType

(* Taking an answer keeps the queues and the suspended set typed.            *)
LEMMA TakenType ==
  ASSUME ChanTypeOK, TabTypeOK, NEW s \in Service, NEW x \in Coroutine,
         Running(s, x) \/ Answered(s, x)
  PROVE  /\ (IF cur = Idle THEN [toTab EXCEPT ![s] = Tail(@)] ELSE toTab)
              \in [Service -> Seq(TabMsg)]
         /\ [wt EXCEPT ![s] = @ \ {x}] \in [Service -> SUBSET Coroutine]
  <1>1. cur = Idle => toTab[s] # <<>>
    BY DEF Running, Answered, Idle
  <1>2. cur = Idle => Tail(toTab[s]) \in Seq(TabMsg)
    BY <1>1 DEF ChanTypeOK
  <1>3. QED
    BY <1>2 DEF ChanTypeOK, TabTypeOK

(* Appending a message keeps a family of queues typed.                       *)
LEMMA SendType ==
  ASSUME ChanTypeOK, NEW s \in Service
  PROVE  /\ \A m \in MgrMsg : [toMgr EXCEPT ![s] = Append(@, m)] \in [Service -> Seq(MgrMsg)]
         /\ \A m \in TabMsg : [toTab EXCEPT ![s] = Append(@, m)] \in [Service -> Seq(TabMsg)]
  BY DEF ChanTypeOK

(* Going on with the steps left, or returning, keeps the types.              *)
LEMMA ContinuesType ==
  ASSUME ChanTypeOK, TabTypeOK, NEW s \in Service, NEW x \in Coroutine,
         NEW left \in Seq(Step), Continues(s, x, left)
  PROVE  /\ cur' \in [svc : Service \cup {None}, co : Coroutine]
         /\ toMgr' \in [Service -> Seq(MgrMsg)]
         /\ co' \in [Service -> [Coroutine -> Seq(Step)]]
  <1>1. Return(TRUE, IF res'[s] THEN 1 ELSE 0) \in MgrMsg
    BY DEF Return, MgrMsg, ReturnMsg
  <1>2. toMgr' \in [Service -> Seq(MgrMsg)]
    BY <1>1, SendType DEF Continues, ChanTypeOK
  <1>3. cur' \in [svc : Service \cup {None}, co : Coroutine]
    BY DEF Continues, Idle, Coroutine
  <1>4. co' \in [Service -> [Coroutine -> Seq(Step)]]
    BY DEF Continues, TabTypeOK
  <1>5. QED
    BY <1>2, <1>3, <1>4

(* Replacing the step that is done by others keeps the types.                *)
LEMMA ThenType ==
  ASSUME ChanTypeOK, TabTypeOK, NEW s \in Service, NEW x \in Coroutine,
         Running(s, x) \/ Answered(s, x), co[s][x] # <<>>,
         NEW steps \in Seq(Step), Then(s, x, steps)
  PROVE  /\ ChanTypeOK'
         /\ co' \in [Service -> [Coroutine -> Seq(Step)]]
         /\ wt' \in [Service -> SUBSET Coroutine]
         /\ res' \in [Service -> BOOLEAN]
  <1> DEFINE left == steps \o Tail(co[s][x])
  <1>1. co[s][x] \in Seq(Step)
    BY DEF TabTypeOK
  <1>2. left \in Seq(Step)
    BY <1>1
  <1>3. UNCHANGED res /\ Taken(s, x) /\ Continues(s, x, left)
    BY DEF Then
  <1> HIDE DEF left
  <1>4. QED
    BY <1>2, <1>3, TakenType, ContinuesType DEF Taken, ChanTypeOK, TabTypeOK

(* What is known of a coroutine that is at a step.                           *)
LEMMA AtFacts ==
  ASSUME TabTypeOK, NEW s \in Service, NEW x \in Coroutine, NEW op, At(s, x, op)
  PROVE  /\ Running(s, x) \/ Answered(s, x)
         /\ co[s][x] # <<>> /\ co[s][x] \in Seq(Step)
         /\ Tail(co[s][x]) \in Seq(Step)
         /\ Top(s, x) \in Step /\ Top(s, x).op = op
  <1>1. co[s][x] # <<>> /\ co[s][x] \in Seq(Step)
    BY DEF TabTypeOK, At
  <1>2. Head(co[s][x]) \in Step /\ Tail(co[s][x]) \in Seq(Step)
    BY <1>1
  <1>3. QED
    BY <1>1, <1>2 DEF At, Top

(* Suspending a coroutine in a call to gamemgr keeps the types.              *)
LEMMA CallMgrType ==
  ASSUME ChanTypeOK, TabTypeOK, NEW s \in Service, NEW x \in Coroutine,
         Running(s, x) \/ Answered(s, x), co[s][x] # <<>>,
         NEW ev \in MgrMsg, NEW steps \in Seq(Step), CallMgr(s, x, ev, steps)
  PROVE  /\ ChanTypeOK'
         /\ co' \in [Service -> [Coroutine -> Seq(Step)]]
         /\ wt' \in [Service -> SUBSET Coroutine]
         /\ res' \in [Service -> BOOLEAN]
  <1>1. steps \o Tail(co[s][x]) \in Seq(Step)
    BY DEF TabTypeOK
  <1>2. co' \in [Service -> [Coroutine -> Seq(Step)]]
    BY <1>1 DEF CallMgr, TabTypeOK
  <1>3. wt' \in [Service -> SUBSET Coroutine] /\ res' \in [Service -> BOOLEAN]
    BY DEF CallMgr, TabTypeOK
  <1>4. cur' \in [svc : Service \cup {None}, co : Coroutine]
    BY DEF CallMgr, Idle, Coroutine
  <1>5. toMgr' \in [Service -> Seq(MgrMsg)]
    BY SendType DEF CallMgr
  <1>6. toTab' \in [Service -> Seq(TabMsg)]
    BY TakenType DEF CallMgr
  <1>7. QED
    BY <1>2, <1>3, <1>4, <1>5, <1>6 DEF ChanTypeOK

(* A Lua error in a coroutine keeps the types.                               *)
LEMMA CrashType ==
  ASSUME ChanTypeOK, TabTypeOK, NEW s \in Service, NEW x \in Coroutine,
         cur = Idle => toTab[s] # <<>>, Crash(s, x)
  PROVE  ChanTypeOK' /\ TabTypeOK'
  <1>1. Return(FALSE, 0) \in MgrMsg
    BY DEF Return, MgrMsg, ReturnMsg
  <1>2. toMgr' \in [Service -> Seq(MgrMsg)]
    BY <1>1, SendType DEF Crash, ChanTypeOK
  <1>3. toTab' \in [Service -> Seq(TabMsg)]
    BY DEF Crash, ChanTypeOK
  <1>4. cur' \in [svc : Service \cup {None}, co : Coroutine]
    BY DEF Crash, Idle, Coroutine
  <1>5. co' \in [Service -> [Coroutine -> Seq(Step)]]
    BY DEF Crash, TabTypeOK
  <1>6. tb' \in [Service -> TableState]
    <2>1. [tb[s] EXCEPT !.alive = FALSE] \in TableState
      BY TableUpdate DEF TabTypeOK
    <2>2. tb' \in {tb, [tb EXCEPT ![s] = [tb[s] EXCEPT !.alive = FALSE]]}
      BY DEF Crash
    <2>3. QED
      BY <2>1, <2>2 DEF TabTypeOK
  <1>7. QED
    BY <1>2, <1>3, <1>4, <1>5, <1>6 DEF ChanTypeOK, TabTypeOK, Crash

(* A crash, seen from the table's own variables.                             *)
LEMMA TableCrashes ==
  ASSUME ChanTypeOK, TabTypeOK, NEW s \in Service, NEW x \in Coroutine,
         Running(s, x) \/ Answered(s, x), Crash(s, x)
  PROVE  ChanTypeOK' /\ TabTypeOK'
  <1>1. cur = Idle => toTab[s] # <<>>
    BY DEF Running, Answered, Idle
  <1>2. QED
    BY <1>1, CrashType

(* The calls a table makes are messages gamemgr has a handler for.           *)
LEMMA EventType ==
  ASSUME NEW x \in Coroutine
  PROVE  /\ \A u \in User, t \in 0 .. MaxTable, c \in 0 .. MaxChair, st \in Status :
              StatusEvent(x, u, t, c, st) \in MgrMsg
         /\ \A t \in 0 .. MaxTable, st \in BOOLEAN, n \in 0 .. MaxChair :
              TableEvent(x, t, st, n) \in MgrMsg
         /\ \A u \in User, rich \in BOOLEAN : ScoreEvent(x, u, rich) \in MgrMsg
         /\ RecordEvent(x) \in MgrMsg
  BY DEF StatusEvent, TableEvent, ScoreEvent, RecordEvent, MgrMsg, EventMsg,
         StatusMsg, TableMsg, ScoreMsg, RecordMsg

(* A step that goes on, and one that calls gamemgr, keep the types if they *)
(* keep those of the table state and of the copies.                        *)
LEMMA ThenStepType ==
  ASSUME ChanTypeOK, TabTypeOK, NEW s \in Service, NEW x \in Coroutine,
         NEW op, At(s, x, op), NEW steps \in Seq(Step), Then(s, x, steps),
         tb' \in [Service -> TableState], cp' \in [Service -> [User -> CopyRec]]
  PROVE  ChanTypeOK' /\ TabTypeOK'
  BY AtFacts, ThenType DEF TabTypeOK

(* A step that calls gamemgr and changes nothing of the table.               *)
LEMMA CallStepType ==
  ASSUME ChanTypeOK, TabTypeOK, NEW s \in Service, NEW x \in Coroutine,
         NEW op, At(s, x, op), NEW ev \in MgrMsg, NEW steps \in Seq(Step),
         CallMgr(s, x, ev, steps),
         tb' \in [Service -> TableState], cp' \in [Service -> [User -> CopyRec]]
  PROVE  ChanTypeOK' /\ TabTypeOK'
  BY AtFacts, CallMgrType DEF TabTypeOK

(* A coroutine that is given steps in front of those it has.               *)
LEMMA StepsType ==
  /\ <<>> \in Seq(Step)
  /\ \A q \in Step : <<q>> \in Seq(Step)
  /\ \A q, r \in Step : <<q, r>> \in Seq(Step)
  /\ \A q, r, w \in Step : <<q, r, w>> \in Seq(Step)
  OBVIOUS

-----------------------------------------------------------------------------
(* update_user_status keeps the types (gametable.lua:152-181).               *)
LEMMA UpdateUserStatusType ==
  ASSUME ChanTypeOK, TabTypeOK, NEW s \in Service, NEW x \in Coroutine,
         update_user_status(s, x)
  PROVE  ChanTypeOK' /\ TabTypeOK'
  <1> DEFINE q   == Top(s, x)
             tid == IF q.st = "FREE" THEN 0 ELSE tb[s].tid
             ini == IF q.u \in Robot THEN tid # 0
                    ELSE cp[s][q.u].init /\ q.st # "OFFLINE"
  <1>1. At(s, x, "status")
    BY DEF update_user_status
  <1>2. q.u \in User /\ q.c \in 0 .. MaxChair /\ q.st \in Status
    BY <1>1, AtFacts, StepShape DEF UserStep
  <1>3. tid \in 0 .. MaxTable
    BY DEF TabTypeOK, TableState
  <1>4. ini \in BOOLEAN
    BY <1>2 DEF TabTypeOK, CopyRec
  <1>5. cp' = [cp EXCEPT ![s][q.u] =
                 [@ EXCEPT !.st = q.st, !.tid = tid, !.chair = q.c, !.init = ini]]
    BY DEF update_user_status
  <1>6. CallMgr(s, x, StatusEvent(x, q.u, tid, q.c, q.st), <<>>) /\ UNCHANGED tb
    BY DEF update_user_status
  <1>7. StatusEvent(x, q.u, tid, q.c, q.st) \in MgrMsg
    BY <1>2, <1>3, EventType
  <1> HIDE DEF q, tid, ini
  <1>8. cp' \in [Service -> [User -> CopyRec]]
    <2> DEFINE new == [cp[s][q.u] EXCEPT !.st = q.st, !.tid = tid, !.chair = q.c, !.init = ini]
    <2>1. cp[s][q.u] \in CopyRec
      BY <1>2 DEF TabTypeOK
    <2>4. new \in CopyRec
      BY <1>2, <1>3, <1>4, <2>1, CopyUpdate
    <2>2. cp' = [cp EXCEPT ![s][q.u] = new]
      BY <1>5
    <2> HIDE DEF new
    <2>3. QED
      BY <1>2, <2>2, <2>4 DEF TabTypeOK
  <1>9. <<>> \in Seq(Step) /\ tb' \in [Service -> TableState]
    BY <1>6 DEF TabTypeOK
  <1>10. QED
    BY <1>1, <1>6, <1>7, <1>8, <1>9, CallStepType

(* update_table_status keeps the types (gametable.lua:183-186).              *)
LEMMA UpdateTableStatusType ==
  ASSUME ChanTypeOK, TabTypeOK, NEW s \in Service, NEW x \in Coroutine,
         update_table_status(s, x)
  PROVE  ChanTypeOK' /\ TabTypeOK'
  <1>1. TableEvent(x, tb[s].tid, tb[s].started, Cardinality(Occupied(tb[s].seat))) \in MgrMsg
    BY CountType, EventType DEF TabTypeOK, TableState
  <1>2. <<>> \in Seq(Step)
    OBVIOUS
  <1>3. tb' \in [Service -> TableState] /\ cp' \in [Service -> [User -> CopyRec]]
    BY DEF update_table_status, TabTypeOK
  <1>4. QED
    BY <1>1, <1>2, <1>3, CallStepType DEF update_table_status

(* CMD.user_standup keeps the types (gametable.lua:257-311).                 *)
LEMMA UserStandupType ==
  ASSUME ChanTypeOK, TabTypeOK, NEW s \in Service, NEW x \in Coroutine,
         user_standup(s, x)
  PROVE  ChanTypeOK' /\ TabTypeOK'
  <1> DEFINE q == Top(s, x)
             old == cp[s][q.u].chair
             free(op) == <<SetStatus(q.u, "FREE", 0), DoFor(op, q.u, old)>>
  <1>1. At(s, x, "standup")
    BY DEF user_standup
  <1>2. q.u \in User /\ q.c \in 0 .. MaxChair
    BY <1>1, AtFacts, StepShape DEF UserStep
  <1>3. old \in 0 .. MaxChair
    BY <1>2 DEF TabTypeOK, CopyRec
  <1>4. \A op \in {"vacate", "unwatch"} : free(op) \in Seq(Step)
    BY <1>2, <1>3, DoType DEF Status, UserStep
  <1>5. <<Do("tstatus")>> \in Seq(Step)
    BY DoType DEF TableStep
  <1>6. PICK left \in {<<>>, free("vacate") \o <<Do("tstatus")>>, free("unwatch")} :
          Taken(s, x) /\ Continues(s, x, left \o Tail(co[s][x]))
    BY DEF user_standup
  <1> HIDE DEF free
  <1>7. left \o Tail(co[s][x]) \in Seq(Step)
    <2>1. /\ <<>> \in Seq(Step) /\ free("unwatch") \in Seq(Step)
          /\ free("vacate") \o <<Do("tstatus")>> \in Seq(Step)
      BY <1>4, <1>5
    <2>4. left \in Seq(Step)
      BY <2>1
    <2>2. Tail(co[s][x]) \in Seq(Step)
      BY <1>1, AtFacts
    <2>3. QED
      BY <2>4, <2>2
  <1>8. res' \in [Service -> BOOLEAN] /\ UNCHANGED <<tb, cp>>
    BY DEF user_standup, TabTypeOK
  <1>9. QED
    BY <1>1, <1>6, <1>7, <1>8, AtFacts, TakenType, ContinuesType
       DEF Taken, ChanTypeOK, TabTypeOK

(* Forgetting the players who are at no seat keeps the types.                *)
LEMMA ForgetType ==
  ASSUME TabTypeOK, NEW s \in Service, NEW seat \in [Chair -> UserOrNone],
         NEW ob \in SUBSET User, Forget(s, seat, ob)
  PROVE  tb' \in [Service -> TableState] /\ cp' \in [Service -> [User -> CopyRec]]
  <1>1. NoCopy \in CopyRec
    BY DEF NoCopy, CopyRec, Status
  <1>2. cp' \in [Service -> [User -> CopyRec]]
    BY <1>1 DEF Forget, TabTypeOK
  <1>3. [tb[s] EXCEPT !.seat = seat, !.ob = ob] \in TableState
    BY TableUpdate DEF TabTypeOK
  <1>4. tb' = [tb EXCEPT ![s] = [tb[s] EXCEPT !.seat = seat, !.ob = ob]]
    BY DEF Forget, TabTypeOK
  <1>5. QED
    BY <1>2, <1>3, <1>4 DEF TabTypeOK

(* Emptying a seat leaves a seating.                                         *)
LEMMA ClearedType ==
  ASSUME TabTypeOK, NEW s \in Service, NEW c \in 0 .. MaxChair
  PROVE  Cleared(s, c) \in [Chair -> UserOrNone]
  BY DEF Cleared, TabTypeOK, TableState, UserOrNone

(* A seat that is emptied keeps the types.                                   *)
LEMMA VacateType ==
  ASSUME ChanTypeOK, TabTypeOK, NEW s \in Service, NEW x \in Coroutine,
         vacate(s, x)
  PROVE  ChanTypeOK' /\ TabTypeOK'
  <1> DEFINE seat == Cleared(s, Top(s, x).c)
             ob == IF Occupied(seat) = {} THEN {} ELSE tb[s].ob
             steps == IF CheckStart(seat, cp[s], 0) THEN <<Do("start")>> ELSE <<>>
  <1>1. At(s, x, "vacate") /\ Forget(s, seat, ob) /\ Then(s, x, steps)
    BY DEF vacate
  <1>2. seat \in [Chair -> UserOrNone]
    BY <1>1, AtFacts, StepShape, ClearedType
  <1>3. ob \in SUBSET User
    BY DEF TabTypeOK, TableState
  <1>4. steps \in Seq(Step)
    BY DoType, StepsType DEF TableStep
  <1> HIDE DEF seat, ob, steps
  <1>5. QED
    BY <1>1, <1>2, <1>3, <1>4, ForgetType, ThenStepType

(* An observer who is let go keeps the types.                                *)
LEMMA UnwatchType ==
  ASSUME ChanTypeOK, TabTypeOK, NEW s \in Service, NEW x \in Coroutine,
         unwatch(s, x)
  PROVE  ChanTypeOK' /\ TabTypeOK'
  <1> DEFINE seat == Cleared(s, Top(s, x).c)
             ob == tb[s].ob \ {Top(s, x).u}
  <1>1. At(s, x, "unwatch") /\ Forget(s, seat, ob) /\ Then(s, x, <<>>)
    BY DEF unwatch
  <1>2. seat \in [Chair -> UserOrNone]
    BY <1>1, AtFacts, StepShape, ClearedType
  <1>3. ob \in SUBSET User
    BY DEF TabTypeOK, TableState
  <1> HIDE DEF seat, ob
  <1>4. QED
    BY <1>1, <1>2, <1>3, StepsType, ForgetType, ThenStepType

(* start_game keeps the types (gametable.lua:583-607).                       *)
LEMMA StartGameType ==
  ASSUME ChanTypeOK, TabTypeOK, NEW s \in Service, NEW x \in Coroutine,
         start_game(s, x)
  PROVE  ChanTypeOK' /\ TabTypeOK'
  <1> DEFINE steps == IF tb[s].started THEN <<>>
                      ELSE <<Loop("seatplay", {}), Do("tstatus"), Do("gamestart")>>
  <1>1. At(s, x, "start") /\ Then(s, x, steps) /\ UNCHANGED cp
    BY DEF start_game
  <1>2. steps \in Seq(Step)
    BY DoType, StepsType DEF TableStep
  <1>3. tb' = [tb EXCEPT ![s] = [tb[s] EXCEPT !.started = TRUE]]
    BY DEF start_game
  <1>4. [tb[s] EXCEPT !.started = TRUE] \in TableState
    BY TableUpdate DEF TabTypeOK
  <1>5. tb' \in [Service -> TableState] /\ cp' \in [Service -> [User -> CopyRec]]
    BY <1>1, <1>3, <1>4 DEF TabTypeOK
  <1> HIDE DEF steps
  <1>6. QED
    BY <1>1, <1>2, <1>5, ThenStepType

(* What a loop over the seats finds at the one it visits.                  *)
LEMMA SeatType ==
  ASSUME TabTypeOK, NEW s \in Service, NEW c \in Occupied(tb[s].seat)
  PROVE  /\ c \in Chair /\ c \in 0 .. MaxChair
         /\ tb[s].seat[c] \in User
         /\ cp[s][tb[s].seat[c]] \in CopyRec
  BY DEF Occupied, Chair, TabTypeOK, TableState, UserOrNone

(* A step that leaves the table's state and copies alone.                    *)
LEMMA UnchangedType ==
  ASSUME TabTypeOK, UNCHANGED <<tb, cp>>
  PROVE  tb' \in [Service -> TableState] /\ cp' \in [Service -> [User -> CopyRec]]
  BY DEF TabTypeOK

(* The traversal of start_game keeps the types.                              *)
LEMMA StartGameSeatType ==
  ASSUME ChanTypeOK, TabTypeOK, NEW s \in Service, NEW x \in Coroutine,
         start_game_seat(s, x)
  PROVE  ChanTypeOK' /\ TabTypeOK'
  <1> DEFINE q == Top(s, x)
  <1>1. At(s, x, "seatplay") /\ UNCHANGED <<tb, cp>>
    BY DEF start_game_seat
  <1>2. q \in Step /\ q.op \in TableStep
    BY <1>1, AtFacts DEF TableStep
  <1>3. CASE Then(s, x, <<>>)
    BY <1>1, <1>3, StepsType, UnchangedType, ThenStepType
  <1>4. ASSUME NEW c \in ToVisit(s, q), NEW u, u = tb[s].seat[c],
               Then(s, x, IF cp[s][u].st \in {"OFFLINE", "PLAYING"}
                          THEN <<Again(q, c)>>
                          ELSE <<SetStatus(u, "PLAYING", c), Again(q, c)>>)
        PROVE  ChanTypeOK' /\ TabTypeOK'
    <2>1. c \in 0 .. MaxChair /\ u \in User
      BY <1>4, SeatType DEF ToVisit
    <2>2. SetStatus(u, "PLAYING", c) \in Step /\ Again(q, c) \in Step
      BY <1>2, <2>1, AgainType, DoType DEF Status
    <2>3. /\ <<Again(q, c)>> \in Seq(Step)
          /\ <<SetStatus(u, "PLAYING", c), Again(q, c)>> \in Seq(Step)
      BY <2>2, StepsType
    <2>4. QED
      BY <1>1, <1>4, <2>3, UnchangedType, ThenStepType
  <1>5. QED
    BY <1>3, <1>4 DEF start_game_seat

(* The game's on_game_start keeps the types (niuniu/game.lua:242).           *)
LEMMA OnGameStartType ==
  ASSUME ChanTypeOK, TabTypeOK, NEW s \in Service, NEW x \in Coroutine,
         on_game_start(s, x)
  PROVE  ChanTypeOK' /\ TabTypeOK'
  <1> DEFINE S == tb[s].playing \cup Occupied(tb[s].seat)
             new == [tb[s] EXCEPT !.rtimer = FALSE, !.gstat = "CALL", !.playing = S]
  <1>1. S \in SUBSET Chair
    BY DEF Occupied, TabTypeOK, TableState
  <1> HIDE DEF S
  <1>2. tb[s] \in TableState /\ "CALL" \in GStat
    BY DEF TabTypeOK, GStat
  <1>3. new \in TableState
    BY <1>1, <1>2, TableUpdate
  <1>4. tb' = [tb EXCEPT ![s] = new]
    BY DEF on_game_start, S
  <1> HIDE DEF new
  <1>5. tb' \in [Service -> TableState] /\ cp' \in [Service -> [User -> CopyRec]]
    <2>1. UNCHANGED cp
      BY DEF on_game_start
    <2>2. QED
      BY <1>3, <1>4, <2>1 DEF TabTypeOK
  <1>6. QED
    BY <1>5, StepsType, ThenStepType DEF on_game_start

(* The game's settlement keeps the types (niuniu/game.lua:579).              *)
LEMMA GameEndType ==
  ASSUME ChanTypeOK, TabTypeOK, NEW s \in Service, NEW x \in Coroutine,
         game_end(s, x)
  PROVE  ChanTypeOK' /\ TabTypeOK'
  <1>1. At(s, x, "gameend")
    BY DEF game_end
  <1>2. CASE Crash(s, x)
    BY <1>1, <1>2, AtFacts, TableCrashes
  <1>3. CASE Then(s, x, <<Loop("write", {}), Do("endgame")>>) /\ UNCHANGED <<tb, cp>>
    <2>1. <<Loop("write", {}), Do("endgame")>> \in Seq(Step)
      BY DoType, StepsType DEF TableStep
    <2>2. QED
      BY <1>1, <1>3, <2>1, UnchangedType, ThenStepType
  <1>4. QED
    BY <1>2, <1>3 DEF game_end

(* write_user_score keeps the types (gametable.lua:701-738).                 *)
LEMMA WriteUserScoreType ==
  ASSUME ChanTypeOK, TabTypeOK, NEW s \in Service, NEW x \in Coroutine,
         write_user_score(s, x)
  PROVE  ChanTypeOK' /\ TabTypeOK'
  <1> DEFINE q == Top(s, x)
  <1>1. At(s, x, "write")
    BY DEF write_user_score
  <1>2. q \in Step /\ q.op \in TableStep
    BY <1>1, AtFacts DEF TableStep
  <1>3. CASE Then(s, x, <<>>) /\ UNCHANGED <<tb, cp>>
    BY <1>1, <1>3, StepsType, UnchangedType, ThenStepType
  <1>4. ASSUME NEW c \in ToVisit(s, q) \cap tb[s].playing, NEW rich \in Stake,
               NEW u, u = tb[s].seat[c],
               cp' = [cp EXCEPT ![s][u].rich = rich],
               tb' = [tb EXCEPT ![s].recs = @ \cup {c}],
               CallMgr(s, x, ScoreEvent(x, u, rich), <<Again(q, c)>>)
        PROVE  ChanTypeOK' /\ TabTypeOK'
    <2> DEFINE newc == [cp[s][u] EXCEPT !.rich = rich]
               newt == [tb[s] EXCEPT !.recs = tb[s].recs \cup {c}]
    <2>1. c \in Chair /\ c \in 0 .. MaxChair /\ u \in User /\ cp[s][u] \in CopyRec
      BY <1>4, SeatType DEF ToVisit
    <2>2. rich \in BOOLEAN
      OBVIOUS
    <2>3. newc \in CopyRec
      BY <2>1, <2>2, CopyUpdate
    <2>4. tb[s] \in TableState /\ tb[s].recs \cup {c} \in SUBSET Chair
      BY <2>1 DEF TabTypeOK, TableState
    <2>5. newt \in TableState
      BY <2>4, TableUpdate
    <2>6. tb' = [tb EXCEPT ![s] = newt] /\ cp' = [cp EXCEPT ![s][u] = newc]
      BY <1>4
    <2> HIDE DEF newc, newt
    <2>7. tb' \in [Service -> TableState] /\ cp' \in [Service -> [User -> CopyRec]]
      BY <2>1, <2>3, <2>5, <2>6 DEF TabTypeOK
    <2>8. <<Again(q, c)>> \in Seq(Step)
      BY <1>2, <2>1, AgainType, StepsType
    <2>9. ScoreEvent(x, u, rich) \in MgrMsg
      BY <2>1, <2>2, EventType
    <2>10. QED
      BY <1>1, <1>4, <2>7, <2>8, <2>9, CallStepType
  <1>5. QED
    BY <1>3, <1>4 DEF write_user_score

(* end_game keeps the types, its assertion failing or not (gametable.lua:610). *)
LEMMA EndGameType ==
  ASSUME ChanTypeOK, TabTypeOK, NEW s \in Service, NEW x \in Coroutine,
         end_game(s, x)
  PROVE  ChanTypeOK' /\ TabTypeOK'
  <1> DEFINE steps == <<Loop("detail", {}), Do("record"), Loop("sitagain", {}),
                        Do("reset"), Do("tstatus")>>
  <1>1. At(s, x, "endgame")
    BY DEF end_game
  <1>2. CASE Crash(s, x)
    BY <1>1, <1>2, AtFacts, TableCrashes
  <1>3. CASE /\ tb' = [tb EXCEPT ![s].started = FALSE]
             /\ Then(s, x, steps) /\ UNCHANGED cp
    <2>1. /\ Loop("detail", {}) \in Step /\ Do("record") \in Step
          /\ Loop("sitagain", {}) \in Step /\ Do("reset") \in Step /\ Do("tstatus") \in Step
      BY DoType DEF TableStep
    <2>2. steps \in Seq(Step)
      BY <2>1
    <2>3. tb' = [tb EXCEPT ![s] = [tb[s] EXCEPT !.started = FALSE]]
      BY <1>3
    <2>4. [tb[s] EXCEPT !.started = FALSE] \in TableState
      BY TableUpdate DEF TabTypeOK
    <2>5. tb' \in [Service -> TableState] /\ cp' \in [Service -> [User -> CopyRec]]
      BY <1>3, <2>3, <2>4 DEF TabTypeOK
    <2> HIDE DEF steps
    <2>6. QED
      BY <1>1, <1>3, <2>2, <2>5, ThenStepType
  <1>4. QED
    BY <1>2, <1>3 DEF end_game

(* Writing a detail record keeps the types, its nil index included.          *)
LEMMA WriteDetailType ==
  ASSUME ChanTypeOK, TabTypeOK, NEW s \in Service, NEW x \in Coroutine,
         write_game_record_detail(s, x)
  PROVE  ChanTypeOK' /\ TabTypeOK'
  <1> DEFINE q == Top(s, x)
  <1>1. At(s, x, "detail")
    BY DEF write_game_record_detail
  <1>2. q \in Step /\ q.op \in TableStep
    BY <1>1, AtFacts DEF TableStep
  <1>3. CASE Then(s, x, <<>>) /\ UNCHANGED <<tb, cp>>
    BY <1>1, <1>3, StepsType, UnchangedType, ThenStepType
  <1>4. CASE Crash(s, x)
    BY <1>1, <1>4, AtFacts, TableCrashes
  <1>5. ASSUME NEW c \in Occupied(tb[s].seat), UNCHANGED <<tb, cp>>,
               CallMgr(s, x, RecordEvent(x), <<Again(q, c)>>)
        PROVE  ChanTypeOK' /\ TabTypeOK'
    <2>1. <<Again(q, c)>> \in Seq(Step)
      BY <1>2, SeatType, AgainType, StepsType
    <2>2. QED
      BY <1>1, <1>5, <2>1, EventType, UnchangedType, CallStepType
  <1>6. QED
    BY <1>3, <1>4, <1>5 DEF write_game_record_detail

(* Writing the game record keeps the types.                                  *)
LEMMA WriteRecordType ==
  ASSUME ChanTypeOK, TabTypeOK, NEW s \in Service, NEW x \in Coroutine,
         write_game_record(s, x)
  PROVE  ChanTypeOK' /\ TabTypeOK'
  <1>1. <<Do("clearrecs")>> \in Seq(Step)
    BY DoType, StepsType DEF TableStep
  <1>2. At(s, x, "record") /\ UNCHANGED <<tb, cp>>
    BY DEF write_game_record
  <1>3. QED
    BY <1>1, <1>2, EventType, UnchangedType, CallStepType DEF write_game_record

(* Clearing the records of the game keeps the types.                         *)
LEMMA ClearRecordsType ==
  ASSUME ChanTypeOK, TabTypeOK, NEW s \in Service, NEW x \in Coroutine,
         clear_records(s, x)
  PROVE  ChanTypeOK' /\ TabTypeOK'
  <1>1. At(s, x, "clearrecs") /\ Then(s, x, <<>>) /\ UNCHANGED cp
    BY DEF clear_records
  <1>2. tb' = [tb EXCEPT ![s] = [tb[s] EXCEPT !.recs = {}]]
    BY DEF clear_records
  <1>3. [tb[s] EXCEPT !.recs = {}] \in TableState
    BY TableUpdate DEF TabTypeOK
  <1>4. tb' \in [Service -> TableState] /\ cp' \in [Service -> [User -> CopyRec]]
    BY <1>1, <1>2, <1>3 DEF TabTypeOK
  <1>5. QED
    BY <1>1, <1>4, StepsType, ThenStepType

(* Removing the READY timer keeps the types.                                 *)
LEMMA RemoveTimerType ==
  ASSUME ChanTypeOK, TabTypeOK, NEW s \in Service, NEW x \in Coroutine,
         remove_timer(s, x)
  PROVE  ChanTypeOK' /\ TabTypeOK'
  <1>1. At(s, x, "rmtimer") /\ Then(s, x, <<>>) /\ UNCHANGED cp
    BY DEF remove_timer
  <1>2. tb' = [tb EXCEPT ![s] = [tb[s] EXCEPT !.rtimer = FALSE]]
    BY DEF remove_timer
  <1>3. [tb[s] EXCEPT !.rtimer = FALSE] \in TableState
    BY TableUpdate DEF TabTypeOK
  <1>4. tb' \in [Service -> TableState] /\ cp' \in [Service -> [User -> CopyRec]]
    BY <1>1, <1>2, <1>3 DEF TabTypeOK
  <1>5. QED
    BY <1>1, <1>4, StepsType, ThenStepType

(* The game's on_game_reset keeps the types (niuniu/game.lua:213).           *)
LEMMA OnGameResetType ==
  ASSUME ChanTypeOK, TabTypeOK, NEW s \in Service, NEW x \in Coroutine,
         on_game_reset(s, x)
  PROVE  ChanTypeOK' /\ TabTypeOK'
  <1> DEFINE new == [tb[s] EXCEPT !.playing = {}, !.banker = 0, !.rtimer = TRUE]
  <1>1. At(s, x, "reset") /\ Then(s, x, <<>>) /\ UNCHANGED cp
    BY DEF on_game_reset
  <1>2. tb' = [tb EXCEPT ![s] = new]
    BY DEF on_game_reset
  <1>3. new \in TableState
    <2>1. tb[s] \in TableState /\ {} \in SUBSET Chair /\ 0 \in 0 .. MaxChair
      BY DEF TabTypeOK
    <2>2. QED
      BY <2>1, TableUpdate
  <1> HIDE DEF new
  <1>4. tb' \in [Service -> TableState] /\ cp' \in [Service -> [User -> CopyRec]]
    BY <1>1, <1>2, <1>3 DEF TabTypeOK
  <1>5. QED
    BY <1>1, <1>4, StepsType, ThenStepType

(* Inserting before the last step leaves a sequence of steps.                *)
LEMMA BeforeLastType ==
  ASSUME NEW seq \in Seq(Step), NEW e \in Step
  PROVE  BeforeLast(seq, e) \in Seq(Step)
  <1>1. CASE seq = <<>>
    BY <1>1 DEF BeforeLast
  <1>2. CASE seq # <<>>
    <2>1. Len(seq) \in Nat \ {0} /\ seq[Len(seq)] \in Step
      BY <1>2
    <2>2. SubSeq(seq, 1, Len(seq) - 1) \in Seq(Step)
      BY <2>1
    <2>3. <<e, seq[Len(seq)]>> \in Seq(Step)
      BY <2>1
    <2>4. QED
      BY <1>2, <2>2, <2>3 DEF BeforeLast
  <1>3. QED
    BY <1>1, <1>2

(* The traversal of end_game keeps the types.                                *)
LEMMA EndGameSeatType ==
  ASSUME ChanTypeOK, TabTypeOK, NEW s \in Service, NEW x \in Coroutine,
         end_game_seat(s, x)
  PROVE  ChanTypeOK' /\ TabTypeOK'
  <1> DEFINE q == Top(s, x)
  <1>1. At(s, x, "sitagain") /\ UNCHANGED <<tb, cp>>
    BY DEF end_game_seat
  <1>2. q \in Step /\ q.op \in TableStep
    BY <1>1, AtFacts DEF TableStep
  <1>3. CASE Then(s, x, <<>>)
    BY <1>1, <1>3, StepsType, UnchangedType, ThenStepType
  <1>4. ASSUME NEW c \in ToVisit(s, q), NEW u, u = tb[s].seat[c],
               Then(s, x, <<SetStatus(u, "SIT", c), Again(q, c)>>)
        PROVE  ChanTypeOK' /\ TabTypeOK'
    <2>1. c \in 0 .. MaxChair /\ u \in User
      BY <1>4, SeatType DEF ToVisit
    <2>2. <<SetStatus(u, "SIT", c), Again(q, c)>> \in Seq(Step)
      BY <1>2, <2>1, AgainType, DoType, StepsType DEF Status
    <2>3. QED
      BY <1>1, <1>4, <2>2, UnchangedType, ThenStepType
  <1>5. ASSUME NEW c \in ToVisit(s, q), NEW u, u = tb[s].seat[c],
               UNCHANGED res, Taken(s, x),
               Continues(s, x, <<Again(q, c)>> \o
                           BeforeLast(Tail(co[s][x]), DoFor("standup", u, c)))
        PROVE  ChanTypeOK' /\ TabTypeOK'
    <2> DEFINE left == <<Again(q, c)>> \o BeforeLast(Tail(co[s][x]), DoFor("standup", u, c))
    <2>1. c \in 0 .. MaxChair /\ u \in User
      BY <1>5, SeatType DEF ToVisit
    <2>2. DoFor("standup", u, c) \in Step
      BY <2>1, DoType DEF UserStep
    <2>3. <<Again(q, c)>> \in Seq(Step)
      BY <1>2, <2>1, AgainType, StepsType
    <2>4. BeforeLast(Tail(co[s][x]), DoFor("standup", u, c)) \in Seq(Step)
      BY <1>1, <2>2, AtFacts, BeforeLastType
    <2>5. left \in Seq(Step)
      BY <2>3, <2>4
    <2>6. Continues(s, x, left)
      BY <1>5
    <2> HIDE DEF left
    <2>7. QED
      BY <1>1, <1>5, <2>5, <2>6, AtFacts, TakenType, ContinuesType, UnchangedType
         DEF Taken, ChanTypeOK, TabTypeOK
  <1>6. QED
    BY <1>3, <1>4, <1>5 DEF end_game_seat

(* The traversal of the READY timer keeps the types.                         *)
LEMMA ReadySeatType ==
  ASSUME ChanTypeOK, TabTypeOK, NEW s \in Service, NEW x \in Coroutine,
         ready_timeout_seat(s, x)
  PROVE  ChanTypeOK' /\ TabTypeOK'
  <1> DEFINE q == Top(s, x)
  <1>1. At(s, x, "late") /\ UNCHANGED <<tb, cp>>
    BY DEF ready_timeout_seat
  <1>2. q \in Step /\ q.op \in TableStep
    BY <1>1, AtFacts DEF TableStep
  <1>3. CASE Then(s, x, <<>>)
    BY <1>1, <1>3, StepsType, UnchangedType, ThenStepType
  <1>4. ASSUME NEW c \in ToVisit(s, q), NEW u, u = tb[s].seat[c],
               Then(s, x, IF cp[s][u].st \in {"FREE", "SIT"}
                          THEN <<DoFor("standup", u, cp[s][u].chair), Again(q, c)>>
                          ELSE <<Again(q, c)>>)
        PROVE  ChanTypeOK' /\ TabTypeOK'
    <2>1. c \in 0 .. MaxChair /\ u \in User /\ cp[s][u].chair \in 0 .. MaxChair
      BY <1>4, SeatType DEF ToVisit, CopyRec
    <2>2. DoFor("standup", u, cp[s][u].chair) \in Step /\ Again(q, c) \in Step
      BY <1>2, <2>1, AgainType, DoType DEF UserStep
    <2>3. /\ <<Again(q, c)>> \in Seq(Step)
          /\ <<DoFor("standup", u, cp[s][u].chair), Again(q, c)>> \in Seq(Step)
      BY <2>2, StepsType
    <2>4. QED
      BY <1>1, <1>4, <2>3, UnchangedType, ThenStepType
  <1>5. QED
    BY <1>3, <1>4 DEF ready_timeout_seat

(* user_ready keeps the types (gametable.lua:492-513).                       *)
LEMMA UserReadyType ==
  ASSUME ChanTypeOK, TabTypeOK, NEW s \in Service, NEW x \in Coroutine,
         user_ready(s, x)
  PROVE  ChanTypeOK' /\ TabTypeOK'
  <1> DEFINE c == Top(s, x).c
             u == IF c = 0 THEN None ELSE tb[s].seat[c]
  <1>1. At(s, x, "ready") /\ UNCHANGED <<tb, cp>>
    BY DEF user_ready
  <1>2. c \in 0 .. MaxChair
    BY <1>1, AtFacts, StepShape
  <1>3. u # None => u \in User
    BY <1>2 DEF Chair, TabTypeOK, TableState, UserOrNone
  <1>4. PICK steps : /\ Then(s, x, steps)
                     /\ \/ steps = <<>> \/ steps = <<Do("start")>>
                        \/ u # None /\ steps = <<SetStatus(u, "READY", c)>>
    BY DEF user_ready
  <1>5. steps \in Seq(Step)
    BY <1>2, <1>3, <1>4, DoType, StepsType DEF TableStep, Status
  <1>6. QED
    BY <1>1, <1>4, <1>5, UnchangedType, ThenStepType

(* Returning from the last call keeps the types.                             *)
LEMMA FinishType ==
  ASSUME ChanTypeOK, TabTypeOK, NEW s \in Service, NEW x \in Coroutine,
         Finish(s, x)
  PROVE  ChanTypeOK' /\ TabTypeOK'
  <1>1. /\ Answered(s, x) /\ UNCHANGED <<tb, cp, res>>
        /\ Taken(s, x) /\ Continues(s, x, <<>>)
    BY DEF Finish
  <1>2. QED
    BY <1>1, StepsType, TakenType, ContinuesType, UnchangedType
       DEF Taken, ChanTypeOK, TabTypeOK

(* Every step of a coroutine keeps the types.                                *)
LEMMA RunStepType ==
  ASSUME ChanTypeOK, TabTypeOK, NEW s \in Service, NEW x \in Coroutine,
         RunStep(s, x)
  PROVE  ChanTypeOK' /\ TabTypeOK'
  BY UpdateUserStatusType, UpdateTableStatusType, UserStandupType, VacateType,
     UnwatchType, StartGameType, StartGameSeatType, OnGameStartType, GameEndType,
     WriteUserScoreType, EndGameType, WriteDetailType, WriteRecordType,
     ClearRecordsType, EndGameSeatType, OnGameResetType, ReadySeatType,
     RemoveTimerType, UserReadyType, FinishType
     DEF RunStep
-----------------------------------------------------------------------------
(* Timers and requests.                                                    *)

(* A timer that fires starts a well-typed coroutine.                         *)
LEMMA TimerFiresType ==
  ASSUME ChanTypeOK, TabTypeOK, NEW s \in Service, NEW steps \in Seq(Step),
         TimerFires(s, steps), tb' \in [Service -> TableState]
  PROVE  ChanTypeOK' /\ TabTypeOK'
  <1>1. /\ UNCHANGED <<cp, wt, res, toTab>> /\ "T" \in Coroutine
        /\ Continues(s, "T", steps)
    BY DEF TimerFires, Coroutine
  <1>2. QED
    BY <1>1, ContinuesType DEF ChanTypeOK, TabTypeOK

(* A phase of the game leads to a typed table and typed steps.               *)
LEMMA NextPhaseType ==
  ASSUME TabTypeOK, NEW s \in Service, NEW by, NEW steps, NextPhase(s, by, steps)
  PROVE  tb' \in [Service -> TableState] /\ steps \in Seq(Step)
  <1>1. tb[s] \in TableState /\ {"BET", "OPEN", "FREE"} \subseteq GStat
    BY DEF TabTypeOK, GStat
  <1>2. ASSUME NEW b \in IF Players(s) = {} THEN {0} ELSE Players(s),
               tb' = [tb EXCEPT ![s].gstat = "BET", ![s].banker = b], steps = <<>>
        PROVE  tb' \in [Service -> TableState] /\ steps \in Seq(Step)
    <2>1. b \in 0 .. MaxChair
      BY DEF Players, Occupied, Chair
    <2>2. [tb[s] EXCEPT !.gstat = "BET", !.banker = b] \in TableState
      BY <1>1, <2>1, TableUpdate
    <2>3. tb' = [tb EXCEPT ![s] = [tb[s] EXCEPT !.gstat = "BET", !.banker = b]]
      BY <1>2
    <2>4. QED
      BY <1>2, <2>2, <2>3, StepsType DEF TabTypeOK
  <1>3. ASSUME NEW g \in {"OPEN", "FREE"}, tb' = [tb EXCEPT ![s].gstat = g]
        PROVE  tb' \in [Service -> TableState]
    <2>1. [tb[s] EXCEPT !.gstat = g] \in TableState
      BY <1>1, TableUpdate
    <2>2. tb' = [tb EXCEPT ![s] = [tb[s] EXCEPT !.gstat = g]]
      BY <1>3
    <2>3. QED
      BY <2>1, <2>2 DEF TabTypeOK
  <1>4. <<>> \in Seq(Step) /\ <<Do("gameend")>> \in Seq(Step)
    BY DoType, StepsType DEF TableStep
  <1>5. QED
    BY <1>2, <1>3, <1>4 DEF NextPhase, Settles

(* Every timer of a table keeps the types (gametable.lua:42-66).             *)
LEMMA TimerType ==
  ASSUME ChanTypeOK, TabTypeOK, NEW s \in Service, Timer(s)
  PROVE  ChanTypeOK' /\ TabTypeOK'
  <1>1. CASE ReadyTimeout(s)
    <2> DEFINE steps == (IF tb[s].gstat = "FREE" THEN <<Loop("late", {})>> ELSE <<>>)
                          \o <<Do("rmtimer")>>
    <2>1. /\ <<Loop("late", {})>> \in Seq(Step) /\ <<>> \in Seq(Step)
          /\ <<Do("rmtimer")>> \in Seq(Step)
      BY DoType, StepsType DEF TableStep
    <2>2. steps \in Seq(Step)
      BY <2>1
    <2>3. TimerFires(s, steps) /\ UNCHANGED tb
      BY <1>1 DEF ReadyTimeout
    <2> HIDE DEF steps
    <2>4. QED
      BY <2>2, <2>3, TimerFiresType DEF TabTypeOK
  <1>2. CASE GameTimeout(s)
    <2>1. PICK steps \in {<<>>, <<Do("gameend")>>} :
            NextPhase(s, Players(s), steps) /\ TimerFires(s, steps)
      BY <1>2 DEF GameTimeout
    <2>2. QED
      BY <2>1, NextPhaseType, TimerFiresType
  <1>3. CASE RobotReady(s)
    <2>1. PICK c \in Occupied(tb[s].seat) :
            TimerFires(s, <<DoFor("ready", None, cp[s][tb[s].seat[c]].chair)>>)
      BY <1>3 DEF RobotReady
    <2>2. cp[s][tb[s].seat[c]].chair \in 0 .. MaxChair
      BY SeatType DEF CopyRec
    <2>3. <<DoFor("ready", None, cp[s][tb[s].seat[c]].chair)>> \in Seq(Step)
      BY <2>2, DoType, StepsType DEF TableStep
    <2>4. UNCHANGED tb
      BY <1>3 DEF RobotReady
    <2>5. QED
      BY <2>1, <2>3, <2>4, TimerFiresType DEF TabTypeOK
  <1>4. QED
    BY <1>1, <1>2, <1>3 DEF Timer

(* Taking a request off the queue: its shape and what is left.               *)
LEMMA TakesType ==
  ASSUME ChanTypeOK, NEW s \in Service, NEW op, Takes(s, op)
  PROVE  /\ toTab' \in [Service -> Seq(TabMsg)]
         /\ cur = Idle
         /\ Arg(s) \in ReqMsg(UserOp, User) \cup ReqMsg(RoomOp, {None})
         /\ Arg(s).op = op
         /\ Arg(s).c \in 0 .. MaxChair /\ Arg(s).tid \in 0 .. MaxTable
         /\ Arg(s).rich \in BOOLEAN
         /\ op \in UserOp => Arg(s).u \in User
  <1>1. toTab[s] \in Seq(TabMsg) /\ toTab[s] # <<>>
    BY DEF ChanTypeOK, Takes
  <1>2. Head(toTab[s]) \in TabMsg /\ Tail(toTab[s]) \in Seq(TabMsg)
    BY <1>1
  <1>3. toTab' \in [Service -> Seq(TabMsg)]
    BY <1>2 DEF Takes, ChanTypeOK
  <1>4. Head(toTab[s]).k = "req" /\ Head(toTab[s]).op = op /\ cur = Idle
    BY DEF Takes
  <1>5. Arg(s) \in ReqMsg(UserOp, User) \cup ReqMsg(RoomOp, {None})
    BY <1>2, <1>4 DEF Arg, TabMsg, RespMsg, ReqMsg
  <1>6. QED
    BY <1>3, <1>4, <1>5 DEF Arg, ReqMsg, UserOp, RoomOp

(* Answering at once keeps the types.                                        *)
LEMMA ReplyType ==
  ASSUME ChanTypeOK, TabTypeOK, NEW s \in Service, NEW op, Takes(s, op),
         NEW ok \in BOOLEAN, NEW val \in 0 .. MaxChair, Reply(s, ok, val),
         tb' \in [Service -> TableState], cp' \in [Service -> [User -> CopyRec]]
  PROVE  ChanTypeOK' /\ TabTypeOK'
  <1>1. Return(ok, val) \in MgrMsg
    BY DEF Return, MgrMsg, ReturnMsg
  <1>2. toMgr' \in [Service -> Seq(MgrMsg)]
    BY <1>1, SendType DEF Reply
  <1>3. QED
    BY <1>2, TakesType DEF Reply, ChanTypeOK, TabTypeOK

(* Starting the request coroutine keeps the types.                           *)
LEMMA BeginType ==
  ASSUME ChanTypeOK, TabTypeOK, NEW s \in Service, NEW op, Takes(s, op),
         NEW steps \in Seq(Step), Begin(s, steps),
         tb' \in [Service -> TableState], cp' \in [Service -> [User -> CopyRec]]
  PROVE  ChanTypeOK' /\ TabTypeOK'
  <1>1. UNCHANGED wt /\ Continues(s, "R", steps) /\ "R" \in Coroutine
    BY DEF Begin, Coroutine
  <1>2. res' \in [Service -> BOOLEAN]
    BY DEF Begin, TabTypeOK
  <1>3. QED
    BY <1>1, <1>2, TakesType, ContinuesType DEF ChanTypeOK, TabTypeOK

(* CMD.start and CMD.cleanup keep the types (gametable.lua:97-131).          *)
LEMMA StartCleanupType ==
  ASSUME ChanTypeOK, TabTypeOK, NEW s \in Service, start(s) \/ cleanup(s)
  PROVE  ChanTypeOK' /\ TabTypeOK'
  <1>1. PICK op, new :
          /\ Takes(s, op) /\ Reply(s, TRUE, 0) /\ UNCHANGED cp
          /\ tb' = [tb EXCEPT ![s] = new]
          /\ \/ new = [FreshTable EXCEPT !.tid = Arg(s).tid, !.recs = tb[s].recs,
                               !.rtimer = tb[s].rtimer, !.alive = tb[s].alive]
             \/ new = [FreshTable EXCEPT !.recs = tb[s].recs, !.alive = tb[s].alive,
                               !.playing = tb[s].playing, !.banker = tb[s].banker]
    BY DEF start, cleanup
  <1>2. FreshTable \in TableState
    BY DEF FreshTable, TableState, NoSeats, UserOrNone, GStat
  <1>3. tb[s] \in TableState
    BY DEF TabTypeOK
  <1>4. ASSUME NEW r \in TableState, NEW f \in TableState, NEW t \in 0 .. MaxTable
        PROVE  /\ [f EXCEPT !.tid = t, !.recs = r.recs, !.rtimer = r.rtimer,
                            !.alive = r.alive] \in TableState
               /\ [f EXCEPT !.recs = r.recs, !.alive = r.alive, !.playing = r.playing,
                            !.banker = r.banker] \in TableState
    BY Zenon DEF TableState
  <1>5. new \in TableState
    <2>1. Arg(s).tid \in 0 .. MaxTable
      BY <1>1, TakesType
    <2>2. [FreshTable EXCEPT !.tid = Arg(s).tid, !.recs = tb[s].recs,
                     !.rtimer = tb[s].rtimer, !.alive = tb[s].alive] \in TableState
      BY <1>2, <1>3, <1>4, <2>1
    <2>3. [FreshTable EXCEPT !.recs = tb[s].recs, !.alive = tb[s].alive,
                     !.playing = tb[s].playing, !.banker = tb[s].banker] \in TableState
      BY <1>2, <1>3, <1>4, <2>1
    <2>4. QED
      BY <1>1, <2>2, <2>3
  <1>6. tb' \in [Service -> TableState] /\ cp' \in [Service -> [User -> CopyRec]]
    BY <1>1, <1>5 DEF TabTypeOK
  <1>7. TRUE \in BOOLEAN /\ 0 \in 0 .. MaxChair
    OBVIOUS
  <1>8. QED
    BY <1>1, <1>6, <1>7, ReplyType, Zenon

(* get_can_sit_chairid answers a chair, or 0.                                *)
LEMMA FirstFreeType ==
  ASSUME NEW s \in Service
  PROVE  FirstFree(s) \in 0 .. MaxChair
  <1>1. CASE CanSit(s) = {}
    BY <1>1 DEF FirstFree
  <1>2. CASE CanSit(s) # {}
    <2>1. CanSit(s) \subseteq Nat /\ CanSit(s) \subseteq 0 .. MaxChair
      BY DEF CanSit, Chair
    <2>2. \E c \in CanSit(s) : \A d \in CanSit(s) : c <= d
      BY <1>2, <2>1, LeastExists
    <2>3. QED
      BY <1>2, <2>1, <2>2 DEF FirstFree
  <1>3. QED
    BY <1>1, <1>2

(* The two queries keep the types.                                           *)
LEMMA QueryType ==
  ASSUME ChanTypeOK, TabTypeOK, NEW s \in Service,
         get_can_sit_chairid(s) \/ get_table_info(s)
  PROVE  ChanTypeOK' /\ TabTypeOK'
  <1>1. /\ TRUE \in BOOLEAN /\ FirstFree(s) \in 0 .. MaxChair
        /\ Cardinality(Occupied(tb[s].seat)) \in 0 .. MaxChair
    BY FirstFreeType, CountType
  <1>2. CASE get_can_sit_chairid(s)
    BY <1>1, <1>2, UnchangedType, ReplyType, Zenon DEF get_can_sit_chairid
  <1>3. CASE get_table_info(s)
    BY <1>1, <1>3, UnchangedType, ReplyType, Zenon DEF get_table_info
  <1>4. QED
    BY <1>2, <1>3

(* CMD.user_sitdown keeps the types (gametable.lua:211-250).                 *)
LEMMA SitdownType ==
  ASSUME ChanTypeOK, TabTypeOK, NEW s \in Service, user_sitdown(s)
  PROVE  ChanTypeOK' /\ TabTypeOK'
  <1> DEFINE m == Arg(s)
  <1>1. Takes(s, "user_sitdown")
    BY DEF user_sitdown
  <1>2. m.u \in User /\ m.c \in 0 .. MaxChair
    BY <1>1, TakesType DEF UserOp
  <1>3. CASE \E ok \in BOOLEAN : Reply(s, ok, 0) /\ UNCHANGED <<tb, cp>>
    <2>1. PICK ok \in BOOLEAN : Reply(s, ok, 0) /\ UNCHANGED <<tb, cp>>
      BY <1>3
    <2>2. 0 \in 0 .. MaxChair
      OBVIOUS
    <2>3. QED
      BY <1>1, <2>1, <2>2, UnchangedType, ReplyType
  <1>4. ASSUME tb' = [tb EXCEPT ![s].seat[m.c] = m.u],
               cp' = [cp EXCEPT ![s][m.u] = NoCopy],
               NEW t \in MayMiss(co[s]["T"], m.c),
               co' = [co EXCEPT ![s]["R"] = <<SetStatus(m.u, "SIT", m.c)>>, ![s]["T"] = t],
               cur' = [svc |-> s, co |-> "R"], res' = [res EXCEPT ![s] = FALSE],
               UNCHANGED <<toMgr, wt>>
        PROVE  ChanTypeOK' /\ TabTypeOK'
    <2>1. tb' = [tb EXCEPT ![s] = [tb[s] EXCEPT !.seat[m.c] = m.u]]
      BY <1>4
    <2>2. [tb[s] EXCEPT !.seat[m.c] = m.u] \in TableState
      BY <1>2, TableUpdate DEF TabTypeOK
    <2>3. tb' \in [Service -> TableState]
      BY <2>1, <2>2 DEF TabTypeOK
    <2>4. NoCopy \in CopyRec
      BY DEF NoCopy, CopyRec, Status
    <2>5. cp' \in [Service -> [User -> CopyRec]]
      BY <1>2, <1>4, <2>4 DEF TabTypeOK
    <2>6. co[s]["T"] \in Seq(Step)
      BY DEF TabTypeOK, Coroutine
    <2>7. t \in Seq(Step)
      <3>1. CASE t = co[s]["T"]
        BY <2>6, <3>1
      <3>2. CASE t # co[s]["T"]
        <4>1. /\ co[s]["T"] # <<>> /\ Head(co[s]["T"]).op \in SeatLoop
              /\ t = <<Again(Head(co[s]["T"]), m.c)>> \o Tail(co[s]["T"])
          BY <3>2 DEF MayMiss
        <4>2. Head(co[s]["T"]) \in Step /\ Tail(co[s]["T"]) \in Seq(Step)
          BY <2>6, <4>1
        <4>3. Again(Head(co[s]["T"]), m.c) \in Step
          BY <1>2, <4>1, <4>2, AgainType DEF SeatLoop, TableStep
        <4>4. QED
          BY <4>1, <4>2, <4>3
      <3>3. QED
        BY <3>1, <3>2
    <2>8. <<SetStatus(m.u, "SIT", m.c)>> \in Seq(Step)
      BY <1>2, DoType, StepsType DEF Status
    <2>9. [co EXCEPT ![s]["R"] = <<SetStatus(m.u, "SIT", m.c)>>]
             \in [Service -> [Coroutine -> Seq(Step)]]
      BY <2>8 DEF TabTypeOK, Coroutine
    <2>10. co' \in [Service -> [Coroutine -> Seq(Step)]]
      BY <1>4, <2>7, <2>9 DEF Coroutine
    <2>11. cur' \in [svc : Service \cup {None}, co : Coroutine]
      BY <1>4 DEF Coroutine
    <2>12. QED
      BY <1>1, <1>4, <2>3, <2>5, <2>10, <2>11, TakesType DEF ChanTypeOK, TabTypeOK
  <1>5. QED
    BY <1>3, <1>4 DEF user_sitdown

(* CMD.user_sitdown_ob keeps the types (gametable.lua:342-357).              *)
LEMMA SitdownObType ==
  ASSUME ChanTypeOK, TabTypeOK, NEW s \in Service, user_sitdown_ob(s)
  PROVE  ChanTypeOK' /\ TabTypeOK'
  <1> DEFINE m == Arg(s)
             new == [NoCopy EXCEPT !.rich = m.rich]
  <1>1. Takes(s, "user_sitdown_ob")
    BY DEF user_sitdown_ob
  <1>2. m.u \in User /\ m.c \in 0 .. MaxChair /\ m.rich \in BOOLEAN
    BY <1>1, TakesType DEF UserOp
  <1>3. CASE Reply(s, TRUE, 0) /\ UNCHANGED <<tb, cp>>
    <2>1. TRUE \in BOOLEAN /\ 0 \in 0 .. MaxChair
      OBVIOUS
    <2>2. QED
      BY <1>1, <1>3, <2>1, UnchangedType, ReplyType, Zenon
  <1>4. CASE /\ tb' = [tb EXCEPT ![s].ob = @ \cup {m.u}]
             /\ cp' = [cp EXCEPT ![s][m.u] = new]
             /\ Begin(s, <<SetStatus(m.u, "OB", m.c)>>)
    <2>1. tb' = [tb EXCEPT ![s] = [tb[s] EXCEPT !.ob = tb[s].ob \cup {m.u}]]
      BY <1>4
    <2>2. tb[s] \in TableState /\ tb[s].ob \cup {m.u} \in SUBSET User
      BY <1>2 DEF TabTypeOK, TableState
    <2>3. [tb[s] EXCEPT !.ob = tb[s].ob \cup {m.u}] \in TableState
      BY <2>2, TableUpdate
    <2>4. NoCopy \in CopyRec
      BY DEF NoCopy, CopyRec, Status
    <2>5. new \in CopyRec
      BY <1>2, <2>4, CopyUpdate
    <2> HIDE DEF new
    <2>6. tb' \in [Service -> TableState] /\ cp' \in [Service -> [User -> CopyRec]]
      BY <1>2, <1>4, <2>1, <2>3, <2>5 DEF TabTypeOK
    <2>7. <<SetStatus(m.u, "OB", m.c)>> \in Seq(Step)
      BY <1>2, DoType, StepsType DEF Status
    <2>8. QED
      BY <1>1, <1>4, <2>6, <2>7, BeginType
  <1>5. QED
    BY <1>3, <1>4 DEF user_sitdown_ob

(* The requests that only start a coroutine keep the types.                  *)
LEMMA SeatedRequestType ==
  ASSUME ChanTypeOK, TabTypeOK, NEW s \in Service,
         \/ request_user_standup(s) \/ robot_standup(s) \/ user_offline(s)
         \/ update_user_conn(s) \/ request_user_ready(s)
  PROVE  ChanTypeOK' /\ TabTypeOK'
  <1> DEFINE u == AtSeat(s)
  <1>1. PICK op, steps :
          /\ Takes(s, op) /\ Begin(s, steps) /\ UNCHANGED <<tb, cp>>
          /\ \/ steps = <<>>
             \/ op = "user_standup" /\ steps = <<DoFor("standup", Arg(s).u, Arg(s).c)>>
             \/ \E c \in Occupied(tb[s].seat) :
                  steps = <<DoFor("standup", tb[s].seat[c], c)>>
             \/ /\ u # None
                /\ \/ steps = <<SetStatus(u, "OFFLINE", Arg(s).c)>>
                   \/ steps = <<DoFor("standup", u, Arg(s).c)>>
                   \/ steps = <<SetStatus(u, "PLAYING", cp[s][u].chair)>>
             \/ steps = <<DoFor("ready", None, Arg(s).c)>>
    BY DEF request_user_standup, robot_standup, user_offline, update_user_conn,
           request_user_ready
  <1>2. Arg(s).c \in 0 .. MaxChair /\ (op = "user_standup" => Arg(s).u \in User)
    BY <1>1, TakesType DEF UserOp
  <1>3. u # None => u \in User
    BY <1>2 DEF AtSeat, Chair, TabTypeOK, TableState, UserOrNone
  <1>4. u # None => cp[s][u].chair \in 0 .. MaxChair
    BY <1>3 DEF TabTypeOK, CopyRec
  <1>5. \A c \in Occupied(tb[s].seat) : tb[s].seat[c] \in User /\ c \in 0 .. MaxChair
    BY SeatType
  <1> HIDE DEF u
  <1>6. steps \in Seq(Step)
    <2>1. \A v \in User, c \in 0 .. MaxChair : <<DoFor("standup", v, c)>> \in Seq(Step)
      BY DoType, StepsType DEF UserStep
    <2>2. \A v \in User, c \in 0 .. MaxChair, st \in Status :
            <<SetStatus(v, st, c)>> \in Seq(Step)
      BY DoType, StepsType
    <2>3. <<DoFor("ready", None, Arg(s).c)>> \in Seq(Step) /\ <<>> \in Seq(Step)
      BY <1>2, DoType, StepsType DEF TableStep
    <2>4. {"OFFLINE", "PLAYING"} \subseteq Status
      BY DEF Status
    <2>5. ASSUME u # None
          PROVE  /\ <<SetStatus(u, "OFFLINE", Arg(s).c)>> \in Seq(Step)
                 /\ <<DoFor("standup", u, Arg(s).c)>> \in Seq(Step)
                 /\ <<SetStatus(u, "PLAYING", cp[s][u].chair)>> \in Seq(Step)
      BY <1>2, <1>3, <1>4, <2>1, <2>2, <2>4, <2>5
    <2>6. ASSUME op = "user_standup"
          PROVE  <<DoFor("standup", Arg(s).u, Arg(s).c)>> \in Seq(Step)
      BY <1>2, <2>1, <2>6
    <2>7. \A c \in Occupied(tb[s].seat) :
            <<DoFor("standup", tb[s].seat[c], c)>> \in Seq(Step)
      BY <1>5, <2>1
    <2>8. QED
      BY <1>1, <2>3, <2>5, <2>6, <2>7, Zenon
  <1>7. QED
    BY <1>1, <1>6, UnchangedType, BeginType

(* CMD.game_msg keeps the types (gametable.lua:449-461).                     *)
LEMMA GameMsgType ==
  ASSUME ChanTypeOK, TabTypeOK, NEW s \in Service, game_msg(s)
  PROVE  ChanTypeOK' /\ TabTypeOK'
  <1>1. Takes(s, "game_msg") /\ UNCHANGED cp
    BY DEF game_msg
  <1>2. CASE Begin(s, <<>>) /\ UNCHANGED tb
    BY <1>1, <1>2, StepsType, UnchangedType, BeginType
  <1>3. ASSUME NEW steps, NextPhase(s, {Arg(s).c}, steps), Begin(s, steps)
        PROVE  ChanTypeOK' /\ TabTypeOK'
    <2>1. cp' \in [Service -> [User -> CopyRec]]
      BY <1>1 DEF TabTypeOK
    <2>2. tb' \in [Service -> TableState] /\ steps \in Seq(Step)
      BY <1>3, NextPhaseType
    <2>3. QED
      BY <1>1, <1>3, <2>1, <2>2, BeginType
  <1>4. QED
    BY <1>2, <1>3 DEF game_msg

(* CMD.init_game keeps the types (gametable.lua:464-489).                    *)
LEMMA InitGameType ==
  ASSUME ChanTypeOK, TabTypeOK, NEW s \in Service, init_game(s)
  PROVE  ChanTypeOK' /\ TabTypeOK'
  <1>1. Takes(s, "init_game") /\ UNCHANGED tb
    BY DEF init_game
  <1>2. Arg(s).u \in User /\ Arg(s).c \in 0 .. MaxChair
    BY <1>1, TakesType DEF UserOp
  <1>3. AtSeat(s) # None => AtSeat(s) \in User
    BY <1>2 DEF AtSeat, Chair, TabTypeOK, TableState, UserOrNone
  <1> DEFINE watches == Arg(s).u \in tb[s].ob /\ cp[s][Arg(s).u].chair = Arg(s).c
             u == IF AtSeat(s) # None THEN AtSeat(s) ELSE IF watches THEN Arg(s).u ELSE None
             steps == IF u = None THEN <<>>
                      ELSE IF cp[s][u].st = "READY" /\ CheckStart(tb[s].seat, cp'[s], Arg(s).c)
                           THEN <<Do("start")>> ELSE <<>>
  <1>4. /\ Begin(s, steps)
        /\ \/ UNCHANGED cp
           \/ u # None /\ cp' = [cp EXCEPT ![s][u].init = TRUE]
    BY DEF init_game
  <1>5. steps \in Seq(Step)
    BY DoType, StepsType DEF TableStep
  <1>9. u # None => u \in User
    BY <1>2, <1>3
  <1> HIDE DEF steps, u
  <1>6. cp' \in [Service -> [User -> CopyRec]]
    <2>1. CASE UNCHANGED cp
      BY <2>1 DEF TabTypeOK
    <2>2. CASE u \in User /\ cp' = [cp EXCEPT ![s][u].init = TRUE]
      <3>1. cp' = [cp EXCEPT ![s][u] = [cp[s][u] EXCEPT !.init = TRUE]]
        BY <2>2
      <3>2. cp[s][u] \in CopyRec
        BY <2>2 DEF TabTypeOK
      <3>3. [cp[s][u] EXCEPT !.init = TRUE] \in CopyRec
        BY <3>2, CopyUpdate
      <3>4. QED
        BY <2>2, <3>1, <3>3 DEF TabTypeOK
    <2>3. QED
      BY <1>4, <1>9, <2>1, <2>2
  <1>7. tb' \in [Service -> TableState]
    BY <1>1 DEF TabTypeOK
  <1>8. QED
    BY <1>1, <1>4, <1>5, <1>6, <1>7, BeginType

(* Every step of a table keeps the queues and the table typed.               *)
LEMMA TableType ==
  ASSUME ChanTypeOK, TabTypeOK, NEW s \in Service, TabNext(s)
  PROVE  ChanTypeOK' /\ TabTypeOK'
  <1>1. CASE Request(s)
    BY <1>1, StartCleanupType, QueryType, SitdownType, SitdownObType,
       SeatedRequestType, GameMsgType, InitGameType DEF Request
  <1>2. QED
    BY <1>1, TimerType, RunStepType DEF TabNext
=============================================================================
