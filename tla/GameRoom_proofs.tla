---------------------------- MODULE GameRoom_proofs ----------------------------
(***************************************************************************)
(* The room: its invariant is inductive, and it implements TablePool.      *)
(*                                                                         *)
(* IInv is the types together with the manager's three invariants.  Each   *)
(* lemma <action>Step shows that one action keeps MgrInv and is a step of  *)
(* TablePool or leaves every service where it is (PoolStep); the table's   *)
(* own steps come from GameTable_proofs.                                   *)
(***************************************************************************)
EXTENDS GameRoom, GameTable_proofs

USE RoomAssumption, MgrAssumption

(* What the room manager's own steps need and keep.                          *)
MgrInv ==
  ChanTypeOK /\ MgrTypeOK /\ RequestHolds /\ ConnIndex /\ ResourcePartition

(* The requests built from nothing are requests.                             *)
LEMMA RequestType ==
  /\ Request0 \in RequestRec
  /\ \A pc \in UserPc, u \in User : Await(pc, u) \in RequestRec
  /\ \A pc \in RoomPc, u \in UserOrNone : Await(pc, u) \in RequestRec
  /\ Request0.pc = "idle" /\ \A pc, u : Await(pc, u).pc = pc
  <1>1. \A pc \in UserPc, u \in User : Await(pc, u) \in RequestRec
    BY DEF Await, RequestRec, RequestOf
  <1>2. \A pc \in RoomPc, u \in UserOrNone : Await(pc, u) \in RequestRec
    BY DEF Await, RequestRec, RequestOf
  <1>3. \A pc, u : Await(pc, u).pc = pc
    BY DEF Await
  <1>4. QED
    BY <1>1, <1>2, <1>3 DEF Request0, RoomPc, UserOrNone

(* Changing some fields of a request keeps its type.                       *)
LEMMA RequestPc ==
  ASSUME NEW pcs, NEW users, NEW q \in RequestOf(pcs, users), NEW other, NEW pc \in other
  PROVE  /\ [q EXCEPT !.pc = pc] \in RequestOf(other, users)
         /\ [q EXCEPT !.pc = pc].pc = pc /\ [q EXCEPT !.pc = pc].t = q.t
  BY Zenon DEF RequestOf

(* The same for the connection of a request.                                 *)
LEMMA RequestConn ==
  ASSUME NEW pcs, NEW users, NEW q \in RequestOf(pcs, users), NEW g \in Conn
  PROVE  /\ [q EXCEPT !.conn = g] \in RequestOf(pcs, users)
         /\ [q EXCEPT !.conn = g].conn = g
         /\ [q EXCEPT !.conn = g].pc = q.pc /\ [q EXCEPT !.conn = g].u = q.u
  BY Zenon DEF RequestOf

(* The fields of a request.                                                  *)
LEMMA RequestShape ==
  ASSUME NEW r \in RequestRec
  PROVE  /\ r.pc \in UserPc => r.u \in User
         /\ r.pc \in UserPc \cup RoomPc /\ r.u \in UserOrNone
         /\ r.conn \in Conn \cup {None} /\ r.t \in 0 .. MaxTable
         /\ r.c \in 0 .. MaxChair /\ r.svc \in Service \cup {None}
         /\ r.ob \in BOOLEAN /\ r.cand \in SUBSET TableId
  BY DEF RequestRec, RequestOf, UserPc, RoomPc, UserOrNone

(* The calls gamemgr makes are messages a table has a handler for.           *)
LEMMA CallType ==
  /\ \A op \in UserOp, u \in User, c \in 0 .. MaxChair, t \in 0 .. MaxTable, rich \in BOOLEAN :
       Call(op, u, c, t, rich) \in TabMsg
  /\ \A op \in UserOp, u \in User, c \in 0 .. MaxChair : Plain(op, u, c) \in TabMsg
  /\ \A op \in RoomOp : Plain(op, None, 0) \in TabMsg
  /\ \A t \in 0 .. MaxTable : Call("start", None, 0, t, TRUE) \in TabMsg
  BY DEF Call, Plain, TabMsg, ReqMsg, UserOp, RoomOp

(* A player's record, known or not.                                        *)
LEMMA RecordType ==
  ASSUME MgrTypeOK, NEW u \in User
  PROVE  /\ online[u].tid \in 0 .. MaxTable /\ online[u].chair \in 0 .. MaxChair
         /\ online[u].rich \in BOOLEAN
         /\ u \in InRoom => online[u] \in UserRec
  <1>1. online[u] \in UserRec \cup {NoRec}
    BY DEF MgrTypeOK
  <1>2. CASE online[u] \in UserRec
    BY <1>2 DEF UserRec
  <1>3. CASE online[u] = NoRec
    BY <1>3 DEF NoRec, InRoom
  <1>4. QED
    BY <1>1, <1>2, <1>3 DEF InRoom

(* The request goes on without touching what is being created or removed.  *)
Proceeds ==
  /\ toTab' \in [Service -> Seq(TabMsg)]
  /\ req' \in RequestRec
  /\ req'.pc \notin {"db", "start", "info", "clean"}

(* A request that ends goes on in this sense.                                *)
LEMMA DoneProceeds ==
  ASSUME ChanTypeOK, Done
  PROVE  Proceeds
  BY RequestType DEF Done, Proceeds, ChanTypeOK

(* So does one that calls a table, or fails on a table that is gone.         *)
LEMMA CallProceeds ==
  ASSUME ChanTypeOK, NEW t, NEW msg \in TabMsg, NEW next \in RequestRec,
         gt \in [TableId -> Service \cup {None}],
         next.pc \notin {"db", "start", "info", "clean"},
         CallOrFail(t, msg, next)
  PROVE  Proceeds
  <1>1. CASE t \in Live /\ CallTable(gt[t], msg) /\ req' = next
    <2>1. gt[t] \in Service
      BY <1>1 DEF Live
    <2>2. QED
      BY <1>1, <2>1, SendType DEF CallTable, Proceeds
  <1>2. CASE Done
    BY <1>2, DoneProceeds
  <1>3. QED
    BY <1>1, <1>2 DEF CallOrFail

(* A step that maps to a step of TablePool, or to none.                    *)
PoolStep == Pool!Next \/ UNCHANGED Place

(* Nothing is opened or closed: no service changes its place.                *)
LEMMA SamePlace ==
  ASSUME UNCHANGED <<gt, pool, born>>,
         UNCHANGED req \/ (req.pc # "start" /\ req'.pc # "start")
  PROVE  PoolStep
  <1>1. \A s : (req'.pc = "start" /\ req'.svc = s) = (req.pc = "start" /\ req.svc = s)
    OBVIOUS
  <1>2. UNCHANGED Place
    BY <1>1 DEF Place, Starting
  <1>3. QED
    BY <1>2 DEF PoolStep

(* The same, with the partition of ids and services.                         *)
LEMMA SameResources ==
  ASSUME ResourcePartition, UNCHANGED <<gt, free, pool, born>>,
         req.pc # "start", req'.pc # "start"
  PROVE  ResourcePartition' /\ PoolStep
  BY SamePlace DEF ResourcePartition, Live, Starting

(* Nobody enters, leaves or moves: the indexes stay as they are.             *)
LEMMA SameConns ==
  ASSUME ConnIndex, UNCHANGED <<online, byfd>>
  PROVE  ConnIndex'
  BY DEF ConnIndex, InRoom

(* A step of the manager that only makes its request go on.                  *)
LEMMA QuietStep ==
  ASSUME MgrInv, req.pc # "start", Proceeds,
         UNCHANGED <<cur, online, byfd, gt, isplaying, free, pool, born, dels>>,
         up' \subseteq Conn, toMgr' \in [Service -> Seq(MgrMsg)]
  PROVE  MgrInv' /\ PoolStep
  <1>1. ResourcePartition' /\ PoolStep /\ ConnIndex'
    BY SameResources, SameConns DEF MgrInv, Proceeds
  <1>2. RequestHolds'
    BY DEF Proceeds, RequestHolds
  <1>3. ChanTypeOK' /\ MgrTypeOK'
    BY DEF MgrInv, Proceeds, ChanTypeOK, MgrTypeOK
  <1>4. QED
    BY <1>1, <1>2, <1>3 DEF MgrInv

(* What is known when a table's answer is taken.                             *)
LEMMA AnswerType ==
  ASSUME ChanTypeOK, NEW pc, NEW ok, NEW val, Answer(pc, ok, val)
  PROVE  /\ cur = Idle /\ UNCHANGED cur /\ req.pc = pc
         /\ toMgr' \in [Service -> Seq(MgrMsg)]
         /\ ok \in BOOLEAN /\ val \in 0 .. MaxChair
  <1>1. PICK s \in Service :
          /\ toMgr[s] # <<>> /\ Head(toMgr[s]).k = "ret"
          /\ ok = Head(toMgr[s]).ok /\ val = Head(toMgr[s]).val
          /\ toMgr' = [toMgr EXCEPT ![s] = Tail(@)]
    BY DEF Answer
  <1>2. Head(toMgr[s]) \in MgrMsg /\ Tail(toMgr[s]) \in Seq(MgrMsg)
    BY <1>1 DEF ChanTypeOK
  <1>3. Head(toMgr[s]) \in ReturnMsg
    BY <1>1, <1>2 DEF MgrMsg, EventMsg, StatusMsg, TableMsg, ScoreMsg, RecordMsg
  <1>4. QED
    BY <1>1, <1>2, <1>3 DEF Answer, ReturnMsg, ChanTypeOK

(* The last line of request_sitdown (gamemgr.lua:699).                       *)
LEMMA SitDownProceeds ==
  ASSUME MgrInv, NEW t, NEW u \in User, NEW c \in 0 .. MaxChair, SitDown(t, u, c)
  PROVE  Proceeds
  <1>1. Call("user_sitdown", u, c, online[u].tid, online[u].rich) \in TabMsg
    BY RecordType, CallType DEF MgrInv, UserOp
  <1>2. Await("last", u) \in RequestRec /\ Await("last", u).pc = "last"
    BY RequestType DEF RoomPc, UserOrNone
  <1>3. QED
    BY <1>1, <1>2, CallProceeds DEF SitDown, MgrInv, MgrTypeOK

(* Asking one more table for a seat (gamemgr.lua:612-637).                   *)
LEMMA TryProceeds ==
  ASSUME MgrInv, NEW r \in RequestRec, r.u \in User, NEW eligible \in SUBSET Live,
         NEW pc \in {"try", "change"}, TryTable(r, eligible, pc)
  PROVE  Proceeds
  <1>1. PICK t \in r.cand \cap eligible, skipped \in SUBSET (r.cand \ eligible) :
          /\ CallTable(gt[t], Plain("get_can_sit_chairid", None, 0))
          /\ req' = [r EXCEPT !.pc = pc, !.t = t, !.cand = (@ \ {t}) \ skipped]
    BY DEF TryTable
  <1>2. gt[t] \in Service
    BY DEF MgrInv, MgrTypeOK, Live
  <1>3. toTab' \in [Service -> Seq(TabMsg)]
    BY <1>1, <1>2, CallType, SendType DEF CallTable, MgrInv, RoomOp
  <1>4. t \in 0 .. MaxTable /\ pc \in UserPc
    <2>1. t \in TableId
      BY DEF Live
    <2>2. QED
      BY <2>1 DEF TableId, UserPc
  <1>5. req'.pc = pc /\ req' \in RequestRec
    <2> DEFINE cand == (r.cand \ {t}) \ skipped
    <2>1. cand \in SUBSET TableId
      BY RequestShape
    <2>2. \A S \in SUBSET TableId : [r EXCEPT !.pc = pc, !.t = t, !.cand = S] \in RequestOf(UserPc, User)
      BY <1>4, Zenon DEF RequestRec, RequestOf
    <2>3. QED
      BY <1>1, <2>1, <2>2 DEF RequestRec, RequestOf
  <1>6. QED
    BY <1>3, <1>5 DEF Proceeds

(* Where the services are, and which tables are in use.                    *)
LEMMA Chosen ==
  ASSUME NEW f, NEW r, NEW v \in TableId, f[v] = r, \A w \in TableId : f[w] = r => w = v
  PROVE  (CHOOSE t \in TableId : f[t] = r) = v
  OBVIOUS

(* Where a service is, from the manager's variables.                         *)
LEMMA PlaceType ==
  ASSUME MgrInv, NEW s \in Service
  PROVE  /\ s \in pool => Place[s] = 0
         /\ s \notin born => Place[s] = -1
         /\ Starting(s) => Place[s] = req.t /\ req.t \in TableId \ Live /\ s \in born \ pool
         /\ \A t \in Live : gt[t] = s => Place[s] = t /\ s \in born \ pool
         /\ s \in pool \/ s \notin born \/ Starting(s) \/ \E t \in Live : gt[t] = s
  <1>1. ASSUME NEW t \in Live, gt[t] = s
        PROVE  (CHOOSE v \in TableId : gt[v] = s) = t /\ s \in born \ pool /\ ~Starting(s)
    <2>1. t \in TableId /\ \A w \in TableId : gt[w] = s => w = t
      BY <1>1 DEF MgrInv, ResourcePartition, Live
    <2>2. s \in born \ pool /\ ~Starting(s)
      BY <1>1 DEF MgrInv, ResourcePartition
    <2>3. QED
      BY <1>1, <2>1, <2>2, Chosen
  <1>2. \A t \in Live : gt[t] = s => Place[s] = t /\ s \in born \ pool
    BY <1>1 DEF Place
  <1>3. s \in pool => s \in born
    BY DEF MgrInv, ResourcePartition
  <1>4. (s \in pool => Place[s] = 0) /\ (s \notin born => Place[s] = -1)
    BY <1>3 DEF Place
  <1>5. Starting(s) => Place[s] = req.t /\ req.t \in TableId \ Live /\ s \in born \ pool
    BY DEF Place, MgrInv, ResourcePartition, Starting
  <1>6. s \in pool \/ s \notin born \/ Starting(s) \/ \E t \in Live : gt[t] = s
    BY DEF MgrInv, ResourcePartition
  <1>7. QED
    BY <1>2, <1>4, <1>5, <1>6

(* With no table being opened, the ids in use are the live tables.           *)
LEMMA PlaceInUse ==
  ASSUME MgrInv, req.pc # "start"
  PROVE  Pool!InUse = Live
  <1>1. Pool!InUse = {Place[s] : s \in Service} \cap TableId
    BY DEF Pool!InUse, TableId
  <1>2. ASSUME NEW t \in Live PROVE t \in Pool!InUse
    <2>1. t \in TableId /\ gt[t] \in Service /\ Place[gt[t]] = t
      BY PlaceType DEF Live, MgrInv, MgrTypeOK
    <2>2. QED
      BY <1>1, <2>1
  <1>3. ASSUME NEW s \in Service, Place[s] \in TableId PROVE Place[s] \in Live
    <2>1. Place[s] # 0 /\ Place[s] # -1
      BY <1>3 DEF TableId
    <2>2. PICK t \in Live : gt[t] = s
      BY <2>1, PlaceType DEF Starting
    <2>3. QED
      BY <2>2, PlaceType
  <1>4. QED
    BY <1>1, <1>2, <1>3

(* Place is a function on the services, for extensionality.                  *)
LEMMA PlaceIsFunction ==
  Place = [s \in Service |-> Place[s]] /\ Place' = [s \in Service |-> Place'[s]]
  BY DEF Place

(* Opening a table: TablePool's Open, or nothing (gamemgr.lua:640-673).      *)
LEMMA CreateStep ==
  ASSUME MgrInv, req.pc # "start", NEW r \in RequestRec, r.u \in User,
         CreateTable(r), UNCHANGED gt
  PROVE  /\ toTab' \in [Service -> Seq(TabMsg)] /\ req' \in RequestRec
         /\ req'.pc \notin {"db", "info", "clean"}
         /\ free' \subseteq TableId /\ pool' \subseteq Service /\ born' \subseteq Service
         /\ ResourcePartition' /\ PoolStep
  <1>1. CASE Done /\ UNCHANGED <<free, pool, born>>
    BY <1>1, DoneProceeds, SameResources DEF MgrInv, MgrTypeOK, Proceeds
  <1>2. ASSUME NEW t, NEW s, t = NextId, free # {}, free' = free \ {t},
               s \in IF pool # {} THEN pool ELSE Service \ born,
               pool' = pool \ {s}, born' = born \cup {s},
               req' = [r EXCEPT !.pc = "start", !.t = t, !.svc = s],
               CallTable(s, Call("start", None, 0, t, TRUE))
        PROVE  /\ toTab' \in [Service -> Seq(TabMsg)] /\ req' \in RequestRec
               /\ req'.pc \notin {"db", "info", "clean"}
               /\ free' \subseteq TableId /\ pool' \subseteq Service /\ born' \subseteq Service
               /\ ResourcePartition' /\ PoolStep
    <2>1. t \in free
      <3>1. free \in SUBSET Nat
        BY DEF MgrInv, MgrTypeOK, TableId
      <3>2. \E x \in free : \A y \in free : x <= y
        BY <1>2, <3>1, LeastExists
      <3>3. QED
        BY <1>2, <3>2 DEF NextId, Min
    <2>2. t \in TableId /\ t \in 0 .. MaxTable
      BY <2>1 DEF MgrInv, MgrTypeOK, TableId
    <2>3. s \in Service /\ s \notin pool' /\ s \in born'
      BY <1>2 DEF MgrInv, MgrTypeOK
    <2>4. Call("start", None, 0, t, TRUE) \in TabMsg
      BY <2>2, CallType
    <2>5. toTab' \in [Service -> Seq(TabMsg)]
      BY <1>2, <2>3, <2>4, SendType DEF CallTable, MgrInv
    <2>6. req' \in RequestOf(UserPc, User)
      BY <1>2, <2>2, <2>3, Zenon DEF RequestRec, RequestOf, UserPc
    <2>7. req'.pc = "start" /\ req'.t = t /\ req'.svc = s
      BY <1>2, RequestShape DEF RequestRec, RequestOf
    <2>8. \A u \in Live : gt[u] # s /\ gt[u] \in born \ pool
      BY <1>2 DEF MgrInv, ResourcePartition
    <2>9. \A u \in TableId : (u \in free) = (u \notin Live)
      BY DEF MgrInv, ResourcePartition
    <2>10. Live' = Live
      BY DEF Live
    <2>11. ResourcePartition'
      <3>1. \A u \in TableId : (u \in free') = (u \notin Live' /\ ~(req'.pc = "start" /\ req'.t = u))
        BY <1>2, <2>1, <2>7, <2>9, <2>10
      <3>2. \A u \in Live' : gt'[u] \in born' \ pool' /\ ~Starting(gt[u])'
        BY <1>2, <2>7, <2>8, <2>10 DEF Starting
      <3>3. \A t1, t2 \in Live' : gt'[t1] = gt'[t2] => t1 = t2
        BY <2>10 DEF MgrInv, ResourcePartition
      <3>4. pool' \subseteq born'
        BY <1>2 DEF MgrInv, ResourcePartition
      <3>5. req'.t \in TableId \ Live' /\ req'.svc \in born' \ pool'
        BY <2>1, <2>2, <2>3, <2>7, <2>9, <2>10
      <3>6. \A s1 \in born' \ pool' : Starting(s1)' \/ \E u \in Live' : gt'[u] = s1
        <4>1. ASSUME NEW s1 \in born' \ pool', s1 # s
              PROVE  \E u \in Live' : gt'[u] = s1
          BY <1>2, <2>10, <4>1 DEF MgrInv, ResourcePartition, Starting
        <4>2. QED
          BY <2>7, <4>1 DEF Starting
      <3>7. QED
        BY <2>7, <3>1, <3>2, <3>3, <3>4, <3>5, <3>6 DEF ResourcePartition
    <2>12. PoolStep
      <3>1. \A r1 \in Service : r1 # s => Place'[r1] = Place[r1]
        <4>1. \A r1 \in Service : r1 # s => ~Starting(r1)' /\ ~Starting(r1)
          BY <2>7 DEF Starting
        <4>2. QED
          BY <1>2, <4>1 DEF Place
      <3>2. Place' = [Place EXCEPT ![s] = t]
        <4>1. Place'[s] = t
          BY <1>2, <2>3, <2>7 DEF Place, Starting
        <4>2. QED
          BY <2>3, <3>1, <4>1, PlaceIsFunction
      <3>3. Pool!InUse = Live
        BY PlaceInUse DEF MgrInv
      <3>4. t \in TableId \ Live /\ \A i \in TableId \ Live : t <= i
        <4>1. \A i \in free : t <= i
          <5>1. free \in SUBSET Nat
            BY DEF MgrInv, MgrTypeOK, TableId
          <5>2. \E x \in free : \A y \in free : x <= y
            BY <1>2, <5>1, LeastExists
          <5>3. QED
            BY <1>2, <5>2 DEF NextId, Min
        <4>2. QED
          BY <2>1, <2>2, <2>9, <4>1
      <3>5. Place[s] = 0 \/ (Place[s] = -1 /\ \A r1 \in Service : Place[r1] # 0)
        <4>1. CASE pool # {}
          BY <1>2, <2>3, <4>1, PlaceType
        <4>2. CASE pool = {}
          <5>1. s \notin born
            BY <1>2, <4>2
          <5>2. ASSUME NEW r1 \in Service PROVE Place[r1] # 0
            BY <4>2, PlaceType DEF Live, TableId
          <5>3. QED
            BY <2>3, <5>1, <5>2, PlaceType
        <4>3. QED
          BY <4>1, <4>2
      <3>6. Pool!Open(s, t)
        BY <3>2, <3>3, <3>4, <3>5 DEF Pool!Open, Pool!InPool, Pool!Unborn, TableId
      <3>7. QED
        BY <2>2, <2>3, <3>6 DEF PoolStep, Pool!Next, TableId
    <2>13. QED
      BY <1>2, <2>3, <2>5, <2>6, <2>7, <2>11, <2>12 DEF MgrInv, MgrTypeOK, RequestRec
  <1>3. QED
    BY <1>1, <1>2 DEF CreateTable

(* What the steps that choose a seat, and may open a table, all do.        *)
LEMMA SeatStep ==
  ASSUME MgrInv, req.pc # "start",
         \/ Proceeds /\ UNCHANGED <<free, pool, born>>
         \/ \E r \in RequestRec : r.u \in User /\ CreateTable(r),
         UNCHANGED <<cur, online, byfd, gt, isplaying, dels, up>>,
         toMgr' \in [Service -> Seq(MgrMsg)]
  PROVE  MgrInv' /\ PoolStep
  <1>1. CASE Proceeds /\ UNCHANGED <<free, pool, born>>
    BY <1>1, QuietStep DEF MgrInv, MgrTypeOK
  <1>2. CASE \E r \in RequestRec : r.u \in User /\ CreateTable(r)
    <2>1. /\ toTab' \in [Service -> Seq(TabMsg)] /\ req' \in RequestRec
          /\ req'.pc \notin {"db", "info", "clean"}
          /\ free' \subseteq TableId /\ pool' \subseteq Service /\ born' \subseteq Service
          /\ ResourcePartition' /\ PoolStep
      BY <1>2, CreateStep
    <2>2. ConnIndex' /\ RequestHolds'
      BY <2>1, SameConns DEF MgrInv, RequestHolds
    <2>3. ChanTypeOK' /\ MgrTypeOK'
      BY <2>1 DEF MgrInv, ChanTypeOK, MgrTypeOK
    <2>4. QED
      BY <2>1, <2>2, <2>3 DEF MgrInv
  <1>3. QED
    BY <1>1, <1>2

(* Only live tables are asked for a seat.                                    *)
LEMMA JoinableLive == Joinable \in SUBSET Live
  BY DEF Joinable

(* Going through the tables and creating one if none has a seat.             *)
LEMMA PickStep ==
  ASSUME MgrInv, NEW r \in RequestRec, r.u \in User, PickTable(r)
  PROVE  \/ Proceeds /\ UNCHANGED <<free, pool, born>>
         \/ CreateTable(r)
  BY JoinableLive, TryProceeds DEF PickTable

(* The choice of a table and a chair in request_sitdown.                     *)
LEMMA ChooseStep ==
  ASSUME MgrInv, NEW u \in User, NEW t \in 0 .. MaxTable, NEW c \in 0 .. MaxChair,
         ChooseSeat(u, t, c)
  PROVE  \/ Proceeds /\ UNCHANGED <<free, pool, born>>
         \/ \E r \in RequestRec : r.u \in User /\ CreateTable(r)
  <1> DEFINE r == [Request0 EXCEPT !.u = u, !.t = t, !.c = c, !.cand = Live]
  <1>1. Request0 \in RequestOf(RoomPc, UserOrNone) /\ Live \in SUBSET TableId
    BY DEF Request0, Await, RequestOf, RoomPc, UserOrNone, Live
  <1>9. r \in RequestOf(RoomPc, User) /\ r.u = u
    <2>1. \A q \in RequestOf(RoomPc, UserOrNone), S \in SUBSET TableId :
            /\ [q EXCEPT !.u = u, !.t = t, !.c = c, !.cand = S] \in RequestOf(RoomPc, User)
            /\ [q EXCEPT !.u = u, !.t = t, !.c = c, !.cand = S].u = u
      BY Zenon DEF RequestOf
    <2>2. QED
      BY <1>1, <2>1
  <1> HIDE DEF r
  <1>2. r \in RequestRec /\ r.u = u
    BY <1>9 DEF RequestRec, RequestOf, UserOrNone
  <1>3. CASE PickTable(r)
    BY <1>2, <1>3, PickStep
  <1>4. CASE t \in Joinable /\ CallTable(gt[t], Plain("get_can_sit_chairid", None, 0))
             /\ req' = [r EXCEPT !.pc = "trychair"] /\ UNCHANGED <<free, pool, born>>
    <2>1. gt[t] \in Service
      BY <1>4, JoinableLive DEF MgrInv, MgrTypeOK, Live
    <2>2. toTab' \in [Service -> Seq(TabMsg)]
      BY <1>4, <2>1, CallType, SendType DEF CallTable, MgrInv, RoomOp
    <2>3. req' \in RequestOf(UserPc, User) /\ req'.pc = "trychair"
      <3>1. "trychair" \in UserPc
        BY DEF UserPc
      <3>2. QED
        BY <1>4, <1>9, <3>1, RequestPc
    <2>4. req' \in RequestRec /\ req'.pc = "trychair"
      BY <2>3 DEF RequestRec
    <2>5. QED
      BY <1>4, <2>2, <2>4 DEF Proceeds
  <1>5. CASE Done /\ UNCHANGED <<free, pool, born>>
    BY <1>5, DoneProceeds DEF MgrInv
  <1>6. CASE SitDown(t, u, c) /\ UNCHANGED <<free, pool, born>>
    BY <1>6, SitDownProceeds
  <1>7. QED
    BY <1>3, <1>4, <1>5, <1>6 DEF ChooseSeat, r

-----------------------------------------------------------------------------
(* A request comes from a player who is in the room.                         *)
LEMMA FromFacts ==
  ASSUME MgrInv, NEW g, NEW u, From(g, u)
  PROVE  /\ req.pc = "idle" /\ UNCHANGED <<cur, toMgr>> /\ g \in up
         /\ g \in Conn /\ u = byfd[g] /\ u \in User /\ u \in InRoom /\ online[u].conn = g
         /\ online[u] \in UserRec
  <1>1. /\ req.pc = "idle" /\ UNCHANGED <<cur, toMgr>> /\ g \in up
        /\ g \in Conn /\ u = byfd[g] /\ u # None
    BY DEF From, Enter, MgrInv, MgrTypeOK
  <1>2. u \in InRoom /\ online[u].conn = g
    BY <1>1 DEF MgrInv, ConnIndex
  <1>3. QED
    BY <1>1, <1>2, RecordType DEF MgrInv, InRoom

(* request_sitdown (gamemgr.lua:564-700).                                    *)
LEMMA SitStep ==
  ASSUME MgrInv, NEW g \in Conn, NEW t \in 0 .. MaxTable, NEW c \in 0 .. MaxChair,
         request_sitdown(g, t, c)
  PROVE  MgrInv' /\ PoolStep
  <1>1. PICK u \in User :
          /\ From(g, u)
          /\ \/ /\ CallOrFail(online[u].tid, Plain("update_user_conn", u, online[u].chair),
                              Await("last", u))
                /\ UNCHANGED <<free, pool, born>>
             \/ /\ CallOrFail(online[u].tid, Plain("user_standup", u, online[u].chair),
                              [Await("left", u) EXCEPT !.t = t, !.c = c])
                /\ UNCHANGED <<free, pool, born>>
             \/ ChooseSeat(u, t, c)
    BY DEF request_sitdown
  <1>2. /\ Plain("update_user_conn", u, online[u].chair) \in TabMsg
        /\ Plain("user_standup", u, online[u].chair) \in TabMsg
    BY RecordType, CallType DEF MgrInv, UserOp
  <1>3. Await("last", u) \in RequestRec /\ Await("last", u).pc = "last"
    BY RequestType DEF RoomPc, UserOrNone
  <1>4. Await("left", u) \in RequestOf(UserPc, User) /\ Await("left", u).pc = "left"
    BY DEF Await, RequestOf, UserPc
  <1>5. /\ [Await("left", u) EXCEPT !.t = t, !.c = c] \in RequestRec
        /\ [Await("left", u) EXCEPT !.t = t, !.c = c].pc = "left"
    <2>1. \A q \in RequestOf(UserPc, User) :
            /\ [q EXCEPT !.t = t, !.c = c] \in RequestOf(UserPc, User)
            /\ [q EXCEPT !.t = t, !.c = c].pc = q.pc
      BY Zenon DEF RequestOf
    <2>2. QED
      BY <1>4, <2>1 DEF RequestRec
  <1>6. \/ Proceeds /\ UNCHANGED <<free, pool, born>>
        \/ \E r \in RequestRec : r.u \in User /\ CreateTable(r)
    BY <1>1, <1>2, <1>3, <1>5, CallProceeds, ChooseStep DEF MgrInv, MgrTypeOK
  <1>7. UNCHANGED <<online, byfd, gt, isplaying, dels, up>>
    BY DEF request_sitdown
  <1>8. /\ req.pc # "start" /\ UNCHANGED cur /\ toMgr' \in [Service -> Seq(MgrMsg)]
    BY <1>1, FromFacts DEF MgrInv, ChanTypeOK
  <1>9. QED
    BY <1>6, <1>7, <1>8, SeatStep

(* request_sitdown, once the old table or a tried one has answered.          *)
LEMMA LeftStep ==
  ASSUME MgrInv, NEW ok, NEW val, left_table(ok, val) \/ tried_table(ok, val)
  PROVE  MgrInv' /\ PoolStep
  <1>1. /\ UNCHANGED <<online, byfd, gt, isplaying, dels, up>>
        /\ \/ Answer("left", ok, val) \/ Answer("try", ok, val)
    BY DEF left_table, tried_table, sitRest, seatless
  <1>2. /\ UNCHANGED cur /\ toMgr' \in [Service -> Seq(MgrMsg)]
        /\ req.pc \in {"left", "try"} /\ val \in 0 .. MaxChair
    BY <1>1, AnswerType DEF MgrInv
  <1>3. req \in RequestRec /\ req.u \in User /\ req.t \in 0 .. MaxTable /\ req.c \in 0 .. MaxChair
    BY <1>2, RequestShape DEF MgrInv, MgrTypeOK, UserPc
  <1>4. CASE ChooseSeat(req.u, req.t, req.c)
    BY <1>1, <1>2, <1>3, <1>4, ChooseStep, SeatStep
  <1>5. CASE Done /\ UNCHANGED <<free, pool, born>>
    BY <1>1, <1>2, <1>5, DoneProceeds, SeatStep DEF MgrInv
  <1>6. CASE SitDown(req.t, req.u, val) /\ UNCHANGED <<free, pool, born>>
    BY <1>1, <1>2, <1>3, <1>6, SitDownProceeds, SeatStep
  <1>7. CASE PickTable(req)
    BY <1>1, <1>2, <1>3, <1>7, PickStep, SeatStep
  <1>8. QED
    BY <1>4, <1>5, <1>6, <1>7 DEF left_table, tried_table

(* The steps that only choose among known tables, or end the request.      *)
LEMMA KnownTableStep ==
  ASSUME MgrInv, NEW ok, NEW val,
         tried_chair(ok, val) \/ new_table_seat(ok, val) \/ found_other(ok, val)
         \/ finished(ok, val)
  PROVE  MgrInv' /\ PoolStep
  <1>1. PICK pc \in {"trychair", "new", "change", "last"} : Answer(pc, ok, val)
    BY DEF tried_chair, new_table_seat, found_other, finished
  <1>2. UNCHANGED <<online, byfd, gt, isplaying, dels, up, free, pool, born>>
    BY DEF tried_chair, new_table_seat, found_other, finished, sitRest, seatless
  <1>3. /\ UNCHANGED cur /\ toMgr' \in [Service -> Seq(MgrMsg)]
        /\ req.pc = pc /\ val \in 0 .. MaxChair
    BY <1>1, AnswerType DEF MgrInv
  <1>4. req \in RequestRec /\ (pc # "last" => req.u \in User)
    BY <1>3, RequestShape DEF MgrInv, MgrTypeOK, UserPc
  <1>5. Elsewhere(req) \in SUBSET Live
    BY DEF Elsewhere
  <1>6. Proceeds
    <2>1. CASE Done
      BY <2>1, DoneProceeds DEF MgrInv
    <2>2. CASE pc # "last" /\ SitDown(req.t, req.u, val)
      BY <1>3, <1>4, <2>2, SitDownProceeds
    <2>3. CASE pc # "last" /\ TryTable(req, Elsewhere(req), "change")
      BY <1>4, <1>5, <2>3, TryProceeds
    <2>4. CASE pc = "last"
      <3>1. finished(ok, val)
        BY <1>3, <2>4 DEF tried_chair, new_table_seat, found_other, finished, Answer
      <3>2. QED
        BY <2>1, <3>1 DEF finished
    <2>5. QED
      BY <1>3, <2>1, <2>2, <2>3, <2>4
         DEF tried_chair, new_table_seat, found_other, finished, SearchOther
  <1>7. req.pc # "start" /\ up' \subseteq Conn
    BY <1>2, <1>3 DEF MgrInv, MgrTypeOK
  <1>8. QED
    BY <1>2, <1>3, <1>6, <1>7, QuietStep

(* The requests of players at a table (gamemgr.lua:703-857).                 *)
LEMMA SeatedStep ==
  ASSUME MgrInv, NEW g \in Conn,
         \/ request_change_table(g)
         \/ \E ob \in BOOLEAN : request_standup(g, ob)
         \/ \E op \in SeatedOp : request_at_table(g, op)
  PROVE  MgrInv' /\ PoolStep
  <1>1. PICK u \in User : From(g, u)
    BY DEF request_change_table, request_standup, request_at_table
  <1>2. u = byfd[g] /\ req.pc = "idle" /\ UNCHANGED <<cur, toMgr>>
    BY <1>1, FromFacts
  <1>3. UNCHANGED <<online, byfd, gt, isplaying, dels, up, free, pool, born>>
    BY DEF request_change_table, request_standup, request_at_table, sitRest, seatless
  <1>4. Await("last", u) \in RequestRec /\ Await("last", u).pc = "last"
    BY RequestType DEF RoomPc, UserOrNone
  <1>5. \A op \in UserOp : Plain(op, u, online[u].chair) \in TabMsg
    BY RecordType, CallType DEF MgrInv
  <1>6. Proceeds
    <2>1. CASE request_change_table(g)
      <3> DEFINE r == [Request0 EXCEPT !.u = u, !.cand = Live]
      <3>1. SearchOther(r)
        BY <1>2, <2>1 DEF request_change_table, From
      <3>2. r \in RequestRec /\ r.u = u
        <4>1. Request0 \in RequestOf(RoomPc, UserOrNone) /\ Live \in SUBSET TableId
          BY DEF Request0, Await, RequestOf, RoomPc, UserOrNone, Live
        <4>2. \A q \in RequestOf(RoomPc, UserOrNone), S \in SUBSET TableId :
                /\ [q EXCEPT !.u = u, !.cand = S] \in RequestOf(RoomPc, User)
                /\ [q EXCEPT !.u = u, !.cand = S].u = u
          BY Zenon DEF RequestOf
        <4>3. r \in RequestOf(RoomPc, User) /\ r.u = u
          BY <4>1, <4>2
        <4>4. QED
          BY <4>3 DEF RequestRec, RequestOf, UserOrNone
      <3> HIDE DEF r
      <3>3. Elsewhere(r) \in SUBSET Live
        BY DEF Elsewhere
      <3>4. QED
        BY <3>1, <3>2, <3>3, TryProceeds, DoneProceeds DEF SearchOther, MgrInv
    <2>2. ASSUME NEW ob \in BOOLEAN, request_standup(g, ob)
          PROVE  Proceeds
      <3> DEFINE r == online[u]
                 next == [Await("stand", u) EXCEPT !.t = r.tid, !.c = r.chair, !.ob = ob]
      <3>1. \/ CallOrFail(r.tid, Plain("user_offline", u, r.chair), Await("last", u))
            \/ CallOrFail(r.tid, Plain("user_standup", u, r.chair), next)
        BY <1>2, <2>2 DEF request_standup, From
      <3>2. next \in RequestRec /\ next.pc = "stand"
        <4>1. Await("stand", u) \in RequestOf(UserPc, User) /\ Await("stand", u).pc = "stand"
          BY DEF Await, RequestOf, UserPc
        <4>2. r.tid \in 0 .. MaxTable /\ r.chair \in 0 .. MaxChair
          BY RecordType DEF MgrInv
        <4>3. \A q \in RequestOf(UserPc, User) :
                /\ [q EXCEPT !.t = r.tid, !.c = r.chair, !.ob = ob] \in RequestOf(UserPc, User)
                /\ [q EXCEPT !.t = r.tid, !.c = r.chair, !.ob = ob].pc = q.pc
          BY <4>2, Zenon DEF RequestOf
        <4>4. next \in RequestOf(UserPc, User) /\ next.pc = "stand"
          BY <4>1, <4>3
        <4>5. QED
          BY <4>4 DEF RequestRec
      <3> HIDE DEF next
      <3>3. Plain("user_offline", u, r.chair) \in TabMsg /\ Plain("user_standup", u, r.chair) \in TabMsg
        BY <1>5 DEF UserOp
      <3>4. QED
        BY <1>4, <3>1, <3>2, <3>3, CallProceeds DEF MgrInv, MgrTypeOK
    <2>3. ASSUME NEW op \in SeatedOp, request_at_table(g, op)
          PROVE  Proceeds
      <3>1. CallOrFail(online[u].tid, Plain(op, u, online[u].chair), Await("last", u))
        BY <1>2, <2>3 DEF request_at_table, From
      <3>2. Plain(op, u, online[u].chair) \in TabMsg
        BY <1>5 DEF SeatedOp, UserOp
      <3>3. QED
        BY <1>4, <3>1, <3>2, CallProceeds DEF MgrInv, MgrTypeOK
    <2>4. QED
      BY <2>1, <2>2, <2>3
  <1>7. up' \subseteq Conn /\ toMgr' \in [Service -> Seq(MgrMsg)]
    BY <1>2, <1>3 DEF MgrInv, MgrTypeOK, ChanTypeOK
  <1>8. QED
    BY <1>2, <1>3, <1>6, <1>7, QuietStep

(* request_standup, once the table has answered (gamemgr.lua:703-743).       *)
LEMMA StoodUpStep ==
  ASSUME MgrInv, NEW ok, NEW val, stood_up(ok, val)
  PROVE  MgrInv' /\ PoolStep
  <1>1. /\ UNCHANGED cur /\ toMgr' \in [Service -> Seq(MgrMsg)] /\ req.pc = "stand"
    BY AnswerType DEF stood_up, MgrInv
  <1>2. UNCHANGED <<online, byfd, gt, isplaying, dels, up, free, pool, born>>
    BY DEF stood_up, sitRest, seatless
  <1>3. req.u \in User /\ req.c \in 0 .. MaxChair
    BY <1>1, RequestShape DEF MgrInv, MgrTypeOK, UserPc
  <1>4. Call("user_sitdown_ob", req.u, req.c, 0, online[req.u].rich) \in TabMsg
    BY <1>3, RecordType, CallType DEF MgrInv, UserOp
  <1>5. Await("last", req.u) \in RequestRec /\ Await("last", req.u).pc = "last"
    BY <1>3, RequestType DEF RoomPc, UserOrNone
  <1>6. CASE Done
    BY <1>1, <1>2, <1>6, DoneProceeds, QuietStep DEF MgrInv, MgrTypeOK
  <1>7. CASE CallOrFail(req.t, Call("user_sitdown_ob", req.u, req.c, 0, online[req.u].rich),
                        Await("last", req.u))
    BY <1>1, <1>2, <1>4, <1>5, <1>7, CallProceeds, QuietStep DEF MgrInv, MgrTypeOK
  <1>8. QED
    BY <1>6, <1>7 DEF stood_up

(* The robots' stand-up timer (gamemgr.lua:182-194).                         *)
LEMMA RobotTimerStep ==
  ASSUME MgrInv, NEW s \in Service, robot_standup_timer(s)
  PROVE  MgrInv' /\ PoolStep
  <1>1. /\ req.pc = "idle" /\ UNCHANGED <<cur, toMgr>>
        /\ CallTable(s, Plain("robot_standup", None, 0)) /\ req' = Await("last", None)
    BY DEF robot_standup_timer, Enter
  <1>2. UNCHANGED <<online, byfd, gt, isplaying, dels, up, free, pool, born>>
    BY DEF robot_standup_timer, sitRest, seatless
  <1>3. Await("last", None) \in RequestRec /\ Await("last", None).pc = "last"
    BY RequestType DEF RoomPc, UserOrNone
  <1>4. Proceeds
    BY <1>1, <1>3, CallType, SendType DEF CallTable, Proceeds, RoomOp, MgrInv
  <1>5. QED
    BY <1>1, <1>2, <1>4, QuietStep DEF MgrInv, MgrTypeOK, ChanTypeOK
-----------------------------------------------------------------------------
(* The steps that change who is in the room.                               *)

(* request_enter_room: a new player, or a reconnection (gamemgr.lua:460-533).*)
LEMMA EnterStep ==
  ASSUME MgrInv, NEW g \in Conn, request_enter_room(g)
  PROVE  MgrInv' /\ PoolStep
  <1> DEFINE u == Owner[g]
             r == online[u]
  <1>1. /\ req.pc = "idle" /\ UNCHANGED <<cur, toMgr, gt, isplaying, free, pool, born, dels>>
        /\ up' \subseteq Conn /\ u \in User
    BY DEF request_enter_room, Enter, mgrRest, MgrInv, MgrTypeOK
  <1>2. CASE /\ r = NoRec /\ req' = [Await("db", u) EXCEPT !.conn = g]
             /\ UNCHANGED <<online, byfd, toTab>>
    <2>1. /\ Await("db", u) \in RequestOf(UserPc, User) /\ Await("db", u).pc = "db"
          /\ Await("db", u).u = u
      BY <1>1 DEF Await, RequestOf, UserPc
    <2>2. /\ req' \in RequestOf(UserPc, User) /\ req'.pc = "db" /\ req'.u = u
          /\ req'.conn = g
      BY <1>2, <2>1, RequestConn
    <2>3. req' \in RequestRec
      BY <2>2 DEF RequestRec
    <2>4. ResourcePartition' /\ PoolStep /\ ConnIndex'
      BY <1>1, <1>2, <2>2, SameResources, SameConns DEF MgrInv
    <2>5. RequestHolds'
      BY <1>2, <2>2 DEF RequestHolds
    <2>6. ChanTypeOK' /\ MgrTypeOK'
      BY <1>1, <1>2, <2>3 DEF MgrInv, ChanTypeOK, MgrTypeOK
    <2>7. QED
      BY <2>4, <2>5, <2>6 DEF MgrInv
  <1>3. CASE /\ r # NoRec
             /\ byfd' = Rebound(r.conn, g)
             /\ online' = [online EXCEPT ![u] =
                  [r EXCEPT !.conn = g, !.st = IF r.tid = 0 THEN "FREE" ELSE @]]
             /\ \/ r.tid = 0 /\ Done
                \/ /\ r.tid # 0
                   /\ CallOrFail(r.tid, Plain("update_user_conn", u, r.chair),
                                 Await("last", u))
    <2> DEFINE new == [r EXCEPT !.conn = g, !.st = IF r.tid = 0 THEN "FREE" ELSE @]
    <2>1. r \in UserRec /\ u \in InRoom
      BY <1>1, <1>3, RecordType DEF MgrInv, InRoom
    <2>2. new \in UserRec /\ new.conn = g
      <3>1. \A q \in UserRec, st \in Status :
              [q EXCEPT !.conn = g, !.st = st] \in UserRec
              /\ [q EXCEPT !.conn = g, !.st = st].conn = g
        BY Zenon DEF UserRec
      <3>2. (IF r.tid = 0 THEN "FREE" ELSE r.st) \in Status
        BY <2>1 DEF UserRec, Status
      <3>3. new = [r EXCEPT !.conn = g, !.st = (IF r.tid = 0 THEN "FREE" ELSE r.st)]
        OBVIOUS
      <3>4. QED
        BY <2>1, <3>1, <3>2, <3>3
    <2> HIDE DEF new
    <2>3. online' = [online EXCEPT ![u] = new]
      BY <1>3 DEF new
    <2>4. online' \in [User -> UserRec \cup {NoRec}] /\ byfd' \in [Conn -> UserOrNone]
      BY <1>1, <1>3, <2>2, <2>3 DEF MgrInv, MgrTypeOK, UserOrNone, Rebound
    <2>5. Proceeds
      <3>1. Plain("update_user_conn", u, r.chair) \in TabMsg
        BY <1>1, RecordType, CallType DEF MgrInv, UserOp
      <3>2. Await("last", u) \in RequestRec /\ Await("last", u).pc = "last"
        BY <1>1, RequestType DEF RoomPc, UserOrNone
      <3>3. QED
        BY <1>3, <3>1, <3>2, CallProceeds, DoneProceeds DEF MgrInv, MgrTypeOK
    <2>6. ChanTypeOK' /\ MgrTypeOK'
      BY <1>1, <2>4, <2>5 DEF Proceeds, MgrInv, ChanTypeOK, MgrTypeOK
    <2>7. ResourcePartition' /\ PoolStep /\ RequestHolds'
      BY <1>1, <2>5, SameResources DEF MgrInv, Proceeds, RequestHolds
    <2>8. ConnIndex'
      <3>1. InRoom' = InRoom
        <4>1. new # NoRec
          BY <2>2 DEF NoRec
        <4>2. QED
          BY <1>1, <2>1, <2>3, <4>1 DEF InRoom, MgrInv, MgrTypeOK
      <3>2. \A h \in Conn : byfd[h] = u => h = r.conn
        BY <2>1 DEF MgrInv, ConnIndex
      <3>3. \A h \in Conn : byfd'[h] = IF h = g THEN u ELSE IF h = r.conn THEN None ELSE byfd[h]
        BY <1>3 DEF MgrInv, MgrTypeOK, Rebound
      <3>4. \A v \in User : online'[v] = IF v = u THEN new ELSE online[v]
        BY <1>1, <2>3 DEF MgrInv, MgrTypeOK
      <3>5. \A h \in Conn : byfd[h] \in {None, Owner[h]}
        BY DEF MgrInv, ConnIndex
      <3>6. ASSUME NEW v \in InRoom PROVE byfd'[online'[v].conn] = v
        <4>1. CASE v = u
          BY <1>1, <2>2, <3>3, <3>4, <4>1
        <4>2. CASE v # u
          <5>1. v \in User /\ online[v] \in UserRec /\ online[v].conn \in Conn
            BY RecordType DEF MgrInv, InRoom, UserRec
          <5>2. byfd[online[v].conn] = v /\ byfd[r.conn] = u
            BY <2>1 DEF MgrInv, ConnIndex
          <5>3. online[v].conn # r.conn /\ online[v].conn # g
            BY <3>5, <4>2, <5>1, <5>2
          <5>4. QED
            BY <3>3, <3>4, <4>2, <5>1, <5>2, <5>3
        <4>3. QED
          BY <4>1, <4>2
      <3>7. ASSUME NEW h \in Conn, byfd'[h] # None
            PROVE  byfd'[h] \in InRoom /\ online'[byfd'[h]].conn = h
        <4>1. CASE h = g
          BY <1>1, <2>1, <2>2, <3>3, <3>4, <4>1
        <4>2. CASE h # g
          <5>1. byfd'[h] = byfd[h] /\ byfd[h] # None /\ byfd[h] # u
            BY <3>2, <3>3, <3>7, <4>2
          <5>2. byfd[h] \in InRoom /\ online[byfd[h]].conn = h /\ byfd[h] \in User
            BY <5>1 DEF MgrInv, ConnIndex, InRoom
          <5>3. QED
            BY <3>4, <5>1, <5>2
        <4>3. QED
          BY <4>1, <4>2
      <3>8. \A h \in Conn : byfd'[h] \in {None, Owner[h]}
        BY <3>3, <3>5
      <3>9. QED
        BY <3>1, <3>6, <3>7, <3>8 DEF ConnIndex
    <2>9. QED
      BY <2>6, <2>7, <2>8 DEF MgrInv
  <1>4. QED
    BY <1>2, <1>3 DEF request_enter_room

(* The database has answered (gamemgr.lua:478-517).                          *)
LEMMA EnteredStep ==
  ASSUME MgrInv, entered_room
  PROVE  MgrInv' /\ PoolStep
  <1>1. /\ req.pc = "db" /\ Done
        /\ UNCHANGED <<cur, toMgr, gt, up, isplaying, free, pool, born, dels>>
    BY DEF entered_room, mgrRest
  <1>2. Proceeds
    BY <1>1, DoneProceeds DEF MgrInv
  <1>3. CASE UNCHANGED <<online, byfd>>
    BY <1>1, <1>2, <1>3, QuietStep DEF MgrInv, MgrTypeOK, ChanTypeOK
  <1>4. CASE /\ online' = [online EXCEPT ![req.u] =
                  [conn |-> req.conn, st |-> "FREE", tid |-> 0, chair |-> 0, rich |-> TRUE]]
             /\ byfd' = [byfd EXCEPT ![req.conn] = req.u]
    <2> DEFINE new == [conn |-> req.conn, st |-> "FREE", tid |-> 0, chair |-> 0, rich |-> TRUE]
               g == req.conn
               u == req.u
    <2>1. g \in Conn /\ Owner[g] = u /\ online[u] = NoRec /\ u \in User
      BY <1>1 DEF MgrInv, RequestHolds
    <2>2. new \in UserRec /\ new.conn = g /\ new # NoRec
      BY <2>1 DEF UserRec, NoRec, Status
    <2>3. online' = [online EXCEPT ![u] = new] /\ byfd' = [byfd EXCEPT ![g] = u]
      BY <1>4
    <2> HIDE DEF new, g, u
    <2>4. online' \in [User -> UserRec \cup {NoRec}] /\ byfd' \in [Conn -> UserOrNone]
      BY <2>1, <2>2, <2>3 DEF MgrInv, MgrTypeOK, UserOrNone
    <2>5. ChanTypeOK' /\ MgrTypeOK'
      BY <1>1, <1>2, <2>4 DEF Proceeds, MgrInv, ChanTypeOK, MgrTypeOK
    <2>6. ResourcePartition' /\ PoolStep /\ RequestHolds'
      BY <1>1, <1>2, SameResources DEF MgrInv, Proceeds, RequestHolds
    <2>7. ConnIndex'
      <3>1. InRoom' = InRoom \cup {u} /\ u \notin InRoom
        BY <2>1, <2>2, <2>3 DEF InRoom, MgrInv, MgrTypeOK
      <3>2. \A h \in Conn : byfd'[h] = IF h = g THEN u ELSE byfd[h]
        BY <2>3 DEF MgrInv, MgrTypeOK
      <3>3. \A v \in User : online'[v] = IF v = u THEN new ELSE online[v]
        BY <2>3 DEF MgrInv, MgrTypeOK
      <3>4. ASSUME NEW v \in InRoom PROVE byfd'[online'[v].conn] = v
        <4>1. v \in User /\ online[v] \in UserRec /\ online[v].conn \in Conn /\ v # u
          BY <3>1, RecordType DEF MgrInv, InRoom, UserRec
        <4>2. byfd[online[v].conn] = v
          BY DEF MgrInv, ConnIndex
        <4>3. online[v].conn # g
          BY <2>1, <4>1, <4>2 DEF MgrInv, ConnIndex
        <4>4. QED
          BY <3>2, <3>3, <4>1, <4>2, <4>3
      <3>5. byfd'[online'[u].conn] = u
        BY <2>1, <2>2, <3>2, <3>3
      <3>6. ASSUME NEW h \in Conn, byfd'[h] # None
            PROVE  byfd'[h] \in InRoom' /\ online'[byfd'[h]].conn = h
        <4>1. CASE h = g
          BY <2>1, <2>2, <3>1, <3>2, <3>3, <4>1
        <4>2. CASE h # g
          <5>1. byfd'[h] = byfd[h] /\ byfd[h] \in InRoom /\ online[byfd[h]].conn = h
            BY <3>2, <3>6, <4>2 DEF MgrInv, ConnIndex
          <5>2. QED
            BY <3>1, <3>3, <5>1 DEF InRoom
        <4>3. QED
          BY <4>1, <4>2
      <3>7. \A h \in Conn : byfd'[h] \in {None, Owner[h]}
        BY <2>1, <3>2 DEF MgrInv, ConnIndex
      <3>8. QED
        BY <3>1, <3>4, <3>5, <3>6, <3>7 DEF ConnIndex
    <2>8. QED
      BY <2>5, <2>6, <2>7 DEF MgrInv
  <1>5. QED
    BY <1>3, <1>4 DEF entered_room

(* request_leave_room (gamemgr.lua:536-556).                                 *)
LEMMA LeaveStep ==
  ASSUME MgrInv, NEW g \in Conn, request_leave_room(g)
  PROVE  MgrInv' /\ PoolStep
  <1>1. PICK u \in User :
          /\ From(g, u)
          /\ \/ /\ CallOrFail(online[u].tid,
                     Plain(IF u \in Robot THEN "user_standup" ELSE "user_offline", u,
                           online[u].chair), Await("last", u))
                /\ UNCHANGED <<online, byfd>>
             \/ /\ byfd' = [byfd EXCEPT ![online[u].conn] = None]
                /\ online' = [online EXCEPT ![u] = NoRec]
                /\ Done
    BY DEF request_leave_room
  <1>2. UNCHANGED <<gt, up, isplaying, free, pool, born, dels>>
    BY DEF request_leave_room, mgrRest
  <1>3. /\ req.pc = "idle" /\ UNCHANGED <<cur, toMgr>>
        /\ u = byfd[g] /\ u \in InRoom /\ online[u].conn = g
    BY <1>1, FromFacts
  <1>4. Proceeds
    <2>1. Plain(IF u \in Robot THEN "user_standup" ELSE "user_offline", u, online[u].chair)
            \in TabMsg
      <3>1. {"user_standup", "user_offline"} \subseteq UserOp
        BY DEF UserOp
      <3>2. QED
        BY <3>1, RecordType, CallType DEF MgrInv
    <2>2. Await("last", u) \in RequestRec /\ Await("last", u).pc = "last"
      BY RequestType DEF RoomPc, UserOrNone
    <2>3. QED
      BY <1>1, <2>1, <2>2, CallProceeds, DoneProceeds DEF MgrInv, MgrTypeOK
  <1>5. CASE UNCHANGED <<online, byfd>>
    BY <1>2, <1>3, <1>4, <1>5, QuietStep DEF MgrInv, MgrTypeOK, ChanTypeOK
  <1>6. CASE byfd' = [byfd EXCEPT ![g] = None] /\ online' = [online EXCEPT ![u] = NoRec]
    <2>1. ChanTypeOK' /\ MgrTypeOK'
      BY <1>2, <1>3, <1>4, <1>6 DEF Proceeds, MgrInv, ChanTypeOK, MgrTypeOK, UserOrNone
    <2>2. ResourcePartition' /\ PoolStep /\ RequestHolds'
      BY <1>2, <1>3, <1>4, SameResources DEF MgrInv, Proceeds, RequestHolds
    <2>3. ConnIndex'
      <3>1. /\ \A h \in Conn : byfd'[h] = IF h = g THEN None ELSE byfd[h]
            /\ \A v \in User : online'[v] = IF v = u THEN NoRec ELSE online[v]
        BY <1>6 DEF MgrInv, MgrTypeOK
      <3>2. InRoom' = InRoom \ {u}
        BY <3>1 DEF InRoom
      <3>3. ASSUME NEW v \in InRoom, v # u PROVE byfd'[online'[v].conn] = v
        <4>1. v \in User /\ online[v].conn \in Conn
          BY RecordType DEF MgrInv, InRoom, UserRec
        <4>2. byfd[online[v].conn] = v
          BY DEF MgrInv, ConnIndex
        <4>3. QED
          BY <1>3, <3>1, <3>3, <4>1, <4>2
      <3>4. ASSUME NEW h \in Conn, byfd'[h] # None
            PROVE  byfd'[h] \in InRoom' /\ online'[byfd'[h]].conn = h
        <4>1. h # g /\ byfd'[h] = byfd[h]
          BY <3>1, <3>4
        <4>2. byfd[h] \in InRoom /\ online[byfd[h]].conn = h
          BY <3>4, <4>1 DEF MgrInv, ConnIndex
        <4>3. byfd[h] # u
          BY <1>3, <4>1, <4>2
        <4>4. QED
          BY <3>1, <3>2, <4>1, <4>2, <4>3 DEF InRoom
      <3>5. \A h \in Conn : byfd'[h] \in {None, Owner[h]}
        BY <3>1 DEF MgrInv, ConnIndex
      <3>6. QED
        BY <3>2, <3>3, <3>4, <3>5 DEF ConnIndex
    <2>4. QED
      BY <2>1, <2>2, <2>3 DEF MgrInv
  <1>7. QED
    BY <1>1, <1>3, <1>5, <1>6

(* Records may change, as long as nobody comes, leaves or moves to another *)
(* connection.                                                             *)
LEMMA SamePresence ==
  ASSUME ConnIndex, UNCHANGED byfd, InRoom' = InRoom,
         \A u \in InRoom : online'[u].conn = online[u].conn
  PROVE  ConnIndex'
  BY DEF ConnIndex

(* disconnect (gamemgr.lua:277-291).                                         *)
LEMMA DisconnectStep ==
  ASSUME MgrInv, NEW g \in Conn, disconnect(g)
  PROVE  MgrInv' /\ PoolStep
  <1> DEFINE u == byfd[g]
  <1>1. /\ req.pc = "idle" /\ UNCHANGED <<cur, toMgr, byfd, gt, isplaying, free, pool, born, dels>>
        /\ up' \subseteq Conn
    BY DEF disconnect, Enter, mgrRest, MgrInv, MgrTypeOK
  <1>2. u # None => u \in User /\ u \in InRoom /\ online[u] \in UserRec
    BY RecordType DEF MgrInv, ConnIndex, InRoom
  <1>3. Proceeds
    <2>1. CASE Done
      BY <2>1, DoneProceeds DEF MgrInv
    <2>2. CASE /\ u # None
               /\ CallOrFail(online[u].tid, Plain("user_offline", u, online[u].chair),
                             Await("last", u))
      <3>1. Plain("user_offline", u, online[u].chair) \in TabMsg
        BY <1>2, <2>2, RecordType, CallType DEF MgrInv, UserOp
      <3>2. Await("last", u) \in RequestRec /\ Await("last", u).pc = "last"
        BY <1>2, <2>2, RequestType DEF RoomPc, UserOrNone
      <3>3. QED
        BY <2>2, <3>1, <3>2, CallProceeds DEF MgrInv, MgrTypeOK
    <2>3. QED
      BY <2>1, <2>2 DEF disconnect
  <1>4. CASE UNCHANGED online
    BY <1>1, <1>3, <1>4, QuietStep DEF MgrInv, ChanTypeOK
  <1>5. CASE u # None /\ online' = [online EXCEPT ![u].st = "OFFLINE"]
    <2> DEFINE new == [online[u] EXCEPT !.st = "OFFLINE"]
    <2>1. \A q \in UserRec : /\ [q EXCEPT !.st = "OFFLINE"] \in UserRec
                             /\ [q EXCEPT !.st = "OFFLINE"].conn = q.conn
      <3>1. "OFFLINE" \in Status
        BY DEF Status
      <3>2. QED
        BY <3>1, Zenon DEF UserRec
    <2>2. new \in UserRec /\ new.conn = online[u].conn
      BY <1>2, <1>5, <2>1
    <2>3. online' = [online EXCEPT ![u] = new]
      BY <1>5
    <2> HIDE DEF new
    <2>4. new # NoRec
      BY <2>2 DEF UserRec, NoRec
    <2>5. \A v \in User : online'[v] = IF v = u THEN new ELSE online[v]
      BY <2>3 DEF MgrInv, MgrTypeOK
    <2>6. InRoom' = InRoom /\ \A v \in InRoom : online'[v].conn = online[v].conn
      BY <1>2, <1>5, <2>2, <2>4, <2>5 DEF InRoom
    <2>7. online' \in [User -> UserRec \cup {NoRec}]
      BY <2>2, <2>3 DEF MgrInv, MgrTypeOK
    <2>8. ChanTypeOK' /\ MgrTypeOK'
      BY <1>1, <1>3, <2>7 DEF Proceeds, MgrInv, ChanTypeOK, MgrTypeOK
    <2>9. ResourcePartition' /\ PoolStep /\ RequestHolds' /\ ConnIndex'
      BY <1>1, <1>3, <2>6, SameResources, SamePresence DEF MgrInv, Proceeds, RequestHolds
    <2>10. QED
      BY <2>8, <2>9 DEF MgrInv
  <1>6. QED
    BY <1>4, <1>5 DEF disconnect
-----------------------------------------------------------------------------
(* The steps that create and remove tables.                                *)

(* The new table's service has been started: no place changes.               *)
LEMMA StartedStep ==
  ASSUME MgrInv, NEW ok, NEW val, table_started(ok, val)
  PROVE  MgrInv' /\ PoolStep
  <1>1. /\ UNCHANGED cur /\ toMgr' \in [Service -> Seq(MgrMsg)] /\ req.pc = "start"
    BY AnswerType DEF table_started, MgrInv
  <1>2. /\ gt' = [gt EXCEPT ![req.t] = req.svc]
        /\ isplaying' = [isplaying EXCEPT ![req.t] = FALSE]
        /\ CallTable(req.svc, Plain("get_can_sit_chairid", None, 0))
        /\ req' = [req EXCEPT !.pc = "new", !.svc = None]
        /\ UNCHANGED <<free, pool, born, online, byfd, dels, up>>
    BY DEF table_started, sitRest
  <1> DEFINE t == req.t
             s == req.svc
  <1>3. /\ t \in TableId \ Live /\ s \in born \ pool /\ \A v \in Live : gt[v] # s
        /\ s \in Service
    BY <1>1 DEF MgrInv, ResourcePartition, MgrTypeOK, Starting
  <1>4. toTab' \in [Service -> Seq(TabMsg)]
    BY <1>2, <1>3, CallType, SendType DEF CallTable, MgrInv, RoomOp
  <1>5. req' \in RequestRec /\ req'.pc = "new"
    <2>1. req \in RequestOf(UserPc, User)
      BY <1>1 DEF MgrInv, MgrTypeOK, RequestRec, RequestOf, RoomPc
    <2>2. \A q \in RequestOf(UserPc, User) :
            /\ [q EXCEPT !.pc = "new", !.svc = None] \in RequestOf(UserPc, User)
            /\ [q EXCEPT !.pc = "new", !.svc = None].pc = "new"
      BY Zenon DEF RequestOf, UserPc
    <2>3. req' \in RequestOf(UserPc, User) /\ req'.pc = "new"
      BY <1>2, <2>1, <2>2
    <2>4. QED
      BY <2>3 DEF RequestRec
  <1>6. ChanTypeOK' /\ MgrTypeOK'
    BY <1>1, <1>2, <1>3, <1>4, <1>5 DEF MgrInv, ChanTypeOK, MgrTypeOK
  <1>7. ConnIndex' /\ RequestHolds'
    BY <1>2, <1>5, SameConns DEF MgrInv, RequestHolds
  <1>8. ResourcePartition'
    <2>1. \A v \in TableId : gt'[v] = IF v = t THEN s ELSE gt[v]
      BY <1>2, <1>3 DEF MgrInv, MgrTypeOK
    <2>2. Live' = Live \cup {t}
      BY <1>3, <2>1 DEF Live
    <2>3. \A v \in TableId : (v \in free') = (v \notin Live')
      BY <1>1, <1>2, <1>3, <2>2 DEF MgrInv, ResourcePartition
    <2>4. \A v \in Live' : gt'[v] \in born' \ pool'
      BY <1>2, <1>3, <2>1, <2>2 DEF MgrInv, ResourcePartition, Live
    <2>5. \A v, w \in Live' : gt'[v] = gt'[w] => v = w
      BY <1>3, <2>1, <2>2 DEF MgrInv, ResourcePartition, Live
    <2>6. \A r \in born' \ pool' : \E v \in Live' : gt'[v] = r
      <3>1. ASSUME NEW r \in born \ pool PROVE \E v \in Live' : gt'[v] = r
        <4>1. CASE r = s
          BY <1>3, <2>1, <2>2, <4>1
        <4>2. CASE r # s
          <5>1. PICK v \in Live : gt[v] = r
            BY <4>2 DEF MgrInv, ResourcePartition, Starting
          <5>2. QED
            BY <1>3, <2>1, <2>2, <5>1 DEF Live
        <4>3. QED
          BY <4>1, <4>2
      <3>2. QED
        BY <1>2, <3>1
    <2>7. QED
      BY <1>2, <1>5, <2>3, <2>4, <2>5, <2>6 DEF MgrInv, ResourcePartition, Starting
  <1>9. PoolStep
    <2>1. \A v \in TableId : gt'[v] = IF v = t THEN s ELSE gt[v]
      BY <1>2, <1>3 DEF MgrInv, MgrTypeOK
    <2>2. ASSUME NEW r \in Service PROVE Place'[r] = Place[r]
      <3>1. ~Starting(r)'
        BY <1>5 DEF Starting
      <3>2. CASE r \in pool \/ r \notin born
        BY <1>2, <3>2 DEF Place
      <3>3. CASE r = s
        <4>1. (CHOOSE v \in TableId : gt'[v] = r) = t
          <5>1. t \in TableId /\ gt'[t] = r /\ \A w \in TableId : gt'[w] = r => w = t
            BY <1>3, <2>1, <3>3 DEF Live
          <5>2. QED
            BY <5>1, Chosen
        <4>2. Place'[r] = t
          BY <1>2, <1>3, <3>1, <3>3, <4>1 DEF Place
        <4>3. Place[r] = t
          BY <1>1, <1>3, <3>3 DEF Place, Starting
        <4>4. QED
          BY <4>2, <4>3
      <3>4. CASE r \in born \ pool /\ r # s
        <4>1. PICK v \in Live : gt[v] = r
          BY <3>4 DEF MgrInv, ResourcePartition, Starting
        <4>2. Place[r] = v
          BY <4>1, PlaceType
        <4>3. (CHOOSE w \in TableId : gt'[w] = r) = v
          <5>1. v \in TableId /\ gt'[v] = r /\ \A w \in TableId : gt'[w] = r => w = v
            BY <1>3, <2>1, <3>4, <4>1 DEF MgrInv, ResourcePartition, Live
          <5>2. QED
            BY <5>1, Chosen
        <4>4. Place'[r] = v
          BY <1>2, <3>1, <3>4, <4>3 DEF Place
        <4>5. QED
          BY <4>2, <4>4
      <3>5. QED
        BY <3>2, <3>3, <3>4
    <2>3. QED
      BY <2>2, PlaceIsFunction DEF PoolStep
  <1>10. QED
    BY <1>6, <1>7, <1>8, <1>9 DEF MgrInv

(* _internal_delete_table asks the table again (gamemgr.lua:320-342).        *)
LEMMA DeleteStep ==
  ASSUME MgrInv, NEW t \in TableId, _internal_delete_table(t)
  PROVE  MgrInv' /\ PoolStep
  <1> DEFINE next == [Request0 EXCEPT !.pc = "info", !.t = t]
  <1>1. /\ req.pc = "idle" /\ UNCHANGED <<cur, toMgr>> /\ dels[t] > 0
        /\ dels' = [dels EXCEPT ![t] = @ - 1]
        /\ CallOrFail(t, Plain("get_table_info", None, 0), next)
        /\ UNCHANGED <<free, pool, born, online, byfd, up, gt, isplaying>>
    BY DEF _internal_delete_table, Enter, seatless
  <1>2. next \in RequestRec /\ next.pc = "info" /\ next.t = t
    <2>1. Request0 \in RequestOf(RoomPc, UserOrNone)
      BY DEF Request0, Await, RequestOf, RoomPc, UserOrNone
    <2>2. \A q \in RequestOf(RoomPc, UserOrNone), v \in 0 .. MaxTable :
            /\ [q EXCEPT !.pc = "info", !.t = v] \in RequestOf(RoomPc, UserOrNone)
            /\ [q EXCEPT !.pc = "info", !.t = v].pc = "info"
            /\ [q EXCEPT !.pc = "info", !.t = v].t = v
      BY Zenon DEF RequestOf, RoomPc
    <2>3. t \in 0 .. MaxTable
      BY DEF TableId
    <2>4. next \in RequestOf(RoomPc, UserOrNone) /\ next.pc = "info" /\ next.t = t
      BY <2>1, <2>2, <2>3
    <2>5. QED
      BY <2>4 DEF RequestRec
  <1> HIDE DEF next
  <1>3. dels' \in [TableId -> 0 .. MaxDel]
    <2>1. dels[t] \in 0 .. MaxDel /\ MaxDel \in Nat
      BY DEF MgrInv, MgrTypeOK
    <2>2. dels[t] - 1 \in 0 .. MaxDel
      BY <1>1, <2>1
    <2>3. QED
      BY <1>1, <2>2 DEF MgrInv, MgrTypeOK
  <1>4. CASE t \in Live /\ CallTable(gt[t], Plain("get_table_info", None, 0)) /\ req' = next
    <2>1. gt[t] \in Service
      BY <1>4 DEF MgrInv, MgrTypeOK, Live
    <2>2. toTab' \in [Service -> Seq(TabMsg)]
      BY <1>4, <2>1, CallType, SendType DEF CallTable, MgrInv, RoomOp
    <2>3. ChanTypeOK' /\ MgrTypeOK'
      BY <1>1, <1>2, <1>3, <1>4, <2>2 DEF MgrInv, ChanTypeOK, MgrTypeOK
    <2>4. ResourcePartition' /\ PoolStep /\ ConnIndex'
      BY <1>1, <1>2, <1>4, SameResources, SameConns DEF MgrInv
    <2>5. RequestHolds'
      BY <1>1, <1>2, <1>4 DEF RequestHolds, Live
    <2>6. QED
      BY <2>3, <2>4, <2>5 DEF MgrInv
  <1>5. CASE Done
    <2>1. Proceeds
      BY <1>5, DoneProceeds DEF MgrInv
    <2>2. ChanTypeOK' /\ MgrTypeOK'
      BY <1>1, <1>3, <2>1 DEF Proceeds, MgrInv, ChanTypeOK, MgrTypeOK
    <2>3. ResourcePartition' /\ PoolStep /\ ConnIndex' /\ RequestHolds'
      BY <1>1, <2>1, SameResources, SameConns DEF MgrInv, Proceeds, RequestHolds
    <2>4. QED
      BY <2>2, <2>3 DEF MgrInv
  <1>6. QED
    BY <1>1, <1>4, <1>5 DEF CallOrFail

(* _internal_delete_table goes on only if the table is still empty.          *)
LEMMA InfoStep ==
  ASSUME MgrInv, NEW ok, NEW val, table_info(ok, val)
  PROVE  MgrInv' /\ PoolStep
  <1>1. /\ UNCHANGED cur /\ toMgr' \in [Service -> Seq(MgrMsg)] /\ req.pc = "info"
    BY AnswerType DEF table_info, MgrInv
  <1>2. UNCHANGED <<online, byfd, gt, isplaying, dels, up, free, pool, born>>
    BY DEF table_info, sitRest, seatless
  <1>3. CASE Done
    BY <1>1, <1>2, <1>3, DoneProceeds, QuietStep DEF MgrInv, MgrTypeOK
  <1>4. CASE CallTable(gt[req.t], Plain("cleanup", None, 0)) /\ req' = [req EXCEPT !.pc = "clean"]
    <2>1. req.t \in Live /\ gt[req.t] \in Service
      BY <1>1 DEF MgrInv, RequestHolds, MgrTypeOK, Live
    <2>2. toTab' \in [Service -> Seq(TabMsg)]
      BY <1>4, <2>1, CallType, SendType DEF CallTable, MgrInv, RoomOp
    <2>3. req' \in RequestRec /\ req'.pc = "clean" /\ req'.t = req.t
      <3>1. req \in RequestOf(RoomPc, UserOrNone) /\ "clean" \in RoomPc
        BY <1>1 DEF MgrInv, MgrTypeOK, RequestRec, RequestOf, UserPc, RoomPc
      <3>2. req' \in RequestOf(RoomPc, UserOrNone) /\ req'.pc = "clean" /\ req'.t = req.t
        BY <1>4, <3>1, RequestPc
      <3>3. QED
        BY <3>2 DEF RequestRec
    <2>4. ChanTypeOK' /\ MgrTypeOK'
      BY <1>1, <1>2, <2>2, <2>3 DEF MgrInv, ChanTypeOK, MgrTypeOK
    <2>5. ResourcePartition' /\ PoolStep /\ ConnIndex'
      BY <1>1, <1>2, <2>3, SameResources, SameConns DEF MgrInv
    <2>6. RequestHolds'
      BY <1>2, <2>1, <2>3 DEF RequestHolds, Live
    <2>7. QED
      BY <2>4, <2>5, <2>6 DEF MgrInv
  <1>5. QED
    BY <1>3, <1>4 DEF table_info

(* The table is removed: TablePool's Close (gamemgr.lua:332-341).            *)
LEMMA CleanedStep ==
  ASSUME MgrInv, NEW ok, NEW val, table_cleaned(ok, val)
  PROVE  MgrInv' /\ PoolStep
  <1>1. /\ UNCHANGED cur /\ toMgr' \in [Service -> Seq(MgrMsg)] /\ req.pc = "clean"
    BY AnswerType DEF table_cleaned, MgrInv
  <1> DEFINE t == req.t
  <1>2. /\ gt' = [gt EXCEPT ![t] = None] /\ pool' = pool \cup {gt[t]}
        /\ free' = free \cup {t} /\ Done
        /\ UNCHANGED <<isplaying, born, online, byfd, dels, up>>
    BY DEF table_cleaned, sitRest
  <1>3. t \in Live /\ t \in TableId /\ gt[t] \in Service
    BY <1>1 DEF MgrInv, RequestHolds, MgrTypeOK, Live
  <1>4. Proceeds
    BY <1>2, DoneProceeds DEF MgrInv
  <1>5. ChanTypeOK' /\ MgrTypeOK'
    BY <1>1, <1>2, <1>3, <1>4 DEF Proceeds, MgrInv, ChanTypeOK, MgrTypeOK
  <1>6. ConnIndex' /\ RequestHolds'
    BY <1>2, <1>4, SameConns DEF MgrInv, Proceeds, RequestHolds
  <1>7. ResourcePartition'
    <2>1. \A v \in TableId : gt'[v] = IF v = t THEN None ELSE gt[v]
      BY <1>2 DEF MgrInv, MgrTypeOK
    <2>2. Live' = Live \ {t}
      BY <2>1 DEF Live
    <2>3. \A v \in TableId : (v \in free') = (v \notin Live')
      BY <1>1, <1>2, <1>3, <2>2 DEF MgrInv, ResourcePartition
    <2>4. \A v \in Live' : gt'[v] \in born' \ pool'
      BY <1>2, <1>3, <2>1, <2>2 DEF MgrInv, ResourcePartition, Live
    <2>5. \A v, w \in Live' : gt'[v] = gt'[w] => v = w
      BY <2>1, <2>2 DEF MgrInv, ResourcePartition, Live
    <2>6. pool' \subseteq born'
      BY <1>2, <1>3 DEF MgrInv, ResourcePartition
    <2>7. \A r \in born' \ pool' : \E v \in Live' : gt'[v] = r
      <3>1. ASSUME NEW r \in born \ pool, r # gt[t] PROVE \E v \in Live' : gt'[v] = r
        <4>1. PICK v \in Live : gt[v] = r
          BY <1>1, <3>1 DEF MgrInv, ResourcePartition, Starting
        <4>2. QED
          BY <2>1, <2>2, <3>1, <4>1 DEF Live
      <3>2. QED
        BY <1>2, <3>1
    <2>8. QED
      BY <1>4, <2>3, <2>4, <2>5, <2>6, <2>7 DEF Proceeds, ResourcePartition, Starting
  <1>8. PoolStep
    <2> DEFINE s == gt[t]
    <2>1. \A v \in TableId : gt'[v] = IF v = t THEN None ELSE gt[v]
      BY <1>2 DEF MgrInv, MgrTypeOK
    <2>2. \A r \in Service : ~Starting(r) /\ ~Starting(r)'
      BY <1>1, <1>4 DEF Starting, Proceeds
    <2>3. Place'[s] = 0 /\ Place[s] = t
      <3>1. s \in pool'
        BY <1>2
      <3>2. Place'[s] = 0
        BY <1>3, <3>1 DEF Place
      <3>3. Place[s] = t
        BY <1>3, PlaceType
      <3>4. QED
        BY <3>2, <3>3
    <2>4. ASSUME NEW r \in Service, r # s PROVE Place'[r] = Place[r]
      <3>1. CASE r \in pool \/ r \notin born
        BY <1>2, <2>4, <3>1 DEF Place
      <3>2. CASE r \in born \ pool
        <4>1. PICK v \in Live : gt[v] = r
          BY <2>2, <3>2 DEF MgrInv, ResourcePartition
        <4>2. Place[r] = v
          BY <4>1, PlaceType
        <4>3. (CHOOSE w \in TableId : gt'[w] = r) = v
          <5>1. v \in TableId /\ gt'[v] = r /\ \A w \in TableId : gt'[w] = r => w = v
            BY <2>1, <2>4, <4>1 DEF MgrInv, ResourcePartition, Live
          <5>2. QED
            BY <5>1, Chosen
        <4>4. Place'[r] = v
          BY <1>2, <2>2, <2>4, <3>2, <4>3 DEF Place
        <4>5. QED
          BY <4>2, <4>4
      <3>3. QED
        BY <3>1, <3>2
    <2>5. s \in Service /\ Place' = [Place EXCEPT ![s] = 0]
      BY <1>3, <2>3, <2>4, PlaceIsFunction
    <2>6. Pool!Close(s)
      BY <1>3, <2>3, <2>5 DEF Pool!Close, Pool!InPool, TableId
    <2>7. QED
      BY <2>5, <2>6 DEF PoolStep, Pool!Next
  <1>9. QED
    BY <1>5, <1>6, <1>7, <1>8 DEF MgrInv

-----------------------------------------------------------------------------
(* A status event rewrites three fields of a player's record.              *)
Placed(q, st, t, c) == [q EXCEPT !.st = st, !.tid = t, !.chair = c]

(* It keeps the record's type and connection.                              *)
LEMMA PlacedType ==
  ASSUME NEW q \in UserRec, NEW st \in Status, NEW t \in 0 .. MaxTable,
         NEW c \in 0 .. MaxChair
  PROVE  Placed(q, st, t, c) \in UserRec /\ Placed(q, st, t, c).conn = q.conn
  BY Zenon DEF UserRec, Placed

(* tableevent changes what the room knows of the players and of its        *)
(* tables, never where a service is or which connection a player has.      *)
LEMMA TableEventStep ==
  ASSUME MgrInv, NEW s \in Service, tableevent(s)
  PROVE  MgrInv' /\ PoolStep
  <1> DEFINE e == Head(toMgr[s])
  <1>1. /\ toMgr[s] # <<>> /\ e.k # "ret" /\ (e.k = "table" => e.tid \in Live)
        /\ online' = CASE e.k = "status" /\ e.u \in InRoom ->
                          [online EXCEPT ![e.u] =
                             [@ EXCEPT !.st = e.st, !.tid = e.tid, !.chair = e.chair]]
                     [] e.k = "score" /\ e.u \in InRoom ->
                          [online EXCEPT ![e.u].rich = e.rich]
                     [] OTHER -> online
        /\ isplaying' = IF e.k = "table"
                        THEN [isplaying EXCEPT ![e.tid] = e.started] ELSE isplaying
        /\ dels' = IF e.k = "table" /\ e.n = 0 /\ dels[e.tid] < MaxDel
                   THEN [dels EXCEPT ![e.tid] = @ + 1] ELSE dels
        /\ toMgr' = [toMgr EXCEPT ![s] = Tail(@)]
        /\ toTab' = [toTab EXCEPT ![s] = Append(@, Resume(e.x))]
        /\ UNCHANGED <<cur, byfd, gt, free, pool, born, up, req>>
    BY DEF tableevent
  <1>2. e \in MgrMsg /\ Tail(toMgr[s]) \in Seq(MgrMsg)
    BY <1>1 DEF MgrInv, ChanTypeOK
  <1>3. e \in EventMsg
    BY <1>1, <1>2 DEF MgrMsg, ReturnMsg
  <1>4. e.x \in Coroutine
    BY <1>3 DEF EventMsg, StatusMsg, TableMsg, ScoreMsg, RecordMsg
  <1>5. e.k = "status" => e.u \in User /\ e.st \in Status /\ e.tid \in 0 .. MaxTable
                          /\ e.chair \in 0 .. MaxChair
    BY <1>3 DEF EventMsg, StatusMsg, TableMsg, ScoreMsg, RecordMsg
  <1>6. e.k = "score" => e.u \in User /\ e.rich \in BOOLEAN
    BY <1>3 DEF EventMsg, StatusMsg, TableMsg, ScoreMsg, RecordMsg
  <1>7. e.k = "table" => e.started \in BOOLEAN
    BY <1>3 DEF EventMsg, StatusMsg, TableMsg, ScoreMsg, RecordMsg
  <1>8. e.k = "table" => e.tid \in TableId
    BY <1>1 DEF Live
  <1>9. Resume(e.x) \in TabMsg
    BY <1>4 DEF Resume, RespMsg, TabMsg
  <1> HIDE DEF e
  <1>10. ChanTypeOK'
    <2>1. toMgr' \in [Service -> Seq(MgrMsg)]
      BY <1>1, <1>2 DEF MgrInv, ChanTypeOK
    <2>2. toTab' \in [Service -> Seq(TabMsg)]
      BY <1>1, <1>9, SendType DEF MgrInv
    <2>3. QED
      BY <1>1, <2>1, <2>2 DEF MgrInv, ChanTypeOK
  <1>11. isplaying' \in [TableId -> BOOLEAN]
    BY <1>1, <1>7, <1>8 DEF MgrInv, MgrTypeOK
  <1>12. dels' \in [TableId -> 0 .. MaxDel]
    <2>1. CASE e.k = "table" /\ e.n = 0 /\ dels[e.tid] < MaxDel
      <3>1. dels[e.tid] \in 0 .. MaxDel /\ MaxDel \in Nat
        BY <1>8, <2>1 DEF MgrInv, MgrTypeOK
      <3>2. dels[e.tid] + 1 \in 0 .. MaxDel
        BY <2>1, <3>1
      <3>3. dels' = [dels EXCEPT ![e.tid] = dels[e.tid] + 1]
        BY <1>1, <2>1
      <3>4. QED
        BY <1>8, <2>1, <3>2, <3>3 DEF MgrInv, MgrTypeOK
    <2>2. CASE ~(e.k = "table" /\ e.n = 0 /\ dels[e.tid] < MaxDel)
      BY <1>1, <2>2 DEF MgrInv, MgrTypeOK
    <2>3. QED
      BY <2>1, <2>2
  <1>13. /\ online' \in [User -> UserRec \cup {NoRec}] /\ InRoom' = InRoom
         /\ \A v \in InRoom : online'[v].conn = online[v].conn
    <2>1. ASSUME NEW u \in InRoom, NEW new \in UserRec, new.conn = online[u].conn,
                 online' = [online EXCEPT ![u] = new]
          PROVE  /\ online' \in [User -> UserRec \cup {NoRec}] /\ InRoom' = InRoom
                 /\ \A v \in InRoom : online'[v].conn = online[v].conn
      <3>1. new # NoRec /\ u \in User
        BY DEF UserRec, NoRec, InRoom
      <3>2. \A v \in User : online'[v] = IF v = u THEN new ELSE online[v]
        BY <2>1 DEF MgrInv, MgrTypeOK
      <3>3. online' \in [User -> UserRec \cup {NoRec}]
        BY <2>1 DEF MgrInv, MgrTypeOK
      <3>4. InRoom' = InRoom /\ \A v \in InRoom : online'[v].conn = online[v].conn
        BY <2>1, <3>1, <3>2 DEF InRoom
      <3>5. QED
        BY <3>3, <3>4
    <2>2. \A u \in InRoom : online[u] \in UserRec
      BY DEF InRoom, MgrInv, MgrTypeOK
    <2>3. CASE e.k = "status" /\ e.u \in InRoom
      <3> DEFINE new == Placed(online[e.u], e.st, e.tid, e.chair)
      <3>2. new \in UserRec /\ new.conn = online[e.u].conn
        <4>1. online[e.u] \in UserRec
          BY <2>2, <2>3
        <4>2. e.st \in Status /\ e.tid \in 0 .. MaxTable /\ e.chair \in 0 .. MaxChair
          BY <1>5, <2>3
        <4>3. QED
          BY <4>1, <4>2, PlacedType
      <3>3. online' = [online EXCEPT ![e.u] = new]
        BY <1>1, <2>3, Zenon DEF Placed
      <3> HIDE DEF new
      <3>4. QED
        BY <2>1, <2>3, <3>2, <3>3
    <2>4. CASE e.k = "score" /\ e.u \in InRoom
      <3> DEFINE new == [online[e.u] EXCEPT !.rich = e.rich]
      <3>1. \A q \in UserRec, b \in BOOLEAN :
              /\ [q EXCEPT !.rich = b] \in UserRec
              /\ [q EXCEPT !.rich = b].conn = q.conn
        BY Zenon DEF UserRec
      <3>2. new \in UserRec /\ new.conn = online[e.u].conn
        BY <1>6, <2>2, <2>4, <3>1
      <3>3. online' = [online EXCEPT ![e.u] = new]
        BY <1>1, <2>4
      <3> HIDE DEF new
      <3>4. QED
        BY <2>1, <2>4, <3>2, <3>3
    <2>5. CASE ~(e.k \in {"status", "score"} /\ e.u \in InRoom)
      <3>1. online' = online
        BY <1>1, <2>5
      <3>2. QED
        BY <3>1 DEF InRoom, MgrInv, MgrTypeOK
    <2>6. QED
      BY <2>3, <2>4, <2>5
  <1>14. MgrTypeOK'
    BY <1>1, <1>11, <1>12, <1>13 DEF MgrInv, MgrTypeOK
  <1>15. ConnIndex'
    BY <1>1, <1>13, SamePresence DEF MgrInv
  <1>16. RequestHolds'
    <2>1. req.pc = "db" => req.u \in User
      BY DEF MgrInv, MgrTypeOK, RequestRec, RequestOf, RoomPc
    <2>2. Live' = Live
      BY <1>1 DEF Live
    <2>3. QED
      BY <1>1, <1>13, <2>1, <2>2 DEF MgrInv, RequestHolds, InRoom
  <1>17. ResourcePartition' /\ PoolStep
    BY <1>1, SamePlace DEF MgrInv, ResourcePartition, Starting, Live, PoolStep
  <1>18. QED
    BY <1>10, <1>14, <1>15, <1>16, <1>17 DEF MgrInv

-----------------------------------------------------------------------------
(* Every step of the room manager.                                         *)
LEMMA MgrStep ==
  ASSUME MgrInv, MgrNext
  PROVE  MgrInv' /\ PoolStep
  <1>1. ASSUME NEW g \in Conn, ClientRequest(g) PROVE MgrInv' /\ PoolStep
    <2>1. CASE request_enter_room(g)
      BY <2>1, EnterStep
    <2>2. CASE request_leave_room(g)
      BY <2>2, LeaveStep
    <2>3. CASE disconnect(g)
      BY <2>3, DisconnectStep
    <2>4. CASE request_sitdown(g, 0, 0)
      BY <2>4, SitStep DEF TableId
    <2>5. CASE \E t \in TableId, c \in 0 .. MaxChair : request_sitdown(g, t, c)
      BY <2>5, SitStep DEF TableId
    <2>6. CASE request_standup(g, FALSE) \/ request_standup(g, TRUE)
      BY <2>6, SeatedStep
    <2>7. CASE request_change_table(g)
      BY <2>7, SeatedStep
    <2>8. CASE \E op \in SeatedOp : request_at_table(g, op)
      BY <2>8, SeatedStep
    <2>9. QED
      BY <1>1, <2>1, <2>2, <2>3, <2>4, <2>5, <2>6, <2>7, <2>8 DEF ClientRequest
  <1>2. ASSUME NEW ok \in BOOLEAN, NEW val \in 0 .. MaxChair, Continue(ok, val)
        PROVE  MgrInv' /\ PoolStep
    BY <1>2, LeftStep, KnownTableStep, StoodUpStep, StartedStep, InfoStep, CleanedStep
       DEF Continue
  <1>3. QED
    BY <1>1, <1>2, DeleteStep, RobotTimerStep, EnteredStep, TableEventStep DEF MgrNext

(* A table's step touches only what the table owns and the queues.         *)
LEMMA TableStepKeeps ==
  ASSUME MgrInv, TabTypeOK, NEW s \in Service, TabNext(s), UNCHANGED mgrVars
  PROVE  MgrInv' /\ TabTypeOK' /\ PoolStep
  <1>1. UNCHANGED <<online, byfd, gt, isplaying, free, pool, born, dels, up, req>>
    BY DEF mgrVars
  <1>2. ChanTypeOK' /\ TabTypeOK'
    BY TableType DEF MgrInv
  <1>3. MgrTypeOK' /\ RequestHolds' /\ ResourcePartition'
    BY <1>1 DEF MgrInv, MgrTypeOK, RequestHolds, ResourcePartition, Live, Starting
  <1>4. ConnIndex'
    BY <1>1, SameConns DEF MgrInv
  <1>5. PoolStep
    BY <1>1, SamePlace
  <1>6. QED
    BY <1>2, <1>3, <1>4, <1>5 DEF MgrInv

-----------------------------------------------------------------------------
(* The inductive invariant: the types, the room manager's indexes, and     *)
(* what a suspended request relies on.  RequestHolds is what makes the     *)
(* other two inductive: without it the answer of the database could be     *)
(* entered over the record of a player already known, and a table could be *)
(* returned to the pool twice.                                             *)
IInv == MgrInv /\ TabTypeOK

(* The room starts with nobody in it and every service unused.             *)
LEMMA InitHolds ==
  ASSUME Init
  PROVE  IInv /\ Pool!Init
  <1>1. ChanTypeOK
    BY DEF Init, ChanTypeOK, Idle, Coroutine
  <1>2. MgrTypeOK
    <2>1. 0 \in 0 .. MaxDel
      OBVIOUS
    <2>2. Request0 \in RequestRec
      BY RequestType
    <2>3. QED
      BY <2>1, <2>2 DEF Init, MgrInit, MgrTypeOK, UserOrNone
  <1>3. TabTypeOK
    <2>1. FreshTable \in TableState
      BY DEF FreshTable, TableState, NoSeats, GStat, UserOrNone
    <2>2. NoCopy \in CopyRec
      BY DEF NoCopy, CopyRec, Status
    <2>3. QED
      BY <2>1, <2>2 DEF Init, TabInit, TabTypeOK
  <1>4. Live = {} /\ InRoom = {} /\ req.pc = "idle"
    BY RequestType DEF Init, MgrInit, Live, InRoom
  <1>5. RequestHolds /\ ConnIndex
    BY <1>4 DEF RequestHolds, ConnIndex, Init, MgrInit
  <1>6. ResourcePartition
    BY <1>4 DEF Init, MgrInit, ResourcePartition, Starting
  <1>7. Pool!Init
    BY DEF Init, MgrInit, Pool!Init, Pool!InPool, Pool!Unborn, Place
  <1>8. QED
    BY <1>1, <1>2, <1>3, <1>5, <1>6, <1>7 DEF IInv, MgrInv

(* Every step keeps the invariant, and is a step of the pool of tables or  *)
(* leaves it as it is.                                                     *)
LEMMA StepHolds ==
  ASSUME IInv, [Next]_vars
  PROVE  IInv' /\ PoolStep
  <1>1. CASE MgrNext /\ UNCHANGED tabVars
    <2>1. TabTypeOK'
      BY <1>1 DEF IInv, TabTypeOK, tabVars
    <2>2. QED
      BY <1>1, <2>1, MgrStep DEF IInv
  <1>2. CASE \E s \in Service : TabNext(s) /\ UNCHANGED mgrVars
    BY <1>2, TableStepKeeps DEF IInv
  <1>3. CASE UNCHANGED vars
    <2>1. UNCHANGED <<cur, toTab, toMgr, online, byfd, gt, isplaying, free, pool, born,
                      dels, up, req, tb, cp, co, wt, res>>
      BY <1>3 DEF vars, chans, mgrVars, tabVars
    <2>2. ChanTypeOK' /\ TabTypeOK' /\ MgrTypeOK' /\ RequestHolds'
      BY <2>1 DEF IInv, MgrInv, ChanTypeOK, TabTypeOK, MgrTypeOK, RequestHolds, Live
    <2>3. ResourcePartition'
      BY <2>1 DEF IInv, MgrInv, ResourcePartition, Live, Starting
    <2>4. ConnIndex'
      BY <2>1, SameConns DEF IInv, MgrInv
    <2>5. PoolStep
      BY <2>1, SamePlace
    <2>6. QED
      BY <2>2, <2>3, <2>4, <2>5 DEF IInv, MgrInv
  <1>4. QED
    BY <1>1, <1>2, <1>3 DEF Next

(* The invariant holds in every reachable state.                           *)
THEOREM InvariantHolds == Spec => []IInv
  <1>1. Init => IInv
    BY InitHolds
  <1>2. IInv /\ [Next]_vars => IInv'
    BY StepHolds
  <1>3. QED
    BY <1>1, <1>2, PTL DEF Spec

(* Queues, coroutines, seats and indexes keep their types: no queue ever   *)
(* holds a message its receiver has no handler for, and no coroutine a     *)
(* step that cannot be run.                                                *)
THEOREM RoomTypes == Spec => []TypeOK
  <1>1. IInv => TypeOK
    BY DEF IInv, MgrInv, TypeOK
  <1>2. QED
    BY <1>1, InvariantHolds, PTL

(* No table id and no gametable service is lost or used twice, whatever    *)
(* calls a creation or a deletion waits for (gamemgr.lua:320-342, 640-673).*)
THEOREM ResourcesPartitioned == Spec => []ResourcePartition
  <1>1. IInv => ResourcePartition
    BY DEF IInv, MgrInv
  <1>2. QED
    BY <1>1, InvariantHolds, PTL

(* The two indexes of the players, by user and by connection, stay inverse *)
(* to each other through reconnections (gamemgr.lua:460-533).              *)
THEOREM ConnectionsIndexed == Spec => []ConnIndex
  <1>1. IInv => ConnIndex
    BY DEF IInv, MgrInv
  <1>2. QED
    BY <1>1, InvariantHolds, PTL

(* What a request read before a blocking call is still true after it.      *)
THEOREM RequestsHold == Spec => []RequestHolds
  <1>1. IInv => RequestHolds
    BY DEF IInv, MgrInv
  <1>2. QED
    BY <1>1, InvariantHolds, PTL

(* The room's bookkeeping of its tables implements TablePool.              *)
THEOREM PoolImplemented == Spec => PoolSpec
  <1>1. Init => Pool!Init
    BY InitHolds
  <1>2. IInv /\ [Next]_vars => [Pool!Next]_Place
    BY StepHolds DEF PoolStep
  <1>3. QED
    BY <1>1, <1>2, InvariantHolds, PTL DEF Spec, PoolSpec, Pool!Spec

(* So no two services ever run the same table, and this because TablePool  *)
(* promises it: a table that is opened there gets an id no service has     *)
(* (gamemgr.lua:334, 640-673).                                             *)
LEMMA PoolApart == Pool!Spec => [](Pool!TypeOK /\ Pool!OneServicePerTable)
  <1> DEFINE Inv == Pool!TypeOK /\ Pool!OneServicePerTable
  <1>1. Pool!Init => Inv
    BY DEF Pool!Init, Pool!TypeOK, Pool!OneServicePerTable, Pool!Unborn, Pool!InPool
  <1>2. Inv /\ [Pool!Next]_Place => Inv'
    <2> SUFFICES ASSUME Inv, [Pool!Next]_Place
                 PROVE  Inv'
      OBVIOUS
    <2>1. ASSUME NEW s \in Service, Pool!Close(s)
          PROVE  Inv'
      BY <2>1 DEF Pool!Close, Pool!TypeOK, Pool!OneServicePerTable, Pool!InPool
    <2>2. ASSUME NEW s \in Service, NEW t \in 1 .. MaxTable, Pool!Open(s, t)
          PROVE  Inv'
      BY <2>2 DEF Pool!Open, Pool!InUse, Pool!TypeOK, Pool!OneServicePerTable
    <2>3. CASE UNCHANGED Place
      BY <2>3 DEF Pool!TypeOK, Pool!OneServicePerTable
    <2>4. QED
      BY <2>1, <2>2, <2>3 DEF Pool!Next
  <1>3. QED
    BY <1>1, <1>2, PTL DEF Pool!Spec

THEOREM TablesApart == Spec => []Pool!OneServicePerTable
  BY PoolApart, PoolImplemented, PTL DEF PoolSpec
=============================================================================
