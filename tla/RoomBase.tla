------------------------------ MODULE RoomBase ------------------------------
(***************************************************************************)
(* Vocabulary shared by the two services of a game room: the room manager  *)
(* (game_server/gamemgr.lua, one per room) and its tables                  *)
(* (game_server/gametable.lua, one skynet service per table).              *)
(*                                                                         *)
(* A skynet service is single threaded, but a handler that makes a         *)
(* blocking call is suspended, and the service goes on with its next       *)
(* message.  Two coroutines can be alive in a table at a time:             *)
(*   "R"  the request the manager is waiting for (the manager's critical   *)
(*        section cs admits one request of the whole room at a time);      *)
(*   "T"  the table's timer, which re-arms itself only when it returns.    *)
(* Between two blocking calls a handler is atomic: while cur names a       *)
(* running coroutine nothing else moves.                                   *)
(***************************************************************************)
EXTENDS Naturals, Sequences, FiniteSets

CONSTANTS
  User,        \* players, robots included
  Robot,       \* the players whose is_robot flag is set
  Conn,        \* gate connections: a (source_gate, fd) pair
  Owner,       \* the player whose client opened a connection
  Service,     \* gametable services the room ever runs
  MaxTable,    \* config.max_table_count
  MaxChair,    \* config.max_chair_count
  None,        \* "no user", "no table service"
  FullReady,   \* config.game_start_mode: FULL_READY if TRUE, else ALL_READY
  JoinPlaying, \* config.allow_join_playing
  Watcher,     \* who may watch: everybody if config.allow_ob, else who has a master_level
  Stake        \* may a settled score still reach min_enter_score?

TableId == 1 .. MaxTable
Chair   == 1 .. MaxChair
UserOrNone == User \cup {None}

(* user statuses of global/constants.lua; NULL is the absence of a record  *)
Status == {"FREE", "SIT", "READY", "OB", "PLAYING", "OFFLINE"}

Coroutine == {"R", "T"}
Idle == [svc |-> None, co |-> "R"]

ASSUME RoomAssumption ==
  /\ IsFiniteSet(User) /\ IsFiniteSet(Service)
  /\ Robot \subseteq User
  /\ Owner \in [Conn -> User]
  /\ MaxTable \in Nat \ {0} /\ MaxChair \in Nat \ {0}
  /\ None \notin User \cup Service \cup Conn
  /\ FullReady \in BOOLEAN /\ JoinPlaying \in BOOLEAN /\ Watcher \subseteq User
  /\ Stake \subseteq BOOLEAN /\ Stake # {}

VARIABLES
  cur,     \* the coroutine that is running, or Idle
  toTab,   \* per table service: requests and call results sent by gamemgr
  toMgr    \* per table service: calls and results sent to gamemgr

chans == <<cur, toTab, toMgr>>

(* The manager's view of a player is one record; a call that passes it to  *)
(* a table serialises it, so that the table works on a copy.               *)
UserRec == [conn : Conn, st : Status, tid : 0 .. MaxTable, chair : 0 .. MaxChair,
            rich : BOOLEAN]
NoRec == [conn |-> None, st |-> "NULL", tid |-> 0, chair |-> 0, rich |-> FALSE]

(* Requests gamemgr makes of a table, and the table's calls back.          *)
RoomOp == {"start", "cleanup", "get_can_sit_chairid", "get_table_info",
           "robot_standup"}
UserOp == {"user_sitdown", "user_standup", "user_sitdown_ob", "user_offline",
           "game_msg", "init_game", "user_ready", "update_user_conn"}

Call(op, u, c, t, rich) ==
  [k |-> "req", op |-> op, u |-> u, c |-> c, tid |-> t, rich |-> rich]
Resume(x) == [k |-> "resp", x |-> x]

(* What a table's coroutine x asks of gamemgr (the tableevent methods)     *)
StatusEvent(x, u, t, c, st) ==
  [k |-> "status", x |-> x, u |-> u, tid |-> t, chair |-> c, st |-> st]
TableEvent(x, t, started, n) ==
  [k |-> "table", x |-> x, tid |-> t, started |-> started, n |-> n]
ScoreEvent(x, u, rich) == [k |-> "score", x |-> x, u |-> u, rich |-> rich]
RecordEvent(x) == [k |-> "record", x |-> x]
Return(ok, val) == [k |-> "ret", ok |-> ok, val |-> val]

ReqMsg(ops, users) ==
  [k : {"req"}, op : ops, u : users, c : 0 .. MaxChair, tid : 0 .. MaxTable,
   rich : BOOLEAN]
RespMsg == [k : {"resp"}, x : Coroutine]
TabMsg  == ReqMsg(UserOp, User) \cup ReqMsg(RoomOp, {None}) \cup RespMsg

StatusMsg == [k : {"status"}, x : Coroutine, u : User, tid : 0 .. MaxTable,
              chair : 0 .. MaxChair, st : Status]
TableMsg  == [k : {"table"}, x : Coroutine, tid : 0 .. MaxTable,
              started : BOOLEAN, n : 0 .. MaxChair]
ScoreMsg  == [k : {"score"}, x : Coroutine, u : User, rich : BOOLEAN]
RecordMsg == [k : {"record"}, x : Coroutine]
EventMsg  == StatusMsg \cup TableMsg \cup ScoreMsg \cup RecordMsg
ReturnMsg == [k : {"ret"}, ok : BOOLEAN, val : 0 .. MaxChair]
MgrMsg    == EventMsg \cup ReturnMsg

ChanTypeOK ==
  /\ cur \in [svc : Service \cup {None}, co : Coroutine]
  /\ toTab \in [Service -> Seq(TabMsg)]
  /\ toMgr \in [Service -> Seq(MgrMsg)]
=============================================================================
