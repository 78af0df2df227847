------------------------------ MODULE GameMgr ------------------------------
(***************************************************************************)
(* The room manager: game_server/gamemgr.lua.                              *)
(*                                                                         *)
(* Every client request, disconnection and table deletion runs in the      *)
(* critical section cs (a skynet.queue), so that one of them is under way  *)
(* at a time: req.  It is suspended in each call to a table or to the      *)
(* database.  The tables' own calls (tableevent) are served outside cs     *)
(* (gamemgr.lua:317), in between.                                          *)
(***************************************************************************)
EXTENDS RoomBase, FiniteSetsExt

CONSTANT
  PoolInit,    \* precreate_table_count services, created at the start
  MaxDel,      \* bound: _internal_delete_table messages kept per table
  Ops          \* bound: the requests that the clients make

ASSUME MgrAssumption ==
  /\ PoolInit \subseteq Service
  /\ MaxDel \in Nat \ {0}
  /\ Ops \subseteq {"leave", "disconnect", "sit", "sit_at", "standup", "watch",
                   "change", "game_msg", "init_game", "user_ready"}

VARIABLES
  online,     \* user_online: the record of each user, or NoRec
  byfd,       \* user_online_by_gatefd
  gt,         \* game_tables: the service that runs a table, or None
  isplaying,  \* game_tables[...].isplaying
  free,       \* game_free_tableids
  pool,       \* game_tables_pool
  born,       \* gametable services created so far
  dels,       \* _internal_delete_table messages in gamemgr's own queue
  up,         \* connections open at the gate
  req         \* the request inside cs

mgrVars == <<online, byfd, gt, isplaying, free, pool, born, dels, up, req>>

(* what the request waits for; the first ones are a player's requests      *)
UserPc == {"db", "left", "try", "trychair", "start", "new", "change", "stand"}
RoomPc == {"idle", "last", "info", "clean"}

Await(pc, u) == [pc |-> pc, u |-> u, conn |-> None, t |-> 0, c |-> 0, svc |-> None,
                 ob |-> FALSE, cand |-> {}]
Request0 == Await("idle", None)

RequestOf(pcs, users) ==
  [pc : pcs, u : users, conn : Conn \cup {None}, t : 0 .. MaxTable,
   c : 0 .. MaxChair, svc : Service \cup {None}, ob : BOOLEAN, cand : SUBSET TableId]
RequestRec == RequestOf(UserPc, User) \cup RequestOf(RoomPc, UserOrNone)

InRoom == {u \in User : online[u] # NoRec}
Live   == {t \in TableId : gt[t] # None}

MgrInit ==
  /\ online = [u \in User |-> NoRec]
  /\ byfd = [g \in Conn |-> None]
  /\ gt = [t \in TableId |-> None]
  /\ isplaying = [t \in TableId |-> FALSE]
  /\ free = TableId
  /\ pool = PoolInit
  /\ born = PoolInit
  /\ dels = [t \in TableId |-> 0]
  /\ up = {}
  /\ req = Request0

-----------------------------------------------------------------------------
(* Making a call and ending a request.                                     *)

CallTable(s, msg) == toTab' = [toTab EXCEPT ![s] = Append(@, msg)]

Done == req' = Request0 /\ UNCHANGED toTab

(* game_tables[t].serviceid of a table that is gone is a Lua error, which  *)
(* ends the request                                                        *)
CallOrFail(t, msg, next) ==
  \/ t \in Live /\ CallTable(gt[t], msg) /\ req' = next
  \/ t \notin Live /\ Done

Plain(op, u, c) == Call(op, u, c, 0, TRUE)

(* cs admits the next request                                              *)
Enter == cur = Idle /\ req.pc = "idle" /\ UNCHANGED <<cur, toMgr>>

(* a client's request is looked up by its connection                       *)
From(g, u) == Enter /\ g \in up /\ u = byfd[g] /\ u # None

(* Only one call is outstanding: the answer comes from the table it went   *)
(* to.                                                                     *)
Answer(pc, ok, val) ==
  /\ cur = Idle /\ req.pc = pc /\ UNCHANGED cur
  /\ \E s \in Service :
       /\ toMgr[s] # <<>> /\ Head(toMgr[s]).k = "ret"
       /\ ok = Head(toMgr[s]).ok /\ val = Head(toMgr[s]).val
       /\ toMgr' = [toMgr EXCEPT ![s] = Tail(@)]

mgrRest == <<isplaying, free, pool, born, dels>>

-----------------------------------------------------------------------------
(* Entering and leaving the room.                                          *)

(* mutant: the previous connection goes on speaking for the player         *)
ReboundBoth(old, g) == [byfd EXCEPT ![g] = Owner[g]]

(* the player of a connection has opened another one                       *)
Rebound(old, g) == [byfd EXCEPT ![old] = None, ![g] = Owner[g]]

(* A client presents itself on a connection: the first request the gate    *)
(* forwards.  A known user moves to the new connection, a new one is read  *)
(* from the database.                                                      *)
request_enter_room(g) ==
  /\ Enter
  /\ up' = up \cup {g}
  /\ LET u == Owner[g]
         r == online[u]
     IN \/ /\ r = NoRec
           /\ req' = [Await("db", u) EXCEPT !.conn = g]
           /\ UNCHANGED <<online, byfd, toTab>>
        \/ /\ r # NoRec
           /\ byfd' = Rebound(r.conn, g)
           /\ online' = [online EXCEPT ![u] =
                [r EXCEPT !.conn = g, !.st = IF r.tid = 0 THEN "FREE" ELSE @]]
           /\ \/ r.tid = 0 /\ Done
              \/ /\ r.tid # 0
                 /\ CallOrFail(r.tid, Plain("update_user_conn", u, r.chair),
                               Await("last", u))
  /\ UNCHANGED <<gt, mgrRest>>

(* game_user_enter_room has answered: refused, or registered as FREE       *)
entered_room ==
  /\ cur = Idle /\ req.pc = "db"
  /\ \/ UNCHANGED <<online, byfd>>
     \/ /\ online' = [online EXCEPT ![req.u] =
              [conn |-> req.conn, st |-> "FREE", tid |-> 0, chair |-> 0, rich |-> TRUE]]
        /\ byfd' = [byfd EXCEPT ![req.conn] = req.u]
  /\ Done
  /\ UNCHANGED <<cur, toMgr, gt, up, mgrRest>>

(* a seated robot is stood up, a seated player is taken as disconnected    *)
request_leave_room(g) ==
  \E u \in User :
    /\ From(g, u)
    /\ LET r == online[u]
           op == IF u \in Robot THEN "user_standup" ELSE "user_offline"
       IN \/ /\ r.tid # 0
             /\ CallOrFail(r.tid, Plain(op, u, r.chair), Await("last", u))
             /\ UNCHANGED <<online, byfd>>
          \/ /\ r.tid = 0
             /\ byfd' = [byfd EXCEPT ![r.conn] = None]
             /\ online' = [online EXCEPT ![u] = NoRec]
             /\ Done
    /\ UNCHANGED <<gt, up, mgrRest>>

(* the gate reports a closed connection                                    *)
disconnect(g) ==
  /\ Enter
  /\ g \in up
  /\ up' = up \ {g}
  /\ LET u == byfd[g] IN
     \/ u = None /\ Done /\ UNCHANGED online
     \/ /\ u # None /\ online[u].tid = 0
        /\ online' = [online EXCEPT ![u].st = "OFFLINE"]
        /\ Done
     \/ /\ u # None /\ online[u].tid # 0
        /\ CallOrFail(online[u].tid, Plain("user_offline", u, online[u].chair),
                      Await("last", u))
        /\ UNCHANGED online
  /\ UNCHANGED <<byfd, gt, mgrRest>>

-----------------------------------------------------------------------------
(* Sitting down.                                                           *)

Joinable == {t \in Live : ~isplaying[t] \/ JoinPlaying}

(* The last line of request_sitdown: the record goes along as it is now.   *)
SitDown(t, u, c) ==
  CallOrFail(t, Call("user_sitdown", u, c, online[u].tid, online[u].rich),
             Await("last", u))

(* mutant: ids are taken from the wrong end of game_free_tableids          *)
LastId == Max(free)

(* game_free_tableids is kept sorted, the lowest id last                   *)
NextId == Min(free)

(* No seat found: take the lowest free table id and a pooled service, or   *)
(* create one.                                                             *)
CreateTable(r) ==
  \/ /\ free = {}
     /\ Done
     /\ UNCHANGED <<free, pool, born>>
  \/ /\ free # {}
     /\ free' = free \ {NextId}
     /\ \E s \in IF pool # {} THEN pool ELSE Service \ born :
          /\ pool' = pool \ {s}
          /\ born' = born \cup {s}
          /\ req' = [r EXCEPT !.pc = "start", !.t = NextId, !.svc = s]
          /\ CallTable(s, Call("start", None, 0, NextId, TRUE))

(* pairs(game_tables): ask each joinable table for a seat; isplaying is    *)
(* read when its turn comes                                                *)
TryTable(r, eligible, pc) ==
  \E t \in r.cand \cap eligible, skipped \in SUBSET (r.cand \ eligible) :
    /\ CallTable(gt[t], Plain("get_can_sit_chairid", None, 0))
    /\ req' = [r EXCEPT !.pc = pc, !.t = t, !.cand = (@ \ {t}) \ skipped]

PickTable(r) ==
  \/ TryTable(r, Joinable, "try") /\ UNCHANGED <<free, pool, born>>
  \/ r.cand \cap Joinable = {} /\ CreateTable(r)

(* from request_sitdown's choice of a table on; t and c may be 0           *)
ChooseSeat(u, t, c) ==
  LET r == [Request0 EXCEPT !.u = u, !.t = t, !.c = c, !.cand = Live] IN
  \/ t = 0 /\ PickTable(r)
  \/ /\ t # 0 /\ c = 0
     /\ IF t \in Joinable
        THEN /\ CallTable(gt[t], Plain("get_can_sit_chairid", None, 0))
             /\ req' = [r EXCEPT !.pc = "trychair"]
        ELSE Done
     /\ UNCHANGED <<free, pool, born>>
  \/ t # 0 /\ c # 0 /\ SitDown(t, u, c) /\ UNCHANGED <<free, pool, born>>

request_sitdown(g, t, c) ==
  \E u \in User :
    /\ From(g, u)
    /\ LET r == online[u] IN
       /\ ~(t # 0 /\ c # 0 /\ r.tid = t /\ r.chair = c)
       /\ r.st # "PLAYING"
       /\ \/ /\ r.st = "OFFLINE" /\ r.tid # 0
             /\ CallOrFail(r.tid, Plain("update_user_conn", u, r.chair),
                           Await("last", u))
             /\ UNCHANGED <<free, pool, born>>
          \/ /\ ~(r.st = "OFFLINE" /\ r.tid # 0)
             /\ t # 0 /\ r.tid # 0
             /\ CallOrFail(r.tid, Plain("user_standup", u, r.chair),
                           [Await("left", u) EXCEPT !.t = t, !.c = c])
             /\ UNCHANGED <<free, pool, born>>
          \/ /\ ~(r.st = "OFFLINE" /\ r.tid # 0)
             /\ t = 0 \/ r.tid = 0
             /\ ChooseSeat(u, t, c)
  /\ UNCHANGED <<online, byfd, gt, isplaying, dels, up>>

sitRest == <<online, byfd, dels, up>>
seatless == <<gt, isplaying>>

(* the previous table has let the player go, or not                        *)
left_table(ok, val) ==
  /\ Answer("left", ok, val)
  /\ \/ ok /\ val = 1 /\ ChooseSeat(req.u, req.t, req.c)
     \/ ~(ok /\ val = 1) /\ Done /\ UNCHANGED <<free, pool, born>>
  /\ UNCHANGED <<sitRest, seatless>>

tried_table(ok, val) ==
  /\ Answer("try", ok, val)
  /\ \/ val # 0 /\ SitDown(req.t, req.u, val) /\ UNCHANGED <<free, pool, born>>
     \/ val = 0 /\ PickTable(req)
  /\ UNCHANGED <<sitRest, seatless>>

tried_chair(ok, val) ==
  /\ Answer("trychair", ok, val)
  /\ \/ val # 0 /\ SitDown(req.t, req.u, val)
     \/ val = 0 /\ Done
  /\ UNCHANGED <<free, pool, born, sitRest, seatless>>

(* the new table is registered once its service has been started           *)
table_started(ok, val) ==
  /\ Answer("start", ok, val)
  /\ gt' = [gt EXCEPT ![req.t] = req.svc]
  /\ isplaying' = [isplaying EXCEPT ![req.t] = FALSE]
  /\ CallTable(req.svc, Plain("get_can_sit_chairid", None, 0))
  /\ req' = [req EXCEPT !.pc = "new", !.svc = None]
  /\ UNCHANGED <<free, pool, born, sitRest>>

new_table_seat(ok, val) ==
  /\ Answer("new", ok, val)
  /\ \/ val # 0 /\ SitDown(req.t, req.u, val)
     \/ val = 0 /\ Done
  /\ UNCHANGED <<free, pool, born, sitRest, seatless>>

(* request_change_table looks for a seat at a table that is not playing    *)
Elsewhere(r) == {t \in Live : ~isplaying[t] /\ t # online[r.u].tid}

SearchOther(r) ==
  \/ TryTable(r, Elsewhere(r), "change")
  \/ r.cand \cap Elsewhere(r) = {} /\ Done

request_change_table(g) ==
  \E u \in User :
    /\ From(g, u)
    /\ online[u].st # "PLAYING"
    /\ SearchOther([Request0 EXCEPT !.u = u, !.cand = Live])
    /\ UNCHANGED <<free, pool, born, sitRest, seatless>>

found_other(ok, val) ==
  /\ Answer("change", ok, val)
  /\ \/ val # 0 /\ SitDown(req.t, req.u, val)
     \/ val = 0 /\ SearchOther(req)
  /\ UNCHANGED <<free, pool, born, sitRest, seatless>>

-----------------------------------------------------------------------------
(* Standing up, and what a seated player sends.                            *)

request_standup(g, ob) ==
  \E u \in User :
    /\ From(g, u)
    /\ LET r == online[u] IN
       /\ r.tid # 0 /\ r.chair # 0
       /\ \/ /\ r.st = "PLAYING"
             /\ CallOrFail(r.tid, Plain("user_offline", u, r.chair), Await("last", u))
          \/ /\ r.st # "PLAYING" /\ ~(ob /\ r.st = "OB")
             /\ CallOrFail(r.tid, Plain("user_standup", u, r.chair),
                   [Await("stand", u) EXCEPT !.t = r.tid, !.c = r.chair, !.ob = ob])
    /\ UNCHANGED <<free, pool, born, sitRest, seatless>>

stood_up(ok, val) ==
  /\ Answer("stand", ok, val)
  /\ \/ /\ ok /\ val = 1 /\ req.ob
        /\ CallOrFail(req.t, Call("user_sitdown_ob", req.u, req.c, 0, online[req.u].rich),
                      Await("last", req.u))
     \/ ~(ok /\ val = 1 /\ req.ob) /\ Done
  /\ UNCHANGED <<free, pool, born, sitRest, seatless>>

(* gamemsg, request_init_game and request_userready                        *)
SeatedOp == {"game_msg", "init_game", "user_ready"}

request_at_table(g, op) ==
  \E u \in User :
    /\ From(g, u)
    /\ online[u].tid # 0 /\ online[u].chair # 0
    /\ CallOrFail(online[u].tid, Plain(op, u, online[u].chair), Await("last", u))
    /\ UNCHANGED <<free, pool, born, sitRest, seatless>>

(* mutant: the timer does not go through cs                                *)
robot_standup_timer_outside_cs(s) ==
  /\ cur = Idle /\ Robot # {} /\ s \in born
  /\ CallTable(s, Plain("robot_standup", None, 0))
  /\ UNCHANGED <<cur, toMgr, req, free, pool, born, sitRest, seatless>>

(* The room's timer lets robots stand up, service by service.  They are    *)
(* listed first: one may have gone back to the pool when its turn comes.   *)
robot_standup_timer(s) ==
  /\ Enter
  /\ Robot # {} /\ s \in born
  /\ CallTable(s, Plain("robot_standup", None, 0))
  /\ req' = Await("last", None)
  /\ UNCHANGED <<free, pool, born, sitRest, seatless>>

finished(ok, val) ==
  /\ Answer("last", ok, val)
  /\ Done
  /\ UNCHANGED <<free, pool, born, sitRest, seatless>>

-----------------------------------------------------------------------------
(* Removing an empty table.  The table is asked again, since the message   *)
(* may be old; a second message for a table already gone fails.            *)

(* mutant: a message for a table that is gone is not noticed               *)
_internal_delete_any_table(t) ==
  /\ Enter
  /\ dels[t] > 0
  /\ dels' = [dels EXCEPT ![t] = @ - 1]
  /\ CallTable(gt[t], Plain("get_table_info", None, 0))
  /\ req' = [Request0 EXCEPT !.pc = "info", !.t = t]
  /\ UNCHANGED <<free, pool, born, online, byfd, up, seatless>>

_internal_delete_table(t) ==
  /\ Enter
  /\ dels[t] > 0
  /\ dels' = [dels EXCEPT ![t] = @ - 1]
  /\ CallOrFail(t, Plain("get_table_info", None, 0),
                [Request0 EXCEPT !.pc = "info", !.t = t])
  /\ UNCHANGED <<free, pool, born, online, byfd, up, seatless>>

(* mutant: the answer is not looked at                                     *)
table_info_unchecked(ok, val) ==
  /\ Answer("info", ok, val)
  /\ CallTable(gt[req.t], Plain("cleanup", None, 0))
  /\ req' = [req EXCEPT !.pc = "clean"]
  /\ UNCHANGED <<free, pool, born, sitRest, seatless>>

table_info(ok, val) ==
  /\ Answer("info", ok, val)
  /\ \/ val > 0 /\ Done
     \/ /\ val = 0
        /\ CallTable(gt[req.t], Plain("cleanup", None, 0))
        /\ req' = [req EXCEPT !.pc = "clean"]
  /\ UNCHANGED <<free, pool, born, sitRest, seatless>>

(* mutant: the id is not given back                                        *)
table_cleaned_id_lost(ok, val) ==
  /\ Answer("clean", ok, val)
  /\ gt' = [gt EXCEPT ![req.t] = None]
  /\ pool' = pool \cup {gt[req.t]}
  /\ Done
  /\ UNCHANGED <<isplaying, free, born, sitRest>>

table_cleaned(ok, val) ==
  /\ Answer("clean", ok, val)
  /\ gt' = [gt EXCEPT ![req.t] = None]
  /\ pool' = pool \cup {gt[req.t]}
  /\ free' = free \cup {req.t}
  /\ Done
  /\ UNCHANGED <<isplaying, born, sitRest>>

-----------------------------------------------------------------------------
(* mutant: tableevents wait for the request in cs, like everything else    *)
InsideCs == cur = Idle /\ req.pc = "idle"

OutsideCs == cur = Idle

(* tableevent: what tables report, served outside cs and answered at once. *)
(* update_table_status indexes the table it names, which is always there   *)
(* (EventsLive).                                                           *)
tableevent(s) ==
  /\ OutsideCs
  /\ toMgr[s] # <<>> /\ Head(toMgr[s]).k # "ret"
  /\ LET e == Head(toMgr[s])
     IN /\ e.k = "table" => e.tid \in Live
        /\ online' = CASE e.k = "status" /\ e.u \in InRoom ->
                          [online EXCEPT ![e.u] =
                             [@ EXCEPT !.st = e.st, !.tid = e.tid, !.chair = e.chair]]
                     [] e.k = "score" /\ e.u \in InRoom ->
                          [online EXCEPT ![e.u].rich = e.rich]
                     [] OTHER -> online
        /\ isplaying' = IF e.k = "table"
                        THEN [isplaying EXCEPT ![e.tid] = e.started] ELSE isplaying
        /\ dels' = IF e.k = "table" /\ e.n = 0 /\ dels[e.tid] < MaxDel
                   THEN [dels EXCEPT ![e.tid] = @ + 1] ELSE dels
        /\ toMgr' = [toMgr EXCEPT ![s] = Tail(@)]
        /\ toTab' = [toTab EXCEPT ![s] = Append(@, Resume(e.x))]
  /\ UNCHANGED <<cur, byfd, gt, free, pool, born, up, req>>

-----------------------------------------------------------------------------
ClientRequest(g) ==
  \/ request_enter_room(g)
  \/ "leave" \in Ops /\ request_leave_room(g)
  \/ "disconnect" \in Ops /\ disconnect(g)
  \/ "sit" \in Ops /\ request_sitdown(g, 0, 0)
  \/ "sit_at" \in Ops /\ \E t \in TableId, c \in 0 .. MaxChair : request_sitdown(g, t, c)
  \/ "standup" \in Ops /\ request_standup(g, FALSE)
  \/ "watch" \in Ops /\ request_standup(g, TRUE)
  \/ "change" \in Ops /\ request_change_table(g)
  \/ \E op \in SeatedOp \cap Ops : request_at_table(g, op)

Continue(ok, val) ==
  \/ left_table(ok, val) \/ tried_table(ok, val) \/ tried_chair(ok, val)
  \/ table_started(ok, val) \/ new_table_seat(ok, val) \/ found_other(ok, val)
  \/ stood_up(ok, val) \/ table_info(ok, val) \/ table_cleaned(ok, val)
  \/ finished(ok, val)

MgrNext ==
  \/ \E g \in Conn : ClientRequest(g)
  \/ entered_room
  \/ \E ok \in BOOLEAN, val \in 0 .. MaxChair : Continue(ok, val)
  \/ \E t \in TableId : _internal_delete_table(t)
  \/ \E s \in Service : robot_standup_timer(s) \/ tableevent(s)

MgrTypeOK ==
  /\ online \in [User -> UserRec \cup {NoRec}]
  /\ byfd \in [Conn -> UserOrNone]
  /\ gt \in [TableId -> Service \cup {None}]
  /\ isplaying \in [TableId -> BOOLEAN]
  /\ free \subseteq TableId
  /\ pool \subseteq Service
  /\ born \subseteq Service
  /\ dels \in [TableId -> 0 .. MaxDel]
  /\ up \subseteq Conn
  /\ req \in RequestRec
=============================================================================
