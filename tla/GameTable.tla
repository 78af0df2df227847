----------------------------- MODULE GameTable -----------------------------
(***************************************************************************)
(* One table of a game room: game_server/gametable.lua together with the   *)
(* call-backs of the card game it hosts (games/niuniu/game.lua, whose      *)
(* skeleton games/mj/game.lua repeats).                                    *)
(*                                                                         *)
(* A coroutine is the sequence of the steps it still has to do.  A step    *)
(* that calls gamemgr ends the running stretch: the coroutine joins wt,    *)
(* and goes on when the answer is taken from the service's queue.          *)
(* The table has no critical section of its own (gametable.lua:13), so     *)
(* "R" and "T" overlap at every such call.                                 *)
(***************************************************************************)
EXTENDS RoomBase

VARIABLES
  tb,    \* the table state of each service
  cp,    \* the table's copy of each user record
  co,    \* the steps left of each coroutine
  wt,    \* the coroutines suspended in a call to gamemgr
  res    \* what the request coroutine will return

tabVars == <<tb, cp, co, wt, res>>

GStat == {"FREE", "CALL", "BET", "OPEN"}

(* the steps about one player, and those about the table                   *)
UserStep  == {"status", "vacate", "unwatch", "standup"}
TableStep == {"start", "seatplay", "tstatus", "gamestart", "gameend", "write",
              "endgame", "detail", "record", "clearrecs", "sitagain", "reset",
              "late", "rmtimer", "ready"}

StepRec(ops, users) ==
  [op : ops, u : users, c : 0 .. MaxChair, st : Status, seen : SUBSET (0 .. MaxChair)]
Step == StepRec(UserStep, User) \cup StepRec(TableStep, {None})

StepOf(op, u, c, st, seen) == [op |-> op, u |-> u, c |-> c, st |-> st, seen |-> seen]
Do(op)              == StepOf(op, None, 0, "FREE", {})
DoFor(op, u, c)     == StepOf(op, u, c, "FREE", {})
SetStatus(u, st, c) == StepOf("status", u, c, st, {})
Loop(op, seen)      == StepOf(op, None, 0, "FREE", seen)

TableState ==
  [tid : 0 .. MaxTable, seat : [Chair -> UserOrNone], ob : SUBSET User,
   started : BOOLEAN, gstat : GStat, playing : SUBSET Chair,
   banker : 0 .. MaxChair, recs : SUBSET Chair, rtimer : BOOLEAN,
   alive : BOOLEAN]

CopyRec == [st : Status, tid : 0 .. MaxTable, chair : 0 .. MaxChair,
            init : BOOLEAN, rich : BOOLEAN]

(* a record the table no longer refers to                                  *)
NoCopy == [st |-> "FREE", tid |-> 0, chair |-> 0, init |-> FALSE, rich |-> TRUE]

NoSeats == [c \in Chair |-> None]

FreshTable ==
  [tid |-> 0, seat |-> NoSeats, ob |-> {}, started |-> FALSE, gstat |-> "FREE",
   playing |-> {}, banker |-> 0, recs |-> {}, rtimer |-> FALSE, alive |-> TRUE]

TabInit ==
  /\ tb = [s \in Service |-> FreshTable]
  /\ cp = [s \in Service |-> [u \in User |-> NoCopy]]
  /\ co = [s \in Service |-> [x \in Coroutine |-> <<>>]]
  /\ wt = [s \in Service |-> {}]
  /\ res = [s \in Service |-> FALSE]

-----------------------------------------------------------------------------
Occupied(seat) == {c \in Chair : seat[c] # None}

(* check_start_game(ready_chairid).  Its first test reads                  *)
(* gametable.game_started, a field nobody sets: it never stops anything.   *)
CheckStart(seat, copy, ready) ==
  /\ \A c \in Occupied(seat) :
       /\ copy[seat[c]].init
       /\ c = ready \/ copy[seat[c]].st = "READY"
  /\ IF FullReady THEN Occupied(seat) = Chair ELSE Cardinality(Occupied(seat)) >= 2

CanSit(s) == Chair \ Occupied(tb[s].seat)
(* mutant: a full table still answers with a chair                         *)
FirstFreeOrNext(s) ==
  IF CanSit(s) = {} THEN MaxChair + 1
  ELSE CHOOSE c \in CanSit(s) : \A d \in CanSit(s) : c <= d

FirstFree(s) ==
  IF CanSit(s) = {} THEN 0 ELSE CHOOSE c \in CanSit(s) : \A d \in CanSit(s) : c <= d

-----------------------------------------------------------------------------
(* Running a coroutine.  It goes on while cur names it, or when the answer *)
(* it waits for is at the head of its service's queue.                     *)

Running(s, x)  == cur = [svc |-> s, co |-> x]
Answered(s, x) == /\ cur = Idle
                  /\ toTab[s] # <<>> /\ Head(toTab[s]).k = "resp"
                  /\ Head(toTab[s]).x = x
Top(s, x)      == Head(co[s][x])
At(s, x, op)   == /\ Running(s, x) \/ Answered(s, x)
                  /\ co[s][x] # <<>> /\ Top(s, x).op = op

(* an answer, if one was waited for, is taken                              *)
Taken(s, x) ==
  /\ toTab' = IF cur = Idle THEN [toTab EXCEPT ![s] = Tail(@)] ELSE toTab
  /\ wt' = [wt EXCEPT ![s] = @ \ {x}]

(* The coroutine has these steps left: it keeps running, or returns if     *)
(* there are none; a request then answers, the timer arms itself again.    *)
Continues(s, x, left) ==
  /\ co' = [co EXCEPT ![s][x] = left]
  /\ cur' = IF left = <<>> THEN Idle ELSE [svc |-> s, co |-> x]
  /\ toMgr' = IF left = <<>> /\ x = "R"
              THEN [toMgr EXCEPT ![s] = Append(@, Return(TRUE, IF res'[s] THEN 1 ELSE 0))]
              ELSE toMgr

(* the step is done: others come in its place, without a yield             *)
Then(s, x, steps) ==
  UNCHANGED res /\ Taken(s, x) /\ Continues(s, x, steps \o Tail(co[s][x]))

(* skynet.call to gamemgr: suspended until the answer comes                *)
CallMgr(s, x, ev, steps) ==
  /\ toMgr' = [toMgr EXCEPT ![s] = Append(@, ev)]
  /\ co' = [co EXCEPT ![s][x] = steps \o Tail(@)]
  /\ toTab' = IF cur = Idle THEN [toTab EXCEPT ![s] = Tail(@)] ELSE toTab
  /\ wt' = [wt EXCEPT ![s] = @ \cup {x}]
  /\ cur' = Idle
  /\ UNCHANGED res

(* a Lua error unwinds the coroutine: the request fails, or the timer is   *)
(* never armed again (its skynet.timeout is the last line of table_timer)  *)
Crash(s, x) ==
  /\ co' = [co EXCEPT ![s][x] = <<>>]
  /\ toTab' = IF cur = Idle THEN [toTab EXCEPT ![s] = Tail(@)] ELSE toTab
  /\ wt' = [wt EXCEPT ![s] = @ \ {x}]
  /\ cur' = Idle
  /\ toMgr' = IF x = "R" THEN [toMgr EXCEPT ![s] = Append(@, Return(FALSE, 0))]
                         ELSE toMgr
  /\ tb' = IF x = "T" THEN [tb EXCEPT ![s].alive = FALSE] ELSE tb
  /\ UNCHANGED <<cp, res>>

(* the last call of a coroutine has been answered                          *)
Finish(s, x) ==
  /\ Answered(s, x) /\ co[s][x] = <<>>
  /\ UNCHANGED <<tb, cp, res>>
  /\ Taken(s, x) /\ Continues(s, x, <<>>)

-----------------------------------------------------------------------------
(* update_user_status: the copy is written before the call, the seat of a  *)
(* player who became FREE is emptied only after it (vacate, unwatch).      *)
(* A robot is initialised as soon as it has a table.                       *)
update_user_status(s, x) ==
  /\ At(s, x, "status")
  /\ LET q   == Top(s, x)
         tid == IF q.st = "FREE" THEN 0 ELSE tb[s].tid
         ini == IF q.u \in Robot THEN tid # 0
                ELSE cp[s][q.u].init /\ q.st # "OFFLINE"
     IN /\ cp' = [cp EXCEPT ![s][q.u] =
                   [@ EXCEPT !.st = q.st, !.tid = tid, !.chair = q.c, !.init = ini]]
        /\ CallMgr(s, x, StatusEvent(x, q.u, tid, q.c, q.st), <<>>)
  /\ UNCHANGED tb

update_table_status(s, x) ==
  /\ At(s, x, "tstatus")
  /\ CallMgr(s, x, TableEvent(x, tb[s].tid, tb[s].started,
                              Cardinality(Occupied(tb[s].seat))), <<>>)
  /\ UNCHANGED <<tb, cp>>

-----------------------------------------------------------------------------
(* mutant: a player who went offline does not count as playing any more    *)
OnlinePlayingSeat(s, c) ==
  /\ tb[s].started
  /\ cp[s][tb[s].seat[c]].st = "PLAYING"
  /\ c \in tb[s].playing

(* CMD.user_standup(chairid, userid): refused to a player of the running   *)
(* game; otherwise the player, or the observer of that chair, becomes FREE *)
PlayingSeat(s, c) ==
  /\ tb[s].started
  /\ cp[s][tb[s].seat[c]].st \in {"PLAYING", "OFFLINE"}
  /\ c \in tb[s].playing

user_standup(s, x) ==
  /\ At(s, x, "standup")
  /\ LET q       == Top(s, x)
         old     == cp[s][q.u].chair
         seated  == q.c \in Chair /\ tb[s].seat[q.c] = q.u
         watches == q.u \in tb[s].ob /\ old = q.c
         free(op) == <<SetStatus(q.u, "FREE", 0), DoFor(op, q.u, old)>>
         leaves  == IF seated THEN ~PlayingSeat(s, q.c) ELSE watches
     IN /\ res' = IF x = "R" /\ leaves THEN [res EXCEPT ![s] = TRUE] ELSE res
        /\ Taken(s, x)
        /\ Continues(s, x, (IF ~leaves THEN <<>>
                            ELSE IF seated THEN free("vacate") \o <<Do("tstatus")>>
                            ELSE free("unwatch")) \o Tail(co[s][x]))
  /\ UNCHANGED <<tb, cp>>

(* mutant: the seat of a player who became FREE is kept                    *)
NotCleared(s, c) == tb[s].seat

Cleared(s, c) == IF c \in Chair THEN [tb[s].seat EXCEPT ![c] = None] ELSE tb[s].seat

(* seats and observers become these; a player in neither is forgotten      *)
Forget(s, seat, ob) ==
  /\ tb' = [tb EXCEPT ![s].seat = seat, ![s].ob = ob]
  /\ cp' = [cp EXCEPT ![s] =
       [u \in User |-> IF u \in ob \cup {seat[c] : c \in Chair} THEN cp[s][u] ELSE NoCopy]]

(* the rest of user_standup for a seated player: the seat is emptied, the  *)
(* last one takes the observers along, and the others may be all ready     *)
vacate(s, x) ==
  /\ At(s, x, "vacate")
  /\ LET seat == Cleared(s, Top(s, x).c)
     IN /\ Forget(s, seat, IF Occupied(seat) = {} THEN {} ELSE tb[s].ob)
        /\ Then(s, x, IF CheckStart(seat, cp[s], 0) THEN <<Do("start")>> ELSE <<>>)

(* mutant: the observer stays on the list (table.remove forgotten)         *)
unwatch_kept(s, x) ==
  /\ At(s, x, "unwatch")
  /\ Forget(s, Cleared(s, Top(s, x).c), tb[s].ob)
  /\ Then(s, x, <<>>)

(* ... and for an observer: update_user_status empties the watched chair   *)
unwatch(s, x) ==
  /\ At(s, x, "unwatch")
  /\ Forget(s, Cleared(s, Top(s, x).c), tb[s].ob \ {Top(s, x).u})
  /\ Then(s, x, <<>>)

-----------------------------------------------------------------------------
(* start_game: every seated player is told, one call at a time, and only   *)
(* then does the game itself start.                                        *)
start_game(s, x) ==
  /\ At(s, x, "start")
  /\ tb' = [tb EXCEPT ![s].started = TRUE]
  /\ Then(s, x, IF tb[s].started THEN <<>>
                ELSE <<Loop("seatplay", {}), Do("tstatus"), Do("gamestart")>>)
  /\ UNCHANGED cp

(* pairs(_table_users): any seat not visited yet; none left ends the loop  *)
ToVisit(s, q) == Occupied(tb[s].seat) \ q.seen
Again(q, c)   == Loop(q.op, q.seen \cup {c})

start_game_seat(s, x) ==
  /\ At(s, x, "seatplay")
  /\ LET q == Top(s, x) IN
     \/ ToVisit(s, q) = {} /\ Then(s, x, <<>>)
     \/ \E c \in ToVisit(s, q) :
          LET u == tb[s].seat[c] IN
          Then(s, x, IF cp[s][u].st \in {"OFFLINE", "PLAYING"}
                     THEN <<Again(q, c)>>
                     ELSE <<SetStatus(u, "PLAYING", c), Again(q, c)>>)
  /\ UNCHANGED <<tb, cp>>

(* game.on_game_start: whoever has a seat now plays                        *)
on_game_start(s, x) ==
  /\ At(s, x, "gamestart")
  /\ tb' = [tb EXCEPT ![s].rtimer = FALSE, ![s].gstat = "CALL",
                      ![s].playing = @ \cup Occupied(tb[s].seat)]
  /\ Then(s, x, <<>>)
  /\ UNCHANGED cp

-----------------------------------------------------------------------------
(* game.game_end: the settlement needs the banker's record; then every     *)
(* player's score is written through gamemgr, one call at a time.          *)
game_end(s, x) ==
  /\ At(s, x, "gameend")
  /\ \/ /\ tb[s].banker \in Occupied(tb[s].seat)
        /\ Then(s, x, <<Loop("write", {}), Do("endgame")>>)
        /\ UNCHANGED <<tb, cp>>
     \/ tb[s].banker \notin Occupied(tb[s].seat) /\ Crash(s, x)

write_user_score(s, x) ==
  /\ At(s, x, "write")
  /\ LET q    == Top(s, x)
         left == ToVisit(s, q) \cap tb[s].playing
     IN \/ left = {} /\ Then(s, x, <<>>) /\ UNCHANGED <<tb, cp>>
        \/ \E c \in left, rich \in Stake :
             LET u == tb[s].seat[c] IN
             /\ cp' = [cp EXCEPT ![s][u].rich = rich]
             /\ tb' = [tb EXCEPT ![s].recs = @ \cup {c}]
             /\ CallMgr(s, x, ScoreEvent(x, u, rich), <<Again(q, c)>>)

(* end_game: the game counts as over before its records are written        *)
end_game(s, x) ==
  /\ At(s, x, "endgame")
  /\ \/ ~tb[s].started /\ Crash(s, x)                  \* assert
     \/ /\ tb[s].started
        /\ tb' = [tb EXCEPT ![s].started = FALSE]
        /\ Then(s, x, <<Loop("detail", {}), Do("record"), Loop("sitagain", {}),
                        Do("reset"), Do("tstatus")>>)
        /\ UNCHANGED cp

(* _table_users[k].is_robot is read for every record: an error if the seat *)
(* has been emptied since the score was written                            *)
write_game_record_detail(s, x) ==
  /\ At(s, x, "detail")
  /\ LET q    == Top(s, x)
         left == tb[s].recs \ q.seen
     IN \/ left = {} /\ Then(s, x, <<>>) /\ UNCHANGED <<tb, cp>>
        \/ \E c \in left :
             \/ /\ c \in Occupied(tb[s].seat)
                /\ CallMgr(s, x, RecordEvent(x), <<Again(q, c)>>)
                /\ UNCHANGED <<tb, cp>>
             \/ c \notin Occupied(tb[s].seat) /\ Crash(s, x)

write_game_record(s, x) ==
  /\ At(s, x, "record")
  /\ CallMgr(s, x, RecordEvent(x), <<Do("clearrecs")>>)
  /\ UNCHANGED <<tb, cp>>

clear_records(s, x) ==
  /\ At(s, x, "clearrecs")
  /\ tb' = [tb EXCEPT ![s].recs = {}]
  /\ Then(s, x, <<>>)
  /\ UNCHANGED cp

(* offline and poor players are noted, to be stood up after the reset (the *)
(* step before the last one); the others sit again                         *)
BeforeLast(seq, e) ==
  IF seq = <<>> THEN <<e>>
  ELSE SubSeq(seq, 1, Len(seq) - 1) \o <<e, seq[Len(seq)]>>

end_game_seat(s, x) ==
  /\ At(s, x, "sitagain")
  /\ LET q == Top(s, x) IN
     \/ ToVisit(s, q) = {} /\ Then(s, x, <<>>)
     \/ \E c \in ToVisit(s, q) :
          LET u == tb[s].seat[c] IN
          \/ /\ cp[s][u].st # "OFFLINE" /\ cp[s][u].rich
             /\ Then(s, x, <<SetStatus(u, "SIT", c), Again(q, c)>>)
          \/ /\ cp[s][u].st = "OFFLINE" \/ ~cp[s][u].rich
             /\ UNCHANGED res /\ Taken(s, x)
             /\ Continues(s, x, <<Again(q, c)>> \o
                             BeforeLast(Tail(co[s][x]), DoFor("standup", u, c)))
  /\ UNCHANGED <<tb, cp>>

on_game_reset(s, x) ==
  /\ At(s, x, "reset")
  /\ tb' = [tb EXCEPT ![s].playing = {}, ![s].banker = 0, ![s].rtimer = TRUE]
  /\ Then(s, x, <<>>)
  /\ UNCHANGED cp

-----------------------------------------------------------------------------
(* mutant: the timer arms itself again before its call-backs               *)
TimerArmedFirst(s, steps) ==
  /\ cur = Idle
  /\ tb[s].alive
  /\ UNCHANGED <<cp, wt, res, toTab>>
  /\ Continues(s, "T", steps)

(* table_timer.  A fired one-shot timer is taken off the list only after   *)
(* its call-back has returned, calls to gamemgr included.                  *)
TimerFires(s, steps) ==
  /\ cur = Idle
  /\ tb[s].alive /\ "T" \notin wt[s]
  /\ UNCHANGED <<cp, wt, res, toTab>>
  /\ Continues(s, "T", steps)

(* TIMER_READY: whoever is not ready while no game runs is stood up        *)
ReadyTimeout(s) ==
  /\ tb[s].rtimer
  /\ TimerFires(s, (IF tb[s].gstat = "FREE" THEN <<Loop("late", {})>> ELSE <<>>)
                     \o <<Do("rmtimer")>>)
  /\ UNCHANGED tb

ready_timeout_seat(s, x) ==
  /\ At(s, x, "late")
  /\ LET q == Top(s, x) IN
     \/ ToVisit(s, q) = {} /\ Then(s, x, <<>>)
     \/ \E c \in ToVisit(s, q) :
          LET u == tb[s].seat[c] IN
          Then(s, x, IF cp[s][u].st \in {"FREE", "SIT"}
                     THEN <<DoFor("standup", u, cp[s][u].chair), Again(q, c)>>
                     ELSE <<Again(q, c)>>)
  /\ UNCHANGED <<tb, cp>>

remove_timer(s, x) ==
  /\ At(s, x, "rmtimer")
  /\ tb' = [tb EXCEPT ![s].rtimer = FALSE]
  /\ Then(s, x, <<>>)
  /\ UNCHANGED cp

(* mutant: the timers of the phases skip whoever is offline                *)
OnlinePlayers(s) ==
  {c \in tb[s].playing \cap Occupied(tb[s].seat) : cp[s][tb[s].seat[c]].st # "OFFLINE"}

(* the seats that take part in the running game                            *)
Players(s) == tb[s].playing \cap Occupied(tb[s].seat)

(* mutant: the game is not freed, and can be settled again                 *)
SettlesTwice(s) == UNCHANGED tb

(* game_end frees the game before anything else                            *)
Settles(s) == tb' = [tb EXCEPT ![s].gstat = "FREE"]

(* how the game goes on: the banker is drawn among the players, then the   *)
(* players other than the banker bet, then cards are opened                *)
NextPhase(s, by, steps) ==
  \/ /\ tb[s].gstat = "CALL"
     /\ \E b \in IF Players(s) = {} THEN {0} ELSE Players(s) :
          tb' = [tb EXCEPT ![s].gstat = "BET", ![s].banker = b]
     /\ steps = <<>>
  \/ /\ tb[s].gstat = "BET"
     /\ by \ {tb[s].banker} # {}
     /\ tb' = [tb EXCEPT ![s].gstat = "OPEN"]
     /\ steps = <<>>
  \/ /\ tb[s].gstat = "OPEN"
     /\ Settles(s)
     /\ steps = <<Do("gameend")>>

(* the timers of the phases act for the players who did not                *)
GameTimeout(s) ==
  /\ Players(s) # {}
  /\ \E steps \in {<<>>, <<Do("gameend")>>} :
       NextPhase(s, Players(s), steps) /\ TimerFires(s, steps)

(* robots act from the game's one-second timer                             *)
RobotReady(s) ==
  /\ \E c \in Occupied(tb[s].seat) :
       /\ tb[s].seat[c] \in Robot
       /\ TimerFires(s, <<DoFor("ready", None, cp[s][tb[s].seat[c]].chair)>>)
  /\ UNCHANGED tb

-----------------------------------------------------------------------------
(* Requests: CMD.* as gamemgr calls them.                                  *)
Takes(s, op) ==
  /\ cur = Idle
  /\ toTab[s] # <<>> /\ Head(toTab[s]).k = "req" /\ Head(toTab[s]).op = op
  /\ toTab' = [toTab EXCEPT ![s] = Tail(@)]

(* answered at once                                                        *)
Reply(s, ok, val) ==
  /\ toMgr' = [toMgr EXCEPT ![s] = Append(@, Return(ok, val))]
  /\ UNCHANGED <<cur, co, wt, res>>

(* the request runs as coroutine "R"                                       *)
Begin(s, steps) ==
  /\ res' = [res EXCEPT ![s] = FALSE]
  /\ UNCHANGED wt
  /\ Continues(s, "R", steps)

Arg(s)     == Head(toTab[s])
AtSeat(s)  == IF Arg(s).c = 0 THEN None ELSE tb[s].seat[Arg(s).c]

(* neither start nor cleanup empties game_records, and cleanup leaves the  *)
(* game's own variables to the next on_init                                *)
start(s) ==
  /\ Takes(s, "start")
  /\ tb' = [tb EXCEPT ![s] = [FreshTable EXCEPT !.tid = Arg(s).tid, !.recs = tb[s].recs,
                               !.rtimer = tb[s].rtimer, !.alive = tb[s].alive]]
  /\ Reply(s, TRUE, 0)
  /\ UNCHANGED cp

cleanup(s) ==
  /\ Takes(s, "cleanup")
  /\ tb' = [tb EXCEPT ![s] = [FreshTable EXCEPT !.recs = tb[s].recs, !.alive = tb[s].alive,
                               !.playing = tb[s].playing, !.banker = tb[s].banker]]
  /\ Reply(s, TRUE, 0)
  /\ UNCHANGED cp

get_can_sit_chairid(s) ==
  Takes(s, "get_can_sit_chairid") /\ Reply(s, TRUE, FirstFree(s)) /\ UNCHANGED <<tb, cp>>

(* only the head count of the answer matters to the caller modelled        *)
get_table_info(s) ==
  /\ Takes(s, "get_table_info")
  /\ Reply(s, TRUE, Cardinality(Occupied(tb[s].seat)))
  /\ UNCHANGED <<tb, cp>>

(* A traversal of _table_users that is suspended may miss a new key.       *)
SeatLoop == {"seatplay", "sitagain", "write", "late"}
MayMiss(seq, c) ==
  {seq} \cup IF seq # <<>> /\ Head(seq).op \in SeatLoop
             THEN {<<Again(Head(seq), c)>> \o Tail(seq)} ELSE {}

SitRefused(s) ==
  \/ tb[s].started /\ ~JoinPlaying
  \/ AtSeat(s) # None
  \/ ~Arg(s).rich

user_sitdown(s) ==
  /\ Takes(s, "user_sitdown")
  /\ LET m == Arg(s) IN
     \/ /\ m.tid # 0                           \* assert
        /\ Reply(s, FALSE, 0) /\ UNCHANGED <<tb, cp>>
     \/ /\ m.tid = 0 /\ SitRefused(s)
        /\ Reply(s, TRUE, 0) /\ UNCHANGED <<tb, cp>>
     \/ /\ m.tid = 0 /\ ~SitRefused(s)
        /\ tb' = [tb EXCEPT ![s].seat[m.c] = m.u]
        /\ cp' = [cp EXCEPT ![s][m.u] = NoCopy]
        /\ \E t \in MayMiss(co[s]["T"], m.c) :
             co' = [co EXCEPT ![s]["R"] = <<SetStatus(m.u, "SIT", m.c)>>, ![s]["T"] = t]
        /\ cur' = [svc |-> s, co |-> "R"]
        /\ res' = [res EXCEPT ![s] = FALSE]
        /\ UNCHANGED <<toMgr, wt>>

user_sitdown_ob(s) ==
  /\ Takes(s, "user_sitdown_ob")
  /\ LET m == Arg(s) IN
     \/ m.u \notin Watcher /\ Reply(s, TRUE, 0) /\ UNCHANGED <<tb, cp>>
     \/ /\ m.u \in Watcher
        /\ tb' = [tb EXCEPT ![s].ob = @ \cup {m.u}]
        /\ cp' = [cp EXCEPT ![s][m.u] = [NoCopy EXCEPT !.rich = m.rich]]
        /\ Begin(s, <<SetStatus(m.u, "OB", m.c)>>)

request_user_standup(s) ==
  /\ Takes(s, "user_standup")
  /\ Begin(s, <<DoFor("standup", Arg(s).u, Arg(s).c)>>)
  /\ UNCHANGED <<tb, cp>>

(* stands up at most one robot, and not in the middle of a game            *)
robot_standup(s) ==
  /\ Takes(s, "robot_standup")
  /\ \/ Begin(s, <<>>)
     \/ /\ ~tb[s].started
        /\ \E c \in Occupied(tb[s].seat) :
             /\ tb[s].seat[c] \in Robot
             /\ Begin(s, <<DoFor("standup", tb[s].seat[c], c)>>)
  /\ UNCHANGED <<tb, cp>>

(* by chair only: whoever sits there is meant                              *)
user_offline(s) ==
  /\ Takes(s, "user_offline")
  /\ LET u == AtSeat(s)
         c == Arg(s).c
         plays == /\ cp[s][u].st \in {"PLAYING", "OFFLINE"}
                  /\ c \in tb[s].playing
     IN Begin(s, IF u = None THEN <<>>
                 ELSE IF plays THEN <<SetStatus(u, "OFFLINE", c)>>
                 ELSE <<DoFor("standup", u, c)>>)
  /\ UNCHANGED <<tb, cp>>

update_user_conn(s) ==
  /\ Takes(s, "update_user_conn")
  /\ LET u == AtSeat(s) IN
     Begin(s, IF u = None THEN <<>>
              ELSE <<SetStatus(u, "PLAYING", cp[s][u].chair)>>)
  /\ UNCHANGED <<tb, cp>>

(* a bet or an opened card may be the last one missing                     *)
game_msg(s) ==
  /\ Takes(s, "game_msg")
  /\ \/ Begin(s, <<>>) /\ UNCHANGED tb
     \/ /\ AtSeat(s) # None
        /\ \E steps \in {<<>>, <<Do("gameend")>>} :
             NextPhase(s, {Arg(s).c}, steps) /\ Begin(s, steps)
  /\ UNCHANGED cp

init_game(s) ==
  /\ Takes(s, "init_game")
  /\ LET m == Arg(s)
         watches == m.u \in tb[s].ob /\ cp[s][m.u].chair = m.c
         u == IF AtSeat(s) # None THEN AtSeat(s) ELSE IF watches THEN m.u ELSE None
     IN IF u = None THEN Begin(s, <<>>) /\ UNCHANGED cp
        ELSE /\ cp' = [cp EXCEPT ![s][u].init = TRUE]
             /\ Begin(s, IF cp[s][u].st = "READY" /\ CheckStart(tb[s].seat, cp'[s], m.c)
                         THEN <<Do("start")>> ELSE <<>>)
  /\ UNCHANGED tb

request_user_ready(s) ==
  /\ Takes(s, "user_ready")
  /\ Begin(s, <<DoFor("ready", None, Arg(s).c)>>)
  /\ UNCHANGED <<tb, cp>>

user_ready(s, x) ==
  /\ At(s, x, "ready")
  /\ LET c == Top(s, x).c
         u == IF c = 0 THEN None ELSE tb[s].seat[c]
     IN Then(s, x, IF u = None THEN <<>>
                   ELSE IF cp[s][u].st # "SIT" THEN <<>>
                   ELSE IF CheckStart(tb[s].seat, cp[s], c) THEN <<Do("start")>>
                   ELSE <<SetStatus(u, "READY", c)>>)
  /\ UNCHANGED <<tb, cp>>

-----------------------------------------------------------------------------
Request(s) ==
  \/ start(s) \/ cleanup(s) \/ get_can_sit_chairid(s) \/ get_table_info(s)
  \/ user_sitdown(s) \/ user_sitdown_ob(s) \/ request_user_standup(s)
  \/ robot_standup(s) \/ user_offline(s) \/ update_user_conn(s) \/ game_msg(s)
  \/ init_game(s) \/ request_user_ready(s)

Timer(s) == ReadyTimeout(s) \/ GameTimeout(s) \/ RobotReady(s)

RunStep(s, x) ==
  \/ update_user_status(s, x) \/ update_table_status(s, x) \/ user_standup(s, x)
  \/ vacate(s, x) \/ unwatch(s, x) \/ start_game(s, x) \/ start_game_seat(s, x)
  \/ on_game_start(s, x) \/ game_end(s, x) \/ write_user_score(s, x)
  \/ end_game(s, x) \/ write_game_record_detail(s, x) \/ write_game_record(s, x)
  \/ clear_records(s, x) \/ end_game_seat(s, x) \/ on_game_reset(s, x)
  \/ ready_timeout_seat(s, x) \/ remove_timer(s, x) \/ user_ready(s, x)
  \/ Finish(s, x)

TabNext(s) ==
  \/ Request(s) \/ Timer(s)
  \/ \E x \in Coroutine : RunStep(s, x)

TabTypeOK ==
  /\ tb \in [Service -> TableState]
  /\ cp \in [Service -> [User -> CopyRec]]
  /\ co \in [Service -> [Coroutine -> Seq(Step)]]
  /\ wt \in [Service -> SUBSET Coroutine]
  /\ res \in [Service -> BOOLEAN]
=============================================================================
