------------------------------ MODULE GameRoom ------------------------------
(***************************************************************************)
(* A game room: one gamemgr and the gametable services it runs.            *)
(***************************************************************************)
EXTENDS GameMgr, GameTable

vars == <<chans, mgrVars, tabVars>>

Init ==
  /\ cur = Idle
  /\ toTab = [s \in Service |-> <<>>]
  /\ toMgr = [s \in Service |-> <<>>]
  /\ MgrInit
  /\ TabInit

Next ==
  \/ MgrNext /\ UNCHANGED tabVars
  \/ \E s \in Service : TabNext(s) /\ UNCHANGED mgrVars

Spec == Init /\ [][Next]_vars

-----------------------------------------------------------------------------
(* Fairness.  skynet's dispatcher gives every service with a non-empty     *)
(* mailbox its turn, and a coroutine that runs is never preempted; that    *)
(* the head of a queue cannot be taken while some coroutine runs is only   *)
(* an artefact of atomic stretches, hence strong fairness on taking it.    *)
(* Nothing is assumed of the clients.                                      *)
TableTakes(s) ==
  \/ Request(s)
  \/ \E x \in Coroutine : Answered(s, x) /\ RunStep(s, x)

MgrTakes(s) ==
  \/ tableevent(s)
  \/ /\ toMgr[s] # <<>>
     /\ \E ok \in BOOLEAN, val \in 0 .. MaxChair : Continue(ok, val)

Fairness ==
  /\ WF_vars(cur # Idle /\ Next)
  /\ SF_vars(entered_room /\ UNCHANGED tabVars)
  /\ \A s \in Service :
       /\ SF_vars(TableTakes(s) /\ UNCHANGED mgrVars)
       /\ SF_vars(MgrTakes(s) /\ UNCHANGED tabVars)

FairSpec == Spec /\ Fairness

(* The timers of the game fire every second (gametable.lua:42-66).         *)
TimersFair == \A s \in Service : SF_vars(GameTimeout(s) /\ UNCHANGED mgrVars)

TimedSpec == FairSpec /\ TimersFair

-----------------------------------------------------------------------------
TypeOK == ChanTypeOK /\ MgrTypeOK /\ TabTypeOK

-----------------------------------------------------------------------------
(* Observations the properties are stated in.                              *)

Steps(s, x) == {co[s][x][i] : i \in 1 .. Len(co[s][x])}

(* a coroutine of the table is about to take the player off it             *)
Leaving(s, u) ==
  \E x \in Coroutine : \E q \in Steps(s, x) : q.op \in {"vacate", "unwatch"} /\ q.u = u

(* a status of the player is on its way to gamemgr                         *)
Told(s, u) ==
  \E i \in 1 .. Len(toMgr[s]) : toMgr[s][i].k = "status" /\ toMgr[s][i].u = u

Settled(s, u) == cur = Idle /\ ~Leaving(s, u) /\ ~Told(s, u)

Playing(s) == tb[s].started /\ tb[s].gstat # "FREE"

(* the players of the running game, but for those who were leaving when it *)
(* started                                                                 *)
InGame(s) == {c \in Players(s) : cp[s][tb[s].seat[c]].st \in {"PLAYING", "OFFLINE"}}

-----------------------------------------------------------------------------
(* Every table id is free, open, or being opened by the request in cs;     *)
(* every service that was created is pooled, runs one table, or is being   *)
(* started by that request: a table creation or deletion that stops        *)
(* between two calls loses neither (gamemgr.lua:320-342, 640-673).         *)
Starting(s) == req.pc = "start" /\ req.svc = s

ResourcePartition ==
  /\ \A t \in TableId :
       (t \in free) = (t \notin Live /\ ~(req.pc = "start" /\ req.t = t))
  /\ pool \subseteq born
  /\ \A s \in born \ pool : Starting(s) \/ \E t \in Live : gt[t] = s
  /\ \A t \in Live : gt[t] \in born \ pool /\ ~Starting(gt[t])
  /\ \A t1, t2 \in Live : gt[t1] = gt[t2] => t1 = t2
  /\ req.pc = "start" => req.t \in TableId \ Live /\ req.svc \in born \ pool

(* user_online and user_online_by_gatefd agree, over reconnections too,    *)
(* and a connection only ever speaks for the player who opened it          *)
(* (gamemgr.lua:464-476, 513-517, 881-888).                                *)
ConnIndex ==
  /\ \A g \in Conn : byfd[g] \in {None, Owner[g]}
  /\ \A u \in InRoom : byfd[online[u].conn] = u
  /\ \A g \in Conn : byfd[g] # None => byfd[g] \in InRoom /\ online[byfd[g]].conn = g

(* What a request has found out before a blocking call still holds when it *)
(* goes on, although table events were served meanwhile: the player being  *)
(* loaded is still unknown, the table being removed is still there         *)
(* (gamemgr.lua:320-342, 478-517).                                         *)
RequestHolds ==
  /\ req.pc = "db" => /\ req.conn \in Conn /\ Owner[req.conn] = req.u
                      /\ online[req.u] = NoRec
  /\ req.pc \in {"info", "clean"} => req.t \in Live

(* A player whom a table seats, and who is not being taken off it, is in   *)
(* the room, and gamemgr's record says the same table, chair and status    *)
(* once the last status event has arrived (gametable.lua:152-181,          *)
(* gamemgr.lua:860-889).                                                   *)
SeatAgreement ==
  \A s \in Service, c \in Chair :
    LET u == tb[s].seat[c] IN
    u # None /\ Settled(s, u) =>
      /\ u \in InRoom
      /\ online[u].tid = tb[s].tid /\ online[u].chair = c
      /\ online[u].st = cp[s][u].st

ObserverAgreement ==
  \A s \in Service : \A u \in tb[s].ob :
    Settled(s, u) => u \in InRoom /\ online[u].tid = tb[s].tid /\ online[u].st = "OB"

(* A service goes back to the pool with nobody on it and nothing of its    *)
(* own left to do, so that no call of the old table can name the new one   *)
(* (gamemgr.lua:320-342).                                                  *)
PooledIdle ==
  \A s \in pool : /\ Occupied(tb[s].seat) = {} /\ tb[s].ob = {}
                   /\ \A i \in 1 .. Len(toMgr[s]) : toMgr[s][i].k = "ret"
                   /\ \A x \in Coroutine : co[s][x] = <<>>

(* What a table reports of itself always finds the table: a table that is  *)
(* removed has nothing more to say (gamemgr.lua:320-342, 932-940, where    *)
(* game_tables[tableid] is indexed without a check).                       *)
EventsLive ==
  \A s \in Service : \A i \in 1 .. Len(toMgr[s]) :
    toMgr[s][i].k = "table" => toMgr[s][i].tid \in Live /\ gt[toMgr[s][i].tid] = s

(* Tables are asked one thing at a time: while cs is held by a request     *)
(* that waits for a table there is one question, running request or answer *)
(* in the whole room, and none otherwise (gamemgr.lua:10, 258-291).        *)
Pending(s) ==
  Cardinality({i \in 1 .. Len(toTab[s]) : toTab[s][i].k = "req"})
  + Cardinality({i \in 1 .. Len(toMgr[s]) : toMgr[s][i].k = "ret"})
  + Cardinality({"R"} \cap (wt[s] \cup IF cur.svc = s THEN {cur.co} ELSE {}))

OneCall ==
  IF req.pc \in {"idle", "db"} THEN \A s \in Service : Pending(s) = 0
  ELSE \E s \in Service : Pending(s) = 1 /\ \A r \in Service \ {s} : Pending(r) = 0

(* A coroutine of a table that is suspended in a call to gamemgr waits for *)
(* exactly one thing that is on its way, its call or the answer to it, and *)
(* one that is not suspended for none: no answer wakes a coroutine that    *)
(* did not ask (the skynet.call of gametable.lua:176, 185, 640, 643, 736;  *)
(* gamemgr.lua:314-318, 943-946 answers every tableevent).                 *)
Owed(s, x) ==
  Cardinality({i \in 1 .. Len(toTab[s]) : toTab[s][i].k = "resp" /\ toTab[s][i].x = x})
  + Cardinality({i \in 1 .. Len(toMgr[s]) : toMgr[s][i].k # "ret" /\ toMgr[s][i].x = x})

CallsAnswered ==
  \A s \in Service, x \in Coroutine :
    /\ Owed(s, x) = IF x \in wt[s] THEN 1 ELSE 0
    /\ Running(s, x) => x \notin wt[s]
    /\ co[s][x] # <<>> => Running(s, x) \/ x \in wt[s]

(* end_game's assertion (gametable.lua:611): no game is ended twice        *)
EndsStarted ==
  \A s \in Service, x \in Coroutine : At(s, x, "endgame") => tb[s].started

(* A table has one game at a time, and one coroutine that conducts it: who *)
(* announces the seats of a new game or settles one is alone in it, and no *)
(* cards are out.  check_start_game does not see to that, it tests a field *)
(* nobody sets (gametable.lua:189, 584-608; niuniu/game.lua:579-697).      *)
GameSteps == {"seatplay", "gamestart", "gameend", "write", "endgame"}
Conducts(s, x) == \E q \in Steps(s, x) : q.op \in GameSteps

OneGame ==
  \A s \in Service, x \in Coroutine :
    Conducts(s, x) => /\ tb[s].started /\ tb[s].gstat = "FREE"
                      /\ \A y \in Coroutine \ {x} : ~Conducts(s, y)

(* The chair is about to be emptied: its player, or the observer of it, was *)
(* reported FREE.                                                          *)
Emptying(s, c) ==
  \E x \in Coroutine : /\ co[s][x] # <<>>
                        /\ Top(s, x).op \in {"vacate", "unwatch"} /\ Top(s, x).c = c

(* end_game has still to set players back to sit down again: those of the  *)
(* game before, and whoever has come since.                                *)
WindingUp(s) ==
  \E x \in Coroutine : \E q \in Steps(s, x) : q.op \in {"sitagain", "reset"}

(* A player who is in the running game stays in it, and keeps his seat,     *)
(* until it is settled, whoever asks to leave, disconnects, comes back or   *)
(* is timed out, in either coroutine; unless his chair was being emptied    *)
(* when he came into the game, or the game before is still being wound up   *)
(* (gametable.lua:261-267, 367-378).                                       *)
PlayersKept ==
  [][\A s \in Service :
       Playing(s) /\ ~WindingUp(s) =>
         \A c \in InGame(s) :
           ~Emptying(s, c) => c \in InGame(s)' /\ tb'[s].seat[c] = tb[s].seat[c]]_vars

(* Every request leaves the critical section: the room never blocks on a   *)
(* table that is waiting for the room (gamemgr.lua:10, 314-318).           *)
RequestsEnd == req.pc # "idle" ~> req.pc = "idle"

(* A game two players have got into comes to its settlement, even if they  *)
(* send nothing more or disconnect: the timers of its phases act for them, *)
(* for as long as the table's timer has not died of an error               *)
(* (gametable.lua:42-66, 360-382, niuniu/game.lua:316-354).                *)
GamesSettle ==
  \A s \in Service :
    Playing(s) /\ Cardinality(InGame(s)) >= 2 ~> tb[s].gstat = "FREE" \/ ~tb[s].alive

-----------------------------------------------------------------------------
(* What the code or its comments say, and what does not hold.              *)

(* gametable.lua:213, assert(user.tableid == 0 and user.chairid == 0)      *)
SitsFromNowhere ==
  \A s \in Service : toTab[s] # <<>> /\ Arg(s).k = "req" /\ Arg(s).op = "user_sitdown"
                      => Arg(s).tid = 0

(* global/constants.lua:19, "start when full"                              *)
StartsFull ==
  \A s \in Service, x \in Coroutine : At(s, x, "gamestart") /\ FullReady
     => Occupied(tb[s].seat) = Chair

(* gametable.lua:173, "tell gamemgr that the status changed": with nothing *)
(* under way, who sits for gamemgr sits at the table                       *)
SeatedBack ==
  \A u \in InRoom :
    req.pc = "idle" /\ online[u].chair # 0 /\ online[u].st # "OB"
      => LET s == gt[online[u].tid] IN
         \/ s # None /\ (wt[s] # {} \/ toMgr[s] # <<>>)
         \/ s # None /\ tb[s].seat[online[u].chair] = u

(* gamemgr.lua:590, "you are in a game and cannot leave for now": whom      *)
(* gamemgr refuses a seat with these words sits at a table, once all that   *)
(* is under way there has arrived                                          *)
PlayingSeated ==
  \A u \in InRoom :
    cur = Idle /\ req.pc = "idle" /\ online[u].st = "PLAYING"
      => \E t \in Live : LET s == gt[t] IN
           \/ wt[s] # {} \/ toMgr[s] # <<>>
           \/ u \in {tb[s].seat[c] : c \in Chair}

-----------------------------------------------------------------------------
(* The tables of the room implement TablePool.                             *)

Place ==
  [s \in Service |->
     IF s \in pool THEN 0
     ELSE IF s \notin born THEN -1
     ELSE IF Starting(s) THEN req.t
     ELSE CHOOSE t \in TableId : gt[t] = s]

Pool == INSTANCE TablePool WITH place <- Place

PoolSpec == Pool!Spec
=============================================================================
