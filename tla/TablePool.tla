----------------------------- MODULE TablePool -----------------------------
(***************************************************************************)
(* What the room manager promises about its gametable services, whatever   *)
(* calls it makes meanwhile: each service is in one place.  It has not     *)
(* been created yet, waits in the pool, or runs one table; a table is run  *)
(* by one service; a service is created only when the pool is empty; and a *)
(* new table gets the lowest id that is not in use.                        *)
(***************************************************************************)
EXTENDS Integers

CONSTANTS
  Service,     \* gametable services the room ever runs
  MaxTable,    \* config.max_table_count
  PoolInit     \* the services created at the start

VARIABLE
  place   \* where each service is: Unborn, InPool or a table id

Unborn == -1
InPool == 0

InUse == {place[s] : s \in Service} \cap (1 .. MaxTable)

Init == place = [s \in Service |-> IF s \in PoolInit THEN InPool ELSE Unborn]

Open(s, t) ==
  /\ t \in (1 .. MaxTable) \ InUse
  /\ \A i \in (1 .. MaxTable) \ InUse : t <= i
  /\ \/ place[s] = InPool
     \/ place[s] = Unborn /\ \A r \in Service : place[r] # InPool
  /\ place' = [place EXCEPT ![s] = t]

Close(s) ==
  /\ place[s] \in 1 .. MaxTable
  /\ place' = [place EXCEPT ![s] = InPool]

Next == \E s \in Service : Close(s) \/ \E t \in 1 .. MaxTable : Open(s, t)

Spec == Init /\ [][Next]_place

-----------------------------------------------------------------------------
TypeOK == place \in [Service -> {Unborn, InPool} \cup 1 .. MaxTable]

(* No two services run the same table.                                     *)
OneServicePerTable ==
  \A s, r \in Service : place[s] \in 1 .. MaxTable /\ place[s] = place[r] => s = r
=============================================================================
