---------------------------- MODULE RoomCalls_proofs ----------------------------
(***************************************************************************)
(* The calls between the room manager and its tables, for any room: who    *)
(* waits for whom is settled by counting the messages on their way.        *)
(*                                                                         *)
(* CallInv is CallsAnswered and OneCall, in terms of NumIn.  A table's     *)
(* step takes the message that makes it run (Resumed, with nothing else    *)
(* changed), and then runs on, waits for gamemgr or ends (Outcome); a step *)
(* of gamemgr may take an answer, and then asks one table or ends its      *)
(* request (Issues).                                                       *)
(***************************************************************************)
EXTENDS GameRoom_proofs

-----------------------------------------------------------------------------
(* How many messages of a queue are of the set K.                          *)
Positions(q, K) == {i \in 1 .. Len(q) : q[i] \in K}
NumIn(q, K) == Cardinality(Positions(q, K))

(* one if b, and zero otherwise                                            *)
Bit(b) == IF b THEN 1 ELSE 0

(* Such a number is a natural number.                                      *)
LEMMA NumInType ==
  ASSUME NEW S, NEW q \in Seq(S), NEW K
  PROVE  NumIn(q, K) \in Nat /\ IsFiniteSet(Positions(q, K))
  <1>1. Len(q) \in Nat
    OBVIOUS
  <1>2. IsFiniteSet(1 .. Len(q))
    BY <1>1, FS_Interval
  <1>3. Positions(q, K) \in SUBSET (1 .. Len(q))
    BY DEF Positions
  <1>4. QED
    BY <1>2, <1>3, FS_Subset, FS_CardinalityType DEF NumIn

(* A message sent is counted.                                              *)
LEMMA NumInAppend ==
  ASSUME NEW S, NEW q \in Seq(S), NEW K, NEW e \in S
  PROVE  NumIn(Append(q, e), K) = NumIn(q, K) + Bit(e \in K)
  <1> DEFINE v == Append(q, e)
             n == Len(q)
  <1>1. n \in Nat /\ Len(v) = n + 1 /\ v[n + 1] = e /\ \A i \in 1 .. n : v[i] = q[i]
    OBVIOUS
  <1>2. IsFiniteSet(Positions(q, K)) /\ NumIn(q, K) \in Nat
    BY NumInType
  <1>3. n + 1 \notin Positions(q, K)
    BY <1>1 DEF Positions
  <1> HIDE DEF v
  <1>4. CASE e \in K
    <2>1. Positions(v, K) = Positions(q, K) \cup {n + 1}
      BY <1>1, <1>4 DEF Positions
    <2>2. QED
      BY <2>1, <1>2, <1>3, <1>4, FS_AddElement DEF NumIn, Bit, v
  <1>5. CASE e \notin K
    <2>1. Positions(v, K) = Positions(q, K)
      BY <1>1, <1>5 DEF Positions
    <2>2. QED
      BY <2>1, <1>2, <1>5 DEF NumIn, Bit, v
  <1>6. QED
    BY <1>4, <1>5

(* The message that is taken is no longer counted.                         *)
LEMMA NumInTail ==
  ASSUME NEW S, NEW q \in Seq(S), q # <<>>, NEW K
  PROVE  NumIn(q, K) = NumIn(Tail(q), K) + Bit(Head(q) \in K)
  <1> DEFINE v == Tail(q)
             n == Len(v)
             A == Positions(v, K)
             B == Positions(q, K) \ {1}
             f == [i \in A |-> i + 1]
  <1>1. /\ n \in Nat /\ Len(q) = n + 1 /\ Head(q) = q[1]
        /\ \A i \in 1 .. n : v[i] = q[i + 1]
        /\ v \in Seq(S)
    OBVIOUS
  <1>2. IsFiniteSet(A) /\ Cardinality(A) \in Nat /\ IsFiniteSet(Positions(q, K))
    BY <1>1, NumInType DEF NumIn
  <1> HIDE DEF v
  <1>3. A \subseteq 1 .. n /\ \A i \in 1 .. n : i \in A <=> i + 1 \in B
    BY <1>1 DEF Positions
  <1>4. \A j \in B : j - 1 \in A /\ j - 1 + 1 = j
    <2>1. \A j \in B : j \in 2 .. (n + 1)
      BY <1>1 DEF Positions
    <2>2. \A j \in 2 .. (n + 1) : j - 1 \in 1 .. n /\ j - 1 + 1 = j
      BY <1>1
    <2>3. QED
      BY <2>1, <2>2, <1>3
  <1>5. ExistsBijection(A, B)
    <2> HIDE DEF A, B, n
    <2>1. f \in [A -> B]
      BY <1>3
    <2>2. \A i, j \in A : f[i] = f[j] => i = j
      BY <1>1, <1>3
    <2>3. \A j \in B : \E i \in A : f[i] = j
      BY <1>4
    <2>4. f \in Bijection(A, B)
      BY <2>1, <2>2, <2>3, Zenon DEF Bijection, Injection, Surjection, IsInjective
    <2>5. QED
      BY <2>4 DEF ExistsBijection
  <1>6. Cardinality(B) = Cardinality(A)
    BY <1>2, <1>5, FS_Bijection
  <1>7. Cardinality(B) = IF 1 \in Positions(q, K) THEN Cardinality(Positions(q, K)) - 1
                         ELSE Cardinality(Positions(q, K))
    BY <1>2, FS_RemoveElement
  <1>8. 1 \in Positions(q, K) <=> Head(q) \in K
    BY <1>1 DEF Positions
  <1>9. Cardinality(Positions(q, K)) \in Nat
    BY <1>2, FS_CardinalityType
  <1>10. QED
    BY <1>2, <1>6, <1>7, <1>8, <1>9 DEF NumIn, Bit, v

-----------------------------------------------------------------------------
(* The messages that are counted: the questions of gamemgr and the answers *)
(* it gives to coroutine x; what the tables return and what coroutine x    *)
(* asks of gamemgr.                                                        *)
Asked      == {m \in TabMsg : m.k = "req"}
Answers(x) == {m \in TabMsg : m.k = "resp" /\ m.x = x}
Returned   == {m \in MgrMsg : m.k = "ret"}
CallsOf(x) == {m \in MgrMsg : m.k # "ret" /\ m.x = x}

Active(s, x) == Running(s, x) \/ x \in wt[s]

Owes(s, x)   == NumIn(toTab[s], Answers(x)) + NumIn(toMgr[s], CallsOf(x))
Engaged(s) == NumIn(toTab[s], Asked) + NumIn(toMgr[s], Returned) + Bit(Active(s, "R"))

(* CallsAnswered and OneCall in these terms: one coroutine                 *)
Waits ==
  \A s \in Service, x \in Coroutine :
    /\ Owes(s, x) = Bit(x \in wt[s])
    /\ Running(s, x) => x \notin wt[s]
    /\ co[s][x] # <<>> => Active(s, x)

NoneEngaged   == \A s \in Service : Engaged(s) = 0
OneEngaged(s) == Engaged(s) = 1 /\ \A r \in Service \ {s} : Engaged(r) = 0

OneAsked ==
  IF req.pc \in {"idle", "db"} THEN NoneEngaged ELSE \E s \in Service : OneEngaged(s)

CallInv == Waits /\ OneAsked

(* The counts are those of the properties.                                 *)
LEMMA Counts ==
  ASSUME ChanTypeOK, TabTypeOK, NEW s \in Service
  PROVE  /\ Pending(s) = Engaged(s)
         /\ \A x \in Coroutine : Owed(s, x) = Owes(s, x)
  <1>1. /\ toTab[s] \in Seq(TabMsg) /\ \A i \in 1 .. Len(toTab[s]) : toTab[s][i] \in TabMsg
        /\ toMgr[s] \in Seq(MgrMsg) /\ \A i \in 1 .. Len(toMgr[s]) : toMgr[s][i] \in MgrMsg
    BY DEF ChanTypeOK
  <1>2. Positions(toTab[s], Asked) = {i \in 1 .. Len(toTab[s]) : toTab[s][i].k = "req"}
    BY <1>1 DEF Positions, Asked
  <1>3. Positions(toMgr[s], Returned) = {i \in 1 .. Len(toMgr[s]) : toMgr[s][i].k = "ret"}
    BY <1>1 DEF Positions, Returned
  <1>4. ASSUME NEW x \in Coroutine
        PROVE  /\ Positions(toTab[s], Answers(x)) =
                    {i \in 1 .. Len(toTab[s]) : toTab[s][i].k = "resp" /\ toTab[s][i].x = x}
               /\ Positions(toMgr[s], CallsOf(x)) =
                    {i \in 1 .. Len(toMgr[s]) : toMgr[s][i].k # "ret" /\ toMgr[s][i].x = x}
    BY <1>1 DEF Positions, Answers, CallsOf
  <1> DEFINE W == {"R"} \cap (wt[s] \cup IF cur.svc = s THEN {cur.co} ELSE {})
  <1>5. Cardinality(W) = Bit(Active(s, "R"))
    <2>1. Active(s, "R") <=> "R" \in W
      BY DEF Active, Running, ChanTypeOK
    <2>2. CASE "R" \in W
      <3>1. W = {"R"}
        BY <2>2
      <3>2. QED
        BY <2>1, <2>2, <3>1, FS_Singleton DEF Bit
    <2>3. CASE "R" \notin W
      <3>1. W = {}
        BY <2>3
      <3>2. QED
        BY <2>1, <2>3, <3>1, FS_EmptySet DEF Bit
    <2>4. QED
      BY <2>2, <2>3
  <1>6. QED
    BY <1>2, <1>3, <1>4, <1>5, Zenon DEF Pending, Engaged, Owed, Owes, NumIn

(* CallInv is about what the properties say.                               *)
LEMMA CallFacts ==
  ASSUME ChanTypeOK, TabTypeOK, CallInv
  PROVE  CallsAnswered /\ OneCall
  <1>1. CallsAnswered
    <2>1. \A s \in Service, x \in Coroutine : Owed(s, x) = Owes(s, x)
      BY Counts
    <2>2. QED
      BY <2>1, Zenon DEF CallInv, Waits, Active, Bit, CallsAnswered
  <1>2. OneCall
    <2>1. \A s \in Service : Pending(s) = Engaged(s)
      BY Counts
    <2>2. QED
      BY <2>1, Zenon DEF CallInv, OneAsked, NoneEngaged, OneEngaged, OneCall
  <1>3. QED
    BY <1>1, <1>2

(* The counts are natural numbers.                                         *)
LEMMA CountTypes ==
  ASSUME ChanTypeOK, NEW s \in Service
  PROVE  /\ NumIn(toTab[s], Asked) \in Nat /\ NumIn(toMgr[s], Returned) \in Nat
         /\ \A x : NumIn(toTab[s], Answers(x)) \in Nat /\ NumIn(toMgr[s], CallsOf(x)) \in Nat
         /\ \A b : Bit(b) \in {0, 1}
         /\ Engaged(s) \in Nat
  <1>1. toTab[s] \in Seq(TabMsg) /\ toMgr[s] \in Seq(MgrMsg)
    BY DEF ChanTypeOK
  <1>2. \A b : Bit(b) \in {0, 1}
    BY DEF Bit
  <1>3. /\ NumIn(toTab[s], Asked) \in Nat /\ NumIn(toMgr[s], Returned) \in Nat
        /\ \A x : NumIn(toTab[s], Answers(x)) \in Nat /\ NumIn(toMgr[s], CallsOf(x)) \in Nat
    BY <1>1, NumInType
  <1>4. Engaged(s) \in Nat
    BY <1>2, <1>3 DEF Engaged
  <1>5. QED
    BY <1>2, <1>3, <1>4

-----------------------------------------------------------------------------
(* A table's step.  Coroutine x of s has been chosen to run: the message   *)
(* it runs for has been taken (toTab', with toMgr and wt still as they     *)
(* were), and counts as x being active.                                    *)
Resumed(s, x) ==
  /\ cur = Idle \/ Running(s, x)
  /\ toTab' \in [Service -> Seq(TabMsg)]
  /\ \A r \in Service \ {s} : toTab'[r] = toTab[r]
  /\ \A y \in Coroutine :
       NumIn(toTab'[s], Answers(y)) + NumIn(toMgr[s], CallsOf(y)) = Bit(y \in wt[s] \ {x})
  /\ Engaged(s) = NumIn(toTab'[s], Asked) + NumIn(toMgr[s], Returned)
                  + Bit(x = "R" \/ "R" \in wt[s])

(* How the stretch ends: x runs on, waits for gamemgr, or is done, and     *)
(* then a request has returned.                                            *)
RunsOn(s, x) ==
  cur' = [svc |-> s, co |-> x] /\ wt' = [wt EXCEPT ![s] = @ \ {x}] /\ UNCHANGED toMgr

WaitsForMgr(s, x) ==
  /\ cur' = Idle /\ wt' = [wt EXCEPT ![s] = @ \cup {x}]
  /\ \E m \in CallsOf(x) : toMgr' = [toMgr EXCEPT ![s] = Append(@, m)]

Ends(s, x) ==
  /\ cur' = Idle /\ wt' = [wt EXCEPT ![s] = @ \ {x}] /\ co'[s][x] = <<>>
  /\ IF x = "R" THEN \E m \in Returned : toMgr' = [toMgr EXCEPT ![s] = Append(@, m)]
     ELSE UNCHANGED toMgr

Outcome(s, x) ==
  /\ RunsOn(s, x) \/ WaitsForMgr(s, x) \/ Ends(s, x)
  /\ \A r \in Service, y \in Coroutine :
       (r # s \/ y # x) /\ co[r][y] = <<>> => co'[r][y] = <<>>

(* A message sent to gamemgr, seen by the counts.                          *)
LEMMA Sent ==
  ASSUME ChanTypeOK, NEW s \in Service, NEW m \in MgrMsg, NEW K,
         toMgr' = [toMgr EXCEPT ![s] = Append(@, m)]
  PROVE  /\ NumIn(toMgr'[s], K) = NumIn(toMgr[s], K) + Bit(m \in K)
         /\ \A r \in Service \ {s} : toMgr'[r] = toMgr[r]
  <1>1. toMgr[s] \in Seq(MgrMsg) /\ toMgr'[s] = Append(toMgr[s], m)
    BY DEF ChanTypeOK
  <1>2. \A r \in Service \ {s} : toMgr'[r] = toMgr[r]
    BY DEF ChanTypeOK
  <1>3. QED
    BY <1>1, <1>2, NumInAppend

(* A running coroutine is not Idle, and is one coroutine of one table.      *)
LEMMA WhoRuns ==
  /\ \A r \in Service : \A y : [svc |-> r, co |-> y] # Idle
  /\ \A r, s, x, y : [svc |-> r, co |-> y] = [svc |-> s, co |-> x] => r = s /\ y = x
  <1>1. ASSUME NEW r \in Service, NEW y, [svc |-> r, co |-> y] = Idle PROVE FALSE
    <2>1. [svc |-> r, co |-> y].svc = Idle.svc
      BY <1>1
    <2>2. r = None
      BY <2>1 DEF Idle
    <2>3. QED
      BY <2>2, RoomAssumption
  <1>2. ASSUME NEW r, NEW s, NEW x, NEW y, [svc |-> r, co |-> y] = [svc |-> s, co |-> x]
        PROVE  r = s /\ y = x
    <2>1. [svc |-> r, co |-> y].svc = [svc |-> s, co |-> x].svc
      BY <1>2, Zenon
    <2>2. [svc |-> r, co |-> y].co = [svc |-> s, co |-> x].co
      BY <1>2, Zenon
    <2>3. QED
      BY <2>1, <2>2
  <1>3. QED
    BY <1>1, <1>2

(* Another coroutine or another table does not notice a stretch.           *)
LEMMA OthersWait ==
  ASSUME ChanTypeOK, TabTypeOK, Waits, NEW s \in Service, NEW x \in Coroutine,
         Resumed(s, x), Outcome(s, x)
  PROVE  /\ \A r \in Service \ {s} : /\ toTab'[r] = toTab[r] /\ toMgr'[r] = toMgr[r]
                                     /\ wt'[r] = wt[r]
                                     /\ \A y : ~Running(r, y) /\ ~Running(r, y)'
         /\ \A y \in Coroutine \ {x} : ~Running(s, y) /\ ~Running(s, y)'
         /\ \A y \in Coroutine \ {x} : y \in wt'[s] <=> y \in wt[s]
         /\ wt'[s] = IF WaitsForMgr(s, x) THEN wt[s] \cup {x} ELSE wt[s] \ {x}
         /\ Running(s, x)' <=> ~WaitsForMgr(s, x) /\ RunsOn(s, x)
  <1>1. \A r \in Service : [svc |-> r, co |-> x] # Idle
    BY WhoRuns
  <1>2. \A r \in Service : \A y : Running(r, y) => r = s /\ y = x
    BY WhoRuns, Zenon DEF Resumed, Running
  <1>3. cur' = Idle \/ cur' = [svc |-> s, co |-> x]
    BY DEF Outcome, RunsOn, WaitsForMgr, Ends
  <1>4. \A r \in Service : \A y : Running(r, y)' => r = s /\ y = x
    BY <1>3, WhoRuns, Zenon DEF Running
  <1>5. \A r \in Service \ {s} : toMgr'[r] = toMgr[r] /\ wt'[r] = wt[r]
    <2>1. \A r \in Service \ {s} : wt'[r] = wt[r]
      BY DEF Outcome, RunsOn, WaitsForMgr, Ends, TabTypeOK
    <2>2. \A m : toMgr' = [toMgr EXCEPT ![s] = Append(@, m)]
                   => \A r \in Service \ {s} : toMgr'[r] = toMgr[r]
      BY DEF ChanTypeOK
    <2>3. \A r \in Service \ {s} : toMgr'[r] = toMgr[r]
      BY <2>2 DEF Outcome, RunsOn, WaitsForMgr, Ends
    <2>4. QED
      BY <2>1, <2>3
  <1>6. x \in wt'[s] <=> WaitsForMgr(s, x)
    <2>1. WaitsForMgr(s, x) => x \in wt'[s]
      BY DEF WaitsForMgr, TabTypeOK
    <2>2. RunsOn(s, x) \/ Ends(s, x) => x \notin wt'[s]
      BY DEF RunsOn, Ends, TabTypeOK
    <2>3. QED
      BY <2>1, <2>2 DEF Outcome
  <1>7. wt'[s] = IF WaitsForMgr(s, x) THEN wt[s] \cup {x} ELSE wt[s] \ {x}
    BY <1>6 DEF Outcome, RunsOn, WaitsForMgr, Ends, TabTypeOK
  <1>8. Running(s, x)' <=> ~WaitsForMgr(s, x) /\ RunsOn(s, x)
    BY <1>1 DEF Running, Outcome, RunsOn, WaitsForMgr, Ends
  <1>9. QED
    BY <1>2, <1>4, <1>5, <1>7, <1>8 DEF Resumed

(* However a stretch ends, who waits for whom is again as it should be,    *)
(* and no table becomes engaged or free.                                   *)
LEMMA OutcomeKeeps ==
  ASSUME ChanTypeOK, TabTypeOK, Waits, NEW s \in Service, NEW x \in Coroutine,
         Resumed(s, x), Outcome(s, x)
  PROVE  Waits' /\ \A r \in Service : Engaged(r)' = Engaged(r)
  <1> DEFINE R == NumIn(toMgr[s], Returned)
             C(y) == NumIn(toMgr[s], CallsOf(y))
             A(y) == NumIn(toTab'[s], Answers(y))
             Q == NumIn(toTab'[s], Asked)
  <1>1. /\ R \in Nat /\ \A y \in Coroutine : C(y) \in Nat
        /\ \A b : Bit(b) \in {0, 1}
    BY CountTypes
  <1>2. Q \in Nat /\ \A y \in Coroutine : A(y) \in Nat
    BY NumInType DEF Resumed
  <1>3. /\ \A y \in Coroutine : A(y) + C(y) = Bit(y \in wt[s] \ {x})
        /\ Engaged(s) = Q + R + Bit(x = "R" \/ "R" \in wt[s])
    BY DEF Resumed
  <1>4. \A y \in Coroutine :
          NumIn(toMgr'[s], CallsOf(y)) = C(y) + Bit(WaitsForMgr(s, x) /\ y = x)
    <2>1. CASE WaitsForMgr(s, x)
      <3>1. PICK m \in CallsOf(x) : toMgr' = [toMgr EXCEPT ![s] = Append(@, m)]
        BY <2>1 DEF WaitsForMgr
      <3>2. m \in MgrMsg /\ \A y \in Coroutine : m \in CallsOf(y) <=> y = x
        BY DEF CallsOf
      <3>3. \A y \in Coroutine :
              NumIn(toMgr'[s], CallsOf(y)) = C(y) + Bit(m \in CallsOf(y))
        BY <3>1, <3>2, Sent
      <3>4. QED
        BY <2>1, <3>2, <3>3 DEF Bit
    <2>2. CASE ~WaitsForMgr(s, x) /\ RunsOn(s, x)
      BY <2>2, <1>1 DEF RunsOn, Bit
    <2>3. CASE ~WaitsForMgr(s, x) /\ Ends(s, x)
      <3>1. CASE x = "R"
        <4>1. PICK m \in Returned : toMgr' = [toMgr EXCEPT ![s] = Append(@, m)]
          BY <2>3, <3>1 DEF Ends
        <4>2. m \in MgrMsg /\ \A y \in Coroutine : m \notin CallsOf(y)
          BY DEF CallsOf, Returned
        <4>3. \A y \in Coroutine :
                NumIn(toMgr'[s], CallsOf(y)) = C(y) + Bit(m \in CallsOf(y))
          BY <4>1, <4>2, Sent
        <4>4. QED
          BY <2>3, <4>2, <4>3 DEF Bit
      <3>2. CASE x # "R"
        BY <2>3, <3>2, <1>1 DEF Ends, Bit
      <3>3. QED
        BY <3>1, <3>2
    <2>4. QED
      BY <2>1, <2>2, <2>3 DEF Outcome
  <1>5. NumIn(toMgr'[s], Returned) = R + Bit(x = "R" /\ ~WaitsForMgr(s, x) /\ ~RunsOn(s, x))
    <2>1. CASE WaitsForMgr(s, x)
      <3>1. PICK m \in CallsOf(x) : toMgr' = [toMgr EXCEPT ![s] = Append(@, m)]
        BY <2>1 DEF WaitsForMgr
      <3>2. m \in MgrMsg /\ m \notin Returned
        BY DEF CallsOf, Returned
      <3>3. NumIn(toMgr'[s], Returned) = R + Bit(m \in Returned)
        BY <3>1, <3>2, Sent
      <3>4. QED
        BY <2>1, <3>2, <3>3 DEF Bit
    <2>2. CASE ~WaitsForMgr(s, x) /\ RunsOn(s, x)
      BY <2>2, <1>1 DEF RunsOn, Bit
    <2>3. CASE ~WaitsForMgr(s, x) /\ ~RunsOn(s, x) /\ Ends(s, x)
      <3>1. CASE x = "R"
        <4>1. PICK m \in Returned : toMgr' = [toMgr EXCEPT ![s] = Append(@, m)]
          BY <2>3, <3>1 DEF Ends
        <4>2. m \in MgrMsg
          BY DEF Returned
        <4>3. NumIn(toMgr'[s], Returned) = R + Bit(m \in Returned)
          BY <4>1, <4>2, Sent
        <4>4. QED
          BY <2>3, <3>1, <4>3 DEF Bit
      <3>2. CASE x # "R"
        BY <2>3, <3>2, <1>1 DEF Ends, Bit
      <3>3. QED
        BY <3>1, <3>2
    <2>4. QED
      BY <2>1, <2>2, <2>3 DEF Outcome
  <1> HIDE DEF R, C, A, Q
  <1>6. \A r \in Service \ {s} : Engaged(r)' = Engaged(r)
    BY OthersWait DEF Engaged, Active
  <1>7. Engaged(s)' = Engaged(s)
    <2>1. Engaged(s)' = Q + NumIn(toMgr'[s], Returned) + Bit(Active(s, "R")')
      BY DEF Engaged, Q
    <2>2. Active(s, "R")' <=>
            (x = "R" /\ (WaitsForMgr(s, x) \/ RunsOn(s, x))) \/ (x # "R" /\ "R" \in wt[s])
      BY OthersWait DEF Active, Coroutine
    <2>3. QED
      BY <1>1, <1>2, <1>3, <1>5, <2>1, <2>2 DEF Bit
  <1>8. ASSUME NEW r \in Service, NEW y \in Coroutine
        PROVE  /\ Owes(r, y)' = Bit(y \in wt[r])'
               /\ Running(r, y)' => y \notin wt'[r]
               /\ co'[r][y] # <<>> => Active(r, y)'
    <2>1. CASE r # s
      <3>1. Owes(r, y)' = Owes(r, y) /\ wt'[r] = wt[r] /\ ~Running(r, y)' /\ ~Running(r, y)
        BY <2>1, OthersWait DEF Owes
      <3>2. co[r][y] = <<>> => co'[r][y] = <<>>
        BY <2>1 DEF Outcome
      <3>3. Owes(r, y) = Bit(y \in wt[r]) /\ (co[r][y] # <<>> => Active(r, y))
        BY DEF Waits
      <3>4. Bit(y \in wt[r])' = Bit(y \in wt[r])
        BY <3>1
      <3>5. QED
        BY <3>1, <3>2, <3>3, <3>4 DEF Active
    <2>2. CASE r = s /\ y # x
      <3>1. Owes(s, y)' = Bit(y \in wt[s])
        <4>1. NumIn(toMgr'[s], CallsOf(y)) = C(y) + 0
          BY <2>2, <1>4 DEF Bit
        <4>2. Owes(s, y)' = A(y) + NumIn(toMgr'[s], CallsOf(y))
          BY Zenon DEF Owes, A
        <4>3. A(y) + C(y) = Bit(y \in wt[s])
          BY <2>2, <1>3 DEF Bit
        <4>4. QED
          BY <4>1, <4>2, <4>3, <1>1, <1>2
      <3>2. Bit(y \in wt[s])' = Bit(y \in wt[s])
        BY <2>2, OthersWait DEF Bit
      <3>3. ~Running(s, y) /\ ~Running(s, y)' /\ (y \in wt'[s] <=> y \in wt[s])
        BY <2>2, OthersWait
      <3>4. co'[s][y] # <<>> => Active(s, y)'
        BY <2>2, <3>3 DEF Outcome, Waits, Active
      <3>5. QED
        BY <2>2, <3>1, <3>2, <3>3, <3>4, <1>1
    <2>3. CASE r = s /\ y = x
      <3>1. A(x) + C(x) = 0
        BY <1>3 DEF Bit
      <3>2. Owes(s, x)' = A(x) + (C(x) + Bit(WaitsForMgr(s, x)))
        <4>1. NumIn(toMgr'[s], CallsOf(x)) = C(x) + Bit(WaitsForMgr(s, x))
          BY <1>4 DEF Bit
        <4>2. Owes(s, x)' = A(x) + NumIn(toMgr'[s], CallsOf(x))
          BY Zenon DEF Owes, A
        <4>3. QED
          BY <4>1, <4>2
      <3>3. x \in wt'[s] <=> WaitsForMgr(s, x)
        <4>1. wt'[s] = IF WaitsForMgr(s, x) THEN wt[s] \cup {x} ELSE wt[s] \ {x}
          BY OthersWait
        <4>2. QED
          BY <4>1
      <3>4. Bit(x \in wt[s])' = Bit(WaitsForMgr(s, x))
        BY <3>3 DEF Bit
      <3>5. Owes(s, x)' = Bit(x \in wt[s])'
        BY <3>1, <3>2, <3>4, <1>1, <1>2
      <3>6. Running(s, x)' => x \notin wt'[s]
        BY OthersWait, <3>3
      <3>7. co'[s][x] # <<>> => Active(s, x)'
        BY OthersWait, <3>3 DEF Outcome, Ends, Active
      <3>8. QED
        BY <2>3, <3>5, <3>6, <3>7
    <2>4. QED
      BY <2>1, <2>2, <2>3
  <1>9. Waits'
    BY <1>8 DEF Waits
  <1>10. QED
    BY <1>6, <1>7, <1>9

-----------------------------------------------------------------------------
(* The three ways a stretch begins.  A coroutine that runs goes on, or the *)
(* answer it waits for is taken.                                           *)
LEMMA ResumedByAnswer ==
  ASSUME ChanTypeOK, TabTypeOK, Waits, NEW s \in Service, NEW x \in Coroutine,
         Running(s, x) \/ Answered(s, x),
         toTab' = IF cur = Idle THEN [toTab EXCEPT ![s] = Tail(@)] ELSE toTab
  PROVE  Resumed(s, x)
  <1>1. toTab[s] \in Seq(TabMsg)
    BY DEF ChanTypeOK
  <1>2. /\ \A y \in Coroutine : Owes(s, y) = Bit(y \in wt[s])
        /\ Running(s, x) => x \notin wt[s]
    BY DEF Waits
  <1>3. CASE Running(s, x)
    <2>1. cur # Idle
      BY <1>3, WhoRuns DEF Running
    <2>2. toTab' = toTab
      BY <2>1
    <2>3. \A y \in Coroutine : y \in wt[s] \ {x} <=> y \in wt[s]
      BY <1>2, <1>3
    <2>4. \A y \in Coroutine : Owes(s, y) = Bit(y \in wt[s] \ {x})
      BY <1>2, <2>3 DEF Bit
    <2>5. Active(s, "R") <=> x = "R" \/ "R" \in wt[s]
      BY <1>3, WhoRuns DEF Active, Running
    <2>6. Engaged(s) = NumIn(toTab[s], Asked) + NumIn(toMgr[s], Returned)
                       + Bit(x = "R" \/ "R" \in wt[s])
      BY <2>5 DEF Engaged, Bit
    <2>7. QED
      BY <1>3, <2>2, <2>4, <2>6 DEF Resumed, Owes, ChanTypeOK
  <1>4. CASE Answered(s, x)
    <2>1. cur = Idle /\ toTab[s] # <<>>
      BY <1>4 DEF Answered
    <2>2. toTab'[s] = Tail(toTab[s]) /\ \A r \in Service \ {s} : toTab'[r] = toTab[r]
      BY <2>1 DEF ChanTypeOK
    <2>3. Head(toTab[s]) \in TabMsg /\ Tail(toTab[s]) \in Seq(TabMsg)
      BY <1>1, <2>1
    <2>4. /\ Head(toTab[s]) \notin Asked
          /\ \A y \in Coroutine : Head(toTab[s]) \in Answers(y) <=> y = x
      BY <1>4, <2>3 DEF Answered, Asked, Answers
    <2>5. toTab' \in [Service -> Seq(TabMsg)]
      BY <2>1, <2>3 DEF ChanTypeOK
    <2>6. NumIn(toTab'[s], Asked) = NumIn(toTab[s], Asked)
      <3>1. NumIn(toTab[s], Asked) = NumIn(toTab'[s], Asked) + Bit(Head(toTab[s]) \in Asked)
        BY <1>1, <2>1, <2>2, NumInTail
      <3>2. NumIn(toTab'[s], Asked) \in Nat
        BY <2>2, <2>3, NumInType
      <3>3. QED
        BY <2>4, <3>1, <3>2 DEF Bit
    <2>7. \A y \in Coroutine : /\ NumIn(toTab'[s], Answers(y)) \in Nat
                               /\ NumIn(toMgr[s], CallsOf(y)) \in Nat
      BY <2>2, <2>3, NumInType, CountTypes
    <2>8. \A y \in Coroutine :
            NumIn(toTab[s], Answers(y)) = NumIn(toTab'[s], Answers(y)) + Bit(y = x)
      <3>1. \A y \in Coroutine : NumIn(toTab[s], Answers(y)) =
              NumIn(toTab'[s], Answers(y)) + Bit(Head(toTab[s]) \in Answers(y))
        BY <1>1, <2>1, <2>2, NumInTail
      <3>2. QED
        BY <2>4, <3>1 DEF Bit
    <2>9. \A y \in Coroutine :
            NumIn(toTab'[s], Answers(y)) + Bit(y = x) + NumIn(toMgr[s], CallsOf(y))
              = Bit(y \in wt[s])
      BY <1>2, <2>8 DEF Owes
    <2>10. x \in wt[s]
      BY <2>7, <2>9 DEF Bit
    <2>11. \A y \in Coroutine :
             NumIn(toTab'[s], Answers(y)) + NumIn(toMgr[s], CallsOf(y)) = Bit(y \in wt[s] \ {x})
      <3>1. TAKE y \in Coroutine
      <3>2. CASE y = x
        BY <2>7, <2>9, <3>2 DEF Bit
      <3>3. CASE y # x
        BY <2>7, <2>9, <3>3 DEF Bit
      <3>4. QED
        BY <3>2, <3>3
    <2>12. Active(s, "R") <=> x = "R" \/ "R" \in wt[s]
      BY <2>1, <2>10, WhoRuns DEF Active, Running
    <2>13. Engaged(s) = NumIn(toTab'[s], Asked) + NumIn(toMgr[s], Returned)
                        + Bit(x = "R" \/ "R" \in wt[s])
      BY <2>6, <2>12 DEF Engaged, Bit
    <2>14. QED
      BY <2>1, <2>2, <2>5, <2>11, <2>13 DEF Resumed
  <1>5. QED
    BY <1>3, <1>4

(* A request of gamemgr is taken by a table whose "R" is free.             *)
LEMMA ResumedByRequest ==
  ASSUME ChanTypeOK, TabTypeOK, Waits, OneAsked, NEW s \in Service,
         cur = Idle, toTab[s] # <<>>, Head(toTab[s]).k = "req",
         toTab' = [toTab EXCEPT ![s] = Tail(@)]
  PROVE  Resumed(s, "R") /\ "R" \notin wt[s] /\ co[s]["R"] = <<>>
  <1>1. toTab[s] \in Seq(TabMsg) /\ Head(toTab[s]) \in TabMsg
        /\ Tail(toTab[s]) \in Seq(TabMsg)
    BY DEF ChanTypeOK
  <1>2. toTab'[s] = Tail(toTab[s]) /\ \A r \in Service \ {s} : toTab'[r] = toTab[r]
    BY DEF ChanTypeOK
  <1>3. toTab' \in [Service -> Seq(TabMsg)]
    BY <1>1 DEF ChanTypeOK
  <1>4. Head(toTab[s]) \in Asked /\ \A y \in Coroutine : Head(toTab[s]) \notin Answers(y)
    BY <1>1 DEF Asked, Answers
  <1>5. NumIn(toTab[s], Asked) = NumIn(toTab'[s], Asked) + 1
    <2>1. NumIn(toTab[s], Asked) = NumIn(toTab'[s], Asked) + Bit(Head(toTab[s]) \in Asked)
      BY <1>1, <1>2, NumInTail
    <2>2. QED
      BY <1>4, <2>1 DEF Bit
  <1>6. \A y \in Coroutine : NumIn(toTab'[s], Answers(y)) = NumIn(toTab[s], Answers(y))
    <2>1. \A y \in Coroutine : NumIn(toTab[s], Answers(y)) =
            NumIn(toTab'[s], Answers(y)) + Bit(Head(toTab[s]) \in Answers(y))
      BY <1>1, <1>2, NumInTail
    <2>2. \A y \in Coroutine : NumIn(toTab'[s], Answers(y)) \in Nat
      BY <1>1, <1>2, NumInType
    <2>3. QED
      BY <1>4, <2>1, <2>2 DEF Bit
  <1>7. /\ NumIn(toTab'[s], Asked) \in Nat /\ NumIn(toMgr[s], Returned) \in Nat
        /\ \A b : Bit(b) \in {0, 1}
    BY <1>1, <1>2, NumInType, CountTypes
  <1>8. Engaged(s) \in {0, 1}
    BY DEF OneAsked, NoneEngaged, OneEngaged
  <1>9. Engaged(s) = (NumIn(toTab'[s], Asked) + 1) + NumIn(toMgr[s], Returned)
                     + Bit(Active(s, "R"))
    BY <1>5 DEF Engaged
  <1>10. ~Active(s, "R")
    BY <1>7, <1>8, <1>9 DEF Bit
  <1>11. "R" \notin wt[s] /\ co[s]["R"] = <<>>
    BY <1>10 DEF Active, Waits, Coroutine
  <1>12. Engaged(s) = NumIn(toTab'[s], Asked) + NumIn(toMgr[s], Returned)
                      + Bit("R" = "R" \/ "R" \in wt[s])
    BY <1>7, <1>9, <1>10 DEF Bit
  <1>13. \A y \in Coroutine :
           NumIn(toTab'[s], Answers(y)) + NumIn(toMgr[s], CallsOf(y)) = Bit(y \in wt[s] \ {"R"})
    <2>1. wt[s] \ {"R"} = wt[s]
      BY <1>11
    <2>2. QED
      BY <1>6, <2>1 DEF Waits, Owes
  <1>14. QED
    BY <1>2, <1>3, <1>11, <1>12, <1>13 DEF Resumed

(* A timer fires while its coroutine is not suspended: nothing is taken.   *)
LEMMA ResumedByTimer ==
  ASSUME ChanTypeOK, TabTypeOK, Waits, NEW s \in Service,
         cur = Idle, "T" \notin wt[s], UNCHANGED toTab
  PROVE  Resumed(s, "T")
  <1>1. wt[s] \ {"T"} = wt[s]
    OBVIOUS
  <1>2. Active(s, "R") <=> "T" = "R" \/ "R" \in wt[s]
    BY WhoRuns DEF Active, Running
  <1>3. QED
    BY <1>1, <1>2 DEF Resumed, Waits, Owes, Engaged, Bit, ChanTypeOK

-----------------------------------------------------------------------------
(* How each step of a table ends its stretch.                              *)
AnswerTaken(s) == toTab' = IF cur = Idle THEN [toTab EXCEPT ![s] = Tail(@)] ELSE toTab

Stretch(s, x) == (Running(s, x) \/ Answered(s, x)) /\ AnswerTaken(s) /\ Outcome(s, x)

(* What a table returns, and what its coroutine x calls gamemgr for.       *)
LEMMA MessageKinds ==
  /\ \A b : Return(TRUE, IF b THEN 1 ELSE 0) \in Returned
  /\ Return(FALSE, 0) \in Returned
  /\ \A ok \in BOOLEAN, val \in 0 .. MaxChair : Return(ok, val) \in Returned
  /\ \A x \in Coroutine :
       /\ \A u \in User, t \in 0 .. MaxTable, c \in 0 .. MaxChair, st \in Status :
            StatusEvent(x, u, t, c, st) \in CallsOf(x)
       /\ \A t \in 0 .. MaxTable, st \in BOOLEAN, n \in 0 .. MaxChair :
            TableEvent(x, t, st, n) \in CallsOf(x)
       /\ \A u \in User, rich \in BOOLEAN : ScoreEvent(x, u, rich) \in CallsOf(x)
       /\ RecordEvent(x) \in CallsOf(x)
  <1>1. \A ok \in BOOLEAN, val \in 0 .. MaxChair : Return(ok, val) \in Returned
    BY DEF Return, Returned, MgrMsg, ReturnMsg
  <1>2. ASSUME NEW x \in Coroutine
        PROVE  /\ \A u, t, c, st : StatusEvent(x, u, t, c, st).k # "ret"
                                   /\ StatusEvent(x, u, t, c, st).x = x
               /\ \A t, st, n : TableEvent(x, t, st, n).k # "ret" /\ TableEvent(x, t, st, n).x = x
               /\ \A u, rich : ScoreEvent(x, u, rich).k # "ret" /\ ScoreEvent(x, u, rich).x = x
               /\ RecordEvent(x).k # "ret" /\ RecordEvent(x).x = x
    BY DEF StatusEvent, TableEvent, ScoreEvent, RecordEvent
  <1>3. 0 \in 0 .. MaxChair /\ 1 \in 0 .. MaxChair
    BY RoomAssumption
  <1>4. \A b : Return(TRUE, IF b THEN 1 ELSE 0) \in Returned
    <2>1. TAKE b
    <2>2. (IF b THEN 1 ELSE 0) \in 0 .. MaxChair
      BY <1>3
    <2>3. QED
      BY <1>1, <2>2
  <1>5. Return(FALSE, 0) \in Returned
    BY <1>1, <1>3
  <1>6. ASSUME NEW x \in Coroutine
        PROVE  /\ \A u \in User, t \in 0 .. MaxTable, c \in 0 .. MaxChair, st \in Status :
                    StatusEvent(x, u, t, c, st) \in CallsOf(x)
               /\ \A t \in 0 .. MaxTable, st \in BOOLEAN, n \in 0 .. MaxChair :
                    TableEvent(x, t, st, n) \in CallsOf(x)
               /\ \A u \in User, rich \in BOOLEAN : ScoreEvent(x, u, rich) \in CallsOf(x)
               /\ RecordEvent(x) \in CallsOf(x)
    BY <1>2, EventType DEF CallsOf
  <1>7. QED
    BY <1>1, <1>4, <1>5, <1>6

(* A coroutine that goes on with the steps left runs on or ends.           *)
LEMMA ContinuesEnds ==
  ASSUME TabTypeOK, NEW s \in Service, NEW x \in Coroutine, NEW left,
         wt' = [wt EXCEPT ![s] = @ \ {x}], Continues(s, x, left)
  PROVE  Outcome(s, x)
  <1>1. Return(TRUE, IF res'[s] THEN 1 ELSE 0) \in Returned
    BY MessageKinds
  <1>2. /\ co'[s][x] = left
        /\ \A r \in Service, y \in Coroutine : (r # s \/ y # x) => co'[r][y] = co[r][y]
    <2>1. co' = [co EXCEPT ![s][x] = left]
      BY DEF Continues
    <2>2. QED
      BY <2>1 DEF TabTypeOK
  <1>3. CASE left = <<>>
    <2>1. Ends(s, x)
      BY <1>1, <1>2, <1>3 DEF Continues, Ends
    <2>2. QED
      BY <1>2, <2>1 DEF Outcome
  <1>4. CASE left # <<>>
    <2>1. RunsOn(s, x)
      BY <1>4 DEF Continues, RunsOn
    <2>2. QED
      BY <1>2, <2>1 DEF Outcome
  <1>5. QED
    BY <1>3, <1>4

(* So does one that took an answer and goes on without a call.             *)
LEMMA ContinuesStretch ==
  ASSUME TabTypeOK, NEW s \in Service, NEW x \in Coroutine, NEW left,
         Running(s, x) \/ Answered(s, x), Taken(s, x), Continues(s, x, left)
  PROVE  Stretch(s, x)
  BY ContinuesEnds DEF Taken, Stretch, AnswerTaken

(* A step that puts others in its place is such a stretch.                 *)
LEMMA ThenStretch ==
  ASSUME TabTypeOK, NEW s \in Service, NEW x \in Coroutine, NEW op, At(s, x, op),
         NEW steps, Then(s, x, steps)
  PROVE  Stretch(s, x)
  BY AtFacts, ContinuesStretch DEF Then

(* A coroutine that calls gamemgr waits for it.                            *)
LEMMA CallStretch ==
  ASSUME TabTypeOK, NEW s \in Service, NEW x \in Coroutine, NEW op, At(s, x, op),
         NEW ev \in CallsOf(x), NEW steps, CallMgr(s, x, ev, steps)
  PROVE  Stretch(s, x)
  <1>1. WaitsForMgr(s, x) /\ AnswerTaken(s)
    BY DEF CallMgr, WaitsForMgr, AnswerTaken
  <1>2. \A r \in Service, y \in Coroutine : (r # s \/ y # x) => co'[r][y] = co[r][y]
    BY DEF CallMgr, TabTypeOK
  <1>3. QED
    BY <1>1, <1>2, AtFacts DEF Stretch, Outcome

(* An error ends the coroutine.                                            *)
LEMMA CrashStretch ==
  ASSUME TabTypeOK, NEW s \in Service, NEW x \in Coroutine, NEW op, At(s, x, op),
         Crash(s, x)
  PROVE  Stretch(s, x)
  <1>1. Return(FALSE, 0) \in Returned
    BY MessageKinds
  <1>2. /\ co'[s][x] = <<>>
        /\ \A r \in Service, y \in Coroutine : (r # s \/ y # x) => co'[r][y] = co[r][y]
    <2>1. co' = [co EXCEPT ![s][x] = <<>>]
      BY DEF Crash
    <2>2. QED
      BY <2>1 DEF TabTypeOK
  <1>3. Ends(s, x) /\ AnswerTaken(s)
    BY <1>1, <1>2 DEF Crash, Ends, AnswerTaken
  <1>4. QED
    BY <1>2, <1>3, AtFacts DEF Stretch, Outcome

(* Every step of a coroutine is a stretch of this kind.                    *)
LEMMA RunStretch ==
  ASSUME ChanTypeOK, TabTypeOK, NEW s \in Service, NEW x \in Coroutine, RunStep(s, x)
  PROVE  Stretch(s, x)
  <1>1. CASE update_user_status(s, x)
    <2> DEFINE q == Top(s, x)
               tid == IF q.st = "FREE" THEN 0 ELSE tb[s].tid
    <2>1. At(s, x, "status") /\ CallMgr(s, x, StatusEvent(x, q.u, tid, q.c, q.st), <<>>)
      BY <1>1 DEF update_user_status
    <2>2. q \in Step /\ q.op = "status"
      BY <2>1, AtFacts
    <2>3. q.u \in User /\ q.c \in 0 .. MaxChair /\ q.st \in Status
      BY <2>2, StepShape DEF UserStep
    <2>4. tid \in 0 .. MaxTable
      BY RoomAssumption DEF TabTypeOK, TableState
    <2>5. StatusEvent(x, q.u, tid, q.c, q.st) \in CallsOf(x)
      BY <2>3, <2>4, MessageKinds
    <2>6. QED
      BY <2>1, <2>5, CallStretch
  <1>2. CASE update_table_status(s, x)
    <2>1. TableEvent(x, tb[s].tid, tb[s].started, Cardinality(Occupied(tb[s].seat)))
            \in CallsOf(x)
      BY CountType, MessageKinds DEF TabTypeOK, TableState
    <2>2. QED
      BY <1>2, <2>1, CallStretch DEF update_table_status
  <1>3. CASE user_standup(s, x)
    BY <1>3, AtFacts, ContinuesStretch DEF user_standup
  <1>4. CASE vacate(s, x)
    BY <1>4, ThenStretch DEF vacate
  <1>5. CASE unwatch(s, x)
    BY <1>5, ThenStretch DEF unwatch
  <1>6. CASE start_game(s, x)
    BY <1>6, ThenStretch DEF start_game
  <1>7. CASE start_game_seat(s, x)
    BY <1>7, ThenStretch DEF start_game_seat
  <1>8. CASE on_game_start(s, x)
    BY <1>8, ThenStretch DEF on_game_start
  <1>9. CASE game_end(s, x)
    BY <1>9, ThenStretch, CrashStretch DEF game_end
  <1>10. CASE write_user_score(s, x)
    <2>1. At(s, x, "write")
      BY <1>10 DEF write_user_score
    <2>2. CASE \E steps : Then(s, x, steps)
      BY <2>1, <2>2, ThenStretch
    <2>3. ASSUME NEW c \in Occupied(tb[s].seat), NEW rich \in Stake, NEW steps,
                 CallMgr(s, x, ScoreEvent(x, tb[s].seat[c], rich), steps)
          PROVE  Stretch(s, x)
      <3>1. tb[s].seat[c] \in User /\ rich \in BOOLEAN
        BY RoomAssumption DEF Occupied, TabTypeOK, TableState, UserOrNone
      <3>2. ScoreEvent(x, tb[s].seat[c], rich) \in CallsOf(x)
        BY <3>1, MessageKinds
      <3>3. QED
        BY <2>1, <2>3, <3>2, CallStretch
    <2>4. QED
      BY <1>10, <2>2, <2>3 DEF write_user_score, ToVisit
  <1>11. CASE end_game(s, x)
    BY <1>11, ThenStretch, CrashStretch DEF end_game
  <1>12. CASE write_game_record_detail(s, x)
    BY <1>12, ThenStretch, CrashStretch, CallStretch, MessageKinds DEF write_game_record_detail
  <1>13. CASE write_game_record(s, x)
    BY <1>13, CallStretch, MessageKinds DEF write_game_record
  <1>14. CASE clear_records(s, x)
    BY <1>14, ThenStretch DEF clear_records
  <1>15. CASE end_game_seat(s, x)
    <2>1. At(s, x, "sitagain")
      BY <1>15 DEF end_game_seat
    <2>2. (\E steps : Then(s, x, steps))
            \/ (\E left : Taken(s, x) /\ Continues(s, x, left))
      BY <1>15, Zenon DEF end_game_seat
    <2>3. QED
      BY <2>1, <2>2, AtFacts, ThenStretch, ContinuesStretch
  <1>16. CASE on_game_reset(s, x)
    BY <1>16, ThenStretch DEF on_game_reset
  <1>17. CASE ready_timeout_seat(s, x)
    BY <1>17, ThenStretch DEF ready_timeout_seat
  <1>18. CASE remove_timer(s, x)
    BY <1>18, ThenStretch DEF remove_timer
  <1>19. CASE user_ready(s, x)
    BY <1>19, ThenStretch DEF user_ready
  <1>20. CASE Finish(s, x)
    BY <1>20, ContinuesStretch DEF Finish
  <1>21. QED
    BY <1>1, <1>2, <1>3, <1>4, <1>5, <1>6, <1>7, <1>8, <1>9, <1>10, <1>11, <1>12,
       <1>13, <1>14, <1>15, <1>16, <1>17, <1>18, <1>19, <1>20 DEF RunStep

-----------------------------------------------------------------------------
(* A table's "R" begins with a request of gamemgr.                         *)
LEMMA TakesResumed ==
  ASSUME ChanTypeOK, TabTypeOK, Waits, OneAsked, NEW s \in Service, NEW op, Takes(s, op)
  PROVE  /\ Resumed(s, "R") /\ cur = Idle /\ co[s]["R"] = <<>>
         /\ wt = [wt EXCEPT ![s] = @ \ {"R"}]
  <1>1. Resumed(s, "R") /\ "R" \notin wt[s] /\ co[s]["R"] = <<>>
    BY ResumedByRequest DEF Takes
  <1>2. wt[s] \ {"R"} = wt[s]
    BY <1>1
  <1>3. wt = [wt EXCEPT ![s] = @ \ {"R"}]
    BY <1>2 DEF TabTypeOK
  <1>4. QED
    BY <1>1, <1>3 DEF Takes

(* A request that is answered at once.                                     *)
LEMMA ReplyEnds ==
  ASSUME ChanTypeOK, TabTypeOK, Waits, OneAsked, NEW s \in Service, NEW op, Takes(s, op),
         NEW ok \in BOOLEAN, NEW val \in 0 .. MaxChair, Reply(s, ok, val)
  PROVE  Resumed(s, "R") /\ Outcome(s, "R")
  <1>1. Return(ok, val) \in Returned
    BY MessageKinds
  <1>2. /\ Resumed(s, "R") /\ cur = Idle /\ co[s]["R"] = <<>>
        /\ wt = [wt EXCEPT ![s] = @ \ {"R"}]
    BY TakesResumed
  <1>3. Ends(s, "R")
    BY <1>1, <1>2 DEF Ends, Reply
  <1>4. QED
    BY <1>2, <1>3 DEF Outcome, Reply

(* A request that runs as a coroutine.                                     *)
LEMMA BeginEnds ==
  ASSUME ChanTypeOK, TabTypeOK, Waits, OneAsked, NEW s \in Service, NEW op, Takes(s, op),
         NEW steps, Begin(s, steps)
  PROVE  Resumed(s, "R") /\ Outcome(s, "R")
  <1>1. Resumed(s, "R") /\ wt = [wt EXCEPT ![s] = @ \ {"R"}]
    BY TakesResumed
  <1>2. wt' = [wt EXCEPT ![s] = @ \ {"R"}] /\ Continues(s, "R", steps)
    BY <1>1 DEF Begin
  <1>3. QED
    BY <1>1, <1>2, ContinuesEnds DEF Coroutine

(* Sitting down is such a request; the timer's loop may be told to skip a  *)
(* seat.                                                                   *)
LEMMA SitdownEnds ==
  ASSUME ChanTypeOK, TabTypeOK, Waits, OneAsked, NEW s \in Service, user_sitdown(s)
  PROVE  Resumed(s, "R") /\ Outcome(s, "R")
  <1>1. Takes(s, "user_sitdown")
    BY DEF user_sitdown
  <1>2. CASE Reply(s, FALSE, 0) \/ Reply(s, TRUE, 0)
    <2>1. 0 \in 0 .. MaxChair
      BY RoomAssumption
    <2>2. QED
      BY <1>1, <1>2, <2>1, ReplyEnds
  <1>3. ASSUME NEW c, NEW q, NEW t \in MayMiss(co[s]["T"], c),
               co' = [co EXCEPT ![s]["R"] = q, ![s]["T"] = t],
               cur' = [svc |-> s, co |-> "R"], UNCHANGED <<toMgr, wt>>
        PROVE  Resumed(s, "R") /\ Outcome(s, "R")
    <2>1. Resumed(s, "R") /\ wt = [wt EXCEPT ![s] = @ \ {"R"}]
      BY <1>1, TakesResumed
    <2>2. RunsOn(s, "R")
      BY <1>3, <2>1 DEF RunsOn
    <2>3. co[s]["T"] = <<>> => t = <<>>
      BY DEF MayMiss
    <2>4. co'[s]["T"] = t /\ \A r \in Service \ {s} : co'[r] = co[r]
      BY <1>3 DEF TabTypeOK, Coroutine
    <2>5. \A r \in Service, y \in Coroutine :
            (r # s \/ y # "R") /\ co[r][y] = <<>> => co'[r][y] = <<>>
      BY <2>3, <2>4 DEF Coroutine
    <2>6. QED
      BY <2>1, <2>2, <2>5 DEF Outcome
  <1>4. QED
    BY <1>2, <1>3, Zenon DEF user_sitdown

(* Every request a table takes.                                            *)
LEMMA RequestEnds ==
  ASSUME ChanTypeOK, TabTypeOK, Waits, OneAsked, NEW s \in Service, Request(s)
  PROVE  Resumed(s, "R") /\ Outcome(s, "R")
  <1>1. CASE start(s) \/ cleanup(s)
    <2>1. TRUE \in BOOLEAN /\ 0 \in 0 .. MaxChair
      BY RoomAssumption
    <2>2. \E op : Takes(s, op) /\ Reply(s, TRUE, 0)
      BY <1>1, Zenon DEF start, cleanup
    <2>3. QED
      BY <2>1, <2>2, ReplyEnds
  <1>2. CASE get_can_sit_chairid(s)
    BY <1>2, FirstFreeType, ReplyEnds DEF get_can_sit_chairid
  <1>3. CASE get_table_info(s)
    BY <1>3, CountType, ReplyEnds DEF get_table_info
  <1>4. CASE user_sitdown(s)
    BY <1>4, SitdownEnds
  <1>5. CASE user_sitdown_ob(s)
    <2>1. TRUE \in BOOLEAN /\ 0 \in 0 .. MaxChair /\ Takes(s, "user_sitdown_ob")
      BY <1>5, RoomAssumption DEF user_sitdown_ob
    <2>2. Reply(s, TRUE, 0) \/ \E steps : Begin(s, steps)
      BY <1>5, Zenon DEF user_sitdown_ob
    <2>3. QED
      BY <2>1, <2>2, ReplyEnds, BeginEnds
  <1>6. CASE \E op, steps : Takes(s, op) /\ Begin(s, steps)
    BY <1>6, BeginEnds
  <1>7. CASE request_user_standup(s)
    BY <1>6, <1>7, Zenon DEF request_user_standup
  <1>8. CASE robot_standup(s)
    BY <1>6, <1>8, Zenon DEF robot_standup
  <1>9. CASE user_offline(s)
    BY <1>6, <1>9, Zenon DEF user_offline
  <1>10. CASE update_user_conn(s)
    BY <1>6, <1>10, Zenon DEF update_user_conn
  <1>11. CASE game_msg(s)
    BY <1>6, <1>11, Zenon DEF game_msg
  <1>12. CASE init_game(s)
    BY <1>6, <1>12, Zenon DEF init_game
  <1>13. CASE request_user_ready(s)
    BY <1>6, <1>13, Zenon DEF request_user_ready
  <1>14. QED
    BY <1>1, <1>2, <1>3, <1>4, <1>5, <1>7, <1>8, <1>9, <1>10, <1>11, <1>12, <1>13
       DEF Request

(* A timer of a table begins a stretch of "T".                             *)
LEMMA TimerEnds ==
  ASSUME ChanTypeOK, TabTypeOK, Waits, NEW s \in Service, Timer(s)
  PROVE  Resumed(s, "T") /\ Outcome(s, "T")
  <1>1. PICK steps : TimerFires(s, steps)
    BY Zenon DEF Timer, ReadyTimeout, GameTimeout, RobotReady
  <1>2. cur = Idle /\ "T" \notin wt[s] /\ UNCHANGED <<wt, toTab>> /\ Continues(s, "T", steps)
    BY <1>1 DEF TimerFires
  <1>3. Resumed(s, "T")
    BY <1>2, ResumedByTimer
  <1>4. wt' = [wt EXCEPT ![s] = @ \ {"T"}]
    <2>1. wt[s] \ {"T"} = wt[s]
      BY <1>2
    <2>2. QED
      BY <1>2, <2>1 DEF TabTypeOK
  <1>5. QED
    BY <1>2, <1>3, <1>4, ContinuesEnds DEF Coroutine

(* Whatever a table does, who waits for whom stays settled, and the table  *)
(* is engaged as before.                                                   *)
LEMMA TableCalls ==
  ASSUME ChanTypeOK, TabTypeOK, CallInv, NEW s \in Service, TabNext(s), UNCHANGED req
  PROVE  CallInv'
  <1>1. PICK x \in Coroutine : Resumed(s, x) /\ Outcome(s, x)
    <2>1. CASE Request(s)
      BY <2>1, RequestEnds DEF CallInv, Coroutine
    <2>2. CASE Timer(s)
      BY <2>2, TimerEnds DEF CallInv, Coroutine
    <2>3. CASE \E x \in Coroutine : RunStep(s, x)
      BY <2>3, RunStretch, ResumedByAnswer DEF CallInv, Stretch, AnswerTaken
    <2>4. QED
      BY <2>1, <2>2, <2>3 DEF TabNext
  <1>2. Waits' /\ \A r \in Service : Engaged(r)' = Engaged(r)
    BY <1>1, OutcomeKeeps DEF CallInv
  <1>3. OneAsked'
    BY <1>2 DEF CallInv, OneAsked, NoneEngaged, OneEngaged
  <1>4. QED
    BY <1>2, <1>3 DEF CallInv

-----------------------------------------------------------------------------
(* The room manager's request asks one table and waits, or waits for none: *)
(* it ends, or reads the database.                                         *)
Issues ==
  \/ UNCHANGED toTab /\ req'.pc \in {"idle", "db"}
  \/ /\ \E s \in Service : \E m : CallTable(s, m) /\ m.k = "req"
     /\ req'.pc \notin {"idle", "db"}

(* The calls are questions.                                                *)
LEMMA CallKind ==
  /\ \A op, u, c, t, rich : Call(op, u, c, t, rich).k = "req"
  /\ \A op, u, c : Plain(op, u, c).k = "req"
  BY DEF Call, Plain

(* A request that ends asks no table.                                      *)
LEMMA DoneIssues ==
  ASSUME Done
  PROVE  Issues
  BY RequestType DEF Done, Issues

(* One that has a table to ask asks it, and ends if the table is gone.     *)
LEMMA CallIssues ==
  ASSUME MgrTypeOK, NEW t, NEW msg, msg.k = "req", NEW next,
         next.pc \notin {"idle", "db"}, CallOrFail(t, msg, next)
  PROVE  Issues
  <1>1. CASE t \in Live /\ CallTable(gt[t], msg) /\ req' = next
    <2>1. gt[t] \in Service
      BY <1>1 DEF MgrTypeOK, Live
    <2>2. QED
      BY <1>1, <2>1 DEF Issues
  <1>2. CASE Done
    BY <1>2, DoneIssues
  <1>3. QED
    BY <1>1, <1>2 DEF CallOrFail

(* A question to the table of the record at hand, for the rest of the      *)
(* request.                                                                *)
LEMMA AwaitIssues ==
  ASSUME MgrTypeOK, NEW t, NEW msg, msg.k = "req", NEW pc, pc \notin {"idle", "db"}, NEW u,
         CallOrFail(t, msg, Await(pc, u))
  PROVE  Issues
  BY RequestType, CallIssues

(* request_sitdown's last line is such a question.                         *)
LEMMA SitDownIssues ==
  ASSUME MgrTypeOK, NEW t, NEW u, NEW c, SitDown(t, u, c)
  PROVE  Issues
  BY CallKind, AwaitIssues DEF SitDown

(* The search for a table and a seat, for a request or one built anew.     *)
LEMMA TryIssues ==
  ASSUME MgrTypeOK, NEW r \in RequestRec, NEW eligible \in SUBSET Live,
         NEW pc \in {"try", "change"}, TryTable(r, eligible, pc)
  PROVE  Issues
  <1>1. PICK t \in r.cand \cap eligible, skipped \in SUBSET (r.cand \ eligible) :
          /\ CallTable(gt[t], Plain("get_can_sit_chairid", None, 0))
          /\ req' = [r EXCEPT !.pc = pc, !.t = t, !.cand = (@ \ {t}) \ skipped]
    BY DEF TryTable
  <1>2. gt[t] \in Service
    BY DEF MgrTypeOK, Live
  <1>3. req'.pc = pc
    BY <1>1 DEF RequestRec, RequestOf
  <1>4. QED
    BY <1>1, <1>2, <1>3, CallKind DEF Issues

(* A table that is created is asked to start.                              *)
LEMMA CreateIssues ==
  ASSUME MgrTypeOK, NEW r \in RequestRec, CreateTable(r)
  PROVE  Issues
  <1>1. CASE Done
    BY <1>1, DoneIssues
  <1>2. CASE ~Done
    <2>1. PICK s \in IF pool # {} THEN pool ELSE Service \ born :
            /\ req' = [r EXCEPT !.pc = "start", !.t = NextId, !.svc = s]
            /\ CallTable(s, Call("start", None, 0, NextId, TRUE))
      BY <1>2 DEF CreateTable
    <2>2. s \in Service
      BY DEF MgrTypeOK
    <2>3. req'.pc = "start"
      BY <2>1 DEF RequestRec, RequestOf
    <2>4. QED
      BY <2>1, <2>2, <2>3, CallKind DEF Issues
  <1>3. QED
    BY <1>1, <1>2

(* Picking a table asks an open one, or creates one, or ends.              *)
LEMMA PickIssues ==
  ASSUME MgrTypeOK, NEW r \in RequestRec, PickTable(r)
  PROVE  Issues
  BY TryIssues, CreateIssues, JoinableLive DEF PickTable

(* So does the choice of a seat.                                           *)
LEMMA ChooseIssues ==
  ASSUME MgrTypeOK, NEW u \in User, NEW t \in 0 .. MaxTable, NEW c \in 0 .. MaxChair,
         ChooseSeat(u, t, c)
  PROVE  Issues
  <1> DEFINE r == [Request0 EXCEPT !.u = u, !.t = t, !.c = c, !.cand = Live]
  <1>1. r \in RequestRec
    <2>1. Request0 \in RequestOf(RoomPc, UserOrNone)
      BY RoomAssumption DEF Request0, Await, RequestOf, RoomPc, UserOrNone
    <2>2. \A q \in RequestOf(RoomPc, UserOrNone), v \in UserOrNone, S \in SUBSET TableId :
            [q EXCEPT !.u = v, !.t = t, !.c = c, !.cand = S] \in RequestOf(RoomPc, UserOrNone)
      BY Zenon DEF RequestOf
    <2>3. u \in UserOrNone /\ Live \in SUBSET TableId
      BY DEF UserOrNone, Live
    <2>4. QED
      BY <2>1, <2>2, <2>3 DEF RequestRec
  <1>2. CASE PickTable(r)
    BY <1>1, <1>2, PickIssues
  <1>3. CASE /\ t \in Joinable
             /\ CallTable(gt[t], Plain("get_can_sit_chairid", None, 0))
             /\ req' = [r EXCEPT !.pc = "trychair"]
    <2>1. gt[t] \in Service
      BY <1>3, JoinableLive DEF MgrTypeOK, Live
    <2>2. [r EXCEPT !.pc = "trychair"].pc = "trychair"
      <3>1. \A q \in RequestRec : [q EXCEPT !.pc = "trychair"].pc = "trychair"
        BY DEF RequestRec, RequestOf
      <3>2. QED
        BY <1>1, <3>1, Zenon
    <2>3. req'.pc = "trychair"
      BY <1>3, <2>2
    <2>4. QED
      BY <1>3, <2>1, <2>3, CallKind DEF Issues
  <1>4. CASE Done
    BY <1>4, DoneIssues
  <1>5. CASE SitDown(t, u, c)
    BY <1>5, SitDownIssues
  <1>6. QED
    BY <1>2, <1>3, <1>4, <1>5, Zenon DEF ChooseSeat

(* A change of tables asks one or ends.                                    *)
LEMMA SearchIssues ==
  ASSUME MgrTypeOK, NEW r \in RequestRec, SearchOther(r)
  PROVE  Issues
  <1>1. Elsewhere(r) \in SUBSET Live
    BY DEF Elsewhere
  <1>2. QED
    BY <1>1, TryIssues, DoneIssues DEF SearchOther

-----------------------------------------------------------------------------
(* The state in which a request asks its next question: nobody is engaged, *)
(* with what it has taken from gamemgr's queue (toMgr') already gone.      *)
Unengaged ==
  /\ UNCHANGED <<cur, co, wt>>
  /\ \A s \in Service, y \in Coroutine :
       NumIn(toTab[s], Answers(y)) + NumIn(toMgr'[s], CallsOf(y)) = Bit(y \in wt[s])
  /\ \A s \in Service :
       /\ NumIn(toTab[s], Asked) = 0 /\ NumIn(toMgr'[s], Returned) = 0
       /\ ~Active(s, "R")

(* A question asked while no table is engaged keeps the balance.           *)
LEMMA IssuesKeeps ==
  ASSUME ChanTypeOK, ChanTypeOK', Waits, Unengaged, Issues
  PROVE  CallInv'
  <1>1. \A s \in Service, y \in Coroutine : Running(s, y)' = Running(s, y)
    BY DEF Running, Unengaged
  <1>2. CASE UNCHANGED toTab /\ req'.pc \in {"idle", "db"}
    <2>1. Waits'
      BY <1>1, <1>2 DEF Waits, Unengaged, Owes, Active, Bit
    <2>2. NoneEngaged'
      BY <1>1, <1>2 DEF NoneEngaged, Unengaged, Engaged, Active, Bit, Coroutine
    <2>3. QED
      BY <1>2, <2>1, <2>2 DEF CallInv, OneAsked
  <1>3. CASE /\ \E s \in Service : \E m : CallTable(s, m) /\ m.k = "req"
             /\ req'.pc \notin {"idle", "db"}
    <2>0. PICK s \in Service : \E m : toTab' = [toTab EXCEPT ![s] = Append(@, m)] /\ m.k = "req"
      BY <1>3 DEF CallTable
    <2>1. PICK m : toTab' = [toTab EXCEPT ![s] = Append(@, m)] /\ m.k = "req"
      BY <2>0
    <2>2. toTab'[s] = Append(toTab[s], m) /\ \A r \in Service \ {s} : toTab'[r] = toTab[r]
      BY <2>1 DEF ChanTypeOK
    <2>3. toTab[s] \in Seq(TabMsg) /\ toTab'[s] \in Seq(TabMsg)
      BY DEF ChanTypeOK
    <2>4. m \in TabMsg
      <3> DEFINE v == Append(toTab[s], m)
                 n == Len(toTab[s]) + 1
      <3>1. Len(v) = n /\ n \in 1 .. Len(v) /\ v[n] = m
        BY <2>3
      <3>2. v \in Seq(TabMsg)
        BY <2>2, <2>3
      <3> HIDE DEF v, n
      <3>3. QED
        BY <3>1, <3>2
    <2>5. m \in Asked /\ \A y \in Coroutine : m \notin Answers(y)
      BY <2>1, <2>4 DEF Asked, Answers
    <2>6. NumIn(toTab'[s], Asked) = 0 + 1
      <3>1. NumIn(toTab'[s], Asked) = NumIn(toTab[s], Asked) + Bit(m \in Asked)
        BY <2>2, <2>3, <2>4, NumInAppend
      <3>2. QED
        BY <2>5, <3>1 DEF Bit, Unengaged
    <2>7. \A y \in Coroutine : NumIn(toTab'[s], Answers(y)) = NumIn(toTab[s], Answers(y))
      <3>1. \A y \in Coroutine :
              NumIn(toTab'[s], Answers(y)) = NumIn(toTab[s], Answers(y)) + Bit(m \in Answers(y))
        BY <2>2, <2>3, <2>4, NumInAppend
      <3>2. \A y \in Coroutine : NumIn(toTab[s], Answers(y)) \in Nat
        BY <2>3, NumInType
      <3>3. QED
        BY <2>5, <3>1, <3>2 DEF Bit
    <2>8. \A r \in Service, y \in Coroutine :
            NumIn(toTab'[r], Answers(y)) = NumIn(toTab[r], Answers(y))
      BY <2>2, <2>7
    <2>9. Waits'
      BY <1>1, <2>8 DEF Waits, Unengaged, Owes, Active, Bit
    <2>10. OneEngaged(s)'
      <3>1. \A r \in Service : Bit(Active(r, "R"))' = 0
        BY <1>1 DEF Unengaged, Active, Bit, Coroutine
      <3>2. Engaged(s)' = 1
        BY <2>6, <3>1 DEF Engaged, Unengaged
      <3>3. \A r \in Service \ {s} : Engaged(r)' = 0
        BY <2>2, <3>1 DEF Engaged, Unengaged
      <3>4. QED
        BY <3>2, <3>3 DEF OneEngaged
    <2>11. QED
      BY <1>3, <2>9, <2>10 DEF CallInv, OneAsked
  <1>4. QED
    BY <1>2, <1>3 DEF Issues

(* cs admits a request, or the database has answered one.                  *)
LEMMA IdleUnengaged ==
  ASSUME ChanTypeOK, CallInv, req.pc \in {"idle", "db"}, UNCHANGED <<cur, toMgr, co, wt>>
  PROVE  Unengaged
  <1>1. \A s \in Service :
          NumIn(toTab[s], Asked) + NumIn(toMgr[s], Returned) + Bit(Active(s, "R")) = 0
    BY DEF CallInv, OneAsked, NoneEngaged, Engaged
  <1>2. \A s \in Service : /\ NumIn(toTab[s], Asked) \in Nat
                           /\ NumIn(toMgr[s], Returned) \in Nat
    BY CountTypes
  <1>3. \A s \in Service : /\ NumIn(toTab[s], Asked) = 0 /\ NumIn(toMgr[s], Returned) = 0
                           /\ ~Active(s, "R")
    <2>1. TAKE s \in Service
    <2>2. CASE Active(s, "R")
      BY <1>1, <1>2, <2>2 DEF Bit
    <2>3. CASE ~Active(s, "R")
      BY <1>1, <1>2, <2>3 DEF Bit
    <2>4. QED
      BY <2>2, <2>3
  <1>4. QED
    BY <1>3 DEF Unengaged, CallInv, Waits, Owes

(* The answer a request waited for has been taken.                         *)
LEMMA AnswerUnengaged ==
  ASSUME ChanTypeOK, CallInv, NEW pc, pc \notin {"idle", "db"}, NEW ok, NEW val,
         Answer(pc, ok, val), UNCHANGED <<co, wt>>
  PROVE  Unengaged
  <1>1. PICK s \in Service : /\ toMgr[s] # <<>> /\ Head(toMgr[s]).k = "ret"
                             /\ toMgr' = [toMgr EXCEPT ![s] = Tail(@)]
    BY DEF Answer
  <1>2. PICK r \in Service : OneEngaged(r)
    BY DEF Answer, CallInv, OneAsked
  <1>3. /\ toMgr[s] \in Seq(MgrMsg) /\ Head(toMgr[s]) \in MgrMsg
        /\ Tail(toMgr[s]) \in Seq(MgrMsg)
        /\ toMgr'[s] = Tail(toMgr[s]) /\ \A q \in Service \ {s} : toMgr'[q] = toMgr[q]
    BY <1>1 DEF ChanTypeOK
  <1>4. Head(toMgr[s]) \in Returned /\ \A y \in Coroutine : Head(toMgr[s]) \notin CallsOf(y)
    BY <1>1, <1>3 DEF Returned, CallsOf
  <1>5. /\ NumIn(toMgr[s], Returned) = NumIn(toMgr'[s], Returned) + 1
        /\ NumIn(toMgr'[s], Returned) \in Nat
    <2>1. NumIn(toMgr[s], Returned) =
            NumIn(toMgr'[s], Returned) + Bit(Head(toMgr[s]) \in Returned)
      BY <1>1, <1>3, NumInTail
    <2>2. NumIn(toMgr'[s], Returned) \in Nat
      BY <1>3, NumInType
    <2>3. QED
      BY <1>4, <2>1, <2>2 DEF Bit
  <1>6. \A q \in Service, y \in Coroutine :
          NumIn(toMgr'[q], CallsOf(y)) = NumIn(toMgr[q], CallsOf(y))
    <2>1. \A y \in Coroutine : NumIn(toMgr[s], CallsOf(y)) =
            NumIn(toMgr'[s], CallsOf(y)) + Bit(Head(toMgr[s]) \in CallsOf(y))
      BY <1>1, <1>3, NumInTail
    <2>2. \A y \in Coroutine : NumIn(toMgr'[s], CallsOf(y)) \in Nat
      BY <1>3, NumInType
    <2>3. QED
      BY <1>3, <1>4, <2>1, <2>2 DEF Bit
  <1>7. \A q \in Service : /\ NumIn(toTab[q], Asked) \in Nat
                           /\ NumIn(toMgr[q], Returned) \in Nat
                           /\ Bit(Active(q, "R")) \in {0, 1}
    BY CountTypes
  <1>8. s = r
    <2>1. Engaged(s) # 0
      BY <1>5, <1>7 DEF Engaged
    <2>2. QED
      BY <1>2, <2>1 DEF OneEngaged
  <1>9. \A q \in Service : /\ NumIn(toTab[q], Asked) = 0 /\ NumIn(toMgr'[q], Returned) = 0
                           /\ Bit(Active(q, "R")) = 0
    <2>1. /\ NumIn(toTab[s], Asked) = 0 /\ NumIn(toMgr'[s], Returned) = 0
          /\ Bit(Active(s, "R")) = 0
      <3>1. NumIn(toTab[s], Asked) + (NumIn(toMgr'[s], Returned) + 1)
              + Bit(Active(s, "R")) = 1
        BY <1>2, <1>5, <1>8 DEF OneEngaged, Engaged
      <3>2. QED
        BY <1>5, <1>7, <3>1
    <2>2. ASSUME NEW q \in Service \ {s}
          PROVE  /\ NumIn(toTab[q], Asked) = 0 /\ NumIn(toMgr'[q], Returned) = 0
                 /\ Bit(Active(q, "R")) = 0
      <3>1. NumIn(toTab[q], Asked) + NumIn(toMgr[q], Returned) + Bit(Active(q, "R")) = 0
        BY <1>2, <1>8 DEF OneEngaged, Engaged
      <3>2. toMgr'[q] = toMgr[q]
        BY <1>3
      <3>3. QED
        BY <1>7, <3>1, <3>2
    <2>3. QED
      BY <2>1, <2>2
  <1>10. \A q \in Service : ~Active(q, "R")
    BY <1>9 DEF Bit
  <1>11. QED
    BY <1>6, <1>9, <1>10 DEF Unengaged, CallInv, Waits, Owes, Answer

-----------------------------------------------------------------------------
(* Every request that cs admits asks one table or ends.                    *)
LEMMA ClientIssues ==
  ASSUME MgrInv, NEW g \in Conn, ClientRequest(g)
  PROVE  Enter /\ Issues
  <1>1. MgrTypeOK /\ \A u \in User : Await("last", u).pc = "last"
    BY RequestType DEF MgrInv
  <1>2. CASE request_enter_room(g)
    <2>1. Enter
      BY <1>2 DEF request_enter_room
    <2>2. CASE req' = [Await("db", Owner[g]) EXCEPT !.conn = g] /\ UNCHANGED toTab
      BY <2>1, <2>2 DEF Await, Issues
    <2>3. CASE Done
      BY <2>1, <2>3, DoneIssues
    <2>4. CASE \E t, op, u, c : CallOrFail(t, Plain(op, u, c), Await("last", u))
      BY <1>1, <2>1, <2>4, AwaitIssues, CallKind
    <2>5. QED
      BY <1>2, <2>1, <2>2, <2>3, <2>4, Zenon DEF request_enter_room
  <1>3. CASE request_leave_room(g)
    <2>1. Enter
      BY <1>3 DEF request_leave_room, From
    <2>2. CASE \E t, op, u, c : CallOrFail(t, Plain(op, u, c), Await("last", u))
      BY <1>1, <2>1, <2>2, AwaitIssues, CallKind
    <2>3. QED
      BY <1>3, <2>1, <2>2, DoneIssues, Zenon DEF request_leave_room
  <1>4. CASE disconnect(g)
    <2>1. Enter
      BY <1>4 DEF disconnect
    <2>2. CASE \E t, op, u, c : CallOrFail(t, Plain(op, u, c), Await("last", u))
      BY <1>1, <2>1, <2>2, AwaitIssues, CallKind
    <2>3. QED
      BY <1>4, <2>1, <2>2, DoneIssues, Zenon DEF disconnect
  <1>5. ASSUME NEW t \in 0 .. MaxTable, NEW c \in 0 .. MaxChair, request_sitdown(g, t, c)
        PROVE  Enter /\ Issues
    <2>1. Enter
      BY <1>5 DEF request_sitdown, From
    <2>2. CASE \E v, op, u, d : CallOrFail(v, Plain(op, u, d), Await("last", u))
      BY <1>1, <2>1, <2>2, AwaitIssues, CallKind
    <2>3. CASE \E v, u, d : CallOrFail(v, Plain("user_standup", u, d),
                                       [Await("left", u) EXCEPT !.t = t, !.c = c])
      <3>1. \A u : [Await("left", u) EXCEPT !.t = t, !.c = c].pc = "left"
        BY DEF Await
      <3>2. QED
        BY <1>1, <2>1, <2>3, <3>1, CallIssues, CallKind
    <2>4. CASE \E u \in User : ChooseSeat(u, t, c)
      BY <1>1, <2>1, <2>4, ChooseIssues
    <2>5. QED
      BY <1>5, <2>1, <2>2, <2>3, <2>4, Zenon DEF request_sitdown
  <1>6. ASSUME NEW ob, request_standup(g, ob)
        PROVE  Enter /\ Issues
    <2>1. Enter
      BY <1>6 DEF request_standup, From
    <2>2. CASE \E v, op, u, d : CallOrFail(v, Plain(op, u, d), Await("last", u))
      BY <1>1, <2>1, <2>2, AwaitIssues, CallKind
    <2>3. CASE \E v, u, d : CallOrFail(v, Plain("user_standup", u, d),
                                 [Await("stand", u) EXCEPT !.t = v, !.c = d, !.ob = ob])
      <3>1. \A u, v, d : [Await("stand", u) EXCEPT !.t = v, !.c = d, !.ob = ob].pc = "stand"
        BY DEF Await
      <3>2. QED
        BY <1>1, <2>1, <2>3, <3>1, CallIssues, CallKind
    <2>4. QED
      BY <1>6, <2>1, <2>2, <2>3, Zenon DEF request_standup
  <1>7. CASE request_change_table(g)
    <2>1. Enter
      BY <1>7 DEF request_change_table, From
    <2>2. PICK u \in User : SearchOther([Request0 EXCEPT !.u = u, !.cand = Live])
      BY <1>7 DEF request_change_table
    <2>3. [Request0 EXCEPT !.u = u, !.cand = Live] \in RequestRec
      <3>1. Request0 \in RequestOf(RoomPc, UserOrNone)
        BY RoomAssumption DEF Request0, Await, RequestOf, RoomPc, UserOrNone
      <3>2. \A q \in RequestOf(RoomPc, UserOrNone), v \in UserOrNone, S \in SUBSET TableId :
              [q EXCEPT !.u = v, !.cand = S] \in RequestOf(RoomPc, UserOrNone)
        BY Zenon DEF RequestOf
      <3>3. u \in UserOrNone /\ Live \in SUBSET TableId
        BY DEF UserOrNone, Live
      <3>4. QED
        BY <3>1, <3>2, <3>3 DEF RequestRec
    <2>4. QED
      BY <1>1, <2>1, <2>2, <2>3, SearchIssues
  <1>8. ASSUME NEW op, request_at_table(g, op)
        PROVE  Enter /\ Issues
    <2>1. Enter
      BY <1>8 DEF request_at_table, From
    <2>2. \E v, u, d : CallOrFail(v, Plain(op, u, d), Await("last", u))
      BY <1>8, Zenon DEF request_at_table
    <2>3. QED
      BY <1>1, <2>1, <2>2, AwaitIssues, CallKind
  <1>9. 0 \in 0 .. MaxTable /\ 0 \in 0 .. MaxChair /\ TableId \subseteq 0 .. MaxTable
    BY RoomAssumption DEF TableId
  <1>10. QED
    BY <1>2, <1>3, <1>4, <1>5, <1>6, <1>7, <1>8, <1>9 DEF ClientRequest

(* So does every request that goes on with a table's answer.               *)
LEMMA ContinueIssues ==
  ASSUME MgrInv, NEW ok, NEW val \in 0 .. MaxChair, Continue(ok, val)
  PROVE  Issues /\ \E pc : pc \notin {"idle", "db"} /\ Answer(pc, ok, val)
  <1>1. /\ MgrTypeOK /\ req \in RequestRec
        /\ \A pc : [req EXCEPT !.pc = pc].pc = pc
        /\ \A pc : [req EXCEPT !.pc = pc, !.svc = None].pc = pc
    BY DEF MgrInv, MgrTypeOK, RequestRec, RequestOf
  <1>2. CASE left_table(ok, val)
    <2>1. Answer("left", ok, val)
      BY <1>2 DEF left_table
    <2>2. req.u \in User /\ req.t \in 0 .. MaxTable /\ req.c \in 0 .. MaxChair
      BY <1>1, <2>1, RequestShape DEF Answer, UserPc
    <2>3. QED
      BY <1>1, <1>2, <2>1, <2>2, ChooseIssues, DoneIssues DEF left_table
  <1>3. CASE tried_table(ok, val)
    BY <1>1, <1>3, SitDownIssues, PickIssues DEF tried_table
  <1>4. CASE tried_chair(ok, val)
    BY <1>1, <1>4, SitDownIssues, DoneIssues DEF tried_chair
  <1>5. CASE table_started(ok, val)
    <2>1. Answer("start", ok, val) /\ req.svc \in Service
      BY <1>5 DEF table_started, Answer, MgrInv, ResourcePartition, MgrTypeOK
    <2>2. req'.pc = "new"
      BY <1>1, <1>5 DEF table_started
    <2>3. QED
      BY <1>5, <2>1, <2>2, CallKind DEF table_started, Issues
  <1>6. CASE new_table_seat(ok, val)
    BY <1>1, <1>6, SitDownIssues, DoneIssues DEF new_table_seat
  <1>7. CASE found_other(ok, val)
    BY <1>1, <1>7, SitDownIssues, SearchIssues DEF found_other
  <1>8. CASE stood_up(ok, val)
    <2>1. CASE \E v, m, u : m.k = "req" /\ CallOrFail(v, m, Await("last", u))
      BY <1>1, <1>8, <2>1, AwaitIssues DEF stood_up
    <2>2. QED
      BY <1>8, <2>1, CallKind, DoneIssues DEF stood_up
  <1>9. CASE table_info(ok, val)
    <2>1. Answer("info", ok, val)
      BY <1>9 DEF table_info
    <2>2. gt[req.t] \in Service
      BY <2>1 DEF Answer, MgrInv, RequestHolds, Live, MgrTypeOK
    <2>3. CASE CallTable(gt[req.t], Plain("cleanup", None, 0))
               /\ req' = [req EXCEPT !.pc = "clean"]
      BY <1>1, <2>1, <2>2, <2>3, CallKind DEF Issues
    <2>4. QED
      BY <1>9, <2>1, <2>3, DoneIssues DEF table_info
  <1>10. CASE table_cleaned(ok, val)
    BY <1>10, DoneIssues DEF table_cleaned
  <1>11. CASE finished(ok, val)
    BY <1>11, DoneIssues DEF finished
  <1>12. QED
    BY <1>2, <1>3, <1>4, <1>5, <1>6, <1>7, <1>8, <1>9, <1>10, <1>11 DEF Continue

(* A table's call is served outside cs: it becomes its answer.             *)
LEMMA TableEventCalls ==
  ASSUME ChanTypeOK, ChanTypeOK', CallInv, NEW s \in Service, tableevent(s),
         UNCHANGED <<co, wt>>
  PROVE  CallInv'
  <1> DEFINE e == Head(toMgr[s])
  <1>1. /\ toMgr[s] # <<>> /\ e.k # "ret"
        /\ toMgr' = [toMgr EXCEPT ![s] = Tail(@)]
        /\ toTab' = [toTab EXCEPT ![s] = Append(@, Resume(e.x))]
        /\ UNCHANGED <<cur, req>>
    BY DEF tableevent
  <1>2. /\ toMgr[s] \in Seq(MgrMsg) /\ toTab[s] \in Seq(TabMsg)
        /\ toMgr'[s] = Tail(toMgr[s]) /\ toTab'[s] = Append(toTab[s], Resume(e.x))
        /\ \A r \in Service \ {s} : toMgr'[r] = toMgr[r] /\ toTab'[r] = toTab[r]
    BY <1>1 DEF ChanTypeOK
  <1>3. e \in MgrMsg /\ Tail(toMgr[s]) \in Seq(MgrMsg)
    BY <1>1, <1>2
  <1>4. e.x \in Coroutine
    BY <1>1, <1>3 DEF MgrMsg, EventMsg, StatusMsg, TableMsg, ScoreMsg, RecordMsg, ReturnMsg
  <1>5. /\ Resume(e.x) \in TabMsg /\ Resume(e.x) \notin Asked
        /\ \A y : Resume(e.x) \in Answers(y) <=> y = e.x
    BY <1>4 DEF Resume, TabMsg, RespMsg, Asked, Answers
  <1>6. e \notin Returned /\ \A y : e \in CallsOf(y) <=> y = e.x
    BY <1>1, <1>3 DEF Returned, CallsOf
  <1> HIDE DEF e
  <1>7. NumIn(toTab'[s], Asked) = NumIn(toTab[s], Asked)
    <2>1. NumIn(toTab'[s], Asked) = NumIn(toTab[s], Asked) + Bit(Resume(e.x) \in Asked)
      BY <1>2, <1>5, NumInAppend
    <2>2. NumIn(toTab[s], Asked) \in Nat
      BY CountTypes
    <2>3. QED
      BY <1>5, <2>1, <2>2 DEF Bit
  <1>8. NumIn(toMgr'[s], Returned) = NumIn(toMgr[s], Returned)
    <2>1. NumIn(toMgr[s], Returned) = NumIn(toMgr'[s], Returned) + Bit(e \in Returned)
      BY <1>1, <1>2, NumInTail DEF e
    <2>2. NumIn(toMgr'[s], Returned) \in Nat
      BY <1>2, <1>3, NumInType
    <2>3. QED
      BY <1>6, <2>1, <2>2 DEF Bit
  <1>9. \A y \in Coroutine : Owes(s, y)' = Owes(s, y)
    <2>1. TAKE y \in Coroutine
    <2>2. NumIn(toTab'[s], Answers(y)) = NumIn(toTab[s], Answers(y)) + Bit(y = e.x)
      <3>1. NumIn(toTab'[s], Answers(y)) =
              NumIn(toTab[s], Answers(y)) + Bit(Resume(e.x) \in Answers(y))
        BY <1>2, <1>5, NumInAppend
      <3>2. QED
        BY <1>5, <3>1 DEF Bit
    <2>3. NumIn(toMgr[s], CallsOf(y)) = NumIn(toMgr'[s], CallsOf(y)) + Bit(y = e.x)
      <3>1. NumIn(toMgr[s], CallsOf(y)) =
              NumIn(toMgr'[s], CallsOf(y)) + Bit(e \in CallsOf(y))
        BY <1>1, <1>2, NumInTail DEF e
      <3>2. QED
        BY <1>6, <3>1 DEF Bit
    <2>4. /\ NumIn(toTab[s], Answers(y)) \in Nat /\ NumIn(toMgr'[s], CallsOf(y)) \in Nat
          /\ Bit(y = e.x) \in {0, 1}
      BY <1>2, <1>3, NumInType, CountTypes
    <2>5. QED
      BY <2>2, <2>3, <2>4 DEF Owes
  <1>10. \A r \in Service : \A y : /\ Running(r, y)' = Running(r, y)
                                  /\ Active(r, y)' = Active(r, y)
    BY <1>1 DEF Running, Active
  <1>11. \A r \in Service : Engaged(r)' = Engaged(r)
    <2>1. \A r \in Service : Bit(Active(r, "R"))' = Bit(Active(r, "R"))
      BY <1>10 DEF Bit
    <2>2. QED
      BY <1>2, <1>7, <1>8, <2>1 DEF Engaged
  <1>12. \A r \in Service, y \in Coroutine : Owes(r, y)' = Owes(r, y)
    BY <1>2, <1>9 DEF Owes
  <1>13. Waits'
    BY <1>10, <1>12 DEF CallInv, Waits, Bit
  <1>14. OneAsked'
    BY <1>1, <1>11 DEF CallInv, OneAsked, NoneEngaged, OneEngaged
  <1>15. QED
    BY <1>13, <1>14 DEF CallInv

-----------------------------------------------------------------------------
(* Whatever gamemgr does, who waits for whom stays settled.                *)
LEMMA MgrCalls ==
  ASSUME IInv, ChanTypeOK', CallInv, MgrNext, UNCHANGED tabVars
  PROVE  CallInv'
  <1>1. UNCHANGED <<co, wt>> /\ ChanTypeOK /\ MgrTypeOK /\ Waits
    BY DEF tabVars, IInv, MgrInv, CallInv
  <1>2. ASSUME Enter, Issues PROVE CallInv'
    <2>1. Unengaged
      BY <1>1, <1>2, IdleUnengaged DEF Enter
    <2>2. QED
      BY <1>1, <1>2, <2>1, IssuesKeeps
  <1>3. CASE \E g \in Conn : ClientRequest(g)
    BY <1>2, <1>3, ClientIssues DEF IInv
  <1>4. CASE entered_room
    <2>1. req.pc = "db" /\ UNCHANGED <<cur, toMgr>> /\ Done
      BY <1>4 DEF entered_room
    <2>2. Unengaged
      BY <1>1, <2>1, IdleUnengaged
    <2>3. QED
      BY <1>1, <2>1, <2>2, DoneIssues, IssuesKeeps
  <1>5. CASE \E ok \in BOOLEAN, val \in 0 .. MaxChair : Continue(ok, val)
    <2>1. PICK ok \in BOOLEAN, val \in 0 .. MaxChair : Continue(ok, val)
      BY <1>5
    <2>2. Issues /\ \E pc : pc \notin {"idle", "db"} /\ Answer(pc, ok, val)
      BY <2>1, ContinueIssues DEF IInv
    <2>3. Unengaged
      BY <1>1, <2>2, AnswerUnengaged
    <2>4. QED
      BY <1>1, <2>2, <2>3, IssuesKeeps
  <1>6. CASE \E t \in TableId : _internal_delete_table(t)
    <2>1. PICK t : _internal_delete_table(t)
      BY <1>6
    <2>2. [Request0 EXCEPT !.pc = "info", !.t = t].pc = "info"
      BY DEF Request0, Await
    <2>3. Enter /\ Issues
      BY <1>1, <2>1, <2>2, CallKind, CallIssues DEF _internal_delete_table
    <2>4. QED
      BY <1>2, <2>3
  <1>7. CASE \E s \in Service : robot_standup_timer(s)
    <2>1. PICK s \in Service : robot_standup_timer(s)
      BY <1>7
    <2>2. Await("last", None).pc = "last"
      BY RequestType
    <2>3. Enter /\ Issues
      BY <2>1, <2>2, CallKind DEF robot_standup_timer, Issues
    <2>4. QED
      BY <1>2, <2>3
  <1>8. CASE \E s \in Service : tableevent(s)
    BY <1>1, <1>8, TableEventCalls
  <1>9. QED
    BY <1>3, <1>4, <1>5, <1>6, <1>7, <1>8 DEF MgrNext

(* At the start nothing is on its way.                                     *)
LEMMA InitCalls ==
  ASSUME Init
  PROVE  CallInv
  <1>1. req.pc = "idle"
    BY RequestType DEF Init, MgrInit
  <1>2. \A K : NumIn(<<>>, K) = 0
    <2>1. \A K : Positions(<<>>, K) = {}
      BY DEF Positions
    <2>2. QED
      BY <2>1, FS_EmptySet DEF NumIn
  <1>3. \A s \in Service : toTab[s] = <<>> /\ toMgr[s] = <<>>
    BY DEF Init
  <1>4. \A s \in Service, x \in Coroutine : ~Active(s, x) /\ co[s][x] = <<>>
    <2>1. cur = Idle /\ \A s \in Service : wt[s] = {}
      BY DEF Init, TabInit
    <2>2. \A s \in Service, x \in Coroutine : co[s][x] = <<>>
      BY DEF Init, TabInit
    <2>3. QED
      BY <2>1, <2>2, WhoRuns DEF Active, Running
  <1>5. Waits
    BY <1>2, <1>3, <1>4 DEF Waits, Owes, Active, Bit
  <1>6. NoneEngaged
    BY <1>2, <1>3, <1>4 DEF NoneEngaged, Engaged, Bit, Coroutine
  <1>7. QED
    BY <1>1, <1>5, <1>6 DEF CallInv, OneAsked

(* Every step keeps it.                                                    *)
LEMMA NextCalls ==
  ASSUME IInv, CallInv, [Next]_vars
  PROVE  CallInv'
  <1>1. ChanTypeOK' /\ ChanTypeOK /\ TabTypeOK
    BY StepHolds DEF IInv, MgrInv
  <1>2. CASE MgrNext /\ UNCHANGED tabVars
    BY <1>1, <1>2, MgrCalls
  <1>3. CASE \E s \in Service : TabNext(s) /\ UNCHANGED mgrVars
    BY <1>1, <1>3, TableCalls DEF mgrVars
  <1>4. CASE UNCHANGED vars
    <2>1. UNCHANGED <<cur, toTab, toMgr, req, co, wt>>
      BY <1>4 DEF vars, chans, mgrVars, tabVars
    <2>2. \A s, x : /\ Running(s, x)' = Running(s, x) /\ Active(s, x)' = Active(s, x)
                    /\ Owes(s, x)' = Owes(s, x) /\ Bit(x \in wt[s])' = Bit(x \in wt[s])
      BY <2>1 DEF Running, Active, Owes, Bit
    <2>3. \A s : Engaged(s)' = Engaged(s)
      BY <2>1, <2>2 DEF Engaged, Bit
    <2>4. Waits'
      BY <2>1, <2>2 DEF CallInv, Waits
    <2>5. OneAsked'
      BY <2>1, <2>3 DEF CallInv, OneAsked, NoneEngaged, OneEngaged
    <2>6. QED
      BY <2>4, <2>5 DEF CallInv
  <1>5. QED
    BY <1>2, <1>3, <1>4 DEF Next

(* The messages and the suspended coroutines are in balance in every       *)
(* reachable state.                                                        *)
THEOREM CallsBalance == Spec => [](IInv /\ CallInv)
  <1>1. Init => CallInv
    BY InitCalls
  <1>2. IInv /\ CallInv /\ [Next]_vars => CallInv'
    BY NextCalls
  <1>3. QED
    BY <1>1, <1>2, InvariantHolds, PTL DEF Spec

(* A coroutine that is suspended in a call to gamemgr waits for exactly    *)
(* one message that is on its way, and no answer reaches one that did not  *)
(* ask (gametable.lua:176, 185, 640, 643, 736; gamemgr.lua:314-318).       *)
THEOREM CallsAreAnswered == Spec => []CallsAnswered
  <1>1. IInv /\ CallInv => CallsAnswered
    BY CallFacts DEF IInv, MgrInv
  <1>2. QED
    BY <1>1, CallsBalance, PTL

(* One request of the room is under way at a time: there is one question,  *)
(* running request or answer while cs waits for a table, and none          *)
(* otherwise (gamemgr.lua:10, 258-291).                                    *)
THEOREM OneCallAtATime == Spec => []OneCall
  <1>1. IInv /\ CallInv => OneCall
    BY CallFacts DEF IInv, MgrInv
  <1>2. QED
    BY <1>1, CallsBalance, PTL
=============================================================================
