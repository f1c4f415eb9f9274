-------------------------- MODULE RoomAlertsProofs ---------------------------
(***************************************************************************)
(* Theorems about RoomAlerts, for any sensors, rooms, replicas and numbers *)
(* of requests and failures, and for both combinators.                     *)
(***************************************************************************)
EXTENDS RoomAlerts, TLAPS

(* Types.                                                                  *)

SensorsOK ==
  /\ assigned \in [Sensors -> Rooms \cup {Nowhere, Unpaired}]
  /\ rooms \subseteq Rooms
  /\ reading \in [Sensors -> Reading]

AlertsOK ==
  pending \subseteq Instances /\ active \subseteq Instances /\ strays \subseteq Instances

Move == [sensor : Sensors, to : Rooms \cup {Nowhere, Unpaired}, holding : SUBSET Rooms]
Deletion == [room : Rooms, rows : SUBSET Instances]

RequestsOK ==
  /\ moves \subseteq Move /\ deletions \subseteq Deletion
  /\ requests \in 0 .. MaxRequests

Labels == {"idle", "load", "instances", "resolve", "check", "create"}

EvaluatorsOK ==
  /\ pc \in [Replicas -> Labels]
  /\ rule \in [Replicas -> Sensors \cup {WholeRoom}]
  /\ unread \in [Replicas -> SUBSET Sensors]
  /\ seen \in [Replicas -> [Sensors -> Reading]]
  /\ todo \in [Replicas -> SUBSET Rooms]
  /\ inHand \in [Replicas -> Rooms]
  /\ failures \in 0 .. MaxFailures

LEMMA TypeParts == TypeOK <=> SensorsOK /\ AlertsOK /\ RequestsOK /\ EvaluatorsOK
BY DEF TypeOK, SensorsOK, AlertsOK, RequestsOK, EvaluatorsOK, Move, Deletion, Labels

LEMMA SnapshotType ==
  ASSUME NEW where \in [Sensors -> Rooms \cup {Nowhere, Unpaired}], SensorsOK
  PROVE  /\ \A s \in Sensors : Snapshot(where, s) \in Reading
         /\ Snapshots(where) \in [Sensors -> Reading]
BY DEF SensorsOK, Snapshot, Snapshots, NoReading, Reading

LEMMA AffectedType ==
  ASSUME NEW s, NEW to
  PROVE  Affected(s, to) \subseteq Rooms /\ Holding(s, to) \subseteq Affected(s, to)
BY DEF Affected, Holding

LEMMA SettledType ==
  ASSUME SensorsOK, NEW m \in Move
  PROVE  Settled(m) \subseteq Instances /\ m.holding \X {WholeRoom} \subseteq Instances
<1>1. m.sensor \in Sensors /\ m.holding \subseteq Rooms
  BY DEF Move
<1>2. (Affected(m.sensor, m.to) \ m.holding) \X {WholeRoom} \subseteq Instances
  BY AffectedType DEF Instances
<1> QED BY <1>1, <1>2 DEF Settled, Instances

LEMMA InstanceType ==
  ASSUME EvaluatorsOK, NEW e \in Replicas
  PROVE  /\ Instance(e) \in Instances
         /\ \A r \in Rooms : <<r, rule[e]>> \in Instances
BY DEF EvaluatorsOK, Instance, Instances

LEMMA CandidatesType ==
  ASSUME NEW snapshots \in [Sensors -> Reading], NEW k \in Sensors \cup {WholeRoom}
  PROVE  Candidates(k, snapshots) \subseteq Rooms
<1>1. Looks(k) \subseteq Sensors
  BY DEF Looks
<1>2. \A s \in Sensors : snapshots[s].room \in Rooms \cup {Nowhere}
  BY DEF Reading
<1> QED BY <1>1, <1>2 DEF Candidates

LEMMA SensorsStep ==
  ASSUME SensorsOK, RequestsOK, Next
  PROVE  SensorsOK'
<1> USE DEF SensorsOK
<1>1. ASSUME NEW s \in Sensors, NEW hot \in BOOLEAN, Report(s, hot)
      PROVE  SensorsOK'
  BY <1>1 DEF Report, Reading, NoReading
<1>2. ASSUME NEW s \in Sensors, Pair(s)
      PROVE  SensorsOK'
  BY <1>2 DEF Pair
<1>3. ASSUME NEW m \in moves, CommitMove(m)
      PROVE  SensorsOK'
  BY <1>3 DEF CommitMove, RequestsOK, Move
<1>4. ASSUME NEW d \in deletions, CommitDelete(d)
      PROVE  SensorsOK'
  BY <1>4 DEF CommitDelete
<1>5. CASE \/ \E s \in Sensors, to \in Rooms \cup {Nowhere, Unpaired} : BeginMove(s, to)
           \/ \E r \in Rooms : BeginDelete(r)
           \/ Rollback
  BY <1>5 DEF BeginMove, BeginDelete, Rollback
<1>6. ASSUME NEW e \in Replicas, Step(e)
      PROVE  SensorsOK'
  BY <1>6 DEF Step, NextRule, Load, SaveCleared, SavePending, SaveElapsed, Evaluate,
     ResolveActiveAlert, HasActiveAlert, CreateAlert, RuleDone, GiveUp
<1> QED BY <1>1, <1>2, <1>3, <1>4, <1>5, <1>6 DEF Next

LEMMA RequestsStep ==
  ASSUME SensorsOK, AlertsOK, RequestsOK, Next
  PROVE  RequestsOK'
<1>1. ASSUME NEW s \in Sensors, NEW to \in Rooms \cup {Nowhere, Unpaired}, BeginMove(s, to)
      PROVE  RequestsOK'
  <2>1. [sensor |-> s, to |-> to, holding |-> Holding(s, to)] \in Move
    BY AffectedType DEF Move
  <2>2. requests' \in 0 .. MaxRequests
    BY <1>1, BoundsAssumption DEF BeginMove, Request, RequestsOK
  <2> QED BY <1>1, <2>1, <2>2 DEF BeginMove, RequestsOK
<1>2. ASSUME NEW r \in Rooms, BeginDelete(r)
      PROVE  RequestsOK'
  <2>1. [room |-> r, rows |-> {i \in pending \cup active : i[1] = r}] \in Deletion
    BY DEF AlertsOK, Deletion
  <2>2. requests' \in 0 .. MaxRequests
    BY <1>2, BoundsAssumption DEF BeginDelete, Request, RequestsOK
  <2> QED BY <1>2, <2>1, <2>2 DEF BeginDelete, RequestsOK
<1>3. CASE \/ \E m \in moves : CommitMove(m)
           \/ \E d \in deletions : CommitDelete(d)
           \/ Rollback
  BY <1>3 DEF CommitMove, CommitDelete, Rollback, RequestsOK
<1>4. CASE \/ \E s \in Sensors, hot \in BOOLEAN : Report(s, hot)
           \/ \E s \in Sensors : Pair(s)
  BY <1>4 DEF Report, Pair, requestVars, RequestsOK
<1>5. ASSUME NEW e \in Replicas, Step(e)
      PROVE  RequestsOK'
  <2>1. UNCHANGED requestVars
    BY <1>5 DEF Step, NextRule, Load, SaveCleared, SavePending, SaveElapsed, Evaluate,
       ResolveActiveAlert, HasActiveAlert, CreateAlert, RuleDone, GiveUp
  <2> QED BY <2>1 DEF requestVars, RequestsOK
<1> QED BY <1>1, <1>2, <1>3, <1>4, <1>5 DEF Next

LEMMA AlertsStep ==
  ASSUME SensorsOK, AlertsOK, RequestsOK, EvaluatorsOK, Next
  PROVE  AlertsOK'
<1>1. ASSUME NEW m \in moves, CommitMove(m)
      PROVE  AlertsOK'
  <2>1. m.holding \X {WholeRoom} \subseteq Instances
    BY SettledType DEF RequestsOK
  <2>2. LeftBehind(m) \subseteq m.holding \X {WholeRoom}
    BY DEF LeftBehind
  <2>3. PICK elapsed \in SUBSET m.holding :
          active' = (active \ Settled(m)) \cup elapsed \X {WholeRoom}
    BY <1>1 DEF CommitMove
  <2>4. elapsed \X {WholeRoom} \subseteq m.holding \X {WholeRoom}
    OBVIOUS
  <2> QED BY <1>1, <2>1, <2>2, <2>3, <2>4 DEF CommitMove, AlertsOK
<1>2. ASSUME NEW d \in deletions, CommitDelete(d)
      PROVE  AlertsOK'
  BY <1>2 DEF CommitDelete, AlertsOK
<1>3. CASE \/ \E s \in Sensors, hot \in BOOLEAN : Report(s, hot)
           \/ \E s \in Sensors : Pair(s)
           \/ \E s \in Sensors, to \in Rooms \cup {Nowhere, Unpaired} : BeginMove(s, to)
           \/ \E r \in Rooms : BeginDelete(r)
           \/ Rollback
  BY <1>3 DEF Report, Pair, BeginMove, BeginDelete, Rollback, AlertsOK
<1>4. ASSUME NEW e \in Replicas, Step(e)
      PROVE  AlertsOK'
  <2>1. ASSUME NEW i \in Instances
        PROVE  StraysWith(i) \subseteq Instances
    BY DEF StraysWith, AlertsOK
  <2>2. ASSUME NEW r \in Rooms, SaveCleared(e, r) \/ SavePending(e, r) \/ SaveElapsed(e, r)
        PROVE  AlertsOK'
    BY <2>1, <2>2, InstanceType DEF SaveCleared, SavePending, SaveElapsed, Evaluate, AlertsOK
  <2>3. CASE ResolveActiveAlert(e) \/ CreateAlert(e)
    BY <2>1, <2>3, InstanceType DEF ResolveActiveAlert, CreateAlert, AlertsOK
  <2>4. CASE (\E k \in Sensors \cup {WholeRoom} : NextRule(e, k)) \/ Load(e)
             \/ HasActiveAlert(e) \/ RuleDone(e) \/ GiveUp(e)
    BY <2>4 DEF NextRule, Load, HasActiveAlert, RuleDone, GiveUp, AlertsOK
  <2> QED BY <1>4, <2>2, <2>3, <2>4 DEF Step
<1> QED BY <1>1, <1>2, <1>3, <1>4 DEF Next

LEMMA EvaluatorsStep ==
  ASSUME SensorsOK, EvaluatorsOK, Next
  PROVE  EvaluatorsOK'
<1>1. CASE \/ \E s \in Sensors, hot \in BOOLEAN : Report(s, hot)
           \/ \E s \in Sensors : Pair(s)
           \/ \E s \in Sensors, to \in Rooms \cup {Nowhere, Unpaired} : BeginMove(s, to)
           \/ \E m \in moves : CommitMove(m)
           \/ \E r \in Rooms : BeginDelete(r)
           \/ \E d \in deletions : CommitDelete(d)
           \/ Rollback
  <2>1. UNCHANGED <<evaluatorVars, failures>>
    BY <1>1 DEF Report, Pair, BeginMove, CommitMove, BeginDelete, CommitDelete, Rollback
  <2> QED BY <2>1 DEF evaluatorVars, EvaluatorsOK
<1>2. ASSUME NEW e \in Replicas, Step(e)
      PROVE  EvaluatorsOK'
  <2> USE DEF Goto, Labels
  <2>1. ASSUME NEW k \in Sensors \cup {WholeRoom}, NextRule(e, k)
        PROVE  EvaluatorsOK'
    <3>1. [s \in Sensors |-> NoReading] \in [Sensors -> Reading]
      BY DEF NoReading, Reading
    <3>2. Looks(k) \subseteq Sensors
      BY DEF Looks
    <3> QED BY <2>1, <3>1, <3>2 DEF NextRule, EvaluatorsOK
  <2>2. CASE Load(e)
    <3>1. PICK s \in unread[e] :
            /\ seen' = [seen EXCEPT ![e][s] = Snapshot(assigned, s)]
            /\ unread' = [unread EXCEPT ![e] = @ \ {s}]
            /\ IF unread[e] = {s}
                 THEN /\ Goto(e, "instances")
                      /\ todo' = [todo EXCEPT ![e] = Candidates(rule[e], seen'[e])]
                 ELSE UNCHANGED <<pc, todo>>
      BY <2>2 DEF Load
    <3>2. s \in Sensors /\ Snapshot(assigned, s) \in Reading
      BY <3>1, SnapshotType DEF EvaluatorsOK, SensorsOK
    <3>3. seen' \in [Replicas -> [Sensors -> Reading]]
      BY <3>1, <3>2 DEF EvaluatorsOK
    <3>4. unread' \in [Replicas -> SUBSET Sensors]
      BY <3>1 DEF EvaluatorsOK
    <3>5. Candidates(rule[e], seen'[e]) \subseteq Rooms
      BY <3>3, CandidatesType DEF EvaluatorsOK
    <3>6. pc' \in [Replicas -> Labels] /\ todo' \in [Replicas -> SUBSET Rooms]
      BY <3>1, <3>5 DEF EvaluatorsOK
    <3> QED BY <2>2, <3>3, <3>4, <3>6 DEF Load, EvaluatorsOK
  <2>3. ASSUME NEW r \in Rooms, SaveCleared(e, r) \/ SavePending(e, r) \/ SaveElapsed(e, r)
        PROVE  EvaluatorsOK'
    BY <2>3 DEF SaveCleared, SavePending, SaveElapsed, Evaluate, EvaluatorsOK
  <2>4. CASE ResolveActiveAlert(e) \/ CreateAlert(e) \/ HasActiveAlert(e) \/ RuleDone(e)
    BY <2>4 DEF ResolveActiveAlert, CreateAlert, HasActiveAlert, RuleDone, EvaluatorsOK
  <2>5. CASE GiveUp(e)
    BY <2>5, BoundsAssumption DEF GiveUp, EvaluatorsOK
  <2> QED BY <1>2, <2>1, <2>2, <2>3, <2>4, <2>5 DEF Step
<1> QED BY <1>1, <1>2 DEF Next

LEMMA TypeStep ==
  ASSUME TypeOK, [Next]_vars
  PROVE  TypeOK'
<1>1. CASE Next
  <2>1. SensorsOK' /\ AlertsOK' /\ RequestsOK' /\ EvaluatorsOK'
    BY <1>1, TypeParts, SensorsStep, AlertsStep, RequestsStep, EvaluatorsStep
  <2> QED BY <2>1 DEF TypeOK, SensorsOK, AlertsOK, RequestsOK, EvaluatorsOK, Move,
                      Deletion, Labels
<1>2. CASE UNCHANGED vars
  BY <1>2 DEF vars, requestVars, evaluatorVars, TypeOK
<1> QED BY <1>1, <1>2

LEMMA TypeInit == Init => TypeOK
<1> SUFFICES ASSUME Init PROVE TypeOK
  OBVIOUS
<1>1. SensorsOK
  BY DEF Init, SensorsOK, Reading, NoReading
<1>2. AlertsOK /\ RequestsOK
  BY BoundsAssumption DEF Init, AlertsOK, RequestsOK
<1>3. EvaluatorsOK
  BY BoundsAssumption DEF Init, EvaluatorsOK, Labels, Reading, NoReading
<1> QED BY <1>1, <1>2, <1>3, TypeParts

(* Every instance, transaction and evaluator is of its kind.                *)
THEOREM RoomAlertsTypes == Spec => []TypeOK
BY TypeInit, TypeStep, PTL DEF Spec

-----------------------------------------------------------------------------
(* What is left.                                                           *)

(* A deletion resolves whatever is set in its room, but for the strays.     *)
DeletionReaches ==
  \A d \in deletions, i \in active \cup pending :
    i[1] = d.room => i \in d.rows \cup strays

LeftInv == NothingElseLeft /\ DeletionReaches

(* Whether an instance is visited depends on assignments and readings.      *)
HasSensor(i) == \E s \in Looks(i[2]) : assigned[s] = i[1] /\ reading[s].room = i[1]

LEMMA VisitedIff ==
  ASSUME NEW i \in Instances
  PROVE  (Visited(i) <=> HasSensor(i)) /\ (Visited(i)' <=> HasSensor(i)')
<1>1. i[1] \in Rooms /\ i[1] # Nowhere /\ Looks(i[2]) \subseteq Sensors
  BY NamesAssumption DEF Instances, Looks
<1>2. \A s \in Sensors :
        /\ Snapshot(assigned, s).room = i[1] <=>
             assigned[s] = i[1] /\ reading[s].room = i[1]
        /\ Snapshot(assigned, s)'.room = i[1] <=>
             assigned'[s] = i[1] /\ reading'[s].room = i[1]
  BY <1>1 DEF Snapshot, NoReading
<1>3. Visited(i) <=> \E s \in Looks(i[2]) : Snapshot(assigned, s).room = i[1]
  BY <1>1 DEF Visited, Candidates, Snapshots
<1>4. Visited(i)' <=> \E s \in Looks(i[2]) : Snapshot(assigned, s)'.room = i[1]
  BY <1>1 DEF Visited, Candidates, Snapshots
<1> QED BY <1>1, <1>2, <1>3, <1>4 DEF HasSensor

(* Nothing is set that was not, and what is visited still is.               *)
LEMMA LeftKept ==
  ASSUME LeftInv,
         active' \cup pending' \subseteq active \cup pending,
         strays \cap (active' \cup pending') \subseteq strays',
         deletions' \subseteq deletions,
         \A i \in active' \cup pending' : Visited(i) => Visited(i)'
  PROVE  LeftInv'
BY DEF LeftInv, NothingElseLeft, DeletionReaches

(* An evaluator sets an instance.                                           *)
LEMMA LeftWith ==
  ASSUME LeftInv, NEW i, strays' = StraysWith(i),
         active' \cup pending' \subseteq active \cup pending \cup {i},
         UNCHANGED <<assigned, reading, deletions>>
  PROVE  LeftInv'
<1>1. strays \subseteq strays' /\ ((Visited(i) /\ ~Disturbed(i)) \/ i \in strays')
  BY DEF StraysWith
<1>2. \A j : Visited(j)' <=> Visited(j)
  BY DEF Visited, Snapshots, Snapshot
<1>3. \A d \in deletions : i[1] = d.room => i \in strays'
  BY <1>1 DEF Disturbed
<1> QED BY <1>1, <1>2, <1>3 DEF LeftInv, NothingElseLeft, DeletionReaches

LEMMA ReportLeft ==
  ASSUME TypeOK, LeftInv, NEW s \in Sensors,
         Pair(s) \/ \E hot \in BOOLEAN : Report(s, hot)
  PROVE  LeftInv'
<1> USE TypeParts
<1>1. UNCHANGED <<active, pending, strays, deletions>>
  BY DEF Report, Pair, requestVars
<1>3. ASSUME NEW i \in Instances, Visited(i)
      PROVE  Visited(i)'
  <2>1. PICK t \in Looks(i[2]) : assigned[t] = i[1] /\ reading[t].room = i[1]
    BY <1>3, VisitedIff DEF HasSensor
  <2>2. i[1] \in Rooms /\ t \in Sensors
    BY DEF Instances, Looks
  <2>3. assigned'[t] = i[1]
    BY <2>1, <2>2, NamesAssumption DEF Report, Pair, SensorsOK
  <2>4. reading'[t].room = i[1]
    BY <2>1, <2>2 DEF Report, Pair, SensorsOK
  <2> QED BY <2>1, <2>3, <2>4, VisitedIff DEF HasSensor
<1>4. active \cup pending \subseteq Instances
  BY DEF AlertsOK
<1> QED BY <1>1, <1>3, <1>4, LeftKept

LEMMA BeginLeft ==
  ASSUME LeftInv,
         \/ \E s \in Sensors, to \in Rooms \cup {Nowhere, Unpaired} : BeginMove(s, to)
         \/ \E r \in Rooms : BeginDelete(r)
         \/ Rollback
  PROVE  LeftInv'
<1>1. UNCHANGED <<active, pending, strays, assigned, reading>>
  BY DEF BeginMove, BeginDelete, Rollback
<1>2. \A i : Visited(i)' <=> Visited(i)
  BY <1>1 DEF Visited, Snapshots, Snapshot
<1>3. CASE Rollback \/ \E s \in Sensors, to \in Rooms \cup {Nowhere, Unpaired} : BeginMove(s, to)
  BY <1>1, <1>2, <1>3, LeftKept DEF Rollback, BeginMove
<1>4. ASSUME NEW r \in Rooms, BeginDelete(r)
      PROVE  LeftInv'
  <2> DEFINE new == [room |-> r, rows |-> {i \in pending \cup active : i[1] = r}]
  <2>1. deletions' = deletions \cup {new}
    BY <1>4 DEF BeginDelete
  <2>2. \A i \in active \cup pending : i[1] = new.room => i \in new.rows
    OBVIOUS
  <2> HIDE DEF new
  <2> QED BY <1>1, <1>2, <2>1, <2>2 DEF LeftInv, NothingElseLeft, DeletionReaches
<1> QED BY <1>3, <1>4

LEMMA CommitMoveLeft ==
  ASSUME TypeOK, LeftInv, NEW m \in moves, CommitMove(m)
  PROVE  LeftInv'
<1> USE TypeParts
<1> DEFINE held == m.holding \X {WholeRoom}
           from == assigned[m.sensor]
<1>1. /\ m.sensor \in Sensors /\ m.to \in Rooms \cup {Nowhere, Unpaired}
      /\ m.holding \subseteq Rooms /\ m \in Move
  BY DEF RequestsOK, Move
<1>2. /\ assigned' = [assigned EXCEPT ![m.sensor] = m.to]
      /\ reading' = reading /\ deletions' = deletions
      /\ strays' = (strays \ Settled(m)) \cup LeftBehind(m)
      /\ active' \cup pending' \subseteq ((active \cup pending) \ Settled(m)) \cup held
  BY DEF CommitMove
<1>4. held \subseteq Instances
  BY SettledType, <1>1
(* What the handler found true is true after the move, or counted.          *)
<1>5. ASSUME NEW i \in held
      PROVE  Visited(i)' \/ i \in strays'
  <2>1. CASE m.to # Unpaired /\ m.holding = Holding(m.sensor, m.to)
    <3>1. PICK r \in m.holding : i = <<r, WholeRoom>>
      OBVIOUS
    <3>2. HandlerView(m.sensor, m.to) = assigned'
      BY <1>2, <2>1 DEF HandlerView
    <3>3. Matches(WholeRoom, Snapshots(assigned'), r)
      BY <2>1, <3>1, <3>2 DEF Holding
    <3>4. \E s \in Sensors : Snapshots(assigned')[s].room = r
      BY <1>1, <3>3 DEF Matches, Looks
    <3>5. r # Nowhere /\ Snapshots(assigned)' = Snapshots(assigned')
      BY <1>1, <1>2, NamesAssumption DEF Snapshots, Snapshot
    <3> QED BY <3>1, <3>4, <3>5 DEF Visited, Candidates, Looks
  <2>2. CASE ~(m.to # Unpaired /\ m.holding = Holding(m.sensor, m.to))
    BY <1>2, <2>2 DEF LeftBehind
  <2> QED BY <2>1, <2>2
<1>6. ASSUME NEW i \in held, NEW d \in deletions, i[1] = d.room
      PROVE  i \in strays'
  BY <1>2, <1>6 DEF LeftBehind
(* Of the rest, only instances of the room that is left lose a sensor.      *)
<1>7. ASSUME NEW i \in (active \cup pending) \ Settled(m), i \notin held, Visited(i)
      PROVE  Visited(i)'
  <2>1. i \in Instances /\ i[1] \in Rooms
    BY DEF AlertsOK, Instances
  <2>2. PICK s \in Looks(i[2]) : assigned[s] = i[1] /\ reading[s].room = i[1]
    BY <1>7, <2>1, VisitedIff DEF HasSensor
  <2>3. CASE s # m.sensor
    <3>1. s \in Sensors
      BY <2>1 DEF Looks, Instances
    <3>2. assigned'[s] = i[1] /\ reading'[s].room = i[1]
      BY <1>2, <2>2, <2>3, <3>1 DEF SensorsOK
    <3> QED BY <2>1, <2>2, <3>2, VisitedIff DEF HasSensor
  <2>4. CASE s = m.sensor
    <3>1. from = i[1] /\ from \in Rooms
      BY <2>1, <2>2, <2>4
    <3>2. i = <<from, i[2]>> /\ i[2] \in Sensors \cup {WholeRoom}
      BY <2>1, <3>1 DEF Instances
    <3>3. CASE i[2] = WholeRoom
      <4>1. from \in Affected(m.sensor, m.to)
        BY <3>1 DEF Affected
      <4>2. from \in m.holding \/ i \in Settled(m)
        BY <3>1, <3>2, <3>3, <4>1 DEF Settled
      <4> QED BY <1>7, <3>2, <3>3, <4>2
    <3>4. CASE i[2] # WholeRoom
      <4>1. i[2] = m.sensor
        BY <2>2, <2>4, <3>4 DEF Looks
      <4>2. i \in Settled(m)
        BY <3>1, <3>2, <4>1 DEF Settled
      <4> QED BY <1>7, <4>2
    <3> QED BY <3>3, <3>4
  <2> QED BY <2>3, <2>4
<1>8. NothingElseLeft'
  BY <1>2, <1>5, <1>7 DEF LeftInv, NothingElseLeft
<1>9. DeletionReaches'
  BY <1>2, <1>6 DEF LeftInv, DeletionReaches
<1> QED BY <1>8, <1>9 DEF LeftInv

LEMMA CommitDeleteLeft ==
  ASSUME TypeOK, LeftInv, NEW d \in deletions, CommitDelete(d)
  PROVE  LeftInv'
<1> USE TypeParts
<1>1. /\ assigned' = [s \in Sensors |->
                        IF assigned[s] = d.room THEN Nowhere ELSE assigned[s]]
      /\ active' \cup pending' = (active \cup pending) \ d.rows
      /\ strays' = strays \ d.rows
      /\ deletions' \subseteq deletions /\ reading' = reading
  BY DEF CommitDelete
<1>3. ASSUME NEW i \in (active \cup pending) \ d.rows
      PROVE  Visited(i)' \/ i \in strays'
  <2>1. i \in Instances
    BY DEF AlertsOK
  <2>2. CASE i[1] = d.room
    BY <1>1, <2>2 DEF LeftInv, DeletionReaches
  <2>3. CASE i \in strays
    BY <1>1, <2>3
  <2>4. CASE i[1] # d.room /\ Visited(i)
    <3>1. PICK s \in Looks(i[2]) : assigned[s] = i[1] /\ reading[s].room = i[1]
      BY <2>1, <2>4, VisitedIff DEF HasSensor
    <3>2. s \in Sensors
      BY <2>1 DEF Looks, Instances
    <3>3. assigned'[s] = i[1] /\ reading'[s].room = i[1]
      BY <1>1, <2>4, <3>1, <3>2
    <3> QED BY <2>1, <3>1, <3>3, VisitedIff DEF HasSensor
  <2> QED BY <2>2, <2>3, <2>4 DEF LeftInv, NothingElseLeft
<1>4. NothingElseLeft'
  BY <1>1, <1>3 DEF NothingElseLeft
<1>5. DeletionReaches'
  BY <1>1 DEF LeftInv, DeletionReaches
<1> QED BY <1>4, <1>5 DEF LeftInv

LEMMA StepLeft ==
  ASSUME LeftInv, NEW e \in Replicas, Step(e)
  PROVE  LeftInv'
<1>1. UNCHANGED <<assigned, reading, deletions>>
  BY DEF Step, NextRule, Load, SaveCleared, SavePending, SaveElapsed, Evaluate,
     ResolveActiveAlert, HasActiveAlert, CreateAlert, RuleDone, GiveUp, requestVars
<1>2. \A i : Visited(i)' <=> Visited(i)
  BY <1>1 DEF Visited, Snapshots, Snapshot
<1>3. ASSUME NEW r \in Rooms, SavePending(e, r) \/ SaveElapsed(e, r)
      PROVE  LeftInv'
  <2>1. /\ strays' = StraysWith(<<r, rule[e]>>)
        /\ active' \cup pending' \subseteq active \cup pending \cup {<<r, rule[e]>>}
    BY <1>3 DEF SavePending, SaveElapsed, Evaluate
  <2> QED BY <1>1, <2>1, LeftWith
<1>4. CASE CreateAlert(e)
  <2>1. /\ strays' = StraysWith(Instance(e))
        /\ active' \cup pending' \subseteq active \cup pending \cup {Instance(e)}
    BY <1>4 DEF CreateAlert
  <2> QED BY <1>1, <2>1, LeftWith
<1>5. ASSUME NEW r \in Rooms, SaveCleared(e, r)
      PROVE  LeftInv'
  <2>1. /\ active' \cup pending' \subseteq active \cup pending
        /\ strays' = strays
    BY <1>5 DEF SaveCleared, Evaluate
  <2> QED BY <1>1, <1>2, <2>1, LeftKept
<1>6. CASE ResolveActiveAlert(e)
  <2>1. /\ active' \cup pending' \subseteq active \cup pending
        /\ strays \cap (active' \cup pending') \subseteq strays'
    BY <1>6 DEF ResolveActiveAlert
  <2> QED BY <1>1, <1>2, <2>1, LeftKept
<1>7. CASE (\E k \in Sensors \cup {WholeRoom} : NextRule(e, k)) \/ Load(e)
           \/ HasActiveAlert(e) \/ RuleDone(e) \/ GiveUp(e)
  <2>1. UNCHANGED <<active, pending, strays>>
    BY <1>7 DEF NextRule, Load, HasActiveAlert, RuleDone, GiveUp
  <2> QED BY <1>1, <1>2, <2>1, LeftKept
<1> QED BY <1>3, <1>4, <1>5, <1>6, <1>7 DEF Step

(* Whatever is active or pending is evaluated again, but for the strays:    *)
(* moves and deletions leave nothing else behind, however they interleave   *)
(* with each other and with the evaluators of the replicas.                 *)
THEOREM RoomAlertsNothingElseLeft == Spec => []NothingElseLeft
<1>1. Init => LeftInv
  BY DEF Init, LeftInv, NothingElseLeft, DeletionReaches
<1>2. TypeOK /\ LeftInv /\ [Next]_vars => LeftInv'
  <2>1. TypeOK /\ LeftInv /\ Next => LeftInv'
    BY ReportLeft, BeginLeft, CommitMoveLeft, CommitDeleteLeft, StepLeft DEF Next
  <2>2. LeftInv /\ UNCHANGED vars => LeftInv'
    BY DEF vars, requestVars, LeftInv, NothingElseLeft, DeletionReaches, Visited,
       Snapshots, Snapshot
  <2> QED BY <2>1, <2>2
<1>3. LeftInv => NothingElseLeft
  BY DEF LeftInv
<1> QED BY <1>1, <1>2, <1>3, RoomAlertsTypes, PTL DEF Spec
=============================================================================
