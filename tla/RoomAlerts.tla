----------------------------- MODULE RoomAlerts -----------------------------
(***************************************************************************)
(* Alerts that follow sensors from room to room, in home-api.              *)
(*                                                                         *)
(* The alert evaluator of each replica goes through the rules, one SQL     *)
(* statement at a time, with no transaction: it reads the current          *)
(* snapshots, then works on what it read.  Meanwhile the requests that     *)
(* assign, unassign and unpair sensors and that delete rooms settle the    *)
(* alerts of the rooms they touch, each in a transaction of its own.       *)
(*                                                                         *)
(* Each sensor has a type of its own and one sensor rule, for all rooms;   *)
(* one COMPOSITE rule, for all rooms, has a condition per sensor.  A hold  *)
(* duration that has or has not elapsed is a choice.                       *)
(***************************************************************************)
EXTENDS Naturals

CONSTANTS Sensors,      \* sensor identities
          Rooms,        \* room identities
          Replicas,     \* home-api processes, with one evaluator each
          Nowhere,      \* room_id is NULL
          Unpaired,     \* no row in home_api.sensor
          WholeRoom,    \* sensor_id of a composite alert, NULL
          Combinator,   \* of the composite rule: "ALL" or "ANY"
          MaxRequests,  \* bound: requests that change rooms or assignments
          MaxFailures   \* bound: evaluations that are given up

ASSUME NamesAssumption ==
  /\ Nowhere \notin Rooms /\ Unpaired \notin Rooms /\ Nowhere # Unpaired
  /\ WholeRoom \notin Sensors
ASSUME CombinatorAssumption == Combinator \in {"ALL", "ANY"}
ASSUME BoundsAssumption == MaxRequests \in Nat /\ MaxFailures \in Nat

VARIABLES
  assigned,    \* assigned[s]: the room of s in home_api.sensor
  rooms,       \* the rows of home_api.room
  reading,     \* reading[s]: the newest reading (or event) of s
  pending,     \* alert_state: the instances whose condition_active is true
  active,      \* alert: the instances with an ACTIVE row
  moves,       \* open transactions of SensorService
  deletions,   \* open transactions of RoomService.deleteRoom
  requests,    \* how many of these there have been
  pc,          \* pc[e]: where evaluator e is
  rule,        \* rule[e]: its rule, a sensor's or the composite one
  unread,      \* unread[e]: the sensors whose snapshot is still to be read
  seen,        \* seen[e]: the snapshots it has read
  todo,        \* todo[e]: the rooms still to be evaluated
  inHand,      \* inHand[e]: the room it is evaluating
  failures,    \* how many evaluations were given up
  strays       \* history: instances that no rule evaluation comes back to

requestVars   == <<moves, deletions, requests>>
evaluatorVars == <<pc, rule, unread, seen, todo, inHand>>
vars == <<assigned, rooms, reading, pending, active, requestVars,
          evaluatorVars, failures, strays>>

Instances == Rooms \X (Sensors \cup {WholeRoom})
Reading == [room : Rooms \cup {Nowhere}, hot : BOOLEAN]

(* No row, or one that CURRENT_ASSIGNMENT_FILTER leaves out. *)
NoReading == [room |-> Nowhere, hot |-> FALSE]

TypeOK ==
  /\ assigned \in [Sensors -> Rooms \cup {Nowhere, Unpaired}]
  /\ rooms \subseteq Rooms
  /\ reading \in [Sensors -> Reading]
  /\ pending \subseteq Instances
  /\ active \subseteq Instances
  /\ moves \subseteq [sensor : Sensors, to : Rooms \cup {Nowhere, Unpaired},
                      holding : SUBSET Rooms]
  /\ deletions \subseteq [room : Rooms, rows : SUBSET Instances]
  /\ requests \in 0 .. MaxRequests
  /\ pc \in [Replicas -> {"idle", "load", "instances", "resolve", "check",
                          "create"}]
  /\ rule \in [Replicas -> Sensors \cup {WholeRoom}]
  /\ unread \in [Replicas -> SUBSET Sensors]
  /\ seen \in [Replicas -> [Sensors -> Reading]]
  /\ todo \in [Replicas -> SUBSET Rooms]
  /\ inHand \in [Replicas -> Rooms]
  /\ failures \in 0 .. MaxFailures
  /\ strays \subseteq Instances

Init ==
  /\ assigned = [s \in Sensors |-> Nowhere]
  /\ rooms = Rooms
  /\ reading = [s \in Sensors |-> NoReading]
  /\ pending = {}
  /\ active = {}
  /\ moves = {}
  /\ deletions = {}
  /\ requests = 0
  /\ pc = [e \in Replicas |-> "idle"]
  /\ rule = [e \in Replicas |-> WholeRoom]
  /\ unread = [e \in Replicas |-> {}]
  /\ seen = [e \in Replicas |-> [s \in Sensors |-> NoReading]]
  /\ todo = [e \in Replicas |-> {}]
  /\ inHand \in [Replicas -> Rooms]
  /\ failures = 0
  /\ strays = {}

-----------------------------------------------------------------------------
(* Rules. *)

(* The sensors a rule looks at. *)
Looks(k) == IF k = WholeRoom THEN Sensors ELSE {k}

(* The snapshot of s under an assignment: its newest reading, while that   *)
(* reading's room is the room s is assigned to.                            *)
Snapshot(where, s) ==
  IF where[s] \in Rooms /\ reading[s].room = where[s]
    THEN reading[s]
    ELSE NoReading

Snapshots(where) == [s \in Sensors |-> Snapshot(where, s)]

(* Rule k is true of a room, by these snapshots. *)
Matches(k, snapshots, r) ==
  LET hotHere(s) == snapshots[s].room = r /\ snapshots[s].hot
  IN IF Combinator = "ALL"
       THEN \A s \in Looks(k) : hotHere(s)
       ELSE \E s \in Looks(k) : hotHere(s)

(* Mutant of Candidates: room_id IS NULL is let through. *)
CandidatesWithNull(k, snapshots) == {snapshots[s].room : s \in Looks(k)}

(* The rooms rule k is evaluated for, by these snapshots. *)
Candidates(k, snapshots) == {snapshots[s].room : s \in Looks(k)} \ {Nowhere}

(* The evaluation of its rule comes by the instance. *)
Visited(i) == i[1] \in Candidates(i[2], Snapshots(assigned))

(* An open transaction is about to change what the instance depends on. *)
Disturbed(i) ==
  \/ \E m \in moves : assigned[m.sensor] = i[1] /\ m.sensor \in Looks(i[2])
  \/ \E d \in deletions : d.room = i[1]

(* Locked until the deletion that has resolved it ends. *)
Locked(i) == \E d \in deletions : i \in d.rows

-----------------------------------------------------------------------------
(* Sensors and requests. *)

(* A monitor registers s, if it is not, and stores a new reading of it     *)
(* with the room of that moment; or the newest reading grows too old.      *)
Report(s, hot) ==
  /\ reading' = [reading EXCEPT ![s] =
                   IF assigned[s] \in Rooms
                     THEN [room |-> assigned[s], hot |-> hot]
                     ELSE NoReading]
  /\ assigned' = [assigned EXCEPT ![s] = IF @ = Unpaired THEN Nowhere ELSE @]
  /\ UNCHANGED <<rooms, pending, active, requestVars, evaluatorVars,
                 failures, strays>>

Request == requests < MaxRequests /\ requests' = requests + 1

Pair(s) ==
  /\ assigned[s] = Unpaired
  /\ assigned' = [assigned EXCEPT ![s] = Nowhere]
  /\ UNCHANGED <<rooms, reading, pending, active, requestVars, evaluatorVars,
                 failures, strays>>

(* The assignment the alert handler sees: assign and unassign have updated *)
(* the sensor by then, unpair has not deleted it yet.                      *)
HandlerView(s, to) ==
  IF to = Unpaired THEN assigned ELSE [assigned EXCEPT ![s] = to]

(* The rooms whose composite rule the handler re-evaluates: none, if the   *)
(* sensor was in no room.                                                  *)
Affected(s, to) ==
  IF assigned[s] \in Rooms THEN {assigned[s], to} \cap Rooms ELSE {}

(* What the handler finds the composite rule true of. *)
Holding(s, to) ==
  {r \in Affected(s, to) :
     Matches(WholeRoom, Snapshots(HandlerView(s, to)), r)}

(* assign, unassign and unpair: lockCurrentRoom locks the sensor, and the  *)
(* handler reads the snapshots.                                            *)
BeginMove(s, to) ==
  /\ Request
  /\ assigned[s] \notin {Unpaired, to}
  /\ to \in rooms \cup {Nowhere, Unpaired}
  /\ \A m \in moves : m.sensor # s
  /\ moves' = moves \cup
       {[sensor |-> s, to |-> to, holding |-> Holding(s, to)]}
  /\ UNCHANGED <<assigned, rooms, reading, pending, active, deletions,
                 evaluatorVars, failures, strays>>

(* Mutant of Settled: without resolveSensorAlertsInRoom. *)
SettledRoomsOnly(m) ==
  (Affected(m.sensor, m.to) \ m.holding) \X {WholeRoom}

(* What the handler resolves: the sensor's alert in the room it left, and  *)
(* the composite alerts of the rooms it found the rule not true of.        *)
Settled(m) ==
  IF assigned[m.sensor] \in Rooms
    THEN {<<assigned[m.sensor], m.sensor>>} \cup
         (Affected(m.sensor, m.to) \ m.holding) \X {WholeRoom}
    ELSE {}

(* The composite instances the move may leave true for good: unpair looked *)
(* too early, the inputs have changed since, or the room is being deleted. *)
LeftBehind(m) ==
  {i \in m.holding \X {WholeRoom} :
     \/ m.to = Unpaired
     \/ m.holding # Holding(m.sensor, m.to)
     \/ \E d \in deletions : d.room = i[1]}

(* The handler writes, which waits for rows that a deletion has resolved,  *)
(* and the transaction commits.                                            *)
MoveWaits(m) ==
  \E i \in Settled(m) \cup m.holding \X {WholeRoom} : Locked(i)

CommitMove(m) ==
  /\ m \in moves
  /\ ~ MoveWaits(m)
  /\ assigned' = [assigned EXCEPT ![m.sensor] = m.to]
  /\ pending' = (pending \ Settled(m)) \cup m.holding \X {WholeRoom}
  /\ \E elapsed \in SUBSET m.holding :
       active' = (active \ Settled(m)) \cup elapsed \X {WholeRoom}
  /\ moves' = moves \ {m}
  /\ strays' = (strays \ Settled(m)) \cup LeftBehind(m)
  /\ UNCHANGED <<rooms, reading, deletions, requests, evaluatorVars,
                 failures>>

(* Mutant of BeginDelete: without resolveAllAlertsInRoom. *)
BeginDeleteOnly(r) ==
  /\ Request
  /\ r \in rooms
  /\ \A d \in deletions : d.room # r
  /\ deletions' = deletions \cup {[room |-> r, rows |-> {}]}
  /\ UNCHANGED <<assigned, rooms, reading, pending, active, moves,
                 evaluatorVars, failures, strays>>

(* deleteRoom resolves what is active and pending in the room ... *)
BeginDelete(r) ==
  /\ Request
  /\ r \in rooms
  /\ \A d \in deletions : d.room # r
  /\ deletions' = deletions \cup
       {[room |-> r, rows |-> {i \in pending \cup active : i[1] = r}]}
  /\ UNCHANGED <<assigned, rooms, reading, pending, active, moves,
                 evaluatorVars, failures, strays>>

(* ... then deletes the row, which waits for whoever holds a sensor of the *)
(* room or is putting one there, and takes the sensors out of the room.    *)
DeletionWaits(d) == \E m \in moves : d.room \in {m.to, assigned[m.sensor]}

CommitDelete(d) ==
  /\ d \in deletions
  /\ ~ DeletionWaits(d)
  /\ rooms' = rooms \ {d.room}
  /\ assigned' = [s \in Sensors |->
                    IF assigned[s] = d.room THEN Nowhere ELSE assigned[s]]
  /\ pending' = pending \ d.rows
  /\ active' = active \ d.rows
  /\ deletions' = deletions \ {d}
  /\ strays' = strays \ d.rows
  /\ UNCHANGED <<reading, moves, requests, evaluatorVars,
                 failures>>

(* Every transaction waits for another one. *)
Deadlocked ==
  /\ moves # {} \/ deletions # {}
  /\ \A m \in moves : MoveWaits(m)
  /\ \A d \in deletions : DeletionWaits(d)

(* A request fails, or the database breaks a deadlock. *)
Rollback ==
  /\ \/ \E m \in moves : moves' = moves \ {m} /\ UNCHANGED deletions
     \/ \E d \in deletions : deletions' = deletions \ {d} /\ UNCHANGED moves
  /\ UNCHANGED <<assigned, rooms, reading, pending, active, requests,
                 evaluatorVars, failures, strays>>

-----------------------------------------------------------------------------
(* The evaluator. *)

Goto(e, label) == pc' = [pc EXCEPT ![e] = label]

(* The instance e has in hand. *)
Instance(e) == <<inHand[e], rule[e]>>

(* evaluateRule of rule k. *)
NextRule(e, k) ==
  /\ pc[e] = "idle"
  /\ Goto(e, "load")
  /\ rule' = [rule EXCEPT ![e] = k]
  /\ unread' = [unread EXCEPT ![e] = Looks(k)]
  /\ seen' = [seen EXCEPT ![e] = [s \in Sensors |-> NoReading]]
  /\ UNCHANGED <<assigned, rooms, reading, pending, active, requestVars, todo,
                 inHand, failures, strays>>

(* latestEnvironment or latestOccupancy: one SELECT per sensor type. *)
Load(e) ==
  /\ pc[e] = "load"
  /\ \E s \in unread[e] :
       /\ seen' = [seen EXCEPT ![e][s] = Snapshot(assigned, s)]
       /\ unread' = [unread EXCEPT ![e] = @ \ {s}]
       /\ IF unread[e] = {s}
            THEN /\ Goto(e, "instances")
                 /\ todo' = [todo EXCEPT ![e] = Candidates(rule[e], seen'[e])]
            ELSE UNCHANGED <<pc, todo>>
  /\ UNCHANGED <<assigned, rooms, reading, pending, active, requestVars, rule,
                 inHand, failures, strays>>

(* evaluateInstance of the next room, up to and with saveState. *)
Evaluate(e, r) ==
  /\ pc[e] = "instances"
  /\ r \in todo[e]
  /\ ~ Locked(<<r, rule[e]>>)
  /\ todo' = [todo EXCEPT ![e] = @ \ {r}]
  /\ inHand' = [inHand EXCEPT ![e] = r]
  /\ UNCHANGED <<assigned, rooms, reading, active, requestVars, rule, unread,
                 seen, failures>>

(* What the evaluator sets, behind the back of a request, to stay set. *)
StraysWith(i) ==
  IF Visited(i) /\ ~ Disturbed(i) THEN strays ELSE strays \cup {i}

(* Mutant of SaveCleared: the alert is not resolved. *)
SaveClearedOnly(e, r) ==
  /\ Evaluate(e, r)
  /\ ~ Matches(rule[e], seen[e], r)
  /\ pending' = pending \ {<<r, rule[e]>>}
  /\ UNCHANGED <<pc, strays>>

SaveCleared(e, r) ==
  /\ Evaluate(e, r)
  /\ ~ Matches(rule[e], seen[e], r)
  /\ pending' = pending \ {<<r, rule[e]>>}
  /\ Goto(e, "resolve")
  /\ UNCHANGED strays

SavePending(e, r) ==
  /\ Evaluate(e, r)
  /\ Matches(rule[e], seen[e], r)
  /\ pending' = pending \cup {<<r, rule[e]>>}
  /\ UNCHANGED pc
  /\ strays' = StraysWith(<<r, rule[e]>>)

SaveElapsed(e, r) ==
  /\ Evaluate(e, r)
  /\ Matches(rule[e], seen[e], r)
  /\ pending' = pending \cup {<<r, rule[e]>>}
  /\ Goto(e, "check")
  /\ strays' = StraysWith(<<r, rule[e]>>)

ResolveActiveAlert(e) ==
  /\ pc[e] = "resolve"
  /\ ~ Locked(Instance(e))
  /\ active' = active \ {Instance(e)}
  /\ strays' = strays \ ({Instance(e)} \ pending)
  /\ Goto(e, "instances")
  /\ UNCHANGED <<assigned, rooms, reading, pending, requestVars, rule, unread,
                 seen, todo, inHand, failures>>

(* hasActiveAlert, and touchActiveAlert, which changes no more than the    *)
(* time of the last evaluation.                                            *)
HasActiveAlert(e) ==
  /\ pc[e] = "check"
  /\ Goto(e, IF Instance(e) \in active THEN "instances" ELSE "create")
  /\ UNCHANGED <<assigned, rooms, reading, pending, active, requestVars, rule,
                 unread, seen, todo, inHand, failures, strays>>

(* The INSERT, which fails quietly when there is an ACTIVE row by now. *)
CreateAlert(e) ==
  /\ pc[e] = "create"
  /\ ~ Locked(Instance(e))
  /\ active' = active \cup {Instance(e)}
  /\ strays' = StraysWith(Instance(e))
  /\ Goto(e, "instances")
  /\ UNCHANGED <<assigned, rooms, reading, pending, requestVars, rule, unread,
                 seen, todo, inHand, failures>>

RuleDone(e) ==
  /\ pc[e] = "instances"
  /\ todo[e] = {}
  /\ Goto(e, "idle")
  /\ UNCHANGED <<assigned, rooms, reading, pending, active, requestVars, rule,
                 unread, seen, todo, inHand, failures, strays>>

(* A statement fails and the rule is given up until the next cycle, or the *)
(* process is restarted.                                                   *)
GiveUp(e) ==
  /\ pc[e] # "idle"
  /\ failures < MaxFailures
  /\ failures' = failures + 1
  /\ Goto(e, "idle")
  /\ todo' = [todo EXCEPT ![e] = {}]
  /\ UNCHANGED <<assigned, rooms, reading, pending, active, requestVars, rule,
                 unread, seen, inHand, strays>>

Step(e) ==
  \/ \E k \in Sensors \cup {WholeRoom} : NextRule(e, k)
  \/ Load(e)
  \/ \E r \in Rooms : SaveCleared(e, r) \/ SavePending(e, r) \/ SaveElapsed(e, r)
  \/ ResolveActiveAlert(e)
  \/ HasActiveAlert(e)
  \/ CreateAlert(e)
  \/ RuleDone(e)
  \/ GiveUp(e)

Next ==
  \/ \E s \in Sensors, hot \in BOOLEAN : Report(s, hot)
  \/ \E s \in Sensors : Pair(s)
  \/ \E s \in Sensors, to \in Rooms \cup {Nowhere, Unpaired} : BeginMove(s, to)
  \/ \E m \in moves : CommitMove(m)
  \/ \E r \in Rooms : BeginDelete(r)
  \/ \E d \in deletions : CommitDelete(d)
  \/ Rollback
  \/ \E e \in Replicas : Step(e)

Spec == Init /\ [][Next]_vars

(* Each evaluator goes through all the rules in every cycle, cycle after   *)
(* cycle, and runs its statements, which fail only so often.  A hold       *)
(* duration elapses.  A transaction ends, and the database breaks          *)
(* deadlocks.                                                              *)
Progress(e) ==
  \/ Load(e)
  \/ \E r \in Rooms : SaveCleared(e, r)
  \/ ResolveActiveAlert(e)
  \/ HasActiveAlert(e)
  \/ CreateAlert(e)
  \/ RuleDone(e)

Fairness ==
  /\ \A e \in Replicas, k \in Sensors \cup {WholeRoom} :
       /\ SF_vars(NextRule(e, k))
       /\ SF_vars(rule[e] = k /\ \E r \in Rooms : SaveElapsed(e, r))
  /\ \A e \in Replicas : WF_vars(Progress(e))
  /\ WF_vars(\E m \in moves : CommitMove(m))
  /\ WF_vars(\E d \in deletions : CommitDelete(d))
  /\ WF_vars(Deadlocked /\ Rollback)

FairSpec == Spec /\ Fairness

-----------------------------------------------------------------------------
(* Properties. *)

(* Whatever is active or pending is evaluated again, so that it is         *)
(* resolved when its condition ends: the sensor is still in the room, or,  *)
(* for the composite rule, a sensor is.  The exceptions are the strays:    *)
(* what an evaluator set from snapshots older than a move or deletion,     *)
(* what unpair settled too early, and what two requests settled at once.   *)
(* It is about the order of the writes in SensorService and RoomService    *)
(* and about SensorReassignmentAlertHandler reaching all that is left.     *)
NothingElseLeft == \A i \in active \cup pending : Visited(i) \/ i \in strays

(* If from some time on a sensor stays in a room and its newest reading,   *)
(* from there, does or does not meet the condition, its alert ends up      *)
(* ACTIVE or not: evaluators with old snapshots, failed statements and     *)
(* other sensors' moves do not keep the alert wrong.                       *)
FollowsSensor ==
  \A s \in Sensors, r \in Rooms, hot \in BOOLEAN :
    <>[](Snapshot(assigned, s) = [room |-> r, hot |-> hot]) =>
      <>[]((<<r, s>> \in active) <=> hot)
=============================================================================
