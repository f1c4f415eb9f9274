--------------------------- MODULE DashboardProofs ---------------------------
(***************************************************************************)
(* Theorems about the pages that show data, as the router mounts them: the *)
(* page of a room, the list of alerts and the drawer of an alert, for any  *)
(* rooms, sensors, filters and alerts, any number of overlapping requests  *)
(* and any way through the pages.                                          *)
(*                                                                         *)
(* Each page has an inductive invariant that its mounting establishes and  *)
(* its own steps preserve; the steps of the others leave it alone.         *)
(***************************************************************************)
EXTENDS Dashboard, RoomHistory, SequenceTheorems, FiniteSetTheorems,
        WellFoundedInduction, TLAPS

(***************************************************************************)
(* Requests in flight: the one that returns leaves the others in order.    *)
(***************************************************************************)

LEMMA RemoveAtIsRest ==
  ASSUME NEW S, NEW s \in Seq(S), NEW i \in DOMAIN s
  PROVE  /\ RemoveAt(s, i) \in Seq(S)
         /\ DOMAIN RemoveAt(s, i) = 1 .. Len(s) - 1
         /\ \A j \in 1 .. Len(s) - 1 : RemoveAt(s, i)[j] = s[IF j < i THEN j ELSE j + 1]
<1>1. Len(s) \in Nat /\ DOMAIN s = 1 .. Len(s)
  OBVIOUS
<1>2. SubSeq(s, 1, i - 1) \in Seq(S) /\ Len(SubSeq(s, 1, i - 1)) = i - 1
  BY <1>1
<1>3. SubSeq(s, i + 1, Len(s)) \in Seq(S) /\ Len(SubSeq(s, i + 1, Len(s))) = Len(s) - i
  BY <1>1
<1>4. \A j \in 1 .. i - 1 : SubSeq(s, 1, i - 1)[j] = s[j]
  BY <1>1
<1>5. \A j \in 1 .. Len(s) - i : SubSeq(s, i + 1, Len(s))[j] = s[j + i]
  BY <1>1
<1> DEFINE front == SubSeq(s, 1, i - 1)
           back == SubSeq(s, i + 1, Len(s))
<1>6. RemoveAt(s, i) = front \o back
  BY DEF RemoveAt
<1> HIDE DEF front, back
<1>7. /\ front \in Seq(S) /\ Len(front) = i - 1 /\ \A j \in 1 .. i - 1 : front[j] = s[j]
      /\ back \in Seq(S) /\ Len(back) = Len(s) - i
      /\ \A j \in 1 .. Len(s) - i : back[j] = s[j + i]
  BY <1>2, <1>3, <1>4, <1>5 DEF front, back
<1>8. /\ front \o back \in Seq(S) /\ Len(front \o back) = Len(s) - 1
      /\ \A j \in 1 .. Len(s) - 1 :
           (front \o back)[j] = IF j <= i - 1 THEN front[j] ELSE back[j - (i - 1)]
  <2>1. /\ front \o back \in Seq(S) /\ Len(front \o back) = Len(front) + Len(back)
        /\ \A j \in 1 .. Len(front) + Len(back) :
             (front \o back)[j] = IF j <= Len(front) THEN front[j] ELSE back[j - Len(front)]
    BY <1>7, ConcatProperties
  <2>2. Len(front) + Len(back) = Len(s) - 1
    BY <1>1, <1>7
  <2>3. Len(front) = i - 1
    BY <1>7
  <2> QED BY ONLY <2>1, <2>2, <2>3
<1>9. ASSUME NEW j \in 1 .. Len(s) - 1
      PROVE  (front \o back)[j] = s[IF j < i THEN j ELSE j + 1]
  <2>1. i \in Nat /\ j \in Nat /\ j <= Len(s) - 1
    BY <1>1
  <2>2. CASE j < i
    BY <1>7, <1>8, <2>1, <2>2
  <2>3. CASE ~(j < i)
    <3>1. (front \o back)[j] = back[j - (i - 1)]
      <4>1. (front \o back)[j] = IF j <= i - 1 THEN front[j] ELSE back[j - (i - 1)]
        BY <1>8, Zenon
      <4>2. ~(j <= i - 1)
        BY <2>1, <2>3
      <4> QED BY <4>1, <4>2, Zenon
    <3>2. PICK k \in 1 .. Len(s) - i : k = j - (i - 1) /\ k + i = j + 1
      BY <1>1, <2>1, <2>3
    <3>3. back[k] = s[k + i]
      BY <1>7
    <3> QED BY <2>3, <3>1, <3>2, <3>3
  <2> QED BY <2>2, <2>3
<1> QED BY <1>6, <1>8, <1>9

-----------------------------------------------------------------------------
(***************************************************************************)
(* Places: the first of a set of numbers, and how many stand above one.    *)
(***************************************************************************)

LEMMA FirstPlace ==
  ASSUME NEW S \in SUBSET Nat, S # {}
  PROVE  \E i \in S : \A j \in S : i <= j
<1>1. \A i, j \in Nat : <<i, j>> \in OpToRel(<, Nat) <=> i < j
  BY DEF OpToRel
<1>2. PICK i \in S : \A j \in S : ~ (<<j, i>> \in OpToRel(<, Nat))
  BY NatLessThanWellFounded, WFMin
<1>3. \A j \in S : ~ (j < i)
  BY <1>1, <1>2, Zenon
<1> QED BY <1>3

LEMMA LastPlaceOf ==
  ASSUME NEW k \in Nat, NEW S \in SUBSET (1 .. k), S # {}
  PROVE  \E i \in S : \A j \in S : j <= i
<1> DEFINE T == {k - i : i \in S}
<1>1. T \in SUBSET Nat /\ T # {}
  <2>1. \A i \in S : i \in 1 .. k
    OBVIOUS
  <2>2. \A i \in S : k - i \in Nat
    BY <2>1
  <2> QED BY <2>2
<1>2. PICK m \in T : \A n \in T : m <= n
  <2> HIDE DEF T
  <2> QED BY <1>1, FirstPlace
<1>3. PICK i \in S : m = k - i
  BY <1>2
<1>4. ASSUME NEW j \in S PROVE j <= i
  <2>1. k - i <= k - j
    BY <1>2, <1>3
  <2> QED BY <2>1
<1> QED BY <1>4

AboveIn(S, i) == {j \in S : j > i}

LEMMA AboveMore ==
  ASSUME NEW k \in Nat, NEW S \in SUBSET (1 .. k), NEW T \in SUBSET S,
         NEW i \in Nat, NEW j \in Nat, i <= j
  PROVE  AboveIn(T, j) \in SUBSET AboveIn(S, i) /\ AboveIn(S, i) \in SUBSET (1 .. k)
<1>3. AboveIn(T, j) \in SUBSET AboveIn(S, i)
  <2> SUFFICES ASSUME NEW a \in AboveIn(T, j) PROVE a \in AboveIn(S, i)
    OBVIOUS
  <2>1. a \in T /\ a \in S /\ a \in 1 .. k /\ a > j
    BY DEF AboveIn
  <2>2. a > i
    BY <2>1
  <2> QED BY <2>1, <2>2 DEF AboveIn
<1> QED BY <1>3 DEF AboveIn

LEMMA FiniteUpTo ==
  ASSUME NEW k \in Nat, NEW S \in SUBSET (1 .. k)
  PROVE  IsFiniteSet(S) /\ Cardinality(S) \in Nat
<1>1. IsFiniteSet(1 .. k)
  BY FS_Interval
<1>2. IsFiniteSet(S)
  BY <1>1, FS_Subset
<1> QED BY <1>2, FS_CardinalityType

LEMMA FewerOf ==
  ASSUME NEW k \in Nat, NEW S \in SUBSET (1 .. k), NEW T \in SUBSET S
  PROVE  Cardinality(T) \in Nat /\ Cardinality(S) \in Nat /\ Cardinality(T) <= Cardinality(S)
BY FiniteUpTo, FS_Subset, FS_CardinalityType

LEMMA OneMoreOf ==
  ASSUME NEW k \in Nat, NEW S \in SUBSET (1 .. k), NEW T \in SUBSET S, NEW x \in S \ T
  PROVE  Cardinality(T) + 1 <= Cardinality(S)
<1>1. IsFiniteSet(T) /\ Cardinality(T) \in Nat
  BY FiniteUpTo, FS_Subset
<1>2. Cardinality(T \cup {x}) = Cardinality(T) + 1
  BY <1>1, FS_AddElement
<1>3. Cardinality(T \cup {x}) <= Cardinality(S)
  BY FewerOf
<1> QED BY <1>2, <1>3

(* No number of places is jumped over.                                      *)
LEMMA PlaceExists ==
  ASSUME NEW k \in Nat, NEW S \in SUBSET (1 .. k), NEW a \in S, NEW n \in Nat,
         Cardinality(AboveIn(S, a)) >= n
  PROVE  \E x \in S : Cardinality(AboveIn(S, x)) = n
<1> DEFINE T == {b \in S : Cardinality(AboveIn(S, b)) >= n}
<1>1. T \in SUBSET (1 .. k) /\ a \in T
  OBVIOUS
<1>2. PICK x \in T : \A b \in T : b <= x
  <2> HIDE DEF T
  <2> QED BY <1>1, LastPlaceOf
<1>3. AboveIn(S, x) \in SUBSET (1 .. k) /\ x \in S
  BY DEF AboveIn
<1>4. Cardinality(AboveIn(S, x)) \in Nat /\ Cardinality(AboveIn(S, x)) >= n
  BY <1>3, FiniteUpTo
<1>5. SUFFICES ASSUME Cardinality(AboveIn(S, x)) > n PROVE FALSE
  BY <1>3, <1>4
<1>6. AboveIn(S, x) # {}
  BY <1>5, FS_EmptySet
<1>7. PICK y \in AboveIn(S, x) : \A b \in AboveIn(S, x) : y <= b
  BY <1>3, <1>6, FirstPlace
<1>8. y \in S /\ y > x /\ y \in 1 .. k /\ x \in 1 .. k
  BY <1>3, <1>7 DEF AboveIn
<1>9. AboveIn(S, x) = AboveIn(S, y) \cup {y} /\ y \notin AboveIn(S, y)
  <2>1. x \in Nat /\ y \in Nat /\ \A b \in S : b \in Nat
    BY <1>8
  <2>2. \A b \in S : b > x <=> b > y \/ b = y
    <3>1. \A b \in S : b > x => y <= b
      BY <1>7 DEF AboveIn
    <3> QED BY <1>8, <2>1, <3>1
  <2>3. ~(y > y)
    BY <2>1
  <2>4. \A b : b \in AboveIn(S, x) <=> b \in AboveIn(S, y) \cup {y}
    BY <1>8, <2>2, Zenon DEF AboveIn
  <2> QED BY <2>3, <2>4, Zenon DEF AboveIn
<1>10. IsFiniteSet(AboveIn(S, y)) /\ Cardinality(AboveIn(S, y)) \in Nat
  BY FiniteUpTo DEF AboveIn
<1>11. Cardinality(AboveIn(S, x)) = Cardinality(AboveIn(S, y)) + 1
  BY <1>9, <1>10, FS_AddElement
<1>12. y \in T
  BY <1>4, <1>5, <1>8, <1>10, <1>11
<1> QED BY <1>2, <1>8, <1>12

-----------------------------------------------------------------------------
(***************************************************************************)
(* The page of a room.                                                     *)
(***************************************************************************)

(* Generations are handed out once, and in order. *)
Numbered ==
  /\ \A l \in loads : l.generation <= loadGeneration
  /\ \A k, l \in loads : k.generation = l.generation => k = l

(* The newest load asks about what the page is about. *)
AsksRight(l) ==
  /\ l.room = roomId
  /\ l.round = "history" => /\ l.sensor = selectedSensorId
                            /\ selectedSensorId \in l.envSensors \cup {Null}

NewestAsksRight == \A l \in loads : Newest(l) => AsksRight(l)

(* What is shown is older than the newest load, as long as that one is in   *)
(* flight.                                                                  *)
ViewIsOld ==
  view # Null =>
    /\ view.generation <= loadGeneration
    /\ NewestInFlight => view.generation < loadGeneration

RoomInv ==
  /\ RoomTypeOK
  /\ Numbered
  /\ NewestAsksRight
  /\ ViewIsOld
  /\ ShowsSelection
  /\ LoadingEnds

-----------------------------------------------------------------------------
(* The kinds of steps: a load starts, goes on or ends.                     *)

Started ==
  /\ roomId' \in Rooms /\ selectedSensorId' \in Sensors \cup {Null}
  /\ loadGeneration' = loadGeneration + 1
  /\ \E manual \in BOOLEAN :
       /\ loads' = loads \cup {NewLoad(loadGeneration + 1, roomId', manual)}
       /\ refreshing' = (refreshing \/ manual)
  /\ view' = view
  /\ loadState' \in {loadState, "loading"} /\ errorMessage' \in BOOLEAN

Ended(l) ==
  /\ Return(l)
  /\ view' \in {view, Null} \/ (Newest(l) /\ l.round = "history" /\ view' = l)
  /\ UNCHANGED <<roomId, selectedSensorId, loadGeneration>>

LEMMA RoomSteps ==
  ASSUME RoomTypeOK, RoomNext
  PROVE  \/ Started
         \/ \E l \in loads, envSensors \in SUBSET Sensors : FirstRound(l, envSensors)
         \/ \E l \in loads :
              Ended(l) /\ (ReturnStale(l) \/ SecondRound(l) \/ NotFound(l) \/ LoadFails(l))
<1>1. CASE Poll \/ Refresh \/ Retry
  BY <1>1 DEF Poll, Refresh, Retry, StartLoad, KeepState, ShowLoading, Started, RoomTypeOK
<1>2. ASSUME NEW s \in Sensors \cup {Null}, SelectSensor(s)
      PROVE  Started
  BY <1>2 DEF SelectSensor, StartLoad, KeepState, Started, RoomTypeOK
<1>3. ASSUME NEW r \in Rooms, GoToRoom(r)
      PROVE  Started
  BY <1>3 DEF GoToRoom, StartLoad, ShowLoading, Started, RoomTypeOK
<1>4. ASSUME NEW l \in loads,
             ReturnStale(l) \/ SecondRound(l) \/ NotFound(l) \/ LoadFails(l)
      PROVE  Ended(l)
  BY <1>4 DEF ReturnStale, SecondRound, NotFound, LoadFails, Ended, RoomTypeOK
<1> QED BY <1>1, <1>2, <1>3, <1>4 DEF RoomNext

LEMMA NewLoadType ==
  ASSUME NEW g \in Nat, NEW r \in Rooms, NEW m \in BOOLEAN
  PROVE  /\ NewLoad(g, r, m) \in Load
         /\ NewLoad(g, r, m).generation = g
         /\ NewLoad(g, r, m).room = r
         /\ NewLoad(g, r, m).round = "room"
         /\ NewLoad(g, r, m).manual = m
BY DEF NewLoad, Load

(* The load that FirstRound leaves in the place of l. *)
Continued(l, envSensors) ==
  [l EXCEPT !.round = "history", !.sensor = StillThere(envSensors),
            !.envSensors = envSensors]

LEMMA ContinuedType ==
  ASSUME RoomTypeOK, NEW l \in loads, NEW envSensors \in SUBSET Sensors
  PROVE  /\ Continued(l, envSensors) \in Load
         /\ Continued(l, envSensors).generation = l.generation
         /\ Continued(l, envSensors).room = l.room
         /\ Continued(l, envSensors).manual = l.manual
         /\ Continued(l, envSensors).sensor = StillThere(envSensors)
         /\ Continued(l, envSensors).envSensors = envSensors
         /\ StillThere(envSensors) \in Sensors \cup {Null}
BY DEF RoomTypeOK, Load, Continued, StillThere

-----------------------------------------------------------------------------
LEMMA TypeStep ==
  ASSUME RoomTypeOK, [RoomNext]_roomVars
  PROVE  RoomTypeOK'
<1>1. CASE Started
  <2>1. PICK manual \in BOOLEAN :
          /\ loads' = loads \cup {NewLoad(loadGeneration + 1, roomId', manual)}
          /\ refreshing' = (refreshing \/ manual)
    BY <1>1 DEF Started
  <2>2. NewLoad(loadGeneration + 1, roomId', manual) \in Load
    BY <1>1, NewLoadType DEF Started, RoomTypeOK
  <2> QED BY <1>1, <2>1, <2>2 DEF Started, RoomTypeOK
<1>2. ASSUME NEW l \in loads, NEW envSensors \in SUBSET Sensors,
             FirstRound(l, envSensors)
      PROVE  RoomTypeOK'
  <2>1. loads' = (loads \ {l}) \cup {Continued(l, envSensors)}
    BY <1>2 DEF FirstRound, Continued
  <2>2. /\ Continued(l, envSensors) \in Load
        /\ StillThere(envSensors) \in Sensors \cup {Null}
    BY ContinuedType
  <2> QED BY <1>2, <2>1, <2>2 DEF FirstRound, KeepState, RoomTypeOK
<1>3. ASSUME NEW l \in loads,
             ReturnStale(l) \/ SecondRound(l) \/ NotFound(l) \/ LoadFails(l)
      PROVE  RoomTypeOK'
  BY <1>3 DEF ReturnStale, SecondRound, NotFound, LoadFails, Return, KeepState, RoomTypeOK
<1>4. CASE UNCHANGED roomVars
  BY <1>4 DEF roomVars, RoomTypeOK
<1> QED BY <1>1, <1>2, <1>3, <1>4, RoomSteps

LEMMA NumberedStep ==
  ASSUME RoomTypeOK, Numbered, [RoomNext]_roomVars
  PROVE  Numbered'
<1>1. CASE Started
  <2>1. PICK manual \in BOOLEAN :
          loads' = loads \cup {NewLoad(loadGeneration + 1, roomId', manual)}
    BY <1>1 DEF Started
  <2>2. NewLoad(loadGeneration + 1, roomId', manual).generation = loadGeneration + 1
    BY <1>1, NewLoadType DEF Started, RoomTypeOK
  <2>3. \A l \in loads : l.generation \in Nat /\ l.generation <= loadGeneration
    BY DEF RoomTypeOK, Load, Numbered
  <2> QED BY <1>1, <2>1, <2>2, <2>3 DEF Started, RoomTypeOK, Numbered
<1>2. ASSUME NEW l \in loads, NEW envSensors \in SUBSET Sensors,
             FirstRound(l, envSensors)
      PROVE  Numbered'
  <2>1. loads' = (loads \ {l}) \cup {Continued(l, envSensors)}
        /\ loadGeneration' = loadGeneration
    BY <1>2 DEF FirstRound, Continued
  <2>2. Continued(l, envSensors).generation = l.generation
    BY ContinuedType
  <2> QED BY <2>1, <2>2 DEF Numbered
<1>3. ASSUME NEW l \in loads, Ended(l)
      PROVE  Numbered'
  BY <1>3 DEF Ended, Return, Numbered
<1>4. CASE UNCHANGED roomVars
  BY <1>4 DEF roomVars, Numbered
<1> QED BY <1>1, <1>2, <1>3, <1>4, RoomSteps

LEMMA AsksRightStep ==
  ASSUME RoomTypeOK, Numbered, NewestAsksRight, [RoomNext]_roomVars
  PROVE  NewestAsksRight'
<1>1. CASE Started
  <2>1. PICK manual \in BOOLEAN :
          loads' = loads \cup {NewLoad(loadGeneration + 1, roomId', manual)}
    BY <1>1 DEF Started
  <2> DEFINE new == NewLoad(loadGeneration + 1, roomId', manual)
  <2>2. new.room = roomId' /\ new.round = "room"
    BY <1>1, NewLoadType DEF Started, RoomTypeOK
  <2>3. \A l \in loads : l.generation # loadGeneration'
    BY <1>1 DEF Started, RoomTypeOK, Load, Numbered
  <2> HIDE DEF new
  <2> QED BY <2>1, <2>2, <2>3 DEF new, NewestAsksRight, Newest, AsksRight
<1>2. ASSUME NEW l \in loads, NEW envSensors \in SUBSET Sensors,
             FirstRound(l, envSensors)
      PROVE  NewestAsksRight'
  <2>1. /\ loads' = (loads \ {l}) \cup {Continued(l, envSensors)}
        /\ Newest(l) /\ selectedSensorId' = StillThere(envSensors)
        /\ loadGeneration' = loadGeneration /\ roomId' = roomId
    BY <1>2 DEF FirstRound, Continued
  <2>2. \A k \in loads \ {l} : ~Newest(k)
    BY <2>1 DEF Newest, Numbered
  <2>3. /\ Continued(l, envSensors).room = roomId
        /\ Continued(l, envSensors).sensor = StillThere(envSensors)
        /\ StillThere(envSensors) \in Continued(l, envSensors).envSensors \cup {Null}
    BY <2>1, ContinuedType DEF NewestAsksRight, AsksRight, StillThere
  <2> QED BY <2>1, <2>2, <2>3 DEF NewestAsksRight, Newest, AsksRight
<1>3. ASSUME NEW l \in loads, Ended(l)
      PROVE  NewestAsksRight'
  BY <1>3 DEF Ended, Return, NewestAsksRight, Newest, AsksRight
<1>4. CASE UNCHANGED roomVars
  BY <1>4 DEF roomVars, NewestAsksRight, Newest, AsksRight
<1> QED BY <1>1, <1>2, <1>3, <1>4, RoomSteps

LEMMA ViewIsOldStep ==
  ASSUME RoomTypeOK, Numbered, ViewIsOld, [RoomNext]_roomVars
  PROVE  ViewIsOld'
<1> USE DEF ViewIsOld, NewestInFlight, Newest
<1>0. \A l \in loads : l.generation \in Nat
  BY DEF RoomTypeOK, Load
<1>1. CASE Started
  <2>1. view # Null => view.generation \in Nat
    BY DEF RoomTypeOK, Load
  <2> QED BY <1>1, <2>1 DEF Started, RoomTypeOK
<1>2. ASSUME NEW l \in loads, NEW envSensors \in SUBSET Sensors,
             FirstRound(l, envSensors)
      PROVE  ViewIsOld'
  BY <1>2 DEF FirstRound
<1>3. ASSUME NEW l \in loads, Ended(l)
      PROVE  ViewIsOld'
  <2>1. CASE view' \in {view, Null}
    BY <1>3, <2>1 DEF Ended, Return
  <2>2. CASE Newest(l) /\ view' = l
    BY <1>0, <1>3, <2>2 DEF Ended, Return, Numbered
  <2> QED BY <1>3, <2>1, <2>2 DEF Ended
<1>4. CASE UNCHANGED roomVars
  BY <1>4 DEF roomVars
<1> QED BY <1>1, <1>2, <1>3, <1>4, RoomSteps

LEMMA ShowsSelectionStep ==
  ASSUME RoomTypeOK, Numbered, NewestAsksRight, ShowsSelection, [RoomNext]_roomVars
  PROVE  ShowsSelection'
<1> USE DEF ShowsSelection, NewestInFlight, Newest
<1>1. CASE Started
  <2>1. PICK manual \in BOOLEAN :
          loads' = loads \cup {NewLoad(loadGeneration + 1, roomId', manual)}
    BY <1>1 DEF Started
  <2>2. NewLoad(loadGeneration + 1, roomId', manual).generation = loadGeneration'
    BY <1>1, NewLoadType DEF Started, RoomTypeOK
  <2> QED BY <2>1, <2>2
<1>2. ASSUME NEW l \in loads, NEW envSensors \in SUBSET Sensors,
             FirstRound(l, envSensors)
      PROVE  ShowsSelection'
  <2>1. /\ Continued(l, envSensors) \in loads'
        /\ Newest(l) /\ loadGeneration' = loadGeneration
    BY <1>2 DEF FirstRound, Continued
  <2>2. Continued(l, envSensors).generation = l.generation
    BY ContinuedType
  <2> QED BY <2>1, <2>2
<1>3. ASSUME NEW l \in loads, ReturnStale(l)
      PROVE  ShowsSelection'
  BY <1>3 DEF ReturnStale, Return, KeepState
<1>4. ASSUME NEW l \in loads, SecondRound(l)
      PROVE  ShowsSelection'
  BY <1>4 DEF SecondRound, NewestAsksRight, AsksRight
<1>5. ASSUME NEW l \in loads, NotFound(l) \/ LoadFails(l)
      PROVE  ShowsSelection'
  BY <1>5 DEF NotFound, LoadFails
<1>6. CASE UNCHANGED roomVars
  BY <1>6 DEF roomVars
<1> QED BY <1>1, <1>2, <1>3, <1>4, <1>5, <1>6, RoomSteps

LEMMA LoadingEndsStep ==
  ASSUME RoomTypeOK, LoadingEnds, [RoomNext]_roomVars
  PROVE  LoadingEnds'
<1> USE DEF LoadingEnds, NewestInFlight, Newest
<1>1. CASE Started
  <2>1. PICK manual \in BOOLEAN :
          /\ loads' = loads \cup {NewLoad(loadGeneration + 1, roomId', manual)}
          /\ refreshing' = (refreshing \/ manual)
    BY <1>1 DEF Started
  <2> DEFINE new == NewLoad(loadGeneration + 1, roomId', manual)
  <2>2. new.generation = loadGeneration' /\ new.manual = manual
    BY <1>1, NewLoadType DEF Started, RoomTypeOK
  <2> HIDE DEF new
  <2> QED BY <2>1, <2>2 DEF new
<1>2. ASSUME NEW l \in loads, NEW envSensors \in SUBSET Sensors,
             FirstRound(l, envSensors)
      PROVE  LoadingEnds'
  <2>1. /\ loads' = (loads \ {l}) \cup {Continued(l, envSensors)}
        /\ l.generation = loadGeneration
        /\ UNCHANGED <<loadGeneration, loadState, refreshing>>
    BY <1>2 DEF FirstRound, Continued, KeepState
  <2>2. /\ Continued(l, envSensors).generation = l.generation
        /\ Continued(l, envSensors).manual = l.manual
    BY ContinuedType
  <2> QED BY <2>1, <2>2
<1>3. ASSUME NEW l \in loads, Return(l)
      PROVE  refreshing' => \E k \in loads' : k.manual
  BY <1>3 DEF Return
<1>4. ASSUME NEW l \in loads, ReturnStale(l)
      PROVE  LoadingEnds'
  BY <1>3, <1>4 DEF ReturnStale, Return, KeepState
<1>5. ASSUME NEW l \in loads, SecondRound(l) \/ NotFound(l) \/ LoadFails(l)
      PROVE  LoadingEnds'
  BY <1>3, <1>5 DEF SecondRound, NotFound, LoadFails
<1>6. CASE UNCHANGED roomVars
  BY <1>6 DEF roomVars
<1> QED BY <1>1, <1>2, <1>4, <1>5, <1>6, RoomSteps

-----------------------------------------------------------------------------
LEMMA RoomInvInit == RoomInit => RoomInv
<1> SUFFICES ASSUME RoomInit PROVE RoomInv
  OBVIOUS
<1> DEFINE first == NewLoad(1, roomId, FALSE)
<1>1. /\ first \in Load /\ first.generation = 1
      /\ first.room = roomId /\ first.round = "room"
  BY NewLoadType DEF RoomInit
<1>2. loads = {first} /\ loadGeneration = 1
  BY DEF RoomInit
<1> HIDE DEF first
<1>3. RoomTypeOK
  <2>1. loads \subseteq Load
    BY <1>1, <1>2
  <2> QED BY <2>1 DEF RoomInit, RoomTypeOK
<1>4. Numbered /\ NewestAsksRight
  BY <1>1, <1>2 DEF Numbered, NewestAsksRight, AsksRight
<1>5. ViewIsOld /\ ShowsSelection
  BY DEF RoomInit, ViewIsOld, ShowsSelection
<1>6. LoadingEnds
  BY <1>1, <1>2 DEF RoomInit, LoadingEnds, NewestInFlight, Newest
<1> QED BY <1>3, <1>4, <1>5, <1>6 DEF RoomInv

LEMMA RoomMounted ==
  ASSUME NEW r \in Rooms, RoomMount(r)
  PROVE  RoomInv'
<1> DEFINE first == NewLoad(1, r, FALSE)
<1>1. /\ first \in Load /\ first.generation = 1
      /\ first.room = r /\ first.round = "room"
  BY NewLoadType
<1>2. loads' = {first} /\ loadGeneration' = 1 /\ roomId' = r
  BY DEF RoomMount
<1> HIDE DEF first
<1>3. RoomTypeOK'
  <2>1. loads' \subseteq Load
    BY <1>1, <1>2
  <2>2. /\ roomId' \in Rooms /\ selectedSensorId' \in Sensors \cup {Null}
        /\ loadGeneration' \in Nat /\ view' \in Load \cup {Null}
    BY DEF RoomMount
  <2>3. loadState' = "loading" /\ errorMessage' = FALSE /\ refreshing' = FALSE
    BY DEF RoomMount
  <2> QED BY <2>1, <2>2, <2>3 DEF RoomTypeOK
<1>4. Numbered' /\ NewestAsksRight'
  BY <1>1, <1>2 DEF Numbered, NewestAsksRight, AsksRight
<1>5. ViewIsOld' /\ ShowsSelection'
  BY DEF RoomMount, ViewIsOld, ShowsSelection
<1>6. LoadingEnds'
  BY <1>1, <1>2 DEF RoomMount, LoadingEnds, NewestInFlight, Newest
<1> QED BY <1>3, <1>4, <1>5, <1>6 DEF RoomInv

LEMMA RoomInvStep ==
  ASSUME RoomInv, [RoomNext]_roomVars
  PROVE  RoomInv'
BY TypeStep, NumberedStep, AsksRightStep, ViewIsOldStep, ShowsSelectionStep,
   LoadingEndsStep DEF RoomInv

LEMMA NeverOlderStep ==
  ASSUME RoomInv, RoomNext, view # Null, view' # Null, view' # view
  PROVE  view'.generation > view.generation
<1>1. \A l \in loads : l.generation \in Nat
  BY DEF RoomInv, RoomTypeOK, Load
<1>2. view.generation \in Nat
  BY DEF RoomInv, RoomTypeOK, Load
<1>3. CASE Started
  BY <1>3 DEF Started
<1>4. ASSUME NEW l \in loads, NEW envSensors \in SUBSET Sensors,
             FirstRound(l, envSensors)
      PROVE  view' = view
  BY <1>4 DEF FirstRound
<1>5. ASSUME NEW l \in loads, Ended(l)
      PROVE  view'.generation > view.generation
  BY <1>1, <1>2, <1>5 DEF Ended, RoomInv, ViewIsOld, NewestInFlight, Newest
<1> QED BY <1>3, <1>4, <1>5, RoomSteps DEF RoomInv

(* Loads that overlap come to the same as one question at a time.           *)

(* The question that stands, as a function of the loads in flight.          *)
NewestOf(S, g) ==
  IF \E l \in S : l.generation = g THEN Asked(CHOOSE l \in S : l.generation = g) ELSE Null

LEMMA TheNewest ==
  ASSUME NEW S, NEW g, \A k, l \in S : k.generation = l.generation => k = l
  PROVE  /\ \A l \in S : l.generation = g => NewestOf(S, g) = Asked(l)
         /\ (\A l \in S : l.generation # g) => NewestOf(S, g) = Null
BY DEF NewestOf

LEMMA StandingIsNewest ==
  /\ Standing = NewestOf(loads, loadGeneration)
  /\ Standing' = NewestOf(loads', loadGeneration')
BY DEF Standing, NewestOf, NewestInFlight, Newest

LEMMA AskedType ==
  ASSUME NEW l \in Load
  PROVE  /\ Asked(l) \in AsIfOne!Question /\ Asked(l) # Null /\ l # Null
         /\ Asked(l).round = l.round /\ Asked(l).envSensors = l.envSensors
<1>1. /\ Asked(l) \in AsIfOne!Question
      /\ Asked(l).round = l.round /\ Asked(l).envSensors = l.envSensors
  BY DEF Load, Asked, AsIfOne!Question
<1> QED BY <1>1, NoLoadAssumption

(* A load that starts is the question that stands.                          *)
LEMMA StartAsks ==
  ASSUME RoomInv, RoomInv', NEW manual \in BOOLEAN,
         loadGeneration' = loadGeneration + 1,
         loads' = loads \cup {NewLoad(loadGeneration + 1, roomId', manual)}
  PROVE  Standing' = AsIfOne!About(roomId')
<1> DEFINE new == NewLoad(loadGeneration + 1, roomId', manual)
<1>1. new \in loads' /\ new.generation = loadGeneration'
  BY DEF NewLoad
<1>2. Asked(new) = AsIfOne!About(roomId')
  BY DEF NewLoad, Asked, AsIfOne!About
<1>3. \A k, l \in loads' : k.generation = l.generation => k = l
  BY DEF RoomInv, Numbered
<1> HIDE DEF new
<1> QED BY <1>1, <1>2, <1>3, TheNewest, StandingIsNewest

LEMMA RoomStepRefines ==
  ASSUME RoomInv, RoomInv', RoomNext
  PROVE  AsIfOne!PageNext \/ UNCHANGED AsIfOne!pageVars
<1> DEFINE hidden == UNCHANGED <<roomId, selectedSensorId, Standing, Shown, loadState,
                                 errorMessage>>
<1>1. /\ \A k, l \in loads : k.generation = l.generation => k = l
      /\ \A k, l \in loads' : k.generation = l.generation => k = l
      /\ \A l \in loads : l \in Load
      /\ view \in Load \cup {Null}
      /\ roomId \in Rooms /\ roomId' \in Rooms
  BY DEF RoomInv, Numbered, RoomTypeOK
<1>2. view' = view => Shown' = Shown
  BY DEF Shown
<1>3. view # Null => Shown # Null /\ Shown.envSensors = view.envSensors
  BY <1>1, AskedType DEF Shown
<1>4. ASSUME NEW l \in loads, Newest(l)
      PROVE  Standing = Asked(l) /\ Standing # Null /\ Standing.round = l.round
  BY <1>1, <1>4, TheNewest, StandingIsNewest, AskedType DEF Newest
<1>5. CASE Poll \/ Refresh
  <2>1. Standing' = AsIfOne!About(roomId)
    BY <1>5, StartAsks DEF Poll, Refresh, StartLoad
  <2>2. AsIfOne!AskAgain
    BY <1>2, <1>5, <2>1 DEF Poll, Refresh, KeepState, AsIfOne!AskAgain
  <2> QED BY <2>2 DEF AsIfOne!PageNext
<1>6. CASE Retry
  <2>1. Standing' = AsIfOne!About(roomId)
    BY <1>6, StartAsks DEF Retry, StartLoad
  <2>2. AsIfOne!AskAfterError
    BY <1>2, <1>6, <2>1 DEF Retry, ShowLoading, Shown, AsIfOne!AskAfterError
  <2> QED BY <2>2 DEF AsIfOne!PageNext
<1>7. ASSUME NEW s \in Sensors \cup {Null}, SelectSensor(s)
      PROVE  AsIfOne!PageNext
  <2>1. Standing' = AsIfOne!About(roomId)
    BY <1>7, StartAsks DEF SelectSensor, StartLoad
  <2>2. AsIfOne!Select(s)
    BY <1>2, <1>3, <1>7, <2>1 DEF SelectSensor, KeepState, AsIfOne!Select
  <2> QED BY <2>2 DEF AsIfOne!PageNext
<1>8. ASSUME NEW r \in Rooms, GoToRoom(r)
      PROVE  AsIfOne!PageNext
  <2>1. Standing' = AsIfOne!About(r)
    BY <1>8, StartAsks DEF GoToRoom, StartLoad
  <2>2. AsIfOne!Move(r)
    BY <1>2, <1>8, <2>1 DEF GoToRoom, ShowLoading, AsIfOne!Move
  <2> QED BY <2>2 DEF AsIfOne!PageNext
(* A load that nobody waits for returns: nothing is seen of it.             *)
<1>9. ASSUME NEW l \in loads, ReturnStale(l)
      PROVE  hidden
  <2>1. loads' = loads \ {l} /\ l.generation # loadGeneration
        /\ loadGeneration' = loadGeneration
    BY <1>9 DEF ReturnStale, Return, Newest
  <2>2. Standing' = Standing
    <3>1. CASE \E k \in loads : k.generation = loadGeneration
      <4>1. PICK k \in loads : k.generation = loadGeneration
        BY <3>1
      <4>2. k \in loads'
        BY <2>1, <4>1
      <4> QED BY <1>1, <2>1, <4>1, <4>2, TheNewest, StandingIsNewest
    <3>2. CASE \A k \in loads : k.generation # loadGeneration
      <4>1. \A k \in loads' : k.generation # loadGeneration
        BY <2>1, <3>2
      <4> QED BY <1>1, <2>1, <3>2, <4>1, TheNewest, StandingIsNewest
    <3> QED BY <3>1, <3>2
  <2> QED BY <1>2, <1>9, <2>2 DEF ReturnStale, KeepState
<1>10. ASSUME NEW l \in loads, NEW envSensors \in SUBSET Sensors,
              FirstRound(l, envSensors)
       PROVE  AsIfOne!PageNext
  <2> DEFINE next == Continued(l, envSensors)
  <2>1. /\ Newest(l) /\ l.round = "room" /\ loadGeneration' = loadGeneration
        /\ next \in loads' /\ selectedSensorId' = StillThere(envSensors)
    BY <1>10 DEF FirstRound, Continued
  <2>2. next.generation = loadGeneration
    BY <2>1, ContinuedType DEF Newest, RoomInv
  <2>3. Standing' = Asked(next)
    <3> HIDE DEF next
    <3> QED BY <1>1, <2>1, <2>2, TheNewest, StandingIsNewest
  <2>4. Asked(next) = [room |-> l.room, round |-> "history",
                       sensor |-> StillThere(envSensors), envSensors |-> envSensors]
    <3>1. /\ next.room = l.room /\ next.round = "history"
          /\ next.sensor = StillThere(envSensors) /\ next.envSensors = envSensors
      BY <1>1, ContinuedType DEF Continued, Load, RoomInv
    <3> HIDE DEF next
    <3> QED BY <3>1 DEF Asked
  <2>5. Standing.room = l.room /\ Standing # Null /\ Standing.round = "room"
    BY <1>4, <2>1 DEF Asked
  <2>6. AsIfOne!SensorsKnown(envSensors)
    <3> HIDE DEF next
    <3>1. selectedSensorId' = IF selectedSensorId \in envSensors THEN selectedSensorId ELSE Null
      BY <2>1 DEF StillThere
    <3>2. Standing' = [room |-> Standing.room, round |-> "history",
                       sensor |-> selectedSensorId', envSensors |-> envSensors]
      BY <2>1, <2>3, <2>4, <2>5
    <3> QED BY <1>2, <1>10, <2>5, <3>1, <3>2 DEF FirstRound, KeepState, AsIfOne!SensorsKnown
  <2> QED BY <2>6 DEF AsIfOne!PageNext
<1>11. ASSUME NEW l \in loads, Newest(l), Return(l), loadGeneration' = loadGeneration
       PROVE  Standing' = Null
  <2>1. \A k \in loads' : k.generation # loadGeneration'
    BY <1>1, <1>11 DEF Return, Newest
  <2> QED BY <1>1, <2>1, TheNewest, StandingIsNewest
<1>12. ASSUME NEW l \in loads, SecondRound(l)
       PROVE  AsIfOne!PageNext
  <2>1. Standing' = Null /\ Newest(l) /\ l.round = "history" /\ view' = l
    BY <1>11, <1>12 DEF SecondRound
  <2>2. Shown' = Asked(l)
    BY <1>1, <2>1, AskedType DEF Shown
  <2>3. AsIfOne!Answered
    BY <1>4, <1>12, <2>1, <2>2 DEF SecondRound, AsIfOne!Answered
  <2> QED BY <2>3 DEF AsIfOne!PageNext
<1>13. ASSUME NEW l \in loads, NotFound(l)
       PROVE  AsIfOne!PageNext
  <2>1. Standing' = Null /\ Standing # Null /\ Shown' = Null
    BY <1>4, <1>11, <1>13 DEF NotFound, Shown
  <2>2. AsIfOne!Gone
    BY <1>13, <2>1 DEF NotFound, AsIfOne!Gone
  <2> QED BY <2>2 DEF AsIfOne!PageNext
<1>14. ASSUME NEW l \in loads, LoadFails(l)
       PROVE  AsIfOne!PageNext
  <2>1. Standing' = Null /\ Standing # Null
    BY <1>4, <1>11, <1>14 DEF LoadFails
  <2>2. Shown # Null <=> view # Null
    BY <1>3 DEF Shown
  <2>3. AsIfOne!Failed
    BY <1>2, <1>14, <2>1, <2>2 DEF LoadFails, AsIfOne!Failed
  <2> QED BY <2>3 DEF AsIfOne!PageNext
<1> QED
  BY <1>5, <1>6, <1>7, <1>8, <1>9, <1>10, <1>12, <1>13, <1>14
  DEF RoomNext, AsIfOne!pageVars

LEMMA RoomMountOpens ==
  ASSUME NEW r \in Rooms, RoomMount(r)
  PROVE  AsIfOne!Open(r)
<1>1. PICK first : first = NewLoad(1, r, FALSE)
  OBVIOUS
<1>2. loads' = {first} /\ loadGeneration' = 1 /\ first.generation = 1
  BY <1>1 DEF RoomMount, NewLoad
<1>3. Asked(first) = AsIfOne!About(r)
  BY <1>1 DEF NewLoad, Asked, AsIfOne!About
<1>4. Standing' = AsIfOne!About(r)
  BY <1>2, <1>3, TheNewest, StandingIsNewest
<1> QED BY <1>4 DEF RoomMount, Shown, AsIfOne!Open

-----------------------------------------------------------------------------
(***************************************************************************)
(* The drawer of an alert.                                                 *)
(***************************************************************************)

DetailCall == [alert : Alerts, cancelled : BOOLEAN]

DrawerTypeOK ==
  /\ alertId \in Alerts \cup {Null} /\ detail \in Alerts \cup {Null}
  /\ detailCalls \in Seq(DetailCall)
  /\ drawerState \in {"idle", "loading", "ready", "not-found", "error"}

Waits(i) == i \in DOMAIN detailCalls /\ ~detailCalls[i].cancelled

(* One request at most is still waited for, and it is about the alert that  *)
(* is selected.                                                             *)
OneWaits ==
  /\ \A i, j : Waits(i) /\ Waits(j) => i = j
  /\ \A i : Waits(i) => detailCalls[i].alert = alertId /\ drawerState = "loading"
  /\ drawerState = "loading" => \E i : Waits(i)

DrawerInv ==
  /\ DrawerTypeOK /\ OneWaits
  /\ drawerState = "ready" => detail = alertId
  /\ drawerState = "idle" <=> alertId = Null

LEMMA DrawerInvInit == DrawerInit => DrawerInv
BY DEF DrawerInit, DrawerInv, DrawerTypeOK, OneWaits, Waits

LEMMA OpenStep ==
  ASSUME DrawerInv, NEW a \in Alerts, OpenAlert(a)
  PROVE  DrawerInv'
<1> DEFINE new == [alert |-> a, cancelled |-> FALSE]
           n == Len(detailCalls)
<1>1. detailCalls' = Append(detailCalls, new) /\ new \in DetailCall
  BY DEF OpenAlert, DetailCall
<1>2. /\ detailCalls' \in Seq(DetailCall) /\ n \in Nat
      /\ DOMAIN detailCalls' = 1 .. n + 1 /\ DOMAIN detailCalls = 1 .. n
      /\ detailCalls'[n + 1] = new
      /\ \A i \in 1 .. n : detailCalls'[i] = detailCalls[i]
  BY <1>1 DEF DrawerInv, DrawerTypeOK
<1>3. \A i : ~Waits(i)
  BY AlertsAssumption DEF OpenAlert, DrawerInv, OneWaits
<1>4. /\ alertId' = a /\ detail' = Null /\ drawerState' = "loading"
      /\ a # Null
  BY AlertsAssumption DEF OpenAlert
<1>5. DrawerTypeOK'
  BY <1>2, <1>4 DEF DrawerTypeOK
<1>6. \A i : Waits(i)' <=> i = n + 1
  BY <1>2, <1>3 DEF Waits
<1>7. OneWaits'
  BY <1>2, <1>4, <1>6 DEF OneWaits
<1> QED BY <1>4, <1>5, <1>7 DEF DrawerInv

LEMMA CloseStep ==
  ASSUME DrawerInv, CloseAlert
  PROVE  DrawerInv'
<1>1. /\ detailCalls' \in Seq(DetailCall)
      /\ DOMAIN detailCalls' = DOMAIN detailCalls
      /\ \A i \in DOMAIN detailCalls' : detailCalls'[i].cancelled
  <2>1. \A i \in DOMAIN detailCalls :
          [detailCalls[i] EXCEPT !.cancelled = TRUE] \in DetailCall
          /\ [detailCalls[i] EXCEPT !.cancelled = TRUE].cancelled
    <3>1. \A i \in DOMAIN detailCalls : detailCalls[i] \in DetailCall
      BY DEF DrawerInv, DrawerTypeOK
    <3> QED BY <3>1 DEF DetailCall
  <2>2. Len(detailCalls) \in Nat /\ DOMAIN detailCalls = 1 .. Len(detailCalls)
    BY DEF DrawerInv, DrawerTypeOK
  <2>3. detailCalls' = [i \in DOMAIN detailCalls |->
                          [detailCalls[i] EXCEPT !.cancelled = TRUE]]
    BY DEF CloseAlert
  <2>4. /\ DOMAIN detailCalls' = DOMAIN detailCalls
        /\ \A i \in DOMAIN detailCalls :
             detailCalls'[i] \in DetailCall /\ detailCalls'[i].cancelled
    BY <2>1, <2>3
  <2>5. detailCalls' \in [1 .. Len(detailCalls) -> DetailCall]
    BY <2>1, <2>2, <2>3
  <2> QED BY <2>2, <2>4, <2>5
<1>2. alertId' = Null /\ detail' = Null /\ drawerState' = "idle"
  BY DEF CloseAlert
<1>3. \A i : ~Waits(i)'
  BY <1>1 DEF Waits
<1> QED BY <1>1, <1>2, <1>3 DEF DrawerInv, DrawerTypeOK, OneWaits

LEMMA ReturnStep ==
  ASSUME DrawerInv, DetailReturns
  PROVE  DrawerInv'
<1>1. PICK i \in DOMAIN detailCalls :
        /\ detailCalls' = RemoveAt(detailCalls, i)
        /\ IF detailCalls[i].cancelled THEN UNCHANGED <<detail, drawerState>>
           ELSE \/ detail' = detailCalls[i].alert /\ drawerState' = "ready"
                \/ detail' = detail /\ drawerState' \in {"not-found", "error"}
        /\ UNCHANGED alertId
  BY DEF DetailReturns
<1> DEFINE n == Len(detailCalls)
           was(j) == IF j < i THEN j ELSE j + 1
<1>2. detailCalls \in Seq(DetailCall) /\ n \in Nat /\ DOMAIN detailCalls = 1 .. n
  BY DEF DrawerInv, DrawerTypeOK
<1>3. /\ detailCalls' \in Seq(DetailCall)
      /\ DOMAIN detailCalls' = 1 .. n - 1
      /\ \A j \in 1 .. n - 1 : detailCalls'[j] = detailCalls[was(j)]
  BY <1>1, <1>2, RemoveAtIsRest
<1>4. \A j : Waits(j)' => /\ was(j) # i /\ Waits(was(j))
                          /\ detailCalls'[j] = detailCalls[was(j)] /\ j \in Nat
  BY <1>2, <1>3 DEF Waits
<1>5. detailCalls[i].alert \in Alerts /\ detailCalls[i].cancelled \in BOOLEAN
  <2>1. detailCalls[i] \in DetailCall
    BY <1>2
  <2> QED BY <2>1 DEF DetailCall
<1>6. DrawerTypeOK'
  BY <1>1, <1>3, <1>5 DEF DrawerInv, DrawerTypeOK
<1>7. CASE detailCalls[i].cancelled
  <2>1. UNCHANGED <<alertId, detail, drawerState>>
    BY <1>1, <1>7
  <2>2. \A j, k : Waits(j)' /\ Waits(k)' => j = k
    <3>1. ASSUME NEW j, NEW k, Waits(j)', Waits(k)'
          PROVE  was(j) = was(k)
      BY <1>4, <3>1 DEF DrawerInv, OneWaits
    <3>2. \A j, k : Waits(j)' /\ Waits(k)' => j \in Nat /\ k \in Nat
      BY <1>4
    <3> QED BY <1>2, <3>1, <3>2
  <2>3. \A k : Waits(k) => \E j : Waits(j)'
    <3> SUFFICES ASSUME NEW k, Waits(k)
                 PROVE  Waits(IF k < i THEN k ELSE k - 1)'
      OBVIOUS
    <3>1. k \in 1 .. n /\ k # i
      BY <1>2, <1>7 DEF Waits
    <3> QED BY <1>2, <1>3, <3>1 DEF Waits
  <2> QED BY <1>4, <1>6, <2>1, <2>2, <2>3 DEF DrawerInv, OneWaits
<1>8. CASE ~detailCalls[i].cancelled
  <2>1. Waits(i) /\ \A j : Waits(j) => j = i
    BY <1>8 DEF Waits, DrawerInv, OneWaits
  <2>2. \A j : ~Waits(j)'
    BY <1>4, <2>1
  <2>3. /\ detailCalls[i].alert = alertId /\ drawerState = "loading"
        /\ alertId # Null
    BY <2>1 DEF DrawerInv, OneWaits
  <2>4. /\ alertId' = alertId /\ drawerState' \in {"ready", "not-found", "error"}
        /\ drawerState' = "ready" => detail' = alertId
    BY <1>1, <1>8, <2>3
  <2> QED BY <1>6, <2>2, <2>3, <2>4 DEF DrawerInv, OneWaits
<1> QED BY <1>7, <1>8

LEMMA DrawerMounted == DrawerMount => DrawerInv'
BY EmptySeq DEF DrawerMount, DrawerInv, DrawerTypeOK, OneWaits, Waits

LEMMA DrawerInvStep ==
  ASSUME DrawerInv, [DrawerNext]_drawerVars
  PROVE  DrawerInv'
<1>1. CASE UNCHANGED drawerVars
  BY <1>1 DEF drawerVars, DrawerInv, DrawerTypeOK, OneWaits, Waits
<1> QED BY <1>1, OpenStep, CloseStep, ReturnStep DEF DrawerNext

-----------------------------------------------------------------------------
(***************************************************************************)
(* The list of alerts.                                                     *)
(***************************************************************************)

AlertLoad == [filter : Filters, manual : BOOLEAN]
More == [filter : Filters, offset : Nat \ {0}, since : Nat, replaced : BOOLEAN]
Item == [filter : Filters, alert : Nat]
Entry == [room : Rooms \cup {Null}, resolves : Nat]

AlertsTypeOK ==
  /\ changes \in Seq(Entry)
  /\ filter \in Filters
  /\ alertLoads \in Seq(AlertLoad)
  /\ mores \in Seq(More)
  /\ \A i \in DOMAIN mores : mores[i].since <= Now
  /\ listed \in Seq(Item)
  /\ asOf \in 0 .. Now

(* Load more waits for one answer at a time. *)
OneMore == Len(mores) <= 1 /\ (mores # <<>> => loadingMore)

(* Unless a load came between, the answer continues what is listed, and is  *)
(* about a version that is not older.                                       *)
MoreContinues ==
  \A i \in DOMAIN mores :
    ~mores[i].replaced => mores[i].offset = Len(listed) /\ asOf <= mores[i].since

LastOf(list) == list[Len(list)].alert

(* Without alerts raised between its pages, a list ends no later than at the *)
(* alert that stands as far from the newest as the list is long ...         *)
RepeatsNone(list, table) ==
  /\ \A i, j \in DOMAIN list : i < j => list[i].alert > list[j].alert
  /\ list # <<>> => Cardinality(AboveIn(table, LastOf(list))) < Len(list)

(* ... and without alerts resolved, it ends no earlier.                     *)
SkipsNone(list, table, more) ==
  list # <<>> =>
    /\ LastOf(list) \in table
    /\ Cardinality(AboveIn(table, LastOf(list))) >= Len(list) - 1
    /\ \A a \in table : a < list[1].alert =>
         \/ \E i \in DOMAIN list : list[i].alert = a
         \/ more /\ \A i \in DOMAIN list : a < list[i].alert

FromTable(f) == AllOf(f) /\ \A i \in DOMAIN listed : listed[i].alert \in 1 .. asOf

Continuous ==
  torn \/ \E f \in Filters :
           /\ FromTable(f)
           /\ raised \/ RepeatsNone(listed, Matching(f, asOf))
           /\ resolved \/ SkipsNone(listed, Matching(f, asOf), hasMore)

AlertsInv == AlertsTypeOK /\ OneMore /\ MoreContinues /\ Continuous

(* A list that goes on with the alert x.                                    *)
GoesOn(longer, list, x) ==
  /\ longer # <<>> /\ Len(longer) = Len(list) + 1
  /\ DOMAIN longer = 1 .. Len(list) + 1
  /\ \A i \in 1 .. Len(list) : longer[i] = list[i]
  /\ longer[Len(list) + 1].alert = x

LEMMA Listing ==
  ASSUME NEW list \in Seq(Item), list # <<>>
  PROVE  /\ Len(list) \in Nat /\ Len(list) >= 1 /\ DOMAIN list = 1 .. Len(list)
         /\ \A i \in 1 .. Len(list) : list[i].alert \in Nat
         /\ list[1].alert \in Nat /\ LastOf(list) \in Nat
<1>1. Len(list) \in Nat /\ Len(list) >= 1 /\ DOMAIN list = 1 .. Len(list)
  OBVIOUS
<1>2. \A i \in 1 .. Len(list) : list[i] \in Item
  BY <1>1, ElementOfSeq
<1>3. \A i \in 1 .. Len(list) : list[i].alert \in Nat
  BY <1>2 DEF Item
<1> QED BY <1>1, <1>3 DEF LastOf

LEMMA RepeatsNoneKept ==
  ASSUME NEW k \in Nat, NEW old \in SUBSET (1 .. k), NEW new \in SUBSET old,
         NEW list \in Seq(Item), RepeatsNone(list, old)
  PROVE  RepeatsNone(list, new)
<1>1. Len(list) \in Nat
  OBVIOUS
<1>2. CASE list # <<>>
  <2> DEFINE last == LastOf(list)
  <2>1. AboveIn(new, last) \in SUBSET AboveIn(old, last) /\ AboveIn(old, last) \in SUBSET (1 .. k)
    <3>1. last \in Nat /\ last <= last
      BY <1>2, Listing
    <3> QED BY <3>1, AboveMore
  <2> HIDE DEF last
  <2>2. /\ Cardinality(AboveIn(new, last)) <= Cardinality(AboveIn(old, last))
        /\ Cardinality(AboveIn(new, last)) \in Nat /\ Cardinality(AboveIn(old, last)) \in Nat
    BY <2>1, FewerOf
  <2>3. Cardinality(AboveIn(old, last)) < Len(list)
    BY <1>2 DEF RepeatsNone, last
  <2>4. Cardinality(AboveIn(new, last)) < Len(list)
    BY <1>1, <2>2, <2>3
  <2> QED BY <2>4 DEF RepeatsNone, last
<1> QED BY <1>2 DEF RepeatsNone

LEMMA RepeatsNoneLonger ==
  ASSUME NEW k \in Nat, NEW old \in SUBSET (1 .. k), NEW new \in SUBSET old,
         NEW list \in Seq(Item), list # <<>>, RepeatsNone(list, old),
         NEW x \in new, Cardinality(AboveIn(new, x)) = Len(list),
         NEW longer, GoesOn(longer, list, x)
  PROVE  RepeatsNone(longer, new)
<1> DEFINE last == LastOf(list)
<1>1. /\ Len(list) \in Nat /\ Len(list) >= 1 /\ DOMAIN list = 1 .. Len(list)
      /\ last \in Nat /\ x \in Nat
  <2>1. x \in old /\ x \in 1 .. k
    OBVIOUS
  <2> QED BY <2>1, Listing
<1>2. /\ \A i, j \in DOMAIN list : i < j => list[i].alert > list[j].alert
      /\ Cardinality(AboveIn(old, last)) < Len(list)
  BY DEF RepeatsNone
<1>3. \A i \in 1 .. Len(list) : list[i].alert \in Nat /\ list[i].alert >= last
  <2> SUFFICES ASSUME NEW i \in 1 .. Len(list)
               PROVE  list[i].alert \in Nat /\ list[i].alert >= last
    OBVIOUS
  <2>1. list[i].alert \in Nat
    BY Listing
  <2>2. i = Len(list) \/ i < Len(list)
    BY <1>1
  <2>3. i < Len(list) => list[i].alert > last
    BY <1>1, <1>2 DEF LastOf
  <2> QED BY <1>1, <2>1, <2>2, <2>3 DEF LastOf
<1>4. x < last
  <2> SUFFICES ASSUME x >= last PROVE FALSE
    BY <1>1
  <2>1. AboveIn(new, x) \in SUBSET AboveIn(old, last) /\ AboveIn(old, last) \in SUBSET (1 .. k)
    BY <1>1, AboveMore
  <2> HIDE DEF last
  <2>2. /\ Cardinality(AboveIn(new, x)) <= Cardinality(AboveIn(old, last))
        /\ Cardinality(AboveIn(old, last)) \in Nat
    BY <2>1, FewerOf
  <2> QED BY <1>1, <1>2, <2>2
<1>5. ASSUME NEW i \in DOMAIN longer, NEW j \in DOMAIN longer, i < j
      PROVE  longer[i].alert > longer[j].alert
  <2>1. i \in 1 .. Len(list) /\ longer[i] = list[i]
    BY <1>1, <1>5 DEF GoesOn
  <2>2. CASE j = Len(list) + 1
    BY <1>1, <1>3, <1>4, <2>1, <2>2 DEF GoesOn
  <2>3. CASE j # Len(list) + 1
    <3>1. j \in 1 .. Len(list) /\ longer[j] = list[j]
      BY <1>1, <2>3 DEF GoesOn
    <3> QED BY <1>1, <1>2, <1>5, <2>1, <3>1
  <2> QED BY <2>2, <2>3
<1>6. LastOf(longer) = x
  BY DEF LastOf, GoesOn
<1>7. Cardinality(AboveIn(new, LastOf(longer))) < Len(longer)
  BY <1>1, <1>6 DEF GoesOn
<1> QED BY <1>5, <1>7 DEF RepeatsNone

(* An alert that is older than all that are listed has as many newer ones.  *)
LEMMA AsManyNewer ==
  ASSUME NEW k \in Nat, NEW new \in SUBSET (1 .. k), NEW old \in SUBSET new,
         NEW list \in Seq(Item), list # <<>>, NEW more, SkipsNone(list, old, more),
         NEW a \in new, \A i \in DOMAIN list : a < list[i].alert
  PROVE  Cardinality(AboveIn(new, a)) \in Nat /\ Cardinality(AboveIn(new, a)) >= Len(list)
<1> DEFINE last == LastOf(list)
<1>1. Len(list) \in Nat /\ Len(list) >= 1 /\ DOMAIN list = 1 .. Len(list)
  OBVIOUS
<1>2. last \in old /\ Cardinality(AboveIn(old, last)) >= Len(list) - 1 /\ a < last
  BY <1>1 DEF SkipsNone, LastOf
<1> HIDE DEF last
<1>3. /\ AboveIn(new, a) \in SUBSET (1 .. k) /\ AboveIn(old, last) \in SUBSET AboveIn(new, a)
      /\ last \in AboveIn(new, a) \ AboveIn(old, last)
  <2>1. a \in 1 .. k /\ last \in new /\ last \in 1 .. k
    BY <1>2
  <2>2. a \in Nat /\ last \in Nat /\ a <= last
    BY <1>2, <2>1
  <2>3. AboveIn(new, a) \in SUBSET (1 .. k) /\ AboveIn(old, last) \in SUBSET AboveIn(new, a)
    BY <2>2, AboveMore
  <2> QED BY <1>2, <2>1, <2>2, <2>3 DEF AboveIn
<1>4. Cardinality(AboveIn(old, last)) + 1 <= Cardinality(AboveIn(new, a))
  BY <1>3, OneMoreOf
<1>5. Cardinality(AboveIn(old, last)) \in Nat /\ Cardinality(AboveIn(new, a)) \in Nat
  BY <1>3, FewerOf
<1> QED BY <1>1, <1>2, <1>4, <1>5

(* Where nothing follows the list in the table, nothing is left out.        *)
LEMMA SkipsNoneKept ==
  ASSUME NEW k \in Nat, NEW new \in SUBSET (1 .. k), NEW old \in SUBSET new,
         NEW list \in Seq(Item), list # <<>>, NEW more, SkipsNone(list, old, more),
         NEW limit \in Nat, list[1].alert <= limit,
         \A a \in new : a <= limit => a \in old,
         \A x \in new : Cardinality(AboveIn(new, x)) # Len(list), NEW still
  PROVE  SkipsNone(list, new, still)
<1> DEFINE last == LastOf(list)
<1>1. Len(list) \in Nat /\ Len(list) >= 1 /\ DOMAIN list = 1 .. Len(list) /\ list[1].alert \in Nat
  BY Listing
<1>2. /\ last \in old /\ Cardinality(AboveIn(old, last)) >= Len(list) - 1
      /\ \A a \in old : a < list[1].alert =>
           \/ \E i \in DOMAIN list : list[i].alert = a
           \/ more /\ \A i \in DOMAIN list : a < list[i].alert
  BY DEF SkipsNone
<1>3. Cardinality(AboveIn(new, last)) >= Len(list) - 1
  <2> HIDE DEF last
  <2>1. AboveIn(new, last) \in SUBSET (1 .. k) /\ AboveIn(old, last) \in SUBSET AboveIn(new, last)
    BY DEF AboveIn
  <2>2. /\ Cardinality(AboveIn(old, last)) <= Cardinality(AboveIn(new, last))
        /\ Cardinality(AboveIn(old, last)) \in Nat /\ Cardinality(AboveIn(new, last)) \in Nat
    BY <2>1, FewerOf
  <2> QED BY <1>1, <1>2, <2>2
<1>4. ASSUME NEW a \in new, a < list[1].alert
      PROVE  \E i \in DOMAIN list : list[i].alert = a
  <2>1. a \in old
    BY <1>1, <1>4
  <2>2. SUFFICES ASSUME \A i \in DOMAIN list : a < list[i].alert PROVE FALSE
    BY <1>2, <1>4, <2>1
  <2>3. Cardinality(AboveIn(new, a)) >= Len(list)
    BY <2>2, AsManyNewer
  <2> QED BY <1>1, <2>3, PlaceExists
<1> QED BY <1>2, <1>3, <1>4 DEF SkipsNone

LEMMA SkipsNoneLonger ==
  ASSUME NEW k \in Nat, NEW new \in SUBSET (1 .. k), NEW old \in SUBSET new,
         NEW list \in Seq(Item), list # <<>>, NEW more, SkipsNone(list, old, more),
         NEW limit \in Nat, list[1].alert <= limit,
         \A a \in new : a <= limit => a \in old,
         NEW x \in new, Cardinality(AboveIn(new, x)) = Len(list),
         NEW longer, GoesOn(longer, list, x)
  PROVE  SkipsNone(longer, new, Cardinality(new) > Len(list) + 1)
<1>1. /\ Len(list) \in Nat /\ Len(list) >= 1 /\ DOMAIN list = 1 .. Len(list)
      /\ list[1].alert \in Nat /\ x \in 1 .. k
  <2>1. x \in 1 .. k
    OBVIOUS
  <2> QED BY <2>1, Listing
<1>2. LastOf(longer) = x /\ longer[1] = list[1]
  BY <1>1 DEF LastOf, GoesOn
<1>3. Cardinality(AboveIn(new, x)) >= Len(longer) - 1
  BY <1>1 DEF GoesOn
<1>4. ASSUME NEW a \in new, a < list[1].alert, ~\E i \in DOMAIN longer : longer[i].alert = a
      PROVE  /\ Cardinality(new) > Len(list) + 1
             /\ \A i \in DOMAIN longer : a < longer[i].alert
  <2>1. a \in old /\ a \in 1 .. k
    BY <1>1, <1>4
  <2>2. ~\E i \in DOMAIN list : list[i].alert = a
    BY <1>1, <1>4 DEF GoesOn
  <2>3. \A i \in DOMAIN list : a < list[i].alert
    BY <1>4, <2>1, <2>2 DEF SkipsNone
  <2>4. Cardinality(AboveIn(new, a)) >= Len(list) /\ Cardinality(AboveIn(new, a)) \in Nat
    BY <2>3, AsManyNewer
  <2>5. a # x
    BY <1>1, <1>4 DEF GoesOn
  <2>6. a < x
    <3> SUFFICES ASSUME a > x PROVE FALSE
      BY <1>1, <2>1, <2>5
    <3>1. /\ AboveIn(new, x) \in SUBSET (1 .. k) /\ AboveIn(new, a) \in SUBSET AboveIn(new, x)
          /\ a \in AboveIn(new, x) \ AboveIn(new, a)
      <4>1. x \in Nat /\ a \in Nat /\ x <= a
        BY <1>1, <2>1
      <4>2. AboveIn(new, x) \in SUBSET (1 .. k) /\ AboveIn(new, a) \in SUBSET AboveIn(new, x)
        BY <4>1, AboveMore
      <4> QED BY <4>1, <4>2 DEF AboveIn
    <3>2. Cardinality(AboveIn(new, a)) + 1 <= Cardinality(AboveIn(new, x))
      BY <3>1, OneMoreOf
    <3> QED BY <1>1, <2>4, <3>2
  <2>7. \A i \in DOMAIN longer : a < longer[i].alert
    <3> SUFFICES ASSUME NEW i \in DOMAIN longer PROVE a < longer[i].alert
      OBVIOUS
    <3>1. CASE i = Len(list) + 1
      BY <2>6, <3>1 DEF GoesOn
    <3>2. CASE i # Len(list) + 1
      <4>1. i \in DOMAIN list /\ longer[i] = list[i]
        BY <1>1, <3>2 DEF GoesOn
      <4> QED BY <2>3, <4>1
    <3> QED BY <3>1, <3>2
  <2>8. Cardinality(new) > Len(list) + 1
    <3> DEFINE S == AboveIn(new, x) \cup {x}
    <3>1. /\ AboveIn(new, x) \in SUBSET (1 .. k) /\ x \notin AboveIn(new, x)
          /\ S \in SUBSET new /\ a \in new \ S
      <4>1. x \in Nat /\ a \in Nat /\ ~(a > x) /\ ~(x > x)
        BY <1>1, <2>1, <2>6
      <4>2. \A b \in AboveIn(new, x) : b \in new /\ b > x
        BY DEF AboveIn
      <4> QED BY <2>5, <4>1, <4>2
    <3>2. IsFiniteSet(AboveIn(new, x)) /\ Cardinality(AboveIn(new, x)) \in Nat
      BY <3>1, FiniteUpTo
    <3>3. Cardinality(S) = Cardinality(AboveIn(new, x)) + 1
      BY <3>1, <3>2, FS_AddElement
    <3> HIDE DEF S
    <3>4. Cardinality(S) + 1 <= Cardinality(new) /\ Cardinality(new) \in Nat
      BY <3>1, OneMoreOf, FiniteUpTo
    <3> QED BY <1>1, <3>3, <3>4
  <2> QED BY <2>7, <2>8
<1> QED BY <1>2, <1>3, <1>4 DEF SkipsNone

(* The table.                                                               *)

LEMMA MatchingIsOld ==
  ASSUME NEW f, NEW k
  PROVE  Matching(f, k) \in SUBSET (1 .. k)
BY DEF Matching

(* An alert that matches still has matched since it was raised.             *)
LEMMA MatchingEarlier ==
  ASSUME NEW f, NEW k \in Nat, NEW m \in Nat, k <= m,
         NEW a \in Matching(f, m), a <= k
  PROVE  a \in Matching(f, k)
<1>1. a \in 1 .. m /\ RaisedAt(a) /\ f.roomId \in {Null, changes[a].room}
      /\ (f.status = "ACTIVE" => ~ResolvedBy(a, m))
  BY DEF Matching
<1>2. ResolvedBy(a, k) => ResolvedBy(a, m)
  BY DEF ResolvedBy
<1>3. a \in 1 .. k
  BY <1>1
<1> QED BY <1>1, <1>2, <1>3 DEF Matching

LEMMA MatchingStays ==
  ASSUME changes \in Seq(Entry), NEW e \in Entry, changes' = Append(changes, e),
         NEW f, NEW k \in 0 .. Now
  PROVE  Matching(f, k)' = Matching(f, k)
<1>1. \A c \in 1 .. k : changes'[c] = changes[c]
  BY AppendProperties DEF Now
<1>2. \A a \in 1 .. k : /\ RaisedAt(a)' <=> RaisedAt(a)
                        /\ ResolvedBy(a, k)' <=> ResolvedBy(a, k)
                        /\ changes'[a].room = changes[a].room
  BY <1>1 DEF RaisedAt, ResolvedBy
<1> QED BY <1>2 DEF Matching

LEMMA PageOf ==
  ASSUME NEW f, NEW k, NEW offset
  PROVE  \/ /\ Page(f, k, offset) = <<>>
            /\ \A x \in Matching(f, k) : Cardinality(AboveIn(Matching(f, k), x)) # offset
         \/ \E x \in Matching(f, k) :
              /\ Page(f, k, offset) = <<[filter |-> f, alert |-> x]>>
              /\ Cardinality(AboveIn(Matching(f, k), x)) = offset
<1> DEFINE found == AtOffset(f, k, offset)
<1>1. found = {x \in Matching(f, k) : Cardinality(AboveIn(Matching(f, k), x)) = offset}
  BY DEF AtOffset, NewerThan, AboveIn
<1>2. CASE found = {}
  BY <1>1, <1>2 DEF Page
<1>3. CASE found # {}
  <2>1. PICK x : x = CHOOSE a \in found : TRUE
    OBVIOUS
  <2>2. x \in found
    BY <1>3, <2>1
  <2>3. Page(f, k, offset) = <<[filter |-> f, alert |-> x]>>
    BY <1>3, <2>1 DEF Page
  <2> QED BY <1>1, <2>2, <2>3
<1> QED BY <1>2, <1>3

-----------------------------------------------------------------------------
(* What the list shows is what Continuous tells of it.                      *)
LEMMA BreaksForCause == AlertsInv => ListBreaksForCause
<1> SUFFICES ASSUME AlertsInv, ~torn PROVE ListBreaksForCause
  BY DEF ListBreaksForCause
<1>1. PICK f \in Filters : /\ FromTable(f)
                           /\ raised \/ RepeatsNone(listed, Matching(f, asOf))
                           /\ resolved \/ SkipsNone(listed, Matching(f, asOf), hasMore)
  BY DEF AlertsInv, Continuous
<1>2. AllOf(f)
  BY <1>1 DEF FromTable
<1>3. raised \/ NoneRepeated
  BY <1>1 DEF RepeatsNone, NoneRepeated
<1>4. ASSUME ~resolved PROVE NoneSkipped(f)
  <2> SUFFICES ASSUME NEW a \in Matching(f, Now), listed # <<>>, a < listed[1].alert
               PROVE  \/ Lists(a)
                      \/ hasMore /\ \A i \in DOMAIN listed : a < listed[i].alert
    BY DEF NoneSkipped
  <2>1. asOf \in Nat /\ Now \in Nat /\ asOf <= Now /\ 1 \in DOMAIN listed
    <3>1. changes \in Seq(Entry) /\ listed \in Seq(Item) /\ asOf \in 0 .. Now
      BY DEF AlertsInv, AlertsTypeOK
    <3>2. Now \in Nat
      BY <3>1, LenProperties DEF Now
    <3> QED BY <3>1, <3>2, Listing
  <2>2. listed[1].alert \in 1 .. asOf
    BY <1>1, <2>1 DEF FromTable
  <2>3. a \in 1 .. Now
    BY MatchingIsOld
  <2>4. a <= asOf
    BY <2>1, <2>2, <2>3
  <2>5. a \in Matching(f, asOf)
    BY <2>1, <2>4, MatchingEarlier
  <2> QED BY <1>1, <1>4, <2>5 DEF SkipsNone, Lists
<1> QED BY <1>2, <1>3, <1>4 DEF ListBreaksForCause

LEMMA ContinuousKept ==
  ASSUME Continuous, UNCHANGED listVars,
         \A f \in Filters : Matching(f, asOf)' = Matching(f, asOf)
  PROVE  Continuous'
<1>1. UNCHANGED <<torn, listed, hasMore, asOf, raised, resolved>>
  BY DEF listVars, pagingVars
<1>2. ASSUME NEW f \in Filters, FromTable(f) PROVE FromTable(f)'
  BY <1>1, <1>2 DEF FromTable, AllOf
<1>3. torn' = torn /\ raised' = raised /\ resolved' = resolved /\ hasMore' = hasMore
  BY <1>1
<1>4. CASE torn
  BY <1>3, <1>4 DEF Continuous
<1>5. ASSUME NEW f \in Filters, FromTable(f),
             raised \/ RepeatsNone(listed, Matching(f, asOf)),
             resolved \/ SkipsNone(listed, Matching(f, asOf), hasMore)
      PROVE  Continuous'
  <2>1. Matching(f, asOf)' = Matching(f, asOf)
    OBVIOUS
  <2>2. (raised \/ RepeatsNone(listed, Matching(f, asOf)))'
    BY <1>1, <1>5, <2>1
  <2>3. (resolved \/ SkipsNone(listed, Matching(f, asOf), hasMore))'
    BY <1>1, <1>5, <2>1
  <2> QED BY <1>2, <1>5, <2>2, <2>3 DEF Continuous
<1> QED BY <1>4, <1>5 DEF Continuous

(* As long as the table stays as it is, too.                                *)
LEMMA ContinuousStays ==
  ASSUME Continuous, UNCHANGED <<changes, listVars>>
  PROVE  Continuous'
<1>1. \A f \in Filters : Matching(f, asOf)' = Matching(f, asOf)
  BY DEF listVars, pagingVars, Matching, RaisedAt, ResolvedBy
<1> QED BY <1>1, ContinuousKept

LEMMA EmptyIsContinuous ==
  ASSUME listed = <<>>, Filters # {}
  PROVE  Continuous
BY DEF Continuous, FromTable, AllOf, RepeatsNone, SkipsNone

LEMMA AlertsInvInit == AlertsInit => AlertsInv
<1> SUFFICES ASSUME AlertsInit PROVE AlertsInv
  OBVIOUS
<1>1. [filter |-> filter, manual |-> FALSE] \in AlertLoad /\ filter \in Filters
  BY DEF AlertsInit, AlertLoad
<1>2. alertLoads \in Seq(AlertLoad)
  BY <1>1 DEF AlertsInit
<1>3. changes = <<>> /\ mores = <<>> /\ listed = <<>> /\ asOf = 0
  BY DEF AlertsInit
<1>4. Now = 0
  BY <1>3, EmptySeq DEF Now
<1> QED
  BY <1>1, <1>2, <1>3, <1>4, EmptyIsContinuous
  DEF AlertsInv, AlertsTypeOK, OneMore, MoreContinues

LEMMA AlertsMounted ==
  ASSUME NEW f \in Filters, AlertsMount(f)
  PROVE  AlertsInv'
<1>1. [filter |-> f, manual |-> FALSE] \in AlertLoad /\ filter' = f
  BY DEF AlertsMount, AlertLoad
<1>2. alertLoads' \in Seq(AlertLoad)
  BY <1>1 DEF AlertsMount
<1>3. changes' = <<>> /\ mores' = <<>> /\ listed' = <<>> /\ asOf' = 0
  BY DEF AlertsMount
<1>4. Now' = 0
  BY <1>3, EmptySeq DEF Now
<1>5. Continuous'
  BY <1>3 DEF Continuous, FromTable, AllOf, RepeatsNone, SkipsNone
<1> QED
  BY <1>1, <1>2, <1>3, <1>4, <1>5
  DEF AlertsInv, AlertsTypeOK, OneMore, MoreContinues

(* home-api adds to the log.                                                *)
LEMMA ChangeStep ==
  ASSUME AlertsInv, NEW e \in Entry, Change(e)
  PROVE  AlertsInv'
<1>1. changes \in Seq(Entry) /\ changes' = Append(changes, e) /\ asOf \in 0 .. Now
  BY DEF AlertsInv, AlertsTypeOK, Change
<1>2. changes' \in Seq(Entry) /\ Now \in Nat /\ Now' = Now + 1
  BY <1>1, AppendProperties, LenProperties DEF Now
<1>3. UNCHANGED <<filter, alertLoads, mores, listVars, loadingMore>>
  BY DEF Change
<1>4. UNCHANGED <<listed, asOf>>
  BY <1>3 DEF listVars, pagingVars
<1>5. \A f \in Filters : Matching(f, asOf)' = Matching(f, asOf)
  <2>1. ASSUME NEW f \in Filters, NEW k, k = asOf
        PROVE  Matching(f, k)' = Matching(f, k)
    BY <1>1, <2>1, MatchingStays
  <2> QED BY <1>4, <2>1 DEF Matching, RaisedAt, ResolvedBy
<1>6. Continuous'
  BY <1>3, <1>5, ContinuousKept DEF AlertsInv
<1>7. \A i \in DOMAIN mores : mores[i].since \in Nat
  <2>1. mores \in Seq(More) /\ DOMAIN mores = 1 .. Len(mores)
    BY LenProperties DEF AlertsInv, AlertsTypeOK
  <2>2. \A i \in DOMAIN mores : mores[i] \in More
    BY <2>1, ElementOfSeq
  <2> QED BY <2>2 DEF More
<1>8. AlertsTypeOK'
  BY <1>1, <1>2, <1>3, <1>4, <1>7 DEF AlertsInv, AlertsTypeOK
<1> QED
  BY <1>3, <1>4, <1>6, <1>8 DEF AlertsInv, OneMore, MoreContinues

(* A load that starts touches neither the list nor Load more.               *)
LEMMA AlertLoadStarts ==
  ASSUME AlertsInv, NEW f \in Filters, NEW manual \in BOOLEAN,
         StartAlertLoad(f, manual), filter' \in Filters
  PROVE  AlertsInv'
<1>1. [filter |-> f, manual |-> manual] \in AlertLoad
  BY DEF AlertLoad
<1>2. alertLoads' \in Seq(AlertLoad)
  BY <1>1, AppendProperties DEF StartAlertLoad, AlertsInv, AlertsTypeOK
<1>3. UNCHANGED <<changes, mores, listVars, loadingMore, listed, asOf>>
  BY DEF StartAlertLoad, listVars, pagingVars
<1>4. Continuous'
  BY <1>3, ContinuousStays DEF AlertsInv
<1> QED
  BY <1>2, <1>3, <1>4 DEF AlertsInv, AlertsTypeOK, OneMore, MoreContinues, Now

LEMMA StoreStep ==
  ASSUME AlertsInv, NEW i \in DOMAIN alertLoads, StoreAlerts(i)
  PROVE  AlertsInv'
<1>1. PICK f \in Filters : f = alertLoads[i].filter
  <2>1. alertLoads[i] \in AlertLoad
    BY DEF AlertsInv, AlertsTypeOK
  <2> QED BY <2>1 DEF AlertLoad
<1>2. alertLoads' \in Seq(AlertLoad)
  BY RemoveAtIsRest DEF AlertsInv, AlertsTypeOK, StoreAlerts, ReturnAlertLoad
<1>3. PICK k \in 0 .. Now : /\ listed' = Page(f, k, 0)
                            /\ hasMore' = HasMore(f, k, 0) /\ asOf' = k
  BY <1>1 DEF StoreAlerts
<1>4. /\ changes' = changes /\ filter' = filter /\ loadingMore' = loadingMore
      /\ torn' = FALSE /\ raised' = FALSE /\ resolved' = FALSE
  BY DEF StoreAlerts, ReturnAlertLoad
<1>5. PICK table : table = Matching(f, k)
  OBVIOUS
<1>6. k \in Nat /\ table \in SUBSET (1 .. k) /\ Matching(f, asOf)' = table
  <2>1. k \in Nat
    BY DEF AlertsInv, AlertsTypeOK
  <2>2. Matching(f, asOf)' = Matching(f, k)
    BY <1>3, <1>4 DEF Matching, RaisedAt, ResolvedBy
  <2> QED BY <1>5, <2>1, <2>2, MatchingIsOld
<1>7. /\ listed' \in Seq(Item)
      /\ FromTable(f)' /\ RepeatsNone(listed', table) /\ SkipsNone(listed', table, hasMore')
  <2>1. CASE listed' = <<>>
    BY <2>1, EmptySeq DEF FromTable, AllOf, RepeatsNone, SkipsNone
  <2>2. CASE listed' # <<>>
    <3>1. PICK x \in table : /\ listed' = <<[filter |-> f, alert |-> x]>>
                             /\ Cardinality(AboveIn(table, x)) = 0
      BY <1>3, <1>5, <2>2, PageOf
    <3>2. x \in 1 .. k /\ [filter |-> f, alert |-> x] \in Item
      BY <1>6, <3>1 DEF Item
    <3>3. /\ listed' \in Seq(Item) /\ Len(listed') = 1 /\ DOMAIN listed' = {1}
          /\ listed'[1].alert = x /\ listed'[1].filter = f
      BY <3>1, <3>2
    <3>4. FromTable(f)'
      BY <1>3, <3>2, <3>3 DEF FromTable, AllOf
    <3>5. LastOf(listed') = x
      BY <3>3 DEF LastOf
    <3>6. RepeatsNone(listed', table)
      BY <3>1, <3>3, <3>5 DEF RepeatsNone
    <3>7. ASSUME NEW a \in table, a < x
          PROVE  hasMore'
      <4> DEFINE S == {x}
      <4>1. S \in SUBSET table /\ a \in table \ S
        BY <3>2, <3>7, <1>6
      <4>2. Cardinality(S) = 1
        BY FS_Singleton
      <4> HIDE DEF S
      <4>3. Cardinality(S) + 1 <= Cardinality(table) /\ Cardinality(table) \in Nat
        BY <1>6, <4>1, OneMoreOf, FiniteUpTo
      <4>4. hasMore' = (Cardinality(table) > 0 + 1)
        BY <1>3, <1>5 DEF HasMore
      <4>5. Cardinality(table) > 0 + 1
        BY <4>2, <4>3
      <4> QED BY <4>4, <4>5, Zenon
    <3>8. SkipsNone(listed', table, hasMore')
      BY <3>1, <3>3, <3>5, <3>7 DEF SkipsNone
    <3> QED BY <3>3, <3>4, <3>6, <3>8
  <2> QED BY <2>1, <2>2
<1>8. Continuous'
  BY <1>6, <1>7 DEF Continuous
<1>9. /\ mores' \in Seq(More) /\ Len(mores') = Len(mores)
      /\ \A j \in DOMAIN mores' : mores'[j].replaced /\ mores'[j].since <= Now
  <2> DEFINE e(j) == [mores[j] EXCEPT !.replaced = TRUE]
  <2>1. mores \in Seq(More) /\ Len(mores) \in Nat /\ DOMAIN mores = 1..Len(mores)
    BY LenProperties DEF AlertsInv, AlertsTypeOK
  <2>2. \A j \in 1..Len(mores) : e(j) \in More /\ e(j).replaced /\ e(j).since <= Now
    <3>1. \A j \in 1..Len(mores) : mores[j] \in More /\ mores[j].since <= Now
      BY <2>1, ElementOfSeq DEF AlertsInv, AlertsTypeOK
    <3> QED BY <3>1 DEF More
  <2>3. mores' = [j \in 1..Len(mores) |-> e(j)]
    BY <2>1 DEF StoreAlerts
  <2> HIDE DEF e
  <2>4. mores' \in Seq(More)
    BY <2>1, <2>2, <2>3, IsASeq
  <2> QED BY <2>1, <2>2, <2>3, <2>4, LenProperties
<1>10. OneMore'
  <2>1. mores' # <<>> => mores # <<>>
    BY <1>9, EmptySeq DEF AlertsInv, AlertsTypeOK
  <2> QED
    BY <1>4, <1>9, <2>1 DEF AlertsInv, OneMore
<1>11. AlertsTypeOK'
  BY <1>2, <1>3, <1>4, <1>7, <1>9 DEF AlertsInv, AlertsTypeOK, Now
<1> QED
  BY <1>8, <1>9, <1>10, <1>11 DEF AlertsInv, MoreContinues

LEMMA AlertsFailStep ==
  ASSUME AlertsInv, NEW i \in DOMAIN alertLoads, AlertsFail(i)
  PROVE  AlertsInv'
<1>1. alertLoads' \in Seq(AlertLoad)
  BY RemoveAtIsRest DEF AlertsInv, AlertsTypeOK, AlertsFail, ReturnAlertLoad
<1>2. UNCHANGED <<changes, filter, mores, listVars, loadingMore, listed, asOf>>
  BY DEF AlertsFail, ReturnAlertLoad, listVars, pagingVars
<1>3. Continuous'
  BY <1>2, ContinuousStays DEF AlertsInv
<1> QED
  BY <1>1, <1>2, <1>3 DEF AlertsInv, AlertsTypeOK, OneMore, MoreContinues, Now

LEMMA LoadMoreStep ==
  ASSUME AlertsInv, LoadMore
  PROVE  AlertsInv'
<1> DEFINE more == [filter |-> filter, offset |-> Len(listed), since |-> Now,
                    replaced |-> FALSE]
<1>1. Now \in Nat /\ asOf <= Now
  BY LenProperties DEF AlertsInv, AlertsTypeOK, Now
<1>2. more \in More
  <2>1. Len(listed) \in Nat \ {0}
    BY Listing DEF LoadMore, AskMore, AlertsInv, AlertsTypeOK
  <2> QED BY <1>1, <2>1 DEF AlertsInv, AlertsTypeOK, More
<1>3. mores = <<>>
  BY DEF LoadMore, AlertsInv, OneMore
<1>4. mores' = <<more>>
  BY <1>2, <1>3 DEF LoadMore, AskMore
<1>5. mores' \in Seq(More) /\ Len(mores') = 1 /\ mores'[1] = more /\ DOMAIN mores' = {1}
  BY <1>2, <1>4
<1>6. UNCHANGED <<changes, filter, alertLoads, listVars, listed, asOf>> /\ loadingMore'
  BY DEF LoadMore, AskMore, listVars, pagingVars
<1>7. AlertsTypeOK'
  BY <1>1, <1>5, <1>6 DEF AlertsInv, AlertsTypeOK, Now
<1>8. MoreContinues'
  BY <1>1, <1>5, <1>6 DEF MoreContinues
<1>9. Continuous'
  BY <1>6, ContinuousStays DEF AlertsInv
<1> QED
  BY <1>5, <1>6, <1>7, <1>8, <1>9 DEF AlertsInv, OneMore

(* The one call of loadMore returns and none is left.                        *)
LEMMA MoreReturned ==
  ASSUME AlertsInv, NEW i \in DOMAIN mores, ReturnMore(i)
  PROVE  mores' = <<>> /\ mores[i] \in More
<1>1. mores \in Seq(More) /\ Len(mores) \in Nat /\ DOMAIN mores = 1..Len(mores)
  BY LenProperties DEF AlertsInv, AlertsTypeOK
<1>2. Len(mores) = 1
  BY <1>1 DEF AlertsInv, OneMore
<1>3. mores' \in Seq(More) /\ DOMAIN mores' = 1..0
  BY <1>1, <1>2, RemoveAtIsRest DEF ReturnMore
<1>4. mores' = <<>>
  BY <1>3, LenProperties, EmptySeq
<1> QED BY <1>1, <1>4, ElementOfSeq

LEMMA MoreFailsStep ==
  ASSUME AlertsInv, NEW i \in DOMAIN mores, MoreFails(i)
  PROVE  AlertsInv'
<1>1. mores' = <<>>
  BY MoreReturned DEF MoreFails
<1>2. UNCHANGED <<changes, filter, alertLoads, listVars, listed, asOf>>
  BY DEF MoreFails, ReturnMore, listVars, pagingVars
<1>3. Continuous'
  BY <1>2, ContinuousStays DEF AlertsInv
<1> QED
  BY <1>1, <1>2, <1>3, EmptySeq
  DEF AlertsInv, AlertsTypeOK, OneMore, MoreContinues, Now

LEMMA AppendStep ==
  ASSUME AlertsInv, NEW i \in DOMAIN mores, AppendMore(i)
  PROVE  AlertsInv'
<1>1. mores' = <<>> /\ mores[i] \in More
  BY MoreReturned DEF AppendMore
<1> PICK f \in Filters, offset \in Nat \ {0}, since \in Nat :
       f = mores[i].filter /\ offset = mores[i].offset /\ since = mores[i].since
  BY <1>1 DEF More
<1>2. PICK k \in since .. Now :
        /\ listed' = listed \o Page(f, k, offset)
        /\ hasMore' = HasMore(f, k, offset) /\ asOf' = k
        /\ raised' = (raised \/ ~(Matching(f, k) \subseteq Matching(f, asOf)))
        /\ resolved' = (resolved \/ ~(Matching(f, asOf) \subseteq Matching(f, k)))
  BY DEF AppendMore
<1>3. UNCHANGED <<changes, filter, alertLoads>>
  BY DEF AppendMore, ReturnMore
<1>4. /\ changes \in Seq(Entry) /\ listed \in Seq(Item) /\ Now \in Nat
      /\ asOf \in 0 .. Now /\ k \in 0 .. Now /\ k \in Nat
  <2>1. changes \in Seq(Entry) /\ listed \in Seq(Item) /\ asOf \in 0 .. Now
    BY DEF AlertsInv, AlertsTypeOK
  <2>2. Now \in Nat
    BY <2>1, LenProperties DEF Now
  <2> QED BY <2>1, <2>2
<1>5. listed' \in Seq(Item)
  <2>1. Page(f, k, offset) \in Seq(Item)
    <3>1. CASE Page(f, k, offset) = <<>>
      BY <3>1, EmptySeq
    <3>2. ASSUME NEW x \in Matching(f, k), Page(f, k, offset) = <<[filter |-> f, alert |-> x]>>
          PROVE  Page(f, k, offset) \in Seq(Item)
      <4>1. x \in 1 .. k
        BY MatchingIsOld
      <4>2. [filter |-> f, alert |-> x] \in Item
        BY <4>1 DEF Item
      <4> QED BY <3>2, <4>2
    <3> QED BY <3>1, <3>2, PageOf
  <2> QED BY <1>2, <1>4, <2>1, ConcatProperties
<1>6. AlertsTypeOK' /\ OneMore' /\ MoreContinues'
  <2>1. Now' = Now
    BY <1>3 DEF Now
  <2> QED
    BY <1>1, <1>2, <1>3, <1>4, <1>5, <2>1, EmptySeq
    DEF AlertsInv, AlertsTypeOK, OneMore, MoreContinues
<1>7. ASSUME ~torn' PROVE Continuous'
  <2>1. /\ ~torn /\ ~mores[i].replaced
        /\ \A j \in DOMAIN listed : listed[j].filter = f
    BY <1>7 DEF AppendMore
  <2>2. offset = Len(listed) /\ asOf <= k /\ listed # <<>>
    <3>1. offset = Len(listed) /\ asOf <= since
      BY <2>1 DEF AlertsInv, MoreContinues
    <3> QED BY <1>4, <3>1, EmptySeq
  <2>3. /\ FromTable(f)
        /\ raised \/ RepeatsNone(listed, Matching(f, asOf))
        /\ resolved \/ SkipsNone(listed, Matching(f, asOf), hasMore)
    <3>1. PICK g \in Filters : /\ FromTable(g)
                               /\ raised \/ RepeatsNone(listed, Matching(g, asOf))
                               /\ resolved \/ SkipsNone(listed, Matching(g, asOf), hasMore)
      BY <2>1 DEF AlertsInv, Continuous
    <3>2. 1 \in DOMAIN listed
      BY <1>4, <2>2, Listing
    <3>3. f = g
      BY <2>1, <3>1, <3>2 DEF FromTable, AllOf
    <3> QED BY <3>1, <3>3
  <2>4. PICK old, new : old = Matching(f, asOf) /\ new = Matching(f, k)
    OBVIOUS
  <2>5. /\ old \in SUBSET (1 .. k) /\ new \in SUBSET (1 .. k)
        /\ \A a \in new : a <= asOf => a \in old
    <3>1. asOf \in Nat
      BY <1>4
    <3>2. Matching(f, asOf) \in SUBSET (1 .. asOf) /\ Matching(f, k) \in SUBSET (1 .. k)
      BY MatchingIsOld
    <3>3. \A a \in Matching(f, k) : a <= asOf => a \in Matching(f, asOf)
      BY <1>4, <2>2, <3>1, MatchingEarlier
    <3> QED BY <1>4, <2>2, <2>4, <3>1, <3>2, <3>3
  <2>6. Matching(f, asOf)' = new
    BY <1>2, <1>3, <2>4 DEF Matching, RaisedAt, ResolvedBy
  <2>7. /\ Len(listed) \in Nat /\ Len(listed) >= 1 /\ DOMAIN listed = 1 .. Len(listed)
        /\ listed[1].alert \in 1 .. asOf /\ asOf \in Nat /\ asOf <= k
        /\ \A j \in 1 .. Len(listed) : listed[j].filter = f /\ listed[j].alert \in 1 .. asOf
    <3>1. Len(listed) \in Nat /\ Len(listed) >= 1 /\ DOMAIN listed = 1 .. Len(listed)
      BY <1>4, <2>2, Listing
    <3> QED BY <1>4, <2>1, <2>2, <2>3, <3>1 DEF FromTable
  <2>8. hasMore' = (Cardinality(new) > Len(listed) + 1)
    BY <1>2, <2>2, <2>4 DEF HasMore
  <2>9. /\ ~raised' => ~raised /\ new \in SUBSET old
        /\ ~resolved' => ~resolved /\ old \in SUBSET new
    BY <1>2, <2>4
  <2>10. CASE Page(f, k, offset) = <<>> /\ \A x \in new : Cardinality(AboveIn(new, x)) # offset
    <3>1. listed' = listed
      BY <1>2, <1>4, <2>10, ConcatEmptySeq
    <3>2. FromTable(f)'
      BY <1>2, <2>7, <3>1 DEF FromTable, AllOf
    <3>3. raised' \/ RepeatsNone(listed', new)
      BY <1>4, <2>3, <2>4, <2>5, <2>9, <3>1, RepeatsNoneKept
    <3>4. ASSUME ~resolved' PROVE SkipsNone(listed', new, hasMore')
      <4>1. SkipsNone(listed, old, hasMore) /\ old \in SUBSET new
        BY <2>3, <2>4, <2>9, <3>4
      <4>2. listed[1].alert <= asOf
        BY <2>7
      <4>3. \A x \in new : Cardinality(AboveIn(new, x)) # Len(listed)
        BY <2>2, <2>10
      <4>4. SkipsNone(listed, new, hasMore')
        BY <1>4, <2>2, <2>5, <2>7, <4>1, <4>2, <4>3, SkipsNoneKept
      <4> QED BY <3>1, <4>4
    <3> QED BY <2>6, <3>2, <3>3, <3>4 DEF Continuous
  <2>11. ASSUME NEW x \in new, Page(f, k, offset) = <<[filter |-> f, alert |-> x]>>,
                Cardinality(AboveIn(new, x)) = offset
         PROVE  Continuous'
    <3> DEFINE e == [filter |-> f, alert |-> x]
    <3>1. x \in 1 .. k /\ e \in Item
      BY <1>4, <2>5, <2>11 DEF Item
    <3>2. /\ Len(listed') = Len(listed) + 1 /\ DOMAIN listed' = 1 .. Len(listed) + 1
          /\ \A j \in 1 .. Len(listed) : listed'[j] = listed[j]
          /\ listed'[Len(listed) + 1] = e
      <4> DEFINE page1 == <<e>>
      <4>1. page1 \in Seq(Item) /\ Len(page1) = 1 /\ page1[1] = e
        BY <3>1
      <4>2. listed' = listed \o page1
        BY <1>2, <2>11
      <4> HIDE DEF page1, e
      <4>3. /\ Len(listed \o page1) = Len(listed) + Len(page1)
            /\ \A j \in 1..(Len(listed) + Len(page1)) :
                 (listed \o page1)[j] = IF j <= Len(listed) THEN listed[j]
                                        ELSE page1[j - Len(listed)]
        BY <1>4, <4>1, ConcatProperties
      <4>4. /\ Len(listed') = Len(listed) + 1
            /\ \A j \in 1 .. Len(listed) + 1 :
                 listed'[j] = IF j <= Len(listed) THEN listed[j] ELSE page1[j - Len(listed)]
        BY <4>1, <4>2, <4>3
      <4>5. DOMAIN listed' = 1 .. Len(listed) + 1
        BY <1>5, <4>4, LenProperties
      <4>6. \A j \in 1 .. Len(listed) : listed'[j] = listed[j]
        <5>1. \A j \in 1 .. Len(listed) : j \in 1 .. Len(listed) + 1 /\ j <= Len(listed)
          BY <2>7
        <5> QED BY <4>4, <5>1
      <4>7. listed'[Len(listed) + 1] = e
        <5>1. /\ Len(listed) + 1 \in 1 .. Len(listed) + 1 /\ ~(Len(listed) + 1 <= Len(listed))
              /\ (Len(listed) + 1) - Len(listed) = 1
          BY <2>7
        <5> QED BY <4>1, <4>4, <5>1
      <4> QED BY <4>4, <4>5, <4>6, <4>7
    <3>3. GoesOn(listed', listed, x)
      <4>1. listed' # <<>>
        BY <2>7, <3>2, EmptySeq
      <4> QED BY <3>2, <4>1 DEF GoesOn
    <3>4. FromTable(f)'
      <4> SUFFICES ASSUME NEW j \in DOMAIN listed'
                   PROVE  listed'[j].filter = f /\ listed'[j].alert \in 1 .. asOf'
        BY DEF FromTable, AllOf
      <4>1. CASE j = Len(listed) + 1
        BY <1>2, <3>1, <3>2, <4>1
      <4>2. CASE j # Len(listed) + 1
        <5>1. j \in 1 .. Len(listed)
          BY <2>7, <3>2, <4>2
        <5>2. listed'[j] = listed[j] /\ listed[j].filter = f /\ listed[j].alert \in 1 .. asOf
          BY <2>7, <3>2, <5>1
        <5> QED BY <1>2, <2>7, <5>2
      <4> QED BY <4>1, <4>2
    <3>5. ASSUME ~raised' PROVE RepeatsNone(listed', new)
      <4>1. RepeatsNone(listed, old) /\ new \in SUBSET old
        BY <2>3, <2>4, <2>9, <3>5
      <4> QED BY <1>4, <2>2, <2>5, <2>11, <3>3, <4>1, RepeatsNoneLonger
    <3>6. ASSUME ~resolved' PROVE SkipsNone(listed', new, hasMore')
      <4>1. SkipsNone(listed, old, hasMore) /\ old \in SUBSET new
        BY <2>3, <2>4, <2>9, <3>6
      <4>2. listed[1].alert <= asOf
        BY <2>7
      <4>3. SkipsNone(listed', new, Cardinality(new) > Len(listed) + 1)
        BY <1>4, <2>2, <2>5, <2>7, <2>11, <3>3, <4>1, <4>2, SkipsNoneLonger
      <4> QED BY <2>8, <4>3
    <3> QED BY <2>6, <3>4, <3>5, <3>6 DEF Continuous
  <2> QED BY <2>4, <2>10, <2>11, PageOf
<1>8. Continuous'
  BY <1>7 DEF Continuous
<1> QED BY <1>6, <1>8 DEF AlertsInv

LEMMA AlertsInvStep ==
  ASSUME AlertsInv, [AlertsNext]_alertsVars
  PROVE  AlertsInv'
<1>0. filter \in Filters
  BY DEF AlertsInv, AlertsTypeOK
<1>1. CASE PollAlerts \/ RetryAlerts
  BY <1>0, <1>1, AlertLoadStarts DEF PollAlerts, RetryAlerts
<1>2. CASE RefreshAlerts
  BY <1>0, <1>2, AlertLoadStarts DEF RefreshAlerts
<1>3. ASSUME NEW f \in Filters, SetFilter(f)
      PROVE  AlertsInv'
  BY <1>3, AlertLoadStarts DEF SetFilter
<1>4. CASE AlertLoadReturns
  BY <1>4, StoreStep, AlertsFailStep DEF AlertLoadReturns
<1>5. CASE MoreReturns
  BY <1>5, AppendStep, MoreFailsStep DEF MoreReturns
<1>6. CASE UNCHANGED alertsVars
  <2>1. UNCHANGED <<changes, filter, alertLoads, mores, listVars, loadingMore, listed, asOf>>
    BY <1>6 DEF alertsVars, listVars, pagingVars
  <2>2. Continuous'
    BY <2>1, ContinuousStays DEF AlertsInv
  <2> QED BY <2>1, <2>2 DEF AlertsInv, AlertsTypeOK, OneMore, MoreContinues, Now
<1>7. ASSUME NEW r \in Rooms, RaiseAlert(r)
      PROVE  AlertsInv'
  BY <1>7, ChangeStep DEF RaiseAlert, Entry
<1>8. ASSUME NEW a \in 1 .. Now, ResolveAlert(a)
      PROVE  AlertsInv'
  BY <1>8, ChangeStep DEF ResolveAlert, Entry
<1> QED
  BY <1>1, <1>2, <1>3, <1>4, <1>5, <1>6, <1>7, <1>8, LoadMoreStep DEF AlertsNext
-----------------------------------------------------------------------------
(***************************************************************************)
(* The router.  A link, or an Unpair that succeeds, mounts every page anew; *)
(* any other step is one of the page that is mounted.                      *)
(***************************************************************************)

(* Where there is no room or no filter there is no initial state.           *)
SomeExist == someRoom \in Rooms /\ someFilter \in Filters

DashboardInv == SomeExist /\ RoomInv /\ AlertsInv /\ DrawerInv

Mounts ==
  /\ \E r \in Rooms : RoomMount(r)
  /\ \E f \in Filters : AlertsMount(f)
  /\ DrawerMount

Steps == [RoomNext]_roomVars /\ [AlertsNext]_alertsVars /\ [DrawerNext]_drawerVars

LEMMA RouterSteps ==
  ASSUME SomeExist, [Next]_vars
  PROVE  Mounts \/ Steps
<1>1. ASSUME NEW p \in Pages, FollowLink(p)
      PROVE  Mounts
  BY <1>1 DEF FollowLink, Mount, Mounts, SomeExist
<1>2. ASSUME NEW i \in DOMAIN unpairs, UnpairSucceeds(i)
      PROVE  Mounts
  BY <1>2 DEF UnpairSucceeds, Mount, Mounts, SomeExist
<1>3. ASSUME UNCHANGED <<roomVars, alertsVars, drawerVars>>
      PROVE  Steps
  BY <1>3 DEF Steps
<1>4. CASE RoomStep
  BY <1>4 DEF RoomStep, Steps
<1>5. CASE AlertsStep
  BY <1>5 DEF AlertsStep, OnAlerts, Steps
<1>6. CASE DrawerStep
  BY <1>6 DEF DrawerStep, Steps
<1> QED
  BY <1>1, <1>2, <1>3, <1>4, <1>5, <1>6 DEF Next, UnpairReturns, SensorStep, vars

LEMMA DashboardInvHolds == Spec => []DashboardInv
<1>1. Init => DashboardInv
  BY RoomInvInit, AlertsInvInit, DrawerInvInit
  DEF Init, DashboardInv, SomeExist, RoomInit, AlertsInit
<1>2. DashboardInv /\ [Next]_vars => DashboardInv'
  <2> SUFFICES ASSUME DashboardInv, [Next]_vars PROVE DashboardInv'
    OBVIOUS
  <2>1. SomeExist'
    BY DEF DashboardInv, SomeExist, someRoom, someFilter
  <2>2. CASE Mounts
    BY <2>1, <2>2, RoomMounted, AlertsMounted, DrawerMounted DEF Mounts, DashboardInv
  <2>3. CASE Steps
    BY <2>1, <2>3, RoomInvStep, AlertsInvStep, DrawerInvStep DEF Steps, DashboardInv
  <2> QED BY <2>2, <2>3, RouterSteps DEF DashboardInv
<1> QED BY <1>1, <1>2, PTL DEF Spec

(* What the page of a room shows once it has settled is the history of the   *)
(* selected sensor in the room of the address, however loads overtake each   *)
(* other (loadDetail).                                                      *)
THEOREM RoomShowsSelection == Spec => []ShowsSelection
<1>1. DashboardInv => ShowsSelection
  BY DEF DashboardInv, RoomInv
<1> QED BY <1>1, DashboardInvHolds, PTL

(* "Loading" and "Updating" are shown on it only while a load that ends them *)
(* is in flight (loadDetail, handleRefresh).                                *)
THEOREM RoomLoadingEnds == Spec => []LoadingEnds
<1>1. DashboardInv => LoadingEnds
  BY DEF DashboardInv, RoomInv
<1> QED BY <1>1, DashboardInvHolds, PTL

(* A load never replaces what a later one has brought (loadGenerationRef).   *)
THEOREM RoomNeverOlder == Spec => NeverOlder
<1> DEFINE A == view # Null /\ view' # Null /\ view' # view
                  => view'.generation > view.generation
<1>1. DashboardInv /\ [Next]_vars => [A]_roomVars
  <2> SUFFICES ASSUME DashboardInv, [Next]_vars PROVE [A]_roomVars
    OBVIOUS
  <2>1. CASE Mounts
    BY <2>1 DEF Mounts, RoomMount
  <2>2. CASE Steps
    BY <2>2, NeverOlderStep DEF Steps, DashboardInv
  <2> QED BY <2>1, <2>2, RouterSteps DEF DashboardInv
<1> QED BY <1>1, DashboardInvHolds, PTL DEF Spec, NeverOlder

(* The page of a room, behind the router and with any number of loads that   *)
(* overlap, comes to the same as a page with one question at a time: the     *)
(* generation of a load is enough to tell the one that counts               *)
(* (loadGenerationRef).                                                     *)
THEOREM RoomAsksOneQuestion == Spec => OneQuestion
<1>1. Init => AsIfOne!PageInit
  <2> SUFFICES ASSUME Init PROVE AsIfOne!PageInit
    OBVIOUS
  <2>1. PICK first : first = NewLoad(1, roomId, FALSE)
    OBVIOUS
  <2>2. loads = {first} /\ loadGeneration = 1 /\ first.generation = 1
    BY <2>1 DEF Init, RoomInit, NewLoad
  <2>3. Asked(first) = AsIfOne!About(roomId)
    BY <2>1 DEF NewLoad, Asked, AsIfOne!About
  <2>4. Standing = AsIfOne!About(roomId)
    BY <2>2, <2>3, TheNewest, StandingIsNewest
  <2> QED BY <2>4 DEF Init, RoomInit, Shown, AsIfOne!PageInit
<1>2. DashboardInv /\ DashboardInv' /\ [Next]_vars => [AsIfOne!PageNext]_(AsIfOne!pageVars)
  <2> SUFFICES ASSUME DashboardInv, DashboardInv', [Next]_vars
               PROVE  AsIfOne!PageNext \/ UNCHANGED AsIfOne!pageVars
    OBVIOUS
  <2>1. CASE Mounts
    BY <2>1, RoomMountOpens DEF Mounts, AsIfOne!PageNext
  <2>2. CASE RoomNext
    BY <2>2, RoomStepRefines DEF DashboardInv
  <2>3. CASE UNCHANGED roomVars
    BY <2>3 DEF roomVars, Standing, Shown, NewestInFlight, Newest, AsIfOne!pageVars
  <2> QED BY <2>1, <2>2, <2>3, RouterSteps DEF Steps, DashboardInv
<1> QED BY <1>1, <1>2, DashboardInvHolds, PTL DEF Spec, OneQuestion, AsIfOne!PageSpec

(* The list of alerts breaks for the three named causes only, each with its  *)
(* own harm: a list that an answer does not continue, an alert raised        *)
(* between two pages (repeated, never skipped) or resolved (skipped, never   *)
(* repeated) (loadMore, loadAlerts, findAlerts).                             *)
THEOREM AlertsBreakForCause == Spec => []ListBreaksForCause
<1>1. DashboardInv => ListBreaksForCause
  BY BreaksForCause DEF DashboardInv, AlertsInv
<1> QED BY <1>1, DashboardInvHolds, PTL

(* The drawer shows the details of the alert that is selected, and waits    *)
(* exactly while they are on their way (AlertDetailDrawer).                  *)
THEOREM DrawerShows == Spec => []DrawerShowsSelected
<1>1. DashboardInv => DrawerShowsSelected
  BY DEF DashboardInv, DrawerInv, OneWaits, Waits, DrawerShowsSelected
<1> QED BY <1>1, DashboardInvHolds, PTL

-----------------------------------------------------------------------------
(***************************************************************************)
(* What the page of a room makes of the readings it has loaded.            *)
(***************************************************************************)

(* home-api numbers the readings as they arrive.                            *)
ReadingsInv ==
  /\ readings \subseteq Row /\ IsFiniteSet(readings)
  /\ \A r \in readings : r.id <= Cardinality(readings)
  /\ \A x, y \in readings : x.id = y.id => x = y

LEMMA RowTypes ==
  /\ \A x \in Row : x.at \in Ticks /\ x.at \in Int /\ x.id \in Nat /\ x # Null
  /\ \A id \in Nat, s \in Sensors, at \in Ticks, value \in Values \cup {Null} :
       LET row == [id |-> id, sensor |-> s, at |-> at, value |-> value]
       IN  row \in Row /\ row.id = id
<1>1. \A x \in Row : x.at \in Ticks /\ x.id \in Nat
  BY DEF Row
<1>2. \A t \in Ticks : t \in Int
  BY TicksAssumption
<1>3. \A x \in Row : x # Null
  BY NoRowAssumption
<1>4. \A id \in Nat, s \in Sensors, at \in Ticks, value \in Values \cup {Null} :
        LET row == [id |-> id, sensor |-> s, at |-> at, value |-> value]
        IN  row \in Row /\ row.id = id
  BY DEF Row
<1> QED BY <1>1, <1>2, <1>3, <1>4

LEMMA ArriveStep ==
  ASSUME ReadingsInv, NEW s \in Sensors, NEW at \in Ticks,
         NEW value \in Values \cup {Null}, Arrive(s, at, value)
  PROVE  ReadingsInv'
<1> DEFINE n == Cardinality(readings)
<1>1. n \in Nat
  BY FS_CardinalityType DEF ReadingsInv
<1>2. PICK row \in Row : row.id = n + 1 /\ readings' = readings \cup {row}
  <2>1. n + 1 \in Nat
    BY <1>1
  <2> DEFINE new == [id |-> n + 1, sensor |-> s, at |-> at, value |-> value]
  <2>2. new \in Row /\ new.id = n + 1
    BY <2>1, RowTypes
  <2>3. readings' = readings \cup {new}
    BY DEF Arrive
  <2> HIDE DEF new
  <2> QED BY <2>2, <2>3
<1>3. row \notin readings
  BY <1>1, <1>2 DEF ReadingsInv
<1>4. IsFiniteSet(readings') /\ Cardinality(readings') = n + 1
  BY <1>2, <1>3, FS_AddElement DEF ReadingsInv
<1>5. \A r \in readings : r.id \in Nat /\ r.id <= n
  BY DEF ReadingsInv, Row
<1>6. \A r \in readings' : r.id <= n + 1
  BY <1>1, <1>2, <1>5
<1>7. \A x, y \in readings' : x.id = y.id => x = y
  BY <1>1, <1>2, <1>5 DEF ReadingsInv
<1>8. readings' \subseteq Row
  BY <1>2 DEF ReadingsInv
<1> HIDE DEF n
<1> QED BY <1>4, <1>6, <1>7, <1>8 DEF ReadingsInv

LEMMA ReadingsInvHolds == HistorySpec => []ReadingsInv
<1>1. HistoryInit => ReadingsInv
  BY FS_EmptySet DEF HistoryInit, ReadingsInv
<1>2. ReadingsInv /\ [HistoryNext]_historyVars => ReadingsInv'
  <2> SUFFICES ASSUME ReadingsInv, [HistoryNext]_historyVars PROVE ReadingsInv'
    OBVIOUS
  <2>1. CASE UNCHANGED readings
    BY <2>1 DEF ReadingsInv
  <2> QED
    BY <2>1, ArriveStep
    DEF HistoryNext, AnswerNow, AnswerHistory, LoadAgain, historyVars
<1> QED BY <1>1, <1>2, PTL DEF HistorySpec

(* The order of the pages.                                                  *)
LEMMA NewerOrder ==
  ASSUME ReadingsInv
  PROVE  /\ \A x \in readings : ~Newer(x, x)
         /\ \A x, y, z \in readings : Newer(x, y) /\ Newer(y, z) => Newer(x, z)
         /\ \A x, y \in readings : x = y \/ Newer(x, y) \/ Newer(y, x)
<1>1. \A x \in readings : x.at \in Int /\ x.id \in Int
  BY RowTypes DEF ReadingsInv
<1>2. \A x, y \in readings : x.id = y.id => x = y
  BY DEF ReadingsInv
<1> QED BY <1>1, <1>2 DEF Newer

(* The place of a row, from the newest.                                     *)
NewerRows(rows, r) == {x \in rows : Newer(x, r)}
Place(rows, r) == 1 + Cardinality(NewerRows(rows, r))

LEMMA PlaceType ==
  ASSUME ReadingsInv, NEW rows \in SUBSET readings, NEW r \in rows
  PROVE  /\ IsFiniteSet(rows) /\ Cardinality(rows) \in Nat
         /\ IsFiniteSet(NewerRows(rows, r)) /\ Cardinality(NewerRows(rows, r)) \in Nat
         /\ Place(rows, r) \in 1 .. Cardinality(rows)
<1>1. IsFiniteSet(rows) /\ Cardinality(rows) \in Nat
  BY FS_Subset, FS_CardinalityType DEF ReadingsInv
<1>2. IsFiniteSet(rows \ {r}) /\ Cardinality(rows \ {r}) = Cardinality(rows) - 1
  BY <1>1, FS_RemoveElement
<1>3. NewerRows(rows, r) \in SUBSET (rows \ {r})
  BY NewerOrder DEF NewerRows
<1>4. /\ IsFiniteSet(NewerRows(rows, r))
      /\ Cardinality(NewerRows(rows, r)) <= Cardinality(rows) - 1
  BY <1>2, <1>3, FS_Subset
<1>5. Cardinality(NewerRows(rows, r)) \in Nat
  BY <1>4, FS_CardinalityType
<1> QED BY <1>1, <1>4, <1>5 DEF Place

LEMMA PlaceOrder ==
  ASSUME ReadingsInv, NEW rows \in SUBSET readings, NEW x \in rows, NEW y \in rows
  PROVE  /\ Newer(x, y) <=> Place(rows, x) < Place(rows, y)
         /\ x = y <=> Place(rows, x) = Place(rows, y)
<1>1. ASSUME NEW a \in rows, NEW b \in rows, Newer(a, b)
      PROVE  Place(rows, a) < Place(rows, b)
  <2>1. NewerRows(rows, a) \in SUBSET NewerRows(rows, b)
    BY <1>1, NewerOrder DEF NewerRows
  <2>2. NewerRows(rows, a) # NewerRows(rows, b)
    BY <1>1, NewerOrder DEF NewerRows
  <2>3. /\ Cardinality(NewerRows(rows, a)) <= Cardinality(NewerRows(rows, b))
        /\ Cardinality(NewerRows(rows, a)) # Cardinality(NewerRows(rows, b))
    BY <2>1, <2>2, PlaceType, FS_Subset
  <2>4. /\ Cardinality(NewerRows(rows, a)) \in Nat
        /\ Cardinality(NewerRows(rows, b)) \in Nat
    BY PlaceType
  <2> QED BY <2>3, <2>4 DEF Place
<1>2. Place(rows, x) \in Int /\ Place(rows, y) \in Int
  BY PlaceType
<1>3. x = y \/ Newer(x, y) \/ Newer(y, x)
  BY NewerOrder
<1>4. ~Newer(x, x)
  BY NewerOrder
<1>5. Newer(x, y) => Place(rows, x) < Place(rows, y)
  BY <1>1
<1>6. Newer(y, x) => Place(rows, y) < Place(rows, x)
  BY <1>1
<1>7. CASE x = y
  BY <1>2, <1>4, <1>7
<1>8. CASE x # y
  BY <1>2, <1>3, <1>5, <1>6, <1>8
<1> QED BY <1>7, <1>8

LEMMA PlaceTaken ==
  ASSUME ReadingsInv, NEW rows \in SUBSET readings, NEW i \in 1 .. Cardinality(rows)
  PROVE  \E r \in rows : Place(rows, r) = i
<1> DEFINE n == Cardinality(rows)
           place == [r \in rows |-> Place(rows, r)]
<1>1. n \in Nat /\ IsFiniteSet(1..n) /\ Cardinality(1..n) = n
  <2>1. n \in Nat
    BY FS_Subset, FS_CardinalityType DEF ReadingsInv
  <2> HIDE DEF n
  <2> QED BY <2>1, FS_Interval
<1>2. place \in Injection(rows, 1..n)
  BY PlaceType, PlaceOrder DEF Injection, IsInjective
<1>3. place \in Surjection(rows, 1..n)
  BY <1>1, <1>2, FS_Injection
<1> QED BY <1>3 DEF Surjection

(* A page holds the newest rows, each at its place.                         *)
HoldsNewest(sent, rows, limit) ==
  /\ \E n \in Nat : n <= limit /\ sent \in [1..n -> rows]
  /\ \A i \in DOMAIN sent : Place(rows, sent[i]) = i
  /\ \A r \in rows : Place(rows, r) <= limit =>
       Place(rows, r) \in DOMAIN sent /\ sent[Place(rows, r)] = r

LEMMA PageHolds ==
  ASSUME ReadingsInv, NEW rows \in SUBSET readings, NEW limit \in Nat
  PROVE  HoldsNewest(NewestFirst(rows, limit), rows, limit)
<1> DEFINE sent == NewestFirst(rows, limit)
           n == Cardinality(rows)
           size == IF n < limit THEN n ELSE limit
<1>1. n \in Nat
  BY FS_Subset, FS_CardinalityType DEF ReadingsInv
<1>2. sent = [i \in 1..size |-> CHOOSE r \in rows : Place(rows, r) = i]
  BY DEF NewestFirst, Place, NewerRows
<1> HIDE DEF n, sent
<1>3. size \in Nat /\ size <= n /\ size <= limit /\ DOMAIN sent = 1..size
  BY <1>1, <1>2
<1>4. ASSUME NEW i \in 1..size
      PROVE  sent[i] \in rows /\ Place(rows, sent[i]) = i
  <2>1. \E r \in rows : Place(rows, r) = i
    <3>1. i \in 1..n
      BY <1>1, <1>3
    <3> QED BY <3>1, PlaceTaken DEF n
  <2> QED BY <1>2, <2>1
<1>5. ASSUME NEW r \in rows, Place(rows, r) <= limit
      PROVE  Place(rows, r) \in 1..size /\ sent[Place(rows, r)] = r
  <2>1. Place(rows, r) \in 1..n
    BY PlaceType DEF n
  <2>2. Place(rows, r) \in 1..size
    BY <1>1, <1>5, <2>1
  <2>3. sent[Place(rows, r)] \in rows
        /\ Place(rows, sent[Place(rows, r)]) = Place(rows, r)
    BY <1>4, <2>2
  <2> QED BY <2>2, <2>3, PlaceOrder
<1> HIDE DEF size
<1>6. sent \in [1..size -> rows]
  BY <1>2, <1>3, <1>4
<1>7. HoldsNewest(sent, rows, limit)
  BY <1>3, <1>4, <1>5, <1>6 DEF HoldsNewest
<1> QED BY <1>7 DEF sent

(* What that says of the places, and of two rows of a page.                 *)
LEMMA PagePlaces ==
  ASSUME ReadingsInv, NEW rows \in SUBSET readings, NEW limit \in Nat, NEW sent,
         HoldsNewest(sent, rows, limit)
  PROVE  /\ DOMAIN sent \subseteq Nat /\ \A i \in DOMAIN sent : i <= limit
         /\ \A i \in DOMAIN sent :
              sent[i] \in rows /\ Place(rows, sent[i]) = i /\ 1 .. i - 1 \subseteq DOMAIN sent
         /\ \A r \in rows : Place(rows, r) <= limit =>
              Place(rows, r) \in DOMAIN sent /\ sent[Place(rows, r)] = r
         /\ \A i, j \in DOMAIN sent : i < j => Newer(sent[i], sent[j])
<1>1. PICK n \in Nat : n <= limit /\ sent \in [1..n -> rows]
  BY DEF HoldsNewest
<1>2. DOMAIN sent = 1..n /\ \A i \in DOMAIN sent : sent[i] \in rows
  BY <1>1
<1>3. \A i \in DOMAIN sent : Place(rows, sent[i]) = i
  BY DEF HoldsNewest
<1>4. \A i, j \in DOMAIN sent : i < j => Newer(sent[i], sent[j])
  BY <1>2, <1>3, PlaceOrder
<1>5. DOMAIN sent \subseteq Nat /\ \A i \in DOMAIN sent : i <= limit
  BY <1>1, <1>2
<1>6. \A i \in DOMAIN sent : 1 .. i - 1 \subseteq DOMAIN sent
  BY <1>2
<1>7. \A r \in rows : Place(rows, r) <= limit =>
        Place(rows, r) \in DOMAIN sent /\ sent[Place(rows, r)] = r
  BY DEF HoldsNewest
<1> QED BY <1>2, <1>3, <1>4, <1>5, <1>6, <1>7

(* The value now.                                                           *)

(* Of the readings in a page that have a value one is the latest.           *)
LEMMA LatestValue ==
  ASSUME ReadingsInv, NEW rows \in SUBSET readings, NEW limit \in Nat, NEW sent,
         HoldsNewest(sent, rows, limit),
         NEW valued \in SUBSET DOMAIN sent, valued # {}
  PROVE  \E i \in valued : \A j \in valued :
           sent[j].at < sent[i].at \/ (sent[j].at = sent[i].at /\ i <= j)
<1>1. /\ DOMAIN sent \subseteq Nat /\ \A i \in DOMAIN sent : sent[i] \in rows
      /\ \A i, j \in DOMAIN sent : i < j => Newer(sent[i], sent[j])
  BY PagePlaces
<1>2. PICK i \in valued : \A j \in valued : i <= j
  BY <1>1, FirstPlace
<1>3. ASSUME NEW j \in valued
      PROVE  sent[j].at < sent[i].at \/ (sent[j].at = sent[i].at /\ i <= j)
  <2>1. /\ i \in DOMAIN sent /\ j \in DOMAIN sent /\ i \in Nat /\ j \in Nat /\ i <= j
        /\ sent[i].at \in Int /\ sent[j].at \in Int
    BY <1>1, <1>2, RowTypes DEF ReadingsInv
  <2>2. CASE i = j
    BY <2>1, <2>2
  <2>3. CASE i # j
    <3>1. Newer(sent[i], sent[j])
      BY <1>1, <2>1, <2>3
    <3> QED BY <2>1, <3>1 DEF Newer
  <2> QED BY <2>2, <2>3
<1> QED BY <1>3

LEMMA NewestIsShown ==
  ASSUME ReadingsInv
  PROVE  NowIsNewest
<1> SUFFICES ASSUME Loaded, selected = Null PROVE NowIsNewest
  BY DEF NowIsNewest
<1>0. RecentLimit \in Nat
  BY LimitsAssumption
<1>1. PICK rows \in SUBSET readings : rows = Arrived(nowAt)
  BY DEF Arrived
<1>2. PICK sent : sent = NowPage /\ HoldsNewest(sent, rows, RecentLimit)
  BY <1>0, <1>1, PageHolds DEF NowPage
<1> DEFINE latest == LatestReadingPerSensor(sent)
           valued == {i \in latest : sent[i].value # Null}
           first(i) == \A j \in valued : sent[j].at < sent[i].at
                                           \/ (sent[j].at = sent[i].at /\ i <= j)
           hidden(y) == \E z \in rows : z.sensor = y.sensor /\ z.value = Null /\ Newer(z, y)
           crowdedOut(y) == Cardinality({z \in rows : Newer(z, y)}) >= RecentLimit
<1>3. /\ DOMAIN sent \subseteq Nat /\ \A i \in DOMAIN sent : i <= RecentLimit
      /\ \A i \in DOMAIN sent :
           sent[i] \in rows /\ Place(rows, sent[i]) = i /\ 1 .. i - 1 \subseteq DOMAIN sent
      /\ \A r \in rows : Place(rows, r) <= RecentLimit =>
           Place(rows, r) \in DOMAIN sent /\ sent[Place(rows, r)] = r
  BY <1>0, <1>2, PagePlaces
<1>4. \A i, j \in DOMAIN sent : i < j => Newer(sent[i], sent[j])
  BY <1>0, <1>2, PagePlaces
<1>5. \A r \in rows : r # Null /\ r.at \in Int
  BY RowTypes DEF ReadingsInv
<1>6. \A y \in rows : crowdedOut(y) <=> Place(rows, y) > RecentLimit
  <2>1. \A y \in rows : Cardinality(NewerRows(rows, y)) \in Nat
    BY PlaceType
  <2> QED BY <1>0, <2>1 DEF Place, NewerRows
<1>7. latest = {i \in DOMAIN sent :
                  /\ sent[i].sensor \in present
                  /\ \A j \in 1 .. i - 1 : sent[j].sensor # sent[i].sensor}
  BY DEF LatestReadingPerSensor
<1>8. ASSUME NEW p \in DOMAIN sent, sent[p].sensor \in present
      PROVE  \E i \in latest : i <= p /\ sent[i].sensor = sent[p].sensor
  <2> DEFINE same == {i \in DOMAIN sent : sent[i].sensor = sent[p].sensor}
  <2>1. same \in SUBSET Nat /\ same # {}
    BY <1>3
  <2>2. PICK i \in same : \A j \in same : i <= j
    BY <2>1, FirstPlace
  <2>3. \A j \in 1 .. i - 1 : sent[j].sensor # sent[i].sensor
    <3> SUFFICES ASSUME NEW j \in 1 .. i - 1, sent[j].sensor = sent[i].sensor PROVE FALSE
      OBVIOUS
    <3>1. i \in Nat /\ j \in DOMAIN sent
      BY <1>3
    <3>2. j \in same
      BY <3>1
    <3> QED BY <2>2, <3>1, <3>2
  <2> QED BY <1>7, <1>8, <2>2, <2>3
<1>9. valued # {} => \E i \in valued : first(i)
  <2> SUFFICES ASSUME valued # {} PROVE \E i \in valued : first(i)
    OBVIOUS
  <2>1. valued \in SUBSET DOMAIN sent
    BY <1>7
  <2> HIDE DEF valued
  <2> QED BY <1>0, <1>2, <2>1, LatestValue
<1>10. CurrentReading = IF valued = {} THEN Null ELSE sent[CHOOSE i \in valued : first(i)]
  BY <1>2 DEF CurrentReading, LatestMetricReading
(* A reading of a sensor that is there, in the page, and passed over.       *)
<1>11. ASSUME NEW y \in rows, y.sensor \in present, y.value # Null,
              NEW k \in Nat, Place(rows, y) <= RecentLimit, Place(rows, y) < k,
              \A i \in valued : i >= k
       PROVE  hidden(y)
  <2>1. /\ Place(rows, y) \in DOMAIN sent /\ sent[Place(rows, y)] = y
        /\ Place(rows, y) \in Nat
    BY <1>3, <1>11
  <2>2. PICK i \in latest : i <= Place(rows, y) /\ sent[i].sensor = y.sensor
    BY <1>8, <1>11, <2>1
  <2>3. i \in DOMAIN sent /\ i \in Nat /\ sent[i] \in rows
    BY <1>3, <1>7
  <2>4. i \notin valued
    BY <1>11, <2>1, <2>2, <2>3
  <2>5. sent[i].value = Null
    BY <2>4
  <2>6. i < Place(rows, y)
    BY <1>11, <2>1, <2>2, <2>3, <2>5
  <2>7. Newer(sent[i], y)
    BY <1>4, <2>1, <2>3, <2>6
  <2> QED BY <2>2, <2>3, <2>5, <2>7
<1>12. CASE valued = {}
  <2>1. CurrentReading = Null
    BY <1>10, <1>12
  <2>2. ASSUME NEW y \in rows, y.sensor \in present, y.value # Null, ~crowdedOut(y)
        PROVE  hidden(y)
    <3>1. Place(rows, y) \in Nat /\ Place(rows, y) <= RecentLimit
      BY <1>0, <1>6, <2>2, PlaceType
    <3>2. RecentLimit + 1 \in Nat /\ Place(rows, y) < RecentLimit + 1
      BY <1>0, <3>1
    <3> QED BY <1>11, <1>12, <2>2, <3>1, <3>2
  <2> QED BY <1>1, <2>1, <2>2 DEF NowIsNewest
<1>13. CASE valued # {}
  <2>1. PICK k \in valued : CurrentReading = sent[k] /\ first(k)
    BY <1>9, <1>10, <1>13
  <2>2. /\ k \in DOMAIN sent /\ k \in Nat /\ sent[k] \in rows
        /\ Place(rows, sent[k]) = k /\ sent[k].sensor \in present
    BY <1>3, <1>7
  <2>3. CurrentReading # Null /\ CurrentReading.sensor \in present
    BY <1>5, <2>1, <2>2
  <2>4. ASSUME NEW i \in valued
        PROVE  i >= k
    <3>1. i \in DOMAIN sent /\ i \in Nat
      BY <1>3, <1>7
    <3> SUFFICES ASSUME i < k PROVE FALSE
      BY <2>2, <3>1
    <3>2. Newer(sent[i], sent[k])
      BY <1>4, <2>2, <3>1
    <3>3. sent[i].at \in Int /\ sent[k].at \in Int
      BY <1>3, <1>5, <2>2, <3>1
    <3> QED BY <2>1, <2>2, <3>1, <3>2, <3>3 DEF Newer
  <2>5. ASSUME NEW y \in rows, y.sensor \in present, y.value # Null,
               Newer(y, CurrentReading)
        PROVE  hidden(y)
    <3>1. Place(rows, y) < k /\ Place(rows, y) \in Nat
      BY <2>1, <2>2, <2>5, PlaceOrder, PlaceType
    <3>2. Place(rows, y) <= RecentLimit
      BY <1>0, <1>3, <2>2, <3>1
    <3> QED BY <1>11, <2>2, <2>4, <2>5, <3>1, <3>2
  <2> QED BY <1>1, <2>3, <2>5 DEF NowIsNewest
<1> QED BY <1>12, <1>13

(* The overview shows a value of a sensor of the room, and passes a newer    *)
(* one over only if a still newer reading of that sensor came without one;   *)
(* a dash is shown only if each value is hidden so or stands behind a full   *)
(* page of newer readings (latestReadingPerSensor, latestMetricReading).     *)
THEOREM HistoryNowIsNewest == HistorySpec => []NowIsNewest
BY ReadingsInvHolds, NewestIsShown, PTL

(* Presence and openings.                                                   *)

LEMMA NewestEventIsShown ==
  ASSUME ReadingsInv
  PROVE  ActivityShowsNewest
<1>0. RecentLimit \in Nat
  BY LimitsAssumption
<1>1. PICK rows \in SUBSET readings : rows = InWindow(Arrived(nowAt))
  BY DEF Arrived, InWindow
<1>2. PICK sent : sent = EventPage /\ HoldsNewest(sent, rows, RecentLimit)
  BY <1>0, <1>1, PageHolds DEF EventPage
<1>3. /\ DOMAIN sent \subseteq Nat /\ \A i \in DOMAIN sent : i <= RecentLimit
      /\ \A i \in DOMAIN sent :
           sent[i] \in rows /\ Place(rows, sent[i]) = i /\ 1 .. i - 1 \subseteq DOMAIN sent
      /\ \A r \in rows : Place(rows, r) <= RecentLimit =>
           Place(rows, r) \in DOMAIN sent /\ sent[Place(rows, r)] = r
  BY <1>0, <1>2, PagePlaces
<1>4. \A y \in rows : Cardinality({z \in rows : Newer(z, y)}) >= RecentLimit
                        <=> Place(rows, y) > RecentLimit
  <2>1. \A y \in rows : Cardinality(NewerRows(rows, y)) \in Nat
    BY PlaceType
  <2> QED BY <1>0, <2>1 DEF Place, NewerRows
<1>5. ASSUME NEW s \in Sensors, NEW shown, shown = LatestOccupancyBySensor(sent)[s]
      PROVE  IF shown = Null
             THEN \A y \in rows : y.sensor = s => Place(rows, y) > RecentLimit
             ELSE \A y \in rows : y.sensor = s => ~Newer(y, shown)
  <2> DEFINE of == {i \in DOMAIN sent : sent[i].sensor = s}
  <2>1. shown = IF of = {} THEN Null ELSE sent[CHOOSE i \in of : \A j \in of : i <= j]
    BY <1>5 DEF LatestOccupancyBySensor
  <2>2. of \in SUBSET Nat
    BY <1>3
  <2>3. ASSUME NEW y \in rows, y.sensor = s, ~(Place(rows, y) > RecentLimit)
        PROVE  Place(rows, y) \in of /\ sent[Place(rows, y)] = y
    <3>1. Place(rows, y) \in Nat
      BY PlaceType
    <3>2. Place(rows, y) <= RecentLimit
      BY <1>0, <2>3, <3>1
    <3> QED BY <1>3, <2>3, <3>2
  <2>4. CASE of = {}
    BY <2>1, <2>3, <2>4
  <2>5. CASE of # {}
    <3>1. PICK k \in of : shown = sent[k] /\ \A j \in of : k <= j
      BY <2>1, <2>2, <2>5, FirstPlace
    <3>2. shown \in rows /\ Place(rows, shown) = k /\ k \in Nat /\ k <= RecentLimit
      BY <1>3, <3>1
    <3>3. shown # Null
      BY <3>2, RowTypes DEF ReadingsInv
    <3>4. ASSUME NEW y \in rows, y.sensor = s, Newer(y, shown)
          PROVE  FALSE
      <4>1. Place(rows, y) < k /\ Place(rows, y) \in Nat
        BY <3>2, <3>4, PlaceOrder, PlaceType
      <4>2. Place(rows, y) \in of
        BY <1>0, <2>3, <3>2, <3>4, <4>1
      <4> QED BY <3>1, <3>2, <4>1, <4>2
    <3> QED BY <3>3, <3>4
  <2> QED BY <2>4, <2>5
<1> QED BY <1>1, <1>2, <1>4, <1>5 DEF ActivityShowsNewest

(* A sensor has "No events yet" only if it had none in 24 hours or a full    *)
(* page of newer events hides them; the state that is shown is that of its   *)
(* newest event (latestOccupancyBySensor).                                  *)
THEOREM HistoryActivityShowsNewest == HistorySpec => []ActivityShowsNewest
BY ReadingsInvHolds, NewestEventIsShown, PTL

-----------------------------------------------------------------------------
(* The chart.                                                               *)

(* A fold over a finite set, by a choice of the element that comes last.    *)
Folds(it, D, base, last, step) ==
  \A T \in SUBSET D :
    it[T] = IF T = {} THEN base ELSE step[last[T]][it[T \ {last[T]}]]

(* Any fold is defined. *)
LEMMA FoldExists ==
  ASSUME NEW D, IsFiniteSet(D), NEW V, NEW base \in V,
         NEW last, \A T \in SUBSET D : T # {} => last[T] \in T,
         NEW step \in [D -> [V -> V]]
  PROVE  \E it \in [SUBSET D -> V] : Folds(it, D, base, last, step)
<1> DEFINE Upto(it, n) ==
             \A T \in SUBSET D : Cardinality(T) <= n =>
               it[T] = IF T = {} THEN base ELSE step[last[T]][it[T \ {last[T]}]]
           Exists(n) == \E it \in [SUBSET D -> V] : Upto(it, n)
           Bad == {n \in Nat : ~Exists(n)}
<1>1. \A T \in SUBSET D : IsFiniteSet(T) /\ Cardinality(T) \in Nat
  BY FS_Subset, FS_CardinalityType
<1>2. Exists(0)
  <2> DEFINE it == [T \in SUBSET D |-> base]
  <2>1. it \in [SUBSET D -> V]
    OBVIOUS
  <2>2. \A T \in SUBSET D : Cardinality(T) <= 0 => T = {}
    BY <1>1, FS_EmptySet
  <2>3. Upto(it, 0)
    BY <2>2
  <2> QED BY <2>1, <2>3
<1>3. ASSUME NEW n \in Nat, Exists(n)
      PROVE  Exists(n + 1)
  <2>1. PICK it \in [SUBSET D -> V] : Upto(it, n)
    BY <1>3
  <2> DEFINE next == [T \in SUBSET D |->
                        IF T = {} THEN base ELSE step[last[T]][it[T \ {last[T]}]]]
  <2>2. ASSUME NEW T \in SUBSET D, T # {}
        PROVE  /\ last[T] \in D /\ T \ {last[T]} \in SUBSET D
               /\ Cardinality(T \ {last[T]}) = Cardinality(T) - 1
    BY <1>1, <2>2, FS_RemoveElement
  <2>3. next \in [SUBSET D -> V]
    <3>1. \A T \in SUBSET D : T # {} => step[last[T]][it[T \ {last[T]}]] \in V
      BY <2>2
    <3> QED BY <3>1
  <2>4. \A T \in SUBSET D : Cardinality(T) <= n => next[T] = it[T]
    BY <2>1
  <2>5. ASSUME NEW T \in SUBSET D, Cardinality(T) <= n + 1, T # {}
        PROVE  next[T] = step[last[T]][next[T \ {last[T]}]]
    <3>1. Cardinality(T \ {last[T]}) <= n
      BY <1>1, <2>2, <2>5
    <3>2. next[T \ {last[T]}] = it[T \ {last[T]}]
      BY <2>2, <2>4, <2>5, <3>1
    <3> QED BY <2>5, <3>2
  <2>6. \A T \in SUBSET D : T = {} => next[T] = base
    OBVIOUS
  <2> HIDE DEF next
  <2>7. Upto(next, n + 1)
    BY <2>5, <2>6
  <2> QED BY <2>3, <2>7
<1>4. Bad = {}
  <2> SUFFICES ASSUME Bad # {} PROVE FALSE
    OBVIOUS
  <2>1. PICK n \in Bad : \A m \in Bad : n <= m
    BY FirstPlace
  <2> HIDE DEF Exists
  <2>2. n # 0 /\ n \in Nat
    BY <1>2
  <2>3. n - 1 \in Nat /\ n - 1 \notin Bad
    BY <2>1, <2>2
  <2>4. Exists(n - 1 + 1)
    BY <1>3, <2>3
  <2> QED BY <2>2, <2>4
<1>5. Cardinality(D) \in Nat
  BY FS_CardinalityType
<1>6. Exists(Cardinality(D))
  BY <1>4, <1>5
<1>7. PICK it \in [SUBSET D -> V] : Upto(it, Cardinality(D))
  BY <1>6
<1>8. \A T \in SUBSET D : Cardinality(T) <= Cardinality(D)
  BY FS_Subset
<1> QED BY <1>7, <1>8 DEF Folds

(* And only one is. *)
LEMMA FoldUnique ==
  ASSUME NEW D, IsFiniteSet(D), NEW base, NEW last,
         \A T \in SUBSET D : T # {} => last[T] \in T,
         NEW step, NEW it, NEW other,
         Folds(it, D, base, last, step), Folds(other, D, base, last, step)
  PROVE  \A T \in SUBSET D : it[T] = other[T]
<1> DEFINE Bad == {Cardinality(T) : T \in {S \in SUBSET D : it[S] # other[S]}}
<1>1. \A T \in SUBSET D : IsFiniteSet(T) /\ Cardinality(T) \in Nat
  BY FS_Subset, FS_CardinalityType
<1>2. Bad = {}
  <2> SUFFICES ASSUME Bad # {} PROVE FALSE
    OBVIOUS
  <2>1. Bad \in SUBSET Nat
    BY <1>1
  <2>2. PICK n \in Bad : \A m \in Bad : n <= m
    BY <2>1, FirstPlace
  <2>3. PICK T \in SUBSET D : it[T] # other[T] /\ Cardinality(T) = n
    BY <2>2
  <2>4. T # {}
    BY <2>3 DEF Folds
  <2>5. Cardinality(T \ {last[T]}) = n - 1 /\ T \ {last[T]} \in SUBSET D /\ n \in Nat
    BY <1>1, <2>3, <2>4, FS_RemoveElement
  <2>6. it[T \ {last[T]}] # other[T \ {last[T]}]
    BY <2>3, <2>4 DEF Folds
  <2>7. n - 1 \in Bad
    BY <2>5, <2>6
  <2> QED BY <2>2, <2>5, <2>7
<1> QED BY <1>2

(* The sum of the chart.                                                    *)
Some(D) == [T \in SUBSET D |-> CHOOSE x \in T : TRUE]
AddValue(D) == [r \in D |-> [n \in Int |-> n + r.value]]

LEMMA SumIsFold ==
  ASSUME NEW S, IsFiniteSet(S), \A r \in S : r.value \in Int
  PROVE  \E it \in [SUBSET S -> Int] :
           Folds(it, S, 0, Some(S), AddValue(S)) /\ SumOfValues(S) = it[S]
<1> DEFINE IsSum(it) ==
             it = [T \in SUBSET S |->
                     IF T = {} THEN 0
                     ELSE it[T \ {CHOOSE x \in T : TRUE}] + (CHOOSE x \in T : TRUE).value]
<1>1. SumOfValues(S) = (CHOOSE it : IsSum(it))[S]
  BY DEF SumOfValues, FoldSet, MapThenFoldSet
<1>2. \A T \in SUBSET S : T # {} => Some(S)[T] \in T
  BY DEF Some
<1>3. AddValue(S) \in [S -> [Int -> Int]]
  BY DEF AddValue
<1>4. PICK it \in [SUBSET S -> Int] : Folds(it, S, 0, Some(S), AddValue(S))
  <2> DEFINE last == Some(S)
             step == AddValue(S)
  <2>1. \A T \in SUBSET S : T # {} => last[T] \in T
    BY <1>2
  <2>2. step \in [S -> [Int -> Int]] /\ 0 \in Int
    BY <1>3
  <2> HIDE DEF last, step
  <2>3. \E it \in [SUBSET S -> Int] : Folds(it, S, 0, last, step)
    BY <2>1, <2>2, FoldExists
  <2> QED BY <2>3 DEF last, step
<1>5. ASSUME NEW T \in SUBSET S
      PROVE  it[T] = IF T = {} THEN 0
                     ELSE it[T \ {CHOOSE x \in T : TRUE}] + (CHOOSE x \in T : TRUE).value
  <2>1. CASE T = {}
    BY <1>4, <2>1 DEF Folds
  <2>2. CASE T # {}
    <3>1. PICK y \in T : y = Some(S)[T] /\ y = CHOOSE x \in T : TRUE
      BY <2>2 DEF Some
    <3>2. it[T] = AddValue(S)[y][it[T \ {y}]]
      BY <1>4, <2>2, <3>1 DEF Folds
    <3>3. it[T \ {y}] \in Int /\ y \in S
      BY <1>4
    <3>4. it[T] = it[T \ {y}] + y.value
      BY <3>2, <3>3 DEF AddValue
    <3> QED BY <2>2, <3>1, <3>4
  <2> QED BY <2>1, <2>2
<1>6. IsSum(it)
  BY <1>5
<1> HIDE DEF IsSum
<1>7. PICK sum : sum = (CHOOSE i : IsSum(i)) /\ IsSum(sum)
  BY <1>6
<1>8. ASSUME NEW T \in SUBSET S
      PROVE  /\ T = {} => sum[T] = 0
             /\ T # {} => sum[T] = sum[T \ {Some(S)[T]}] + Some(S)[T].value
  <2>1. sum[T] = IF T = {} THEN 0
                 ELSE sum[T \ {CHOOSE x \in T : TRUE}] + (CHOOSE x \in T : TRUE).value
    BY <1>7 DEF IsSum
  <2> QED BY <2>1 DEF Some
<1> DEFINE Wrong == {Cardinality(T) : T \in {R \in SUBSET S : sum[R] # it[R]}}
<1>9. Wrong = {}
  <2> SUFFICES ASSUME Wrong # {} PROVE FALSE
    OBVIOUS
  <2>1. Wrong \in SUBSET Nat
    BY FS_Subset, FS_CardinalityType
  <2>2. PICK n \in Wrong : \A m \in Wrong : n <= m
    BY <2>1, FirstPlace
  <2>3. PICK T \in SUBSET S : sum[T] # it[T] /\ Cardinality(T) = n
    BY <2>2
  <2>4. T # {}
    BY <1>4, <1>8, <2>3 DEF Folds
  <2>5. PICK y \in T : y = Some(S)[T]
    BY <1>2, <2>4
  <2>6. Cardinality(T \ {y}) = n - 1 /\ T \ {y} \in SUBSET S /\ n \in Nat
    BY <2>1, <2>2, <2>3, <2>5, FS_Subset, FS_RemoveElement
  <2>7. it[T] = AddValue(S)[y][it[T \ {y}]] /\ it[T \ {y}] \in Int
    BY <1>4, <2>4, <2>5, <2>6 DEF Folds
  <2>8. it[T] = it[T \ {y}] + y.value
    BY <2>7 DEF AddValue
  <2>9. sum[T] = sum[T \ {y}] + y.value
    BY <1>8, <2>4, <2>5
  <2>10. n - 1 \in Wrong
    BY <2>3, <2>6, <2>8, <2>9
  <2> QED BY <2>2, <2>6, <2>10
<1>10. sum[S] = it[S]
  BY <1>9
<1> QED BY <1>1, <1>4, <1>7, <1>10

LEMMA SumAdds ==
  ASSUME NEW S, IsFiniteSet(S), \A r \in S : r.value \in Int
  PROVE  /\ SumOfValues({}) = 0
         /\ \A T \in SUBSET S : SumOfValues(T) \in Int
         /\ \A T \in SUBSET S : \A x \in T :
              SumOfValues(T) = SumOfValues(T \ {x}) + x.value
<1>1. \A T \in SUBSET S : IsFiniteSet(T) /\ Cardinality(T) \in Nat
  BY FS_Subset, FS_CardinalityType
<1>2. PICK it \in [SUBSET S -> Int] : Folds(it, S, 0, Some(S), AddValue(S))
  BY SumIsFold
<1>3. ASSUME NEW T \in SUBSET S
      PROVE  SumOfValues(T) = it[T]
  <2>1. PICK other \in [SUBSET T -> Int] :
          Folds(other, T, 0, Some(T), AddValue(T)) /\ SumOfValues(T) = other[T]
    BY <1>1, SumIsFold
  <2>2. Folds(it, T, 0, Some(T), AddValue(T))
    <3> SUFFICES ASSUME NEW R \in SUBSET T
                 PROVE  it[R] = IF R = {} THEN 0
                                ELSE AddValue(T)[Some(T)[R]][it[R \ {Some(T)[R]}]]
      BY DEF Folds
    <3>1. R = {} => it[R] = 0
      BY <1>2 DEF Folds
    <3>2. CASE R # {}
      <4>1. PICK y \in R : y = Some(T)[R] /\ y = Some(S)[R]
        BY <3>2 DEF Some
      <4>2. it[R] = AddValue(S)[y][it[R \ {y}]]
        BY <1>2, <3>2, <4>1 DEF Folds
      <4>3. AddValue(S)[y] = AddValue(T)[y]
        BY DEF AddValue
      <4> QED BY <3>2, <4>1, <4>2, <4>3
    <3> QED BY <3>1, <3>2
  <2>3. \A R \in SUBSET T : R # {} => Some(T)[R] \in R
    BY DEF Some
  <2>4. \A R \in SUBSET T : it[R] = other[R]
    BY <1>1, <2>1, <2>2, <2>3, FoldUnique
  <2> QED BY <2>1, <2>4
<1> DEFINE Adds(T, x) == it[T] = it[T \ {x}] + x.value
           Wrong == {Cardinality(T) : T \in {R \in SUBSET S : \E x \in R : ~Adds(R, x)}}
<1>4. ASSUME NEW T \in SUBSET S, T # {}
      PROVE  \E y \in T : Adds(T, y)
  <2>1. PICK y \in T : y = Some(S)[T]
    BY <1>4 DEF Some
  <2>2. it[T] = AddValue(S)[y][it[T \ {y}]] /\ it[T \ {y}] \in Int
    BY <1>2, <1>4, <2>1 DEF Folds
  <2>3. Adds(T, y)
    BY <2>2 DEF AddValue
  <2> QED BY <2>3
<1>5. Wrong = {}
  <2> SUFFICES ASSUME Wrong # {} PROVE FALSE
    OBVIOUS
  <2>1. Wrong \in SUBSET Nat
    BY <1>1
  <2>2. PICK n \in Wrong : \A m \in Wrong : n <= m
    BY <2>1, FirstPlace
  <2>3. PICK T \in SUBSET S : (\E x \in T : ~Adds(T, x)) /\ Cardinality(T) = n
    BY <2>2
  <2>4. PICK x \in T : ~Adds(T, x)
    BY <2>3
  <2>5. PICK y \in T : Adds(T, y)
    BY <1>4
  <2>6. x # y
    BY <2>4, <2>5
  <2> DEFINE X == T \ {x}  Y == T \ {y}
  <2>7. /\ Cardinality(X) = n - 1 /\ X \in SUBSET S /\ y \in X
        /\ Cardinality(Y) = n - 1 /\ Y \in SUBSET S /\ x \in Y /\ n \in Nat
    BY <1>1, <2>3, <2>6, <2>4, FS_RemoveElement
  <2>8. n - 1 \notin Wrong
    BY <2>2, <2>7
  <2>9. Adds(X, y) /\ Adds(Y, x)
    BY <2>7, <2>8
  <2>10. X \ {y} = Y \ {x} /\ X \ {y} \in SUBSET S
    OBVIOUS
  <2>11. it[X] \in Int /\ it[Y] \in Int /\ it[X \ {y}] \in Int /\ it[T] \in Int
    BY <2>7, <2>10, <1>2
  <2>12. x.value \in Int /\ y.value \in Int
    BY <2>4, <2>5
  <2>13. it[T] = it[Y] + y.value /\ it[Y] = it[X \ {y}] + x.value
          /\ it[X] = it[X \ {y}] + y.value
    BY <2>5, <2>9, <2>10
  <2>14. it[T] = it[X] + x.value
    BY <2>11, <2>12, <2>13
  <2> QED BY <2>4, <2>14
<1>6. \A T \in SUBSET S : \A x \in T : it[T] = it[T \ {x}] + x.value
  BY <1>5
<1>7. it[{}] = 0
  BY <1>2 DEF Folds
<1>8. \A T \in SUBSET S : it[T] \in Int
  BY <1>2
<1>9. \A T \in SUBSET S : \A x \in T : T \ {x} \in SUBSET S
  OBVIOUS
<1> QED BY <1>3, <1>6, <1>7, <1>8, <1>9

(* The buckets of the chart, from a set of rows.                            *)
Within(rows, s) == {r \in rows : r.value # Null /\ Second(r) = s}

BucketOf(bucket, rows, s) ==
  IF rows = {} THEN bucket = Null
  ELSE /\ bucket \in Points
       /\ bucket.count = Cardinality(rows)
       /\ bucket.sum = SumOfValues(rows)
       /\ bucket.at \div 2 = s
       /\ \A r \in rows : r.at <= bucket.at

Buckets(K) == [K -> Points \cup {Null}]
BucketsOf(buckets, rows) ==
  \A s \in DOMAIN buckets : BucketOf(buckets[s], Within(rows, s), s)

LEMMA NoPoint == \A x \in Points : x # Null
  BY NoRowAssumption

LEMMA WithinType ==
  ASSUME NEW rows \in SUBSET Row, IsFiniteSet(rows), NEW s
  PROVE  /\ IsFiniteSet(Within(rows, s)) /\ Cardinality(Within(rows, s)) \in Nat
         /\ \A r \in Within(rows, s) : r \in Row /\ r.value \in Int /\ Second(r) = s
<1>1. Within(rows, s) \in SUBSET rows
  BY DEF Within
<1>2. \A r \in Within(rows, s) : r \in Row /\ r.value \in Int /\ Second(r) = s
  BY <1>1, ValuesAssumption DEF Within, Row
<1> QED BY <1>1, <1>2, FS_Subset, FS_CardinalityType

(* The bucket of a reading's second, with that reading.                     *)
LEMMA BucketGrows ==
  ASSUME NEW rows \in SUBSET Row, IsFiniteSet(rows), NEW r \in Row, r \notin rows,
         NEW s, r.value # Null, Second(r) = s,
         NEW bucket, BucketOf(bucket, Within(rows, s), s)
  PROVE  BucketOf(IF bucket = Null THEN Point(r) ELSE AddTo(bucket, r),
                  Within(rows \cup {r}, s), s)
<1> DEFINE before == Within(rows, s)
           after == Within(rows \cup {r}, s)
<1>1. after = before \cup {r} /\ r \notin before
  BY DEF Within
<1>2. /\ IsFiniteSet(before) /\ Cardinality(before) \in Nat
      /\ \A x \in before : x \in Row /\ x.value \in Int
  BY WithinType
<1>3. r.value \in Int /\ r.at \in Ticks /\ r.at \in Nat /\ r.sensor \in Sensors
  BY ValuesAssumption, TicksAssumption DEF Row
<1> HIDE DEF before, after
<1>4. IsFiniteSet(after) /\ Cardinality(after) = Cardinality(before) + 1
  BY <1>1, <1>2, FS_AddElement
<1>5. after \ {r} = before /\ r \in after /\ before \in SUBSET after
  BY <1>1
<1>6. \A x \in after : x.value \in Int
  BY <1>1, <1>2, <1>3
<1>7. /\ SumOfValues({}) = 0 /\ SumOfValues(before) \in Int
      /\ SumOfValues(after) = SumOfValues(before) + r.value
  BY <1>4, <1>5, <1>6, SumAdds
<1>8. r.at \div 2 = s
  BY DEF Second
<1>9. CASE before = {}
  <2>1. bucket = Null /\ Cardinality(before) = 0 /\ after = {r}
    BY <1>1, <1>9, FS_EmptySet DEF BucketOf, before
  <2>2. /\ Point(r) \in Points /\ Point(r).count = 1 /\ Point(r).sum = r.value
        /\ Point(r).at = r.at
    BY <1>3 DEF Point, Points
  <2>3. Cardinality(after) = 1 /\ SumOfValues(after) = r.value
    BY <1>3, <1>4, <1>7, <1>9, <2>1
  <2>4. BucketOf(Point(r), after, s)
    BY <1>3, <1>8, <2>1, <2>2, <2>3 DEF BucketOf
  <2> QED BY <2>1, <2>4 DEF after
<1>10. CASE before # {}
  <2>1. /\ bucket \in Points /\ bucket.count = Cardinality(before)
        /\ bucket.sum = SumOfValues(before) /\ bucket.at \div 2 = s
        /\ \A x \in before : x.at <= bucket.at
    BY <1>10 DEF BucketOf, before
  <2>2. bucket # Null
    BY <2>1, NoPoint
  <2>3. PICK b : b = AddTo(bucket, r)
    OBVIOUS
  <2>4. bucket.at \in Ticks /\ bucket.at \in Nat /\ bucket.sum \in Int /\ bucket.count \in Nat
    BY <2>1, TicksAssumption DEF Points
  <2>5. /\ b.sum = bucket.sum + r.value /\ b.count = bucket.count + 1
        /\ b.at = IF r.at > bucket.at THEN r.at ELSE bucket.at
        /\ b \in Points
    <3>1. bucket.sum + r.value \in Int /\ bucket.count + 1 \in Nat
      BY <1>3, <2>4
    <3>2. (IF r.at > bucket.at THEN r.at ELSE bucket.at) \in Ticks
      BY <1>3, <2>4
    <3> QED BY <2>3, <3>1, <3>2 DEF AddTo, Points
  <2>6. b.at \div 2 = s
    BY <1>8, <2>1, <2>5
  <2>7. \A x \in after : x.at <= b.at
    <3>1. \A x \in before : x.at \in Nat
      BY <1>2, TicksAssumption DEF Row
    <3> QED BY <1>1, <1>3, <2>1, <2>4, <2>5, <3>1
  <2>8. b.count = Cardinality(after) /\ b.sum = SumOfValues(after)
    BY <1>4, <1>7, <2>1, <2>5
  <2>9. BucketOf(b, after, s)
    BY <1>5, <2>5, <2>6, <2>7, <2>8 DEF BucketOf
  <2> QED BY <2>2, <2>3, <2>9 DEF after
<1> QED BY <1>9, <1>10

LEMMA PutKeeps ==
  ASSUME NEW rows \in SUBSET Row, IsFiniteSet(rows), NEW r \in Row, r \notin rows,
         NEW K, Second(r) \in K, NEW buckets \in Buckets(K), BucketsOf(buckets, rows)
  PROVE  Put(buckets, r) \in Buckets(K) /\ BucketsOf(Put(buckets, r), rows \cup {r})
<1> DEFINE t == Second(r)
           after == Put(buckets, r)
<1>1. DOMAIN buckets = K
  BY DEF Buckets
<1>2. CASE r.value = Null
  <2>1. after = buckets
    BY <1>2 DEF Put
  <2>2. \A s : Within(rows \cup {r}, s) = Within(rows, s)
    BY <1>2 DEF Within
  <2> QED BY <2>1, <2>2 DEF BucketsOf
<1>3. CASE r.value # Null
  <2> DEFINE new == IF buckets[t] = Null THEN Point(r) ELSE AddTo(buckets[t], r)
  <2>1. after = [buckets EXCEPT ![t] = new]
    BY <1>3 DEF Put
  <2>2. BucketOf(new, Within(rows \cup {r}, t), t)
    BY <1>1, <1>3, BucketGrows DEF BucketsOf
  <2>3. r \in Within(rows \cup {r}, t)
    BY <1>3 DEF Within
  <2>4. new \in Points
    BY <2>2, <2>3 DEF BucketOf
  <2> HIDE DEF new, after
  <2>5. after \in Buckets(K)
    BY <2>1, <2>4 DEF Buckets
  <2>6. ASSUME NEW s \in K PROVE BucketOf(after[s], Within(rows \cup {r}, s), s)
    <3>1. CASE s = t
      BY <1>1, <2>1, <2>2, <3>1
    <3>2. CASE s # t
      <4>1. Within(rows \cup {r}, s) = Within(rows, s)
        BY <3>2 DEF Within
      <4>2. after[s] = buckets[s]
        BY <1>1, <2>1, <3>2
      <4> QED BY <1>1, <4>1, <4>2 DEF BucketsOf
    <3> QED BY <3>1, <3>2
  <2>7. DOMAIN after = K
    BY <2>5 DEF Buckets
  <2> QED BY <2>5, <2>6, <2>7 DEF BucketsOf, after
<1> QED BY <1>2, <1>3

LEMMA LastPlace ==
  ASSUME NEW n \in Nat, NEW T \in SUBSET (1..n), T # {}
  PROVE  Max(T) \in T /\ \A j \in T : Max(T) >= j
<1> DEFINE behind == {n - i : i \in T}
<1>1. \A i \in T : i \in Int /\ n - i \in Nat
  OBVIOUS
<1>2. behind \in SUBSET Nat /\ behind # {}
  BY <1>1
<1>3. PICK d \in behind : \A e \in behind : d <= e
  BY <1>2, FirstPlace
<1>4. PICK i \in T : d = n - i
  BY <1>3
<1>5. \A j \in T : n - j \in behind /\ j \in Int
  OBVIOUS
<1>6. \A j \in T : i >= j
  BY <1>3, <1>4, <1>5
<1> QED BY <1>6 DEF Max

LEMMA PutType ==
  ASSUME NEW K, NEW buckets \in Buckets(K), NEW r \in Row, Second(r) \in K
  PROVE  Put(buckets, r) \in Buckets(K)
<1> DEFINE t == Second(r)
<1>1. CASE r.value = Null
  BY <1>1 DEF Put
<1>2. CASE r.value # Null
  <2>1. r.value \in Int /\ r.at \in Ticks /\ r.at \in Nat /\ r.sensor \in Sensors
    BY <1>2, ValuesAssumption, TicksAssumption DEF Row
  <2>2. Point(r) \in Points
    BY <2>1 DEF Point, Points
  <2>3. ASSUME NEW b \in Points
        PROVE  AddTo(b, r) \in Points
    <3>1. b.sum + r.value \in Int /\ b.count + 1 \in Nat
      BY <2>1 DEF Points
    <3>2. (IF r.at > b.at THEN r.at ELSE b.at) \in Ticks
      BY <2>1 DEF Points
    <3> QED BY <3>1, <3>2 DEF AddTo, Points
  <2> DEFINE new == IF buckets[t] = Null THEN Point(r) ELSE AddTo(buckets[t], r)
  <2>4. new \in Points
    BY <2>2, <2>3 DEF Buckets
  <2>5. Put(buckets, r) = [buckets EXCEPT ![t] = new]
    BY <1>2 DEF Put
  <2> HIDE DEF new
  <2> QED BY <2>4, <2>5 DEF Buckets
<1> QED BY <1>1, <1>2

(* The chart is what the buckets hold at the end.                           *)
LEMMA ChartIsFold ==
  ASSUME NEW n \in Nat, NEW sent \in [1..n -> Row],
         \A i, j \in 1..n : sent[i] = sent[j] => i = j
  PROVE  \E buckets \in Buckets({Second(r) : r \in ToSet(sent)}) :
           /\ BucketsOf(buckets, ToSet(sent))
           /\ OverviewMetricSeries(sent) =
                [s \in {t \in DOMAIN buckets : buckets[t] # Null} |-> buckets[s]]
<1> DEFINE D == 1..n
           K == {Second(r) : r \in ToSet(sent)}
           none == [s \in K |-> Null]
           last == [T \in SUBSET D |-> Max(T)]
           step == [i \in D |-> [b \in Buckets(K) |-> Put(b, sent[i])]]
           Fills(it) ==
             it = [T \in SUBSET D |->
                     IF T = {} THEN none ELSE Put(it[T \ {Max(T)}], sent[Max(T)])]
           filled == CHOOSE it : Fills(it)
           Upto(k) == {sent[i] : i \in 1..k}
<1>1. DOMAIN sent = D /\ ToSet(sent) = Upto(n)
  BY DEF ToSet
<1>2. OverviewMetricSeries(sent) =
        LET buckets == filled[D]
        IN [s \in {t \in DOMAIN buckets : buckets[t] # Null} |-> buckets[s]]
  BY <1>1 DEF OverviewMetricSeries, FoldLeft, MapThenFoldSet
<1>3. \A i \in D : sent[i] \in Row /\ Second(sent[i]) \in K
  BY <1>1
<1>4. none \in Buckets(K) /\ BucketsOf(none, {})
  BY DEF Buckets, BucketsOf, BucketOf, Within
<1>5. step \in [D -> [Buckets(K) -> Buckets(K)]]
  BY <1>3, PutType
<1>6. \A T \in SUBSET D : T # {} => last[T] = Max(T) /\ last[T] \in T
  BY LastPlace
<1>7. IsFiniteSet(D)
  BY FS_Interval
<1>8. \E it : Fills(it)
  <2> HIDE DEF last, step, D, K, none
  <2>1. PICK it \in [SUBSET D -> Buckets(K)] : Folds(it, D, none, last, step)
    BY <1>4, <1>5, <1>6, <1>7, FoldExists
  <2>2. ASSUME NEW T \in SUBSET D
        PROVE  it[T] = IF T = {} THEN none ELSE Put(it[T \ {Max(T)}], sent[Max(T)])
    <3>1. CASE T = {}
      BY <2>1, <3>1 DEF Folds
    <3>2. CASE T # {}
      <4>1. it[T] = step[Max(T)][it[T \ {Max(T)}]] /\ Max(T) \in D
        BY <1>6, <2>1, <3>2 DEF Folds
      <4>2. it[T \ {Max(T)}] \in Buckets(K)
        BY <2>1
      <4>3. it[T] = Put(it[T \ {Max(T)}], sent[Max(T)])
        BY <4>1, <4>2 DEF step
      <4> QED BY <3>2, <4>3
    <3> QED BY <3>1, <3>2
  <2>3. it = [T \in SUBSET D |-> it[T]]
    BY <2>1
  <2>4. Fills(it)
    BY <2>2, <2>3
  <2> HIDE DEF Fills
  <2> QED BY <2>4
<1> HIDE DEF Fills
<1>9. Fills(filled)
  BY <1>8
<1>10. \A T \in SUBSET D :
         filled[T] = IF T = {} THEN none ELSE Put(filled[T \ {Max(T)}], sent[Max(T)])
  BY <1>9 DEF Fills
<1> HIDE DEF filled, none, K
<1> DEFINE Right(k) == filled[1..k] \in Buckets(K) /\ BucketsOf(filled[1..k], Upto(k))
           Wrong == {k \in 0..n : ~Right(k)}
<1>11. Right(0)
  <2>1. 1..0 = {} /\ Upto(0) = {}
    OBVIOUS
  <2>2. filled[1..0] = none
    BY <1>10, <2>1
  <2> QED BY <1>4, <2>1, <2>2
<1>12. ASSUME NEW k \in 1..n, Right(k - 1)
       PROVE  Right(k)
  <2>1. k \in Nat /\ 1..k \in SUBSET D /\ k \in 1..k
    OBVIOUS
  <2>2. (1..k) \ {k} = 1..(k - 1)
    OBVIOUS
  <2>3. Max(1..k) = k
    <3> DEFINE T == 1..k
    <3>1. T \in SUBSET (1..n) /\ T # {}
      BY <2>1
    <3> HIDE DEF T
    <3>2. Max(T) \in T /\ \A j \in T : Max(T) >= j
      BY <3>1, LastPlace
    <3> QED BY <2>1, <3>2 DEF T
  <2>4. filled[1..k] = Put(filled[1..(k - 1)], sent[k])
    BY <1>10, <2>1, <2>2, <2>3
  <2>5. Upto(k) = Upto(k - 1) \cup {sent[k]} /\ sent[k] \notin Upto(k - 1)
    OBVIOUS
  <2>6. Upto(k - 1) \in SUBSET Row /\ IsFiniteSet(Upto(k - 1))
    <3> DEFINE f == [i \in 1..(k - 1) |-> sent[i]]
    <3>1. IsFiniteSet(1..(k - 1)) /\ 1..(k - 1) \in SUBSET D
      BY FS_Interval
    <3>2. f \in Surjection(1..(k - 1), Upto(k - 1))
      BY <3>1 DEF Surjection
    <3>3. Upto(k - 1) \in SUBSET Row
      BY <1>3, <3>1
    <3> HIDE DEF f, Upto
    <3> QED BY <3>1, <3>2, <3>3, FS_Surjection
  <2> HIDE DEF Upto
  <2>7. PICK b \in Buckets(K) : b = filled[1..(k - 1)] /\ BucketsOf(b, Upto(k - 1))
    BY <1>12
  <2>8. PICK r \in Row : r = sent[k] /\ Second(r) \in K
    BY <1>3
  <2>9. Put(b, r) \in Buckets(K) /\ BucketsOf(Put(b, r), Upto(k - 1) \cup {r})
    BY <2>5, <2>6, <2>7, <2>8, PutKeeps
  <2> QED BY <2>4, <2>5, <2>7, <2>8, <2>9
<1>13. Wrong = {}
  <2> SUFFICES ASSUME Wrong # {} PROVE FALSE
    OBVIOUS
  <2>1. PICK k \in Wrong : \A j \in Wrong : k <= j
    <3>1. Wrong \in SUBSET Nat
      OBVIOUS
    <3> HIDE DEF Wrong
    <3> QED BY <3>1, FirstPlace
  <2> HIDE DEF Right
  <2>2. k # 0
    BY <1>11, <2>1
  <2>3. k \in 1..n /\ k - 1 \in 0..n /\ k - 1 \notin Wrong
    BY <2>1, <2>2
  <2> QED BY <1>12, <2>1, <2>3
<1> HIDE DEF Right
<1>14. Right(n)
  BY <1>13
<1> QED BY <1>1, <1>2, <1>14 DEF K, Right

(* A row of a page is in the page of fewer rows, no further behind.         *)
LEMMA PlaceOfFewer ==
  ASSUME ReadingsInv, NEW rows \in SUBSET readings, NEW fewer \in SUBSET rows,
         NEW x \in fewer
  PROVE  Place(fewer, x) \in Nat /\ Place(fewer, x) >= 1
         /\ Place(fewer, x) <= Place(rows, x)
<1>1. NewerRows(fewer, x) \in SUBSET NewerRows(rows, x)
  BY DEF NewerRows
<1>2. fewer \in SUBSET readings /\ x \in rows
  OBVIOUS
<1>3. /\ IsFiniteSet(NewerRows(rows, x)) /\ Cardinality(NewerRows(rows, x)) \in Nat
      /\ Cardinality(NewerRows(fewer, x)) \in Nat
  BY <1>2, PlaceType
<1>4. Cardinality(NewerRows(fewer, x)) <= Cardinality(NewerRows(rows, x))
  BY <1>1, <1>3, FS_Subset
<1> QED BY <1>3, <1>4 DEF Place

LEMMA ChartIsRight ==
  ASSUME ReadingsInv
  PROVE  ChartAveragesEachSecond
<1> SUFFICES ASSUME Loaded, selected = Null PROVE ChartAveragesEachSecond
  BY DEF ChartAveragesEachSecond
<1>1. PICK rows \in SUBSET readings : rows = OfSelected(InWindow(Arrived(historyAt)))
  BY DEF Arrived, InWindow, OfSelected
<1>2. HistoryLimit \in Nat
  BY LimitsAssumption
<1>3. PICK sent : sent = HistoryPage /\ HoldsNewest(sent, rows, HistoryLimit)
  BY <1>1, <1>2, PageHolds DEF HistoryPage
<1>4. PICK n \in Nat :
        sent \in [1..n -> rows] /\ \A i, j \in 1..n : sent[i] = sent[j] => i = j
  <2>1. PICK n \in Nat : sent \in [1..n -> rows]
    BY <1>3 DEF HoldsNewest
  <2>2. \A i \in 1..n : Place(rows, sent[i]) = i
    BY <1>3, <2>1 DEF HoldsNewest
  <2> QED BY <2>1, <2>2
<1>5. sent \in [1..n -> Row] /\ rows \in SUBSET Row
  BY <1>4 DEF ReadingsInv
<1>6. PICK buckets \in Buckets({Second(r) : r \in ToSet(sent)}) :
        /\ BucketsOf(buckets, ToSet(sent))
        /\ OverviewMetricSeries(sent) =
             [s \in {t \in DOMAIN buckets : buckets[t] # Null} |-> buckets[s]]
  BY <1>4, <1>5, ChartIsFold
<1> DEFINE points == Series
           valued == {r \in ToSet(HistoryPage) : r.value # Null}
           within(s) == {r \in valued : Second(r) = s}
<1>7. points = [s \in {t \in DOMAIN buckets : buckets[t] # Null} |-> buckets[s]]
  BY <1>3, <1>6 DEF Series
<1>8. \A s : within(s) = Within(ToSet(sent), s)
  BY <1>3 DEF Within
<1>9. DOMAIN buckets = {Second(r) : r \in ToSet(sent)}
  BY <1>6 DEF Buckets
<1>10. \A s \in DOMAIN buckets : BucketOf(buckets[s], within(s), s)
  BY <1>6, <1>8 DEF BucketsOf
<1>11. \A s \in DOMAIN buckets : buckets[s] # Null <=> within(s) # {}
  BY <1>10, NoPoint DEF BucketOf
<1>12. DOMAIN points = {Second(r) : r \in valued}
  <2>1. \A r \in valued : Second(r) \in DOMAIN buckets /\ r \in within(Second(r))
    BY <1>3, <1>9
  <2>2. DOMAIN points = {t \in DOMAIN buckets : within(t) # {}}
    BY <1>7, <1>11
  <2> QED BY <2>1, <2>2
<1>13. ASSUME NEW s \in DOMAIN points
       PROVE  /\ points[s].count = Cardinality(within(s))
              /\ points[s].sum = SumOfValues(within(s))
              /\ points[s].at \div 2 = s
              /\ \A r \in within(s) : r.at <= points[s].at
  <2>1. s \in DOMAIN buckets /\ within(s) # {} /\ points[s] = buckets[s]
    BY <1>7, <1>11, <1>13
  <2> HIDE DEF points, within
  <2> QED BY <1>10, <2>1 DEF BucketOf
<1> QED BY <1>12, <1>13 DEF ChartAveragesEachSecond

(* The chart of the overview has one point for each second in which the      *)
(* loaded history has a value: the average of all readings of that second    *)
(* that have one, none twice, at the last of their times                     *)
(* (overviewMetricSeries).                                                  *)
THEOREM HistoryChartAverages == HistorySpec => []ChartAveragesEachSecond
BY ReadingsInvHolds, ChartIsRight, PTL

(* The range.                                                               *)

LEMMA ShownStands ==
  ASSUME ReadingsInv, selected = Null, CurrentReading # Null,
         NEW sent, sent = NowPage, HoldsNewest(sent, Arrived(nowAt), RecentLimit)
  PROVE  \E i \in DOMAIN sent : CurrentReading = sent[i] /\ sent[i].value # Null
<1>1. PICK rows \in SUBSET readings : rows = Arrived(nowAt)
  BY DEF Arrived
<1> DEFINE latest == LatestReadingPerSensor(sent)
           valued == {i \in latest : sent[i].value # Null}
           first(i) == \A j \in valued : sent[j].at < sent[i].at
                                           \/ (sent[j].at = sent[i].at /\ i <= j)
<1>2. CurrentReading = IF valued = {} THEN Null ELSE sent[CHOOSE i \in valued : first(i)]
  BY DEF CurrentReading, LatestMetricReading
<1>3. valued \in SUBSET DOMAIN sent /\ valued # {}
  BY <1>2 DEF LatestReadingPerSensor
<1>4. \E i \in valued : first(i)
  <2>1. RecentLimit \in Nat
    BY LimitsAssumption
  <2> HIDE DEF valued
  <2> QED BY <1>1, <1>3, <2>1, LatestValue
<1>5. PICK k \in valued : CurrentReading = sent[k]
  BY <1>2, <1>3, <1>4
<1> QED BY <1>3, <1>5

LEMMA InRangeOfPoint ==
  ASSUME NEW points, NEW k \in DOMAIN points, NEW v \in Int,
         points[k].sum = v, points[k].count = 1
  PROVE  InRange(v, points)
BY DEF InRange

LEMMA RangeIsRight ==
  ASSUME ReadingsInv
  PROVE  RangeCoversNow
<1> DEFINE x == CurrentReading
<1> SUFFICES ASSUME Loaded, nowAt = historyAt, x # Null, x.at >= from,
                    selected = Null => \A r \in readings \ {x} : Second(r) # Second(x)
             PROVE  InRange(x.value, Series)
  BY DEF RangeCoversNow
<1>1. PICK history \in SUBSET readings :
        history = OfSelected(InWindow(Arrived(historyAt)))
  BY DEF Arrived, InWindow, OfSelected
<1>2. /\ HistoryLimit \in Nat /\ 1 <= HistoryLimit
      /\ RecentLimit \in Nat /\ RecentLimit <= HistoryLimit
  BY LimitsAssumption
<1>3. PICK series : series = HistoryPage /\ HoldsNewest(series, history, HistoryLimit)
  BY <1>1, <1>2, PageHolds DEF HistoryPage
<1>4. ASSUME NEW r \in history, Place(history, r) <= HistoryLimit
      PROVE  Place(history, r) \in DOMAIN series /\ series[Place(history, r)] = r
  BY <1>3, <1>4 DEF HoldsNewest
<1>5. CASE selected # Null
  <2>1. PICK rows \in SUBSET readings : rows = OfSelected(Arrived(nowAt))
    BY DEF Arrived, OfSelected
  <2>2. PICK sent : sent = NowPage /\ HoldsNewest(sent, rows, 1)
    BY <1>5, <2>1, PageHolds DEF NowPage
  <2>3. sent # <<>> /\ x = sent[1] /\ x.value # Null
    BY <1>5, <2>2 DEF CurrentReading
  <2>4. x \in rows /\ Place(rows, x) = 1
    <3>1. PICK n \in Nat : sent \in [1..n -> rows]
      BY <2>2 DEF HoldsNewest
    <3>2. n # 0
      BY <2>3, <3>1
    <3>3. 1 \in DOMAIN sent /\ sent[1] \in rows
      BY <3>1, <3>2
    <3> QED BY <2>2, <2>3, <3>3 DEF HoldsNewest
  <2>5. history \in SUBSET rows /\ x \in history
    BY <1>1, <2>1, <2>4 DEF InWindow, OfSelected
  <2>6. Place(history, x) = 1
    BY <2>4, <2>5, PlaceOfFewer
  <2>7. 1 \in DOMAIN series /\ series[1] = x
    BY <1>2, <1>4, <2>5, <2>6
  <2>8. -1 \in {-i : i \in {j \in DOMAIN series : series[j].value # Null}}
    BY <2>3, <2>7
  <2>9. /\ Series = [k \in {-i : i \in {j \in DOMAIN series : series[j].value # Null}} |->
                      Point(series[-k])]
    BY <1>3, <1>5 DEF Series, MetricSeries
  <2>10. -1 \in DOMAIN Series /\ Series[-1] = Point(x)
    BY <2>7, <2>8, <2>9
  <2>11. x.value \in Int
    BY <2>3, <2>4, ValuesAssumption DEF ReadingsInv, Row
  <2> QED BY <2>10, <2>11, InRangeOfPoint DEF Point
<1>6. CASE selected = Null
  <2>1. PICK rows \in SUBSET readings : rows = Arrived(nowAt)
    BY DEF Arrived
  <2>2. PICK sent : sent = NowPage /\ HoldsNewest(sent, rows, RecentLimit)
    BY <1>2, <1>6, <2>1, PageHolds DEF NowPage
  <2>3. PICK p \in DOMAIN sent : x = sent[p] /\ x.value # Null
    BY <1>6, <2>1, <2>2, ShownStands
  <2>4. x \in rows /\ Place(rows, x) = p /\ p \in Nat /\ p <= RecentLimit
    <3>1. PICK n \in Nat : n <= RecentLimit /\ sent \in [1..n -> rows]
      BY <2>2 DEF HoldsNewest
    <3>2. p \in 1..n /\ x \in rows
      BY <2>3, <3>1
    <3>3. Place(rows, sent[p]) = p
      BY <2>2 DEF HoldsNewest
    <3> QED BY <1>2, <2>3, <3>1, <3>2, <3>3
  <2>5. history \in SUBSET rows /\ x \in history
    BY <1>1, <1>6, <2>1, <2>4 DEF InWindow, OfSelected
  <2>6. Place(history, x) \in Nat /\ Place(history, x) <= HistoryLimit
    BY <1>2, <2>4, <2>5, PlaceOfFewer
  <2>7. x \in ToSet(series)
    BY <1>4, <2>5, <2>6 DEF ToSet
  <2>8. ToSet(series) \in SUBSET readings
    BY <1>3 DEF HoldsNewest, ToSet
  <2> DEFINE valued == {r \in ToSet(series) : r.value # Null}
             within == {r \in valued : Second(r) = Second(x)}
  <2>9. within = {x}
    BY <1>6, <2>3, <2>7, <2>8
  <2>10. x.value \in Int /\ x \in Row
    BY <2>3, <2>4, ValuesAssumption DEF ReadingsInv, Row
  <2>11. /\ Second(x) \in DOMAIN Series
         /\ Series[Second(x)].count = Cardinality(within)
         /\ Series[Second(x)].sum = SumOfValues(within)
    <3>1. Second(x) \in {Second(r) : r \in valued}
      BY <2>3, <2>7
    <3> QED BY <1>3, <1>6, <3>1, ChartIsRight DEF ChartAveragesEachSecond
  <2> HIDE DEF x, within
  <2>12. Cardinality({x}) = 1 /\ IsFiniteSet({x})
    BY FS_Singleton
  <2>13. SumOfValues({x}) = x.value
    <3>1. /\ SumOfValues({}) = 0 /\ {x} \ {x} = {}
          /\ SumOfValues({x}) = SumOfValues({x} \ {x}) + x.value
      BY <2>10, <2>12, SumAdds
    <3> QED BY <2>10, <3>1
  <2> QED BY <2>9, <2>10, <2>11, <2>12, <2>13, InRangeOfPoint
<1> QED BY <1>5, <1>6

(* The range over 24 hours includes the value that is shown above it, unless *)
(* that is older, was averaged with others of its second or the two requests *)
(* were answered at different moments: the limits of the two pages never     *)
(* part them (seriesStats, latestMetricReading).                            *)
THEOREM HistoryRangeCoversNow == HistorySpec => []RangeCoversNow
BY ReadingsInvHolds, RangeIsRight, PTL
=============================================================================
