----------------------------- MODULE RoomDetail -----------------------------
(***************************************************************************)
(* The page of a room.  A load runs in two rounds of requests: the first   *)
(* brings the sensors of the room, and with them decides whether the       *)
(* selected sensor is still one of its environment sensors; the second     *)
(* brings the history of that sensor, or of the whole room (Null).  Loads  *)
(* start when the page is mounted or its room changes, every 30 seconds,   *)
(* on Refresh and Retry and on each selection, and they overlap; each      *)
(* takes a generation, and only the newest one may touch the page.         *)
(*                                                                         *)
(* Of what home-api answers the model keeps what was asked: a view is the  *)
(* load that brought it.  The answers themselves are free.                 *)
(***************************************************************************)
EXTENDS DashboardNames, Naturals, FiniteSets

CONSTANTS MaxGeneration,  \* bound: the loads of one visit
          MaxLoads        \* bound: the loads in flight

VARIABLES
  roomId,           \* the room in the address
  selectedSensorId, \* Null: the overview of the room
  loadGeneration,   \* loadGenerationRef
  loads,            \* the calls of loadDetail that have not returned
  view,             \* the last load that was stored; Null: fetchedAt is null
  loadState, errorMessage, refreshing

roomVars == <<roomId, selectedSensorId, loadGeneration, loads, view, loadState,
              errorMessage, refreshing>>

Load ==
  [generation : Nat, room : Rooms, round : {"room", "history"},
   sensor : Sensors \cup {Null}, envSensors : SUBSET Sensors, manual : BOOLEAN]

RoomTypeOK ==
  /\ roomId \in Rooms
  /\ selectedSensorId \in Sensors \cup {Null}
  /\ loadGeneration \in Nat
  /\ loads \subseteq Load
  /\ view \in Load \cup {Null}
  /\ loadState \in {"loading", "ready", "error", "not-found"}
  /\ errorMessage \in BOOLEAN
  /\ refreshing \in BOOLEAN

NewLoad(g, room, manual) ==
  [generation |-> g, room |-> room, round |-> "room", sensor |-> Null,
   envSensors |-> {}, manual |-> manual]

Newest(l) == l.generation = loadGeneration

(* The page as it is mounted: its first load is under way. *)
RoomInit ==
  /\ roomId \in Rooms
  /\ selectedSensorId = Null
  /\ loadGeneration = 1
  /\ loads = {NewLoad(1, roomId, FALSE)}
  /\ view = Null
  /\ loadState = "loading" /\ errorMessage = FALSE /\ refreshing = FALSE

(* The same as a step. *)
RoomMount(r) ==
  /\ roomId' = r
  /\ selectedSensorId' = Null
  /\ loadGeneration' = 1
  /\ loads' = {NewLoad(1, r, FALSE)}
  /\ view' = Null
  /\ loadState' = "loading" /\ errorMessage' = FALSE /\ refreshing' = FALSE

-----------------------------------------------------------------------------
(* loadDetail is called.                                                   *)

StartLoad(room, manual) ==
  /\ loadGeneration < MaxGeneration /\ Cardinality(loads) < MaxLoads
  /\ loadGeneration' = loadGeneration + 1
  /\ loads' = loads \cup {NewLoad(loadGeneration + 1, room, manual)}

ShowLoading == loadState' = "loading" /\ errorMessage' = FALSE
KeepState == UNCHANGED <<loadState, errorMessage>>

Poll ==
  /\ StartLoad(roomId, FALSE) /\ KeepState
  /\ UNCHANGED <<roomId, selectedSensorId, view, refreshing>>

Refresh ==
  /\ loadState = "ready" /\ view # Null
  /\ ~refreshing /\ refreshing' = TRUE
  /\ StartLoad(roomId, TRUE) /\ KeepState
  /\ UNCHANGED <<roomId, selectedSensorId, view>>

Retry ==
  /\ loadState = "error" /\ view = Null
  /\ StartLoad(roomId, FALSE) /\ ShowLoading
  /\ UNCHANGED <<roomId, selectedSensorId, view, refreshing>>

(* The chips of RoomAirView are buttons when the room has several sensors. *)
SelectSensor(s) ==
  /\ loadState = "ready" /\ view # Null
  /\ Cardinality(view.envSensors) > 1 /\ s \in view.envSensors \cup {Null}
  /\ s # selectedSensorId /\ selectedSensorId' = s
  /\ StartLoad(roomId, FALSE) /\ KeepState
  /\ UNCHANGED <<roomId, view, refreshing>>

(* The browser goes from the page of one room to that of another: the      *)
(* component stays mounted, useAutoRefresh loads anew.                     *)
GoToRoom(r) ==
  /\ r # roomId /\ roomId' = r
  /\ StartLoad(r, FALSE) /\ ShowLoading
  /\ UNCHANGED <<selectedSensorId, view, refreshing>>

-----------------------------------------------------------------------------
(* loadDetail goes on or returns.                                          *)

Return(l) ==
  /\ loads' = loads \ {l}
  /\ refreshing' = (refreshing /\ ~l.manual)

(* A newer load has started: the answer is dropped. *)
ReturnStale(l) ==
  /\ ~Newest(l) /\ Return(l) /\ KeepState
  /\ UNCHANGED <<roomId, selectedSensorId, loadGeneration, view>>

StillThere(envSensors) ==
  IF selectedSensorId \in envSensors THEN selectedSensorId ELSE Null

(* Mutant of FirstRound: a selection is kept although its sensor has left. *)
FirstRoundKeepsSelection(l, envSensors) ==
  /\ Newest(l) /\ l.round = "room"
  /\ loads' = (loads \ {l}) \cup
       {[l EXCEPT !.round = "history", !.sensor = StillThere(envSensors),
                  !.envSensors = envSensors]}
  /\ KeepState
  /\ UNCHANGED <<roomId, selectedSensorId, loadGeneration, view, refreshing>>

FirstRound(l, envSensors) ==
  /\ Newest(l) /\ l.round = "room"
  /\ selectedSensorId' = StillThere(envSensors)
  /\ loads' = (loads \ {l}) \cup
       {[l EXCEPT !.round = "history", !.sensor = StillThere(envSensors),
                  !.envSensors = envSensors]}
  /\ KeepState
  /\ UNCHANGED <<roomId, loadGeneration, view, refreshing>>

(* Mutant of SecondRound: the generation is compared after the first round *)
(* only.                                                                   *)
SecondRoundUnguarded(l) ==
  /\ l.round = "history"
  /\ view' = l
  /\ loadState' = "ready" /\ errorMessage' = FALSE
  /\ Return(l)
  /\ UNCHANGED <<roomId, selectedSensorId, loadGeneration>>

SecondRound(l) ==
  /\ Newest(l) /\ l.round = "history"
  /\ view' = l
  /\ loadState' = "ready" /\ errorMessage' = FALSE
  /\ Return(l)
  /\ UNCHANGED <<roomId, selectedSensorId, loadGeneration>>

(* A request of either round answers 404. *)
NotFound(l) ==
  /\ Newest(l)
  /\ view' = Null
  /\ loadState' = "not-found" /\ errorMessage' = FALSE
  /\ Return(l)
  /\ UNCHANGED <<roomId, selectedSensorId, loadGeneration>>

(* Mutant of LoadFails: nothing is stored of a load that fails. *)
LoadFailsSilently(l) ==
  /\ Newest(l) /\ KeepState /\ Return(l)
  /\ UNCHANGED <<roomId, selectedSensorId, loadGeneration, view>>

LoadFails(l) ==
  /\ Newest(l)
  /\ loadState' = IF view # Null THEN "ready" ELSE "error"
  /\ errorMessage' = TRUE
  /\ Return(l)
  /\ UNCHANGED <<roomId, selectedSensorId, loadGeneration, view>>

RoomNext ==
  \/ Poll \/ Refresh \/ Retry
  \/ \E s \in Sensors \cup {Null} : SelectSensor(s)
  \/ \E r \in Rooms : GoToRoom(r)
  \/ \E l \in loads :
       \/ ReturnStale(l) \/ SecondRound(l) \/ NotFound(l) \/ LoadFails(l)
       \/ \E envSensors \in SUBSET Sensors : FirstRound(l, envSensors)

-----------------------------------------------------------------------------
NewestInFlight == \E l \in loads : Newest(l)

(* What the page shows is what it says it shows: once the newest load has  *)
(* ended without an error, the history is that of the selected sensor, in  *)
(* the room of the address, and the sensor is one of those listed.  Until  *)
(* then a chart stands under the name of another sensor or room.           *)
ShowsSelection ==
  view # Null /\ loadState = "ready" /\ ~errorMessage /\ ~NewestInFlight
    => /\ view.room = roomId
       /\ view.sensor = selectedSensorId
       /\ selectedSensorId \in view.envSensors \cup {Null}

(* The page never waits for nothing: "Loading" and "Updating" are shown    *)
(* only as long as a load is in flight that will end them, although any    *)
(* load can be overtaken and its answer dropped.                           *)
LoadingEnds ==
  /\ loadState = "loading" => NewestInFlight
  /\ refreshing => \E l \in loads : l.manual

(* Answers are stored in the order of the questions: a load never replaces *)
(* what a later one has brought.                                           *)
NeverOlder ==
  [][view # Null /\ view' # Null /\ view' # view
     => view'.generation > view.generation]_roomVars

(* Loads that overlap come to the same as one question at a time: the      *)
(* newest load in flight is the question that stands, the others are       *)
(* never heard of, and their return is a step that nobody sees.            *)
Asked(l) ==
  [room |-> l.room, round |-> l.round, sensor |-> l.sensor, envSensors |-> l.envSensors]

Standing == IF NewestInFlight THEN Asked(CHOOSE l \in loads : Newest(l)) ELSE Null
Shown == IF view # Null THEN Asked(view) ELSE Null

AsIfOne == INSTANCE RoomPage WITH question <- Standing, shown <- Shown
OneQuestion == AsIfOne!PageSpec

ASSUME NoLoadAssumption == Null \notin Load \cup AsIfOne!Question
=============================================================================
