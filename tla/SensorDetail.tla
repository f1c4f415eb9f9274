---------------------------- MODULE SensorDetail ----------------------------
(***************************************************************************)
(* The page of a sensor.  Its loads overlap as those of RoomDetail do, but *)
(* nothing tells an old answer from a new one: what returns last is shown, *)
(* be it of the sensor that the page showed before.  Unpair asks home-api  *)
(* to forget the sensor.                                                   *)
(*                                                                         *)
(* Of what a load has stored the model keeps which sensor it was of; the   *)
(* answers themselves, with the room and the history, are free.            *)
(***************************************************************************)
EXTENDS DashboardNames, Naturals, Sequences, SequencesExt

CONSTANTS MaxSensorLoads,  \* bound: the loads in flight
          MaxUnpairs       \* bound: the DELETEs in flight

VARIABLES
  sensorId,         \* the sensor in the address
  sensorLoads,      \* the calls of loadDetail that have not returned
  sensorView,       \* the sensor that is shown; Null: fetchedAt is null
  sensorState, sensorError, sensorRefreshing,
  unpairing,        \* the button is disabled
  unpairs           \* the calls of handleUnpair that have not returned

sensorVars == <<sensorId, sensorLoads, sensorView, sensorState, sensorError,
                sensorRefreshing, unpairing, unpairs>>

(* The page is mounted, and a first load is under way. *)
SensorInit ==
  /\ sensorId \in Sensors
  /\ sensorLoads = <<[sensor |-> sensorId, manual |-> FALSE]>>
  /\ sensorView = Null
  /\ sensorState = "loading" /\ sensorError = FALSE
  /\ sensorRefreshing = FALSE
  /\ unpairing = FALSE /\ unpairs = <<>>

Outlived(calls) == [i \in DOMAIN calls |-> [calls[i] EXCEPT !.mounted = FALSE]]

(* The same as a step.  A call of handleUnpair outlives the page, so that   *)
(* "mounted" says whether it was made by the page that is mounted now; what *)
(* becomes of it is left to the step.                                       *)
SensorMount(s) ==
  /\ sensorId' = s
  /\ sensorLoads' = <<[sensor |-> s, manual |-> FALSE]>>
  /\ sensorView' = Null
  /\ sensorState' = "loading" /\ sensorError' = FALSE
  /\ sensorRefreshing' = FALSE
  /\ unpairing' = FALSE

-----------------------------------------------------------------------------
(* loadDetail is called.                                                   *)

StartSensorLoad(s, manual) ==
  /\ Len(sensorLoads) < MaxSensorLoads
  /\ sensorLoads' = Append(sensorLoads, [sensor |-> s, manual |-> manual])

KeepSensorState == UNCHANGED <<sensorState, sensorError>>
KeepUnpairs == UNCHANGED <<unpairing, unpairs>>

PollSensor ==
  /\ StartSensorLoad(sensorId, FALSE) /\ KeepSensorState /\ KeepUnpairs
  /\ UNCHANGED <<sensorId, sensorView, sensorRefreshing>>

RefreshSensor ==
  /\ sensorState = "ready" /\ sensorView # Null
  /\ ~sensorRefreshing /\ sensorRefreshing' = TRUE
  /\ StartSensorLoad(sensorId, TRUE) /\ KeepSensorState /\ KeepUnpairs
  /\ UNCHANGED <<sensorId, sensorView>>

RetrySensor ==
  /\ sensorState = "error" /\ sensorView = Null
  /\ StartSensorLoad(sensorId, FALSE) /\ KeepUnpairs
  /\ sensorState' = "loading" /\ sensorError' = FALSE
  /\ UNCHANGED <<sensorId, sensorView, sensorRefreshing>>

(* From the page of one sensor to that of another, by the browser's history. *)
GoToSensor(s) ==
  /\ s # sensorId /\ sensorId' = s
  /\ StartSensorLoad(s, FALSE) /\ KeepUnpairs
  /\ sensorState' = "loading" /\ sensorError' = FALSE
  /\ UNCHANGED <<sensorView, sensorRefreshing>>

-----------------------------------------------------------------------------
(* loadDetail returns; any load in flight may be the first to.             *)

ReturnSensorLoad(i) ==
  /\ sensorLoads' = RemoveAt(sensorLoads, i)
  /\ sensorRefreshing' = (sensorRefreshing /\ ~sensorLoads[i].manual)
  /\ KeepUnpairs /\ UNCHANGED sensorId

StoreSensor(i) ==
  /\ ReturnSensorLoad(i)
  /\ sensorView' = sensorLoads[i].sensor
  /\ sensorState' = "ready" /\ sensorError' = FALSE

SensorNotFound(i) ==
  /\ ReturnSensorLoad(i)
  /\ sensorView' = Null
  /\ sensorState' = "not-found" /\ sensorError' = FALSE

(* Mutant of SensorFails: the error of a refresh is not kept. *)
SensorFailsSilently(i) ==
  /\ ReturnSensorLoad(i)
  /\ sensorState' = IF sensorView # Null THEN "ready" ELSE "error"
  /\ UNCHANGED <<sensorView, sensorError>>

SensorFails(i) ==
  /\ ReturnSensorLoad(i)
  /\ sensorState' = IF sensorView # Null THEN "ready" ELSE "error"
  /\ sensorError' = TRUE /\ UNCHANGED sensorView

SensorLoadReturns ==
  \E i \in DOMAIN sensorLoads :
    StoreSensor(i) \/ SensorNotFound(i) \/ SensorFails(i)

-----------------------------------------------------------------------------
(* handleUnpair, once confirmed.                                           *)

Unpair ==
  /\ sensorState = "ready" /\ sensorView # Null
  /\ ~unpairing /\ unpairing' = TRUE
  /\ Len(unpairs) < MaxUnpairs
  /\ unpairs' = Append(unpairs, [sensor |-> sensorId, mounted |-> TRUE])
  /\ UNCHANGED <<sensorId, sensorLoads, sensorView, sensorState, sensorError,
                 sensorRefreshing>>

(* The request has failed.  Neither the error nor the button of a page that *)
(* is not mounted any more is touched.                                      *)
UnpairFails(i) ==
  /\ unpairs' = RemoveAt(unpairs, i)
  /\ IF unpairs[i].mounted
     THEN unpairing' = FALSE /\ sensorError' = TRUE
     ELSE UNCHANGED <<unpairing, sensorError>>
  /\ UNCHANGED <<sensorId, sensorLoads, sensorView, sensorState,
                 sensorRefreshing>>

SensorNext ==
  \/ PollSensor \/ RefreshSensor \/ RetrySensor
  \/ \E s \in Sensors : GoToSensor(s)
  \/ SensorLoadReturns
  \/ Unpair
=============================================================================
