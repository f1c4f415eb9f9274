----------------------------- MODULE Dashboard ------------------------------
(***************************************************************************)
(* The pages that show data, as the router mounts them (App.tsx): one at a *)
(* time, from its initial state.  What an unmounted page has asked for     *)
(* comes to nothing, with one exception: the call of handleUnpair goes to  *)
(* the list of sensors when it succeeds, from whatever page it finds.      *)
(*                                                                         *)
(* The drawer of an alert stands for the page it is on: it shares nothing  *)
(* with it but the selected alert.                                         *)
(***************************************************************************)
EXTENDS RoomDetail, SensorDetail, AlertsPage, AlertDrawer

VARIABLE page

vars == <<page, roomVars, sensorVars, alertsVars, drawerVars>>

Pages == {"sensors", "room", "sensor", "alerts", "drawer"}

someRoom == CHOOSE r \in Rooms : TRUE
someSensor == CHOOSE s \in Sensors : TRUE
someFilter == CHOOSE f \in Filters : TRUE

(* One that is not mounted has no state: its variables are left at fixed    *)
(* values.  The list of sensors, where a visit begins here, is SensorsPage. *)
Init ==
  /\ page = "sensors"
  /\ RoomInit /\ roomId = someRoom
  /\ SensorInit /\ sensorId = someSensor
  /\ AlertsInit /\ filter = someFilter
  /\ DrawerInit

Mount(p, r, s, f) ==
  /\ page' = p
  /\ RoomMount(r) /\ SensorMount(s) /\ AlertsMount(f) /\ DrawerMount

FollowLink(p) ==
  /\ p # page
  /\ \E r \in IF p = "room" THEN Rooms ELSE {someRoom},
        s \in IF p = "sensor" THEN Sensors ELSE {someSensor},
        f \in IF p = "alerts" THEN Filters ELSE {someFilter} : Mount(p, r, s, f)
  /\ unpairs' = Outlived(unpairs)

(* navigate('/sensors') *)
UnpairSucceeds(i) ==
  /\ Mount("sensors", someRoom, someSensor, someFilter)
  /\ unpairs' = Outlived(RemoveAt(unpairs, i))

UnpairReturns ==
  \E i \in DOMAIN unpairs :
    \/ UnpairSucceeds(i)
    \/ /\ UnpairFails(i)
       /\ UNCHANGED <<page, roomVars, alertsVars, drawerVars>>

RoomStep ==
  /\ page = "room" /\ RoomNext
  /\ UNCHANGED <<page, sensorVars, alertsVars, drawerVars>>

SensorStep ==
  /\ page = "sensor" /\ SensorNext
  /\ UNCHANGED <<page, roomVars, alertsVars, drawerVars>>

OnAlerts(step) ==
  /\ page = "alerts" /\ step
  /\ UNCHANGED <<page, roomVars, sensorVars, drawerVars>>

AlertsStep == OnAlerts(AlertsNext)

DrawerStep ==
  /\ page = "drawer" /\ DrawerNext
  /\ UNCHANGED <<page, roomVars, sensorVars, alertsVars>>

Next ==
  \/ \E p \in Pages : FollowLink(p)
  \/ UnpairReturns
  \/ RoomStep \/ SensorStep \/ AlertsStep \/ DrawerStep

Spec == Init /\ [][Next]_vars

(* Every request is answered or fails at last, and the timers of the page   *)
(* that is mounted go on.                                                   *)
OldestSensorLoadReturns ==
  /\ SensorStep /\ sensorLoads # <<>> /\ sensorLoads' = Tail(sensorLoads)

OldestAlertLoadReturns ==
  OnAlerts(alertLoads # <<>> /\ (StoreAlerts(1) \/ AlertsFail(1)))

FairSpec ==
  /\ Spec
  /\ WF_vars(OldestSensorLoadReturns) /\ WF_vars(OldestAlertLoadReturns)
  /\ WF_vars(SensorStep /\ PollSensor) /\ WF_vars(OnAlerts(PollAlerts))

-----------------------------------------------------------------------------
(* The page of a sensor, left alone, ends up with the sensor of its         *)
(* address, although an answer of the one before may arrive last: it shows  *)
(* that sensor and no other, unless its requests fail.                      *)
SensorCatchesUp ==
  \A s \in Sensors :
    <>[](page = "sensor" /\ sensorId = s)
      => <>[](sensorView \in {Null, s} \/ sensorError)

(* The list of alerts heals: as long as the filter stands it keeps coming   *)
(* back to what the filter would list, or to an error, whatever overtook    *)
(* what and however often more is loaded.                                   *)
AlertsCatchUp ==
  \A f \in Filters :
    <>[](page = "alerts" /\ filter = f)
      => []<>(alertsState # "loading" /\ (alertsError \/ OneList(f)))
=============================================================================
