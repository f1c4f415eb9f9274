---------------------------- MODULE AlertDrawer -----------------------------
(***************************************************************************)
(* The drawer with the details of an alert, on the list of alerts and on   *)
(* the page of a room.  It asks for the alert that is selected; closing it *)
(* cancels the question.  It is modal: another alert is selected only once *)
(* it is closed.                                                           *)
(***************************************************************************)
EXTENDS DashboardNames, Naturals, Sequences, SequencesExt

CONSTANTS Alerts,
          MaxDetailCalls   \* bound: the requests in flight

ASSUME AlertsAssumption == Null \notin Alerts

VARIABLES
  alertId,       \* the selected alert, or Null
  detailCalls,   \* the requests that have not been answered
  detail, drawerState

drawerVars == <<alertId, detailCalls, detail, drawerState>>

DrawerInit ==
  /\ alertId = Null /\ detailCalls = <<>>
  /\ detail = Null /\ drawerState = "idle"

(* The same as a step. *)
DrawerMount ==
  /\ alertId' = Null /\ detailCalls' = <<>>
  /\ detail' = Null /\ drawerState' = "idle"

OpenAlert(a) ==
  /\ alertId = Null /\ alertId' = a
  /\ Len(detailCalls) < MaxDetailCalls
  /\ detailCalls' = Append(detailCalls, [alert |-> a, cancelled |-> FALSE])
  /\ detail' = Null /\ drawerState' = "loading"

(* Mutant of CloseAlert: the question is not cancelled. *)
CloseWithoutCancel ==
  /\ alertId # Null /\ alertId' = Null
  /\ detail' = Null /\ drawerState' = "idle"
  /\ UNCHANGED detailCalls

CloseAlert ==
  /\ alertId # Null /\ alertId' = Null
  /\ detailCalls' = [i \in DOMAIN detailCalls |->
                       [detailCalls[i] EXCEPT !.cancelled = TRUE]]
  /\ detail' = Null /\ drawerState' = "idle"

DetailReturns ==
  \E i \in DOMAIN detailCalls :
    /\ detailCalls' = RemoveAt(detailCalls, i)
    /\ IF detailCalls[i].cancelled THEN UNCHANGED <<detail, drawerState>>
       ELSE \/ detail' = detailCalls[i].alert /\ drawerState' = "ready"
            \/ detail' = detail /\ drawerState' \in {"not-found", "error"}
    /\ UNCHANGED alertId

DrawerNext ==
  (\E a \in Alerts : OpenAlert(a)) \/ CloseAlert \/ DetailReturns

-----------------------------------------------------------------------------
(* The details are those of the alert that is selected, and the drawer is  *)
(* loading exactly while the answer for that alert is under way, whatever  *)
(* answers to earlier selections are still to come.                        *)
DrawerShowsSelected ==
  /\ drawerState = "ready" => detail = alertId
  /\ drawerState = "idle" <=> alertId = Null
  /\ drawerState = "loading" <=>
       \E i \in DOMAIN detailCalls :
         ~detailCalls[i].cancelled /\ detailCalls[i].alert = alertId
=============================================================================
