------------------------------ MODULE Devices -------------------------------
(***************************************************************************)
(* The pages that change what the home consists of, as the router mounts   *)
(* them (App.tsx): the list of sensors with its scan dialog, and the page  *)
(* that organizes the home.  One is mounted at a time, from its initial    *)
(* state.  The calls of a page that is left go on, but change no page; to  *)
(* home-api and the gateway they are calls of another client.              *)
(***************************************************************************)
EXTENDS SensorsPage, SetupPage

VARIABLE page

vars == <<page, sensorsVars, setupVars>>

(* A page that is not mounted has no state: its variables, and what it      *)
(* shares with others, are left at fixed values.                            *)
Init ==
  /\ page = "sensors"
  /\ SensorsPageInit
  /\ SetupInit /\ home = Null

GoToSensors ==
  /\ page = "setup" /\ page' = "sensors"
  /\ \E known \in SUBSET Boards, state \in GatewayStates : SensorsPageMount(known, state)
  /\ SetupMount(Null)

GoToSetup ==
  /\ page = "sensors" /\ page' = "setup"
  /\ \E room \in Rooms \cup {Null} : SetupMount(room)
  /\ SensorsPageMount({}, "idle")

OnSensorsPage(step) ==
  page = "sensors" /\ step /\ UNCHANGED <<page, setupVars>>

OnSetupPage(step) ==
  page = "setup" /\ step /\ UNCHANGED <<page, sensorsVars>>

Next ==
  \/ GoToSensors \/ GoToSetup
  \/ OnSensorsPage(SensorsPageNext) \/ OnSetupPage(SetupNext)

Spec == Init /\ [][Next]_vars

(* Every request is answered or fails at last, and the timer of the dialog  *)
(* goes on.  A timer that finds all slots taken, which no bound of the code *)
(* stops, asks again when one is free.                                      *)
FairSpec ==
  /\ Spec
  /\ \A c \in Slots : WF_vars(OnSensorsPage(c \in Running /\ CallGoesOn(c)))
  /\ SF_vars(OnSensorsPage(PollCandidates))

-----------------------------------------------------------------------------
(* "Looking for devices" comes to an end: once the gateway does not scan    *)
(* any more, an answer that says so, or an error, gets to the dialog,       *)
(* whichever answers overtook it.                                           *)
ScanSettles ==
  <>[](page = "sensors" /\ gatewayState # "scanning")
    => []<>(~Looking \/ scanError)
=============================================================================
