------------------------------ MODULE RoomPage ------------------------------
(***************************************************************************)
(* What the page of a room promises, however its loads overlap: it behaves *)
(* as if it asked one question at a time.  A new question takes the place  *)
(* of the one before, of which nothing is heard any more; only the answer  *)
(* to the question that stands is shown, and only that question ends the   *)
(* waiting.  There is no number, no set of loads and no late answer here.  *)
(***************************************************************************)
EXTENDS DashboardNames

VARIABLES
  roomId, selectedSensorId,
  question,   \* the one that stands, or Null
  shown,      \* the question whose answer is shown, or Null
  loadState, errorMessage

pageVars == <<roomId, selectedSensorId, question, shown, loadState, errorMessage>>

Question ==
  [room : Rooms, round : {"room", "history"},
   sensor : Sensors \cup {Null}, envSensors : SUBSET Sensors]

About(r) == [room |-> r, round |-> "room", sensor |-> Null, envSensors |-> {}]

PageInit ==
  /\ roomId \in Rooms /\ selectedSensorId = Null
  /\ question = About(roomId) /\ shown = Null
  /\ loadState = "loading" /\ errorMessage = FALSE

Open(r) ==
  /\ roomId' = r /\ selectedSensorId' = Null
  /\ question' = About(r) /\ shown' = Null
  /\ loadState' = "loading" /\ errorMessage' = FALSE

(* The questions: by the timer or Refresh, by Retry, about another sensor, *)
(* about another room.                                                     *)
AskAgain ==
  /\ question' = About(roomId)
  /\ UNCHANGED <<roomId, selectedSensorId, shown, loadState, errorMessage>>

AskAfterError ==
  /\ loadState = "error" /\ shown = Null
  /\ question' = About(roomId)
  /\ loadState' = "loading" /\ errorMessage' = FALSE
  /\ UNCHANGED <<roomId, selectedSensorId, shown>>

Select(s) ==
  /\ loadState = "ready" /\ shown # Null /\ s \in shown.envSensors \cup {Null}
  /\ selectedSensorId' = s
  /\ question' = About(roomId)
  /\ UNCHANGED <<roomId, shown, loadState, errorMessage>>

Move(r) ==
  /\ roomId' = r
  /\ question' = About(r)
  /\ loadState' = "loading" /\ errorMessage' = FALSE
  /\ UNCHANGED <<selectedSensorId, shown>>

(* What becomes of the one that stands.                                    *)
SensorsKnown(envSensors) ==
  /\ question # Null /\ question.round = "room"
  /\ selectedSensorId' = IF selectedSensorId \in envSensors THEN selectedSensorId ELSE Null
  /\ question' = [room |-> question.room, round |-> "history",
                  sensor |-> selectedSensorId', envSensors |-> envSensors]
  /\ UNCHANGED <<roomId, shown, loadState, errorMessage>>

Answered ==
  /\ question # Null /\ question.round = "history"
  /\ shown' = question /\ question' = Null
  /\ loadState' = "ready" /\ errorMessage' = FALSE
  /\ UNCHANGED <<roomId, selectedSensorId>>

Gone ==
  /\ question # Null /\ question' = Null /\ shown' = Null
  /\ loadState' = "not-found" /\ errorMessage' = FALSE
  /\ UNCHANGED <<roomId, selectedSensorId>>

Failed ==
  /\ question # Null /\ question' = Null
  /\ loadState' = (IF shown # Null THEN "ready" ELSE "error") /\ errorMessage' = TRUE
  /\ UNCHANGED <<roomId, selectedSensorId, shown>>

PageNext ==
  \/ \E r \in Rooms : Open(r) \/ Move(r)
  \/ \E s \in Sensors \cup {Null} : Select(s)
  \/ \E envSensors \in SUBSET Sensors : SensorsKnown(envSensors)
  \/ AskAgain \/ AskAfterError \/ Answered \/ Gone \/ Failed

PageSpec == PageInit /\ [][PageNext]_pageVars
=============================================================================
