---------------------------- MODULE DevicesProofs ----------------------------
(***************************************************************************)
(* Theorems about the pages that change the home, as the router mounts     *)
(* them: the page that organizes the home and the list of sensors with its *)
(* scan dialog, for any rooms, sensors, boards and number of calls in      *)
(* flight, and whatever other clients do meanwhile.                        *)
(*                                                                         *)
(* Each page has an inductive invariant that its mounting establishes and  *)
(* its own steps preserve; the steps of the other leave it alone.          *)
(***************************************************************************)
EXTENDS Devices, TLAPS

(***************************************************************************)
(* The page that organizes the home.                                       *)
(***************************************************************************)

(* What becomes of the calls when one begins, goes on or ends.             *)

LEMMA CallTypes ==
  /\ \A kind \in Kinds : LoadSetup(kind) \in SetupCall
  /\ \A kind \in Kinds, r \in Rooms \cup {Null}, s \in Sensors \cup {Null} :
       /\ Handler(kind, r, s) \in SetupCall
       /\ Handler(kind, r, s).kind = kind
       /\ Handler(kind, r, s).room = r
       /\ Handler(kind, r, s).sensor = s
       /\ Handler(kind, r, s).step = "request"
BY DEF LoadSetup, Handler, SetupCall

LEMMA CallBegins ==
  ASSUME SetupTypeOK, NEW call \in SetupCall, BeginCall(call)
  PROVE  /\ setupCalls' \in [SetupSlots -> SetupCall \cup {Null}]
         /\ Handles(call.kind, call.room, call.sensor)'
         /\ \A kind, room, sensor :
              Handles(kind, room, sensor) => Handles(kind, room, sensor)'
         /\ \E c \in SetupSlots \ RunningCalls :
              /\ RunningCalls' = RunningCalls \cup {c} /\ setupCalls'[c] = call
              /\ \A d \in RunningCalls : setupCalls'[d] = setupCalls[d]
<1>1. PICK c \in SetupSlots :
        setupCalls[c] = Null /\ setupCalls' = [setupCalls EXCEPT ![c] = call]
  BY DEF BeginCall
<1>2. setupCalls' \in [SetupSlots -> SetupCall \cup {Null}]
  BY <1>1 DEF SetupTypeOK
<1>3. setupCalls'[c] = call /\ call # Null
  BY <1>1, SetupAssumption DEF SetupTypeOK
<1>4. \A d \in RunningCalls : d # c /\ setupCalls'[d] = setupCalls[d]
  BY <1>1 DEF SetupTypeOK, RunningCalls
<1>5. RunningCalls' = RunningCalls \cup {c}
  <2>1. \A d \in SetupSlots : setupCalls'[d] = IF d = c THEN call ELSE setupCalls[d]
    BY <1>1 DEF SetupTypeOK
  <2> QED BY <1>3, <2>1 DEF RunningCalls
<1>6. Handles(call.kind, call.room, call.sensor)'
  BY <1>3, <1>5 DEF Handles
<1>7. \A kind, room, sensor :
        Handles(kind, room, sensor) => Handles(kind, room, sensor)'
  BY <1>4, <1>5 DEF Handles
<1> QED BY <1>2, <1>3, <1>4, <1>5, <1>6, <1>7

LEMMA CallAnswered ==
  ASSUME SetupTypeOK, NEW c \in RunningCalls,
         setupCalls' = [setupCalls EXCEPT ![c].step = "list"]
  PROVE  /\ setupCalls' \in [SetupSlots -> SetupCall \cup {Null}]
         /\ RunningCalls' = RunningCalls
         /\ \A d \in RunningCalls :
              /\ setupCalls'[d].kind = setupCalls[d].kind
              /\ setupCalls'[d].room = setupCalls[d].room
              /\ setupCalls'[d].sensor = setupCalls[d].sensor
              /\ setupCalls'[d].step = IF d = c THEN "list" ELSE setupCalls[d].step
<1>1. c \in SetupSlots /\ setupCalls[c] \in SetupCall
  BY DEF SetupTypeOK, RunningCalls
<1>2. [setupCalls[c] EXCEPT !.step = "list"] \in SetupCall
  BY <1>1 DEF SetupCall
<1>3. /\ setupCalls'[c] = [setupCalls[c] EXCEPT !.step = "list"]
      /\ \A d \in SetupSlots \ {c} : setupCalls'[d] = setupCalls[d]
      /\ setupCalls' \in [SetupSlots -> SetupCall \cup {Null}]
  BY <1>1, <1>2 DEF SetupTypeOK
<1>4. setupCalls'[c] # Null
  BY <1>2, <1>3, SetupAssumption
<1>5. RunningCalls' = RunningCalls
  BY <1>1, <1>3, <1>4 DEF RunningCalls
<1>6. /\ setupCalls'[c].kind = setupCalls[c].kind
      /\ setupCalls'[c].room = setupCalls[c].room
      /\ setupCalls'[c].sensor = setupCalls[c].sensor
      /\ setupCalls'[c].step = "list"
  BY <1>1, <1>3 DEF SetupCall
<1> QED BY <1>3, <1>5, <1>6 DEF RunningCalls

LEMMA CallEnds ==
  ASSUME SetupTypeOK, NEW c \in RunningCalls,
         setupCalls' = [setupCalls EXCEPT ![c] = Null]
  PROVE  /\ setupCalls' \in [SetupSlots -> SetupCall \cup {Null}]
         /\ RunningCalls' = RunningCalls \ {c}
         /\ \A d \in RunningCalls' : setupCalls'[d] = setupCalls[d]
         /\ \A kind, room, sensor :
              Handles(kind, room, sensor) /\ setupCalls[c].kind # kind
                => Handles(kind, room, sensor)'
<1>1. c \in SetupSlots
  BY DEF RunningCalls
<1>2. /\ setupCalls'[c] = Null
      /\ \A d \in SetupSlots \ {c} : setupCalls'[d] = setupCalls[d]
      /\ setupCalls' \in [SetupSlots -> SetupCall \cup {Null}]
  BY <1>1 DEF SetupTypeOK
<1>3. RunningCalls' = RunningCalls \ {c}
  BY <1>1, <1>2 DEF RunningCalls
<1>4. \A d \in RunningCalls' : setupCalls'[d] = setupCalls[d]
  BY <1>2, <1>3 DEF RunningCalls
<1>5. \A kind, room, sensor :
        Handles(kind, room, sensor) /\ setupCalls[c].kind # kind
          => Handles(kind, room, sensor)'
  BY <1>3, <1>4 DEF Handles
<1> QED BY <1>2, <1>3, <1>4, <1>5

-----------------------------------------------------------------------------
(* The kinds of steps.                                                     *)

Quietly == UNCHANGED <<setupCalls, flagVars>>

LoadBegins ==
  /\ \E kind \in Kinds : BeginCall(LoadSetup(kind))
  /\ UNCHANGED flagVars

HandlerBegins ==
  \/ CreateRoom
  \/ \E r \in Rooms : SaveRoom(r) \/ DeleteRoom(r)
  \/ \E s \in Sensors : SaveSensorName(s)
  \/ \E s \in Sensors, r \in Rooms, kind \in Moves : Move(kind, s, r)

HandlerEnds(c) == RequestFails(c) \/ ListArrives(c) \/ ListIsLost(c)

LEMMA SetupSteps ==
  ASSUME SetupNext
  PROVE  \/ Quietly \/ LoadBegins \/ HandlerBegins
         \/ \E c \in RunningCalls : RequestSucceeds(c) \/ HandlerEnds(c)
<1>1. CASE ToggleCreate \/ \E r \in Rooms \cup {Null} : EditRoom(r) \/ OthersMove(r)
  BY <1>1 DEF ToggleCreate, EditRoom, OthersMove, Quietly
<1>2. CASE \E s \in Sensors \cup {Null} : EditSensor(s)
  BY <1>2 DEF EditSensor, Quietly
<1>3. CASE PollSetup \/ RefreshSetup \/ RetrySetup
  BY <1>3 DEF PollSetup, RefreshSetup, RetrySetup, LoadBegins, Kinds
<1> QED BY <1>1, <1>2, <1>3 DEF SetupNext, HandlerBegins, HandlerEnds

LEMMA EndsCall ==
  ASSUME NEW c \in RunningCalls, HandlerEnds(c)
  PROVE  EndSetupCall(c) /\ Interfere(c)
BY DEF HandlerEnds, RequestFails, ListArrives, ListIsLost

-----------------------------------------------------------------------------
(* Types.                                                                  *)

PageTypeOK ==
  /\ setupState \in {"loading", "ready", "error"}
  /\ setupError \in BOOLEAN /\ listed \in BOOLEAN
  /\ showCreateRoom \in BOOLEAN
  /\ editingRoomId \in Rooms \cup {Null} /\ editingSensorId \in Sensors \cup {Null}

FlagTypeOK ==
  /\ creating \in BOOLEAN
  /\ savingRoomId \in Rooms \cup {Null} /\ deletingRoomId \in Rooms \cup {Null}
  /\ savingSensorId \in Sensors \cup {Null} /\ busySensorId \in Sensors \cup {Null}

CallTypeOK == setupCalls \in [SetupSlots -> SetupCall \cup {Null}]

HomeTypeOK ==
  /\ home \in Rooms \cup {Null} /\ choice \in Rooms \cup {Null, "open"}
  /\ interfered \in BOOLEAN

LEMMA TypeParts == SetupTypeOK <=> PageTypeOK /\ FlagTypeOK /\ CallTypeOK /\ HomeTypeOK
BY DEF SetupTypeOK, PageTypeOK, FlagTypeOK, CallTypeOK, HomeTypeOK

LEMMA CallTypeStep ==
  ASSUME SetupTypeOK, SetupNext
  PROVE  CallTypeOK'
<1> USE DEF CallTypeOK
<1>1. CASE Quietly
  BY <1>1 DEF Quietly, SetupTypeOK
<1>2. CASE LoadBegins
  BY <1>2, CallTypes, CallBegins DEF LoadBegins
<1>3. CASE HandlerBegins
  <2>1. \E call \in SetupCall : BeginCall(call)
    BY <1>3, CallTypes DEF HandlerBegins, CreateRoom, SaveRoom, DeleteRoom,
       SaveSensorName, Move, BeginHandler, Kinds, Moves
  <2> QED BY <2>1, CallBegins
<1>4. ASSUME NEW c \in RunningCalls, RequestSucceeds(c)
      PROVE  CallTypeOK'
  BY <1>4, CallAnswered DEF RequestSucceeds
<1>5. ASSUME NEW c \in RunningCalls, HandlerEnds(c)
      PROVE  CallTypeOK'
  BY <1>5, EndsCall, CallEnds DEF EndSetupCall
<1> QED BY <1>1, <1>2, <1>3, <1>4, <1>5, SetupSteps

LEMMA FlagTypeStep ==
  ASSUME FlagTypeOK, SetupNext
  PROVE  FlagTypeOK'
<1> USE DEF FlagTypeOK
<1>1. CASE Quietly \/ LoadBegins
  BY <1>1 DEF Quietly, LoadBegins, flagVars
<1>2. CASE HandlerBegins
  BY <1>2 DEF HandlerBegins, CreateRoom, SaveRoom, DeleteRoom, SaveSensorName, Move
<1>3. ASSUME NEW c \in RunningCalls, RequestSucceeds(c)
      PROVE  FlagTypeOK'
  BY <1>3 DEF RequestSucceeds, flagVars
<1>4. ASSUME NEW c \in RunningCalls, HandlerEnds(c)
      PROVE  FlagTypeOK'
  BY <1>4, EndsCall DEF EndSetupCall
<1> QED BY <1>1, <1>2, <1>3, <1>4, SetupSteps

LEMMA PageTypeStep ==
  ASSUME PageTypeOK, SetupNext
  PROVE  PageTypeOK'
<1> USE DEF PageTypeOK, KeepPage, formVars
<1>1. CASE PollSetup \/ RefreshSetup \/ RetrySetup \/ ToggleCreate
  BY <1>1 DEF PollSetup, RefreshSetup, RetrySetup, ToggleCreate
<1>2. ASSUME NEW r \in Rooms \cup {Null}, EditRoom(r) \/ OthersMove(r)
      PROVE  PageTypeOK'
  BY <1>2 DEF EditRoom, OthersMove
<1>3. ASSUME NEW s \in Sensors \cup {Null}, EditSensor(s)
      PROVE  PageTypeOK'
  BY <1>3 DEF EditSensor
<1>4. CASE HandlerBegins
  BY <1>4 DEF HandlerBegins, CreateRoom, SaveRoom, DeleteRoom, SaveSensorName,
     Move, BeginHandler
<1>5. ASSUME NEW c \in RunningCalls, RequestSucceeds(c)
      PROVE  PageTypeOK'
  BY <1>5 DEF RequestSucceeds
<1>6. ASSUME NEW c \in RunningCalls, HandlerEnds(c)
      PROVE  PageTypeOK'
  BY <1>6 DEF HandlerEnds, RequestFails, ListArrives, ListIsLost
<1> QED BY <1>1, <1>2, <1>3, <1>4, <1>5, <1>6 DEF SetupNext, HandlerBegins, HandlerEnds

LEMMA EffectType ==
  ASSUME HomeTypeOK, CallTypeOK, NEW c \in RunningCalls
  PROVE  Effect(setupCalls[c]) \subseteq Rooms \cup {Null}
<1>1. setupCalls[c] \in SetupCall
  BY DEF CallTypeOK, RunningCalls
<1>2. setupCalls[c].room \in Rooms \cup {Null}
  BY <1>1 DEF SetupCall
<1> QED BY <1>2 DEF Effect, HomeTypeOK

LEMMA HomeTypeStep ==
  ASSUME HomeTypeOK, CallTypeOK, SetupNext
  PROVE  HomeTypeOK'
<1>1. CASE PollSetup \/ RefreshSetup \/ RetrySetup \/ ToggleCreate
  BY <1>1 DEF PollSetup, RefreshSetup, RetrySetup, ToggleCreate, HomeTypeOK, homeVars
<1>2. ASSUME NEW r \in Rooms \cup {Null}, EditRoom(r) \/ OthersMove(r)
      PROVE  HomeTypeOK'
  BY <1>2 DEF EditRoom, OthersMove, HomeTypeOK, homeVars
<1>3. ASSUME NEW s \in Sensors \cup {Null}, EditSensor(s)
      PROVE  HomeTypeOK'
  BY <1>3 DEF EditSensor, HomeTypeOK, homeVars
<1>4. CASE CreateRoom \/ (\E r \in Rooms : SaveRoom(r) \/ DeleteRoom(r))
           \/ \E s \in Sensors : SaveSensorName(s)
  BY <1>4 DEF CreateRoom, SaveRoom, DeleteRoom, SaveSensorName, HomeTypeOK, homeVars
<1>5. ASSUME NEW s \in Sensors, NEW r \in Rooms, NEW kind \in Moves, Move(kind, s, r)
      PROVE  HomeTypeOK'
  <2>1. home' = home /\ choice' \in {choice, r, Null}
        /\ interfered' \in {interfered /\ MoveRuns, interfered \/ MoveRuns}
    BY <1>5 DEF Move, Choose
  <2> QED BY <2>1 DEF HomeTypeOK, MoveRuns
<1>6. ASSUME NEW c \in RunningCalls, RequestSucceeds(c)
      PROVE  HomeTypeOK'
  BY <1>6, EffectType DEF RequestSucceeds, HomeTypeOK
<1>7. ASSUME NEW c \in RunningCalls, HandlerEnds(c)
      PROVE  HomeTypeOK'
  <2>1. interfered' \in BOOLEAN
    BY <1>7, EndsCall DEF Interfere
  <2>2. CASE RequestFails(c)
    BY <2>1, <2>2, EffectType DEF RequestFails, HomeTypeOK
  <2>3. CASE ListArrives(c) \/ ListIsLost(c)
    BY <2>1, <2>3 DEF ListArrives, ListIsLost, HomeTypeOK
  <2> QED BY <1>7, <2>2, <2>3 DEF HandlerEnds
<1> QED BY <1>1, <1>2, <1>3, <1>4, <1>5, <1>6, <1>7
        DEF SetupNext, HandlerEnds

LEMMA SetupTypeStep ==
  ASSUME SetupTypeOK, [SetupNext]_setupVars
  PROVE  SetupTypeOK'
<1>1. CASE SetupNext
  <2>1. PageTypeOK' /\ FlagTypeOK' /\ CallTypeOK' /\ HomeTypeOK'
    BY <1>1, TypeParts, PageTypeStep, FlagTypeStep, CallTypeStep, HomeTypeStep
  <2> QED BY <2>1 DEF SetupTypeOK, PageTypeOK, FlagTypeOK, CallTypeOK, HomeTypeOK
<1>2. CASE UNCHANGED setupVars
  BY <1>2 DEF setupVars, formVars, flagVars, homeVars, SetupTypeOK
<1> QED BY <1>1, <1>2

(* The page as it is mounted, at first and later.                           *)
LEMMA FirstCallsType ==
  /\ FirstCalls \in [SetupSlots -> SetupCall \cup {Null}]
  /\ \A c \in SetupSlots : FirstCalls[c] # Null => FirstCalls[c].kind = "load"
BY CallTypes DEF FirstCalls, Kinds, LoadSetup

LEMMA SetupTypeInit == SetupInit => SetupTypeOK
BY FirstCallsType DEF SetupInit, SetupTypeOK

LEMMA SetupTypeMounted ==
  ASSUME NEW room \in Rooms \cup {Null}, SetupMount(room)
  PROVE  SetupTypeOK'
<1>1. PageTypeOK'
  BY DEF SetupMount, PageTypeOK
<1>2. FlagTypeOK'
  BY DEF SetupMount, FlagTypeOK
<1>3. CallTypeOK'
  BY FirstCallsType DEF SetupMount, CallTypeOK
<1>4. HomeTypeOK'
  BY DEF SetupMount, HomeTypeOK
<1> QED
  BY <1>1, <1>2, <1>3, <1>4
  DEF SetupTypeOK, PageTypeOK, FlagTypeOK, CallTypeOK, HomeTypeOK

-----------------------------------------------------------------------------
(* Disabled controls.                                                      *)

LEMMA DisabledStep ==
  ASSUME SetupTypeOK, DisabledHasHandler, [SetupNext]_setupVars
  PROVE  DisabledHasHandler'
<1>1. ASSUME \A kind, room, sensor :
               Handles(kind, room, sensor) => Handles(kind, room, sensor)',
             UNCHANGED flagVars
      PROVE  DisabledHasHandler'
  BY <1>1 DEF DisabledHasHandler, flagVars
<1>2. CASE Quietly \/ UNCHANGED setupVars
  BY <1>2 DEF Quietly, setupVars, flagVars, DisabledHasHandler, Handles, RunningCalls
<1>3. CASE LoadBegins
  BY <1>1, <1>3, CallTypes, CallBegins DEF LoadBegins
<1>4. CASE CreateRoom
  <2>1. Handler("create", Null, Null) \in SetupCall
    BY CallTypes DEF Kinds
  <2>2. /\ Handles("create", Null, Null)'
        /\ \A kind, room, sensor :
             Handles(kind, room, sensor) => Handles(kind, room, sensor)'
    BY <1>4, <2>1, CallBegins DEF CreateRoom, BeginHandler, Handler
  <2> QED BY <1>4, <2>2 DEF CreateRoom, DisabledHasHandler
<1>5. ASSUME NEW r \in Rooms, SaveRoom(r)
      PROVE  DisabledHasHandler'
  <2>1. Handler("saveRoom", r, Null) \in SetupCall
    BY CallTypes DEF Kinds
  <2>2. /\ Handles("saveRoom", r, Null)'
        /\ \A kind, room, sensor :
             Handles(kind, room, sensor) => Handles(kind, room, sensor)'
    BY <1>5, <2>1, CallBegins DEF SaveRoom, BeginHandler, Handler
  <2> QED BY <1>5, <2>2 DEF SaveRoom, DisabledHasHandler
<1>6. ASSUME NEW r \in Rooms, DeleteRoom(r)
      PROVE  DisabledHasHandler'
  <2>1. Handler("deleteRoom", r, Null) \in SetupCall
    BY CallTypes DEF Kinds
  <2>2. /\ Handles("deleteRoom", r, Null)'
        /\ \A kind, room, sensor :
             Handles(kind, room, sensor) => Handles(kind, room, sensor)'
    BY <1>6, <2>1, CallBegins DEF DeleteRoom, BeginHandler, Handler
  <2> QED BY <1>6, <2>2 DEF DeleteRoom, DisabledHasHandler
<1>7. ASSUME NEW s \in Sensors, SaveSensorName(s)
      PROVE  DisabledHasHandler'
  <2>1. Handler("saveSensor", Null, s) \in SetupCall
    BY CallTypes DEF Kinds
  <2>2. /\ Handles("saveSensor", Null, s)'
        /\ \A kind, room, sensor :
             Handles(kind, room, sensor) => Handles(kind, room, sensor)'
    BY <1>7, <2>1, CallBegins DEF SaveSensorName, BeginHandler, Handler
  <2> QED BY <1>7, <2>2 DEF SaveSensorName, DisabledHasHandler
<1>8. ASSUME NEW s \in Sensors, NEW r \in Rooms, NEW kind \in Moves, Move(kind, s, r)
      PROVE  DisabledHasHandler'
  <2>1. Handler(kind, r, s) \in SetupCall
    BY CallTypes DEF Kinds, Moves
  <2>2. /\ Handles(kind, r, s)'
        /\ \A k, room, sensor : Handles(k, room, sensor) => Handles(k, room, sensor)'
    BY <1>8, <2>1, CallBegins DEF Move, BeginHandler, Handler
  <2> QED BY <1>8, <2>2 DEF Move, DisabledHasHandler
<1>9. ASSUME NEW c \in RunningCalls, RequestSucceeds(c)
      PROVE  DisabledHasHandler'
  <2>1. \A kind, room, sensor :
          Handles(kind, room, sensor) => Handles(kind, room, sensor)'
    BY <1>9, CallAnswered DEF RequestSucceeds, Handles
  <2> QED BY <1>1, <1>9, <2>1 DEF RequestSucceeds
<1>10. ASSUME NEW c \in RunningCalls, HandlerEnds(c)
       PROVE  DisabledHasHandler'
  <2>1. \A kind, room, sensor :
          Handles(kind, room, sensor) /\ setupCalls[c].kind # kind
            => Handles(kind, room, sensor)'
    BY <1>10, EndsCall, CallEnds DEF EndSetupCall
  <2>2. /\ creating' => creating /\ setupCalls[c].kind # "create"
        /\ savingRoomId' # Null =>
             savingRoomId' = savingRoomId /\ setupCalls[c].kind # "saveRoom"
        /\ deletingRoomId' # Null =>
             deletingRoomId' = deletingRoomId /\ setupCalls[c].kind # "deleteRoom"
        /\ savingSensorId' # Null =>
             savingSensorId' = savingSensorId /\ setupCalls[c].kind # "saveSensor"
        /\ busySensorId' # Null =>
             busySensorId' = busySensorId /\ setupCalls[c].kind \notin Moves
    BY <1>10, EndsCall DEF EndSetupCall
  <2> QED BY <2>1, <2>2 DEF DisabledHasHandler
<1> QED BY <1>2, <1>3, <1>4, <1>5, <1>6, <1>7, <1>8, <1>9, <1>10, SetupSteps
        DEF HandlerBegins

-----------------------------------------------------------------------------
(* Moves of the watched sensor.                                            *)

(* The calls that move it *)
MovesIt(c) == setupCalls[c].kind \in Moves /\ setupCalls[c].sensor = watched

(* As long as no other sensor's handler interferes, one call moves it, and  *)
(* its controls are disabled meanwhile.                                     *)
OneMove ==
  ~interfered =>
    \A c \in RunningCalls : MovesIt(c) =>
      /\ busySensorId = watched
      /\ \A d \in RunningCalls : MovesIt(d) => d = c

(* That call is about the last choice, and has seen to it once it is        *)
(* answered.                                                                *)
OnItsWay ==
  ~interfered /\ choice # "open" =>
    \A c \in RunningCalls : MovesIt(c) =>
      /\ setupCalls[c].kind = "assign" => setupCalls[c].room = choice
      /\ setupCalls[c].kind = "unassign" => choice = Null
      /\ setupCalls[c].step = "list" => home = choice

ChoiceInv == OneMove /\ OnItsWay /\ LastChoiceWins

LEMMA ChoiceKept ==
  ASSUME ChoiceInv,
         \A c : c \in RunningCalls' /\ MovesIt(c)' <=> c \in RunningCalls /\ MovesIt(c),
         \A c \in RunningCalls : MovesIt(c) => setupCalls'[c] = setupCalls[c],
         busySensorId' = busySensorId /\ interfered' = interfered,
         (home' = home /\ choice' = choice) \/ choice' = "open"
  PROVE  ChoiceInv'
<1>1. OneMove'
  BY DEF ChoiceInv, OneMove
<1>2. OnItsWay'
  BY DEF ChoiceInv, OnItsWay
<1>3. LastChoiceWins'
  BY DEF ChoiceInv, LastChoiceWins, MoveRuns, MovesIt
<1> QED BY <1>1, <1>2, <1>3 DEF ChoiceInv

(* The same when no call moves the sensor, before or after.                 *)
LEMMA ChoiceIdle ==
  ASSUME ChoiceInv, ~interfered' => ~MoveRuns /\ ~MoveRuns', interfered => interfered',
         (home' = home /\ choice' = choice) \/ choice' = "open"
  PROVE  ChoiceInv'
BY DEF ChoiceInv, OneMove, OnItsWay, LastChoiceWins, MoveRuns, MovesIt

LEMMA OtherHandlerBegins ==
  ASSUME SetupTypeOK, ChoiceInv, NEW call \in SetupCall, BeginCall(call),
         call.kind \notin Moves, UNCHANGED <<busySensorId, homeVars>>
  PROVE  ChoiceInv'
<1>1. PICK c \in SetupSlots \ RunningCalls :
        /\ RunningCalls' = RunningCalls \cup {c} /\ setupCalls'[c] = call
        /\ \A d \in RunningCalls : setupCalls'[d] = setupCalls[d]
  BY CallBegins
<1>2. \A d : d \in RunningCalls' /\ MovesIt(d)' <=> d \in RunningCalls /\ MovesIt(d)
  BY <1>1 DEF MovesIt
<1> QED BY <1>1, <1>2, ChoiceKept DEF homeVars

LEMMA MoveBegins ==
  ASSUME SetupTypeOK, ChoiceInv,
         NEW s \in Sensors, NEW r \in Rooms, NEW kind \in Moves, Move(kind, s, r)
  PROVE  ChoiceInv'
<1> DEFINE call == Handler(kind, r, s)
<1>1. /\ call \in SetupCall /\ call.kind = kind /\ call.room = r
      /\ call.sensor = s /\ call.step = "request"
  BY CallTypes DEF Kinds, Moves
<1>2. BeginCall(call)
  BY DEF Move, BeginHandler
<1> HIDE DEF call
<1>3. PICK c \in SetupSlots \ RunningCalls :
        /\ RunningCalls' = RunningCalls \cup {c} /\ setupCalls'[c] = call
        /\ \A d \in RunningCalls : setupCalls'[d] = setupCalls[d]
  BY <1>1, <1>2, CallBegins
<1>4. \A d \in RunningCalls : MovesIt(d)' <=> MovesIt(d)
  BY <1>3 DEF MovesIt
<1>5. CASE s = watched
  <2>1. /\ busySensorId # watched /\ busySensorId' = watched
        /\ choice' = IF kind = "assign" THEN r ELSE Null
        /\ interfered' = (interfered /\ MoveRuns)
    BY <1>5 DEF Move, Choose
  <2>2. ~interfered' => \A d \in RunningCalls : ~MovesIt(d)
    BY <2>1 DEF ChoiceInv, OneMove, MoveRuns, MovesIt
  <2>3. c \in RunningCalls' /\ MovesIt(c)'
    BY <1>1, <1>3, <1>5 DEF MovesIt
  <2>4. OneMove'
    BY <1>3, <1>4, <2>1, <2>2 DEF OneMove
  <2>5. OnItsWay'
    BY <1>1, <1>3, <1>4, <2>1, <2>2 DEF OnItsWay
  <2>6. LastChoiceWins'
    BY <2>3 DEF LastChoiceWins, MoveRuns, MovesIt
  <2> QED BY <2>4, <2>5, <2>6 DEF ChoiceInv
<1>6. CASE s # watched
  <2>1. interfered' = (interfered \/ MoveRuns) /\ choice' = choice /\ home' = home
    BY <1>6 DEF Move, Choose
  <2>2. ~MovesIt(c)'
    BY <1>1, <1>3, <1>6 DEF MovesIt
  <2>3. MoveRuns' <=> MoveRuns
    BY <1>3, <1>4, <2>2 DEF MoveRuns, MovesIt
  <2> QED BY <2>1, <2>3, ChoiceIdle DEF MoveRuns
<1> QED BY <1>5, <1>6

LEMMA RequestChoice ==
  ASSUME SetupTypeOK, ChoiceInv, NEW c \in RunningCalls, RequestSucceeds(c)
  PROVE  ChoiceInv'
<1>1. /\ RunningCalls' = RunningCalls
      /\ \A d \in RunningCalls :
           /\ setupCalls'[d].kind = setupCalls[d].kind
           /\ setupCalls'[d].room = setupCalls[d].room
           /\ setupCalls'[d].sensor = setupCalls[d].sensor
           /\ setupCalls'[d].step = IF d = c THEN "list" ELSE setupCalls[d].step
  BY CallAnswered DEF RequestSucceeds
<1>2. \A d \in RunningCalls : MovesIt(d)' <=> MovesIt(d)
  BY <1>1 DEF MovesIt
<1>3. busySensorId' = busySensorId /\ interfered' = interfered
  BY DEF RequestSucceeds, flagVars
<1>4. OneMove'
  BY <1>1, <1>2, <1>3 DEF ChoiceInv, OneMove
<1>5. CASE MovesIt(c)
  <2>1. choice' = choice /\ home' \in Effect(setupCalls[c])
    BY <1>5 DEF RequestSucceeds, MovesIt, Moves
  <2>2. ~interfered /\ choice # "open" => home' = choice
    BY <1>5, <2>1 DEF ChoiceInv, OnItsWay, MovesIt, Moves, Effect
  <2>3. OnItsWay'
    BY <1>1, <1>2, <1>3, <1>5, <2>1, <2>2 DEF ChoiceInv, OneMove, OnItsWay
  <2>4. LastChoiceWins'
    BY <1>1, <1>2, <1>5 DEF LastChoiceWins, MoveRuns, MovesIt
  <2> QED BY <1>4, <2>3, <2>4 DEF ChoiceInv
<1>6. CASE ~MovesIt(c)
  <2>1. (home' = home /\ choice' = choice) \/ choice' = "open"
    BY <1>6 DEF RequestSucceeds, MovesIt, Moves, Effect
  <2>2. OnItsWay'
    BY <1>1, <1>2, <1>3, <1>6, <2>1 DEF ChoiceInv, OnItsWay
  <2>3. LastChoiceWins'
    BY <1>1, <1>2, <1>3, <2>1 DEF ChoiceInv, LastChoiceWins, MoveRuns, MovesIt
  <2> QED BY <1>4, <2>2, <2>3 DEF ChoiceInv
<1> QED BY <1>5, <1>6

LEMMA EndChoice ==
  ASSUME SetupTypeOK, ChoiceInv, NEW c \in RunningCalls, HandlerEnds(c)
  PROVE  ChoiceInv'
<1>1. /\ RunningCalls' = RunningCalls \ {c}
      /\ \A d \in RunningCalls' : setupCalls'[d] = setupCalls[d]
  BY EndsCall, CallEnds DEF EndSetupCall
<1>2. \A d \in RunningCalls' : MovesIt(d)' <=> MovesIt(d)
  BY <1>1 DEF MovesIt
<1>3. (home' = home /\ choice' = choice) \/ choice' = "open"
  BY DEF HandlerEnds, RequestFails, ListArrives, ListIsLost
<1>4. CASE setupCalls[c].kind \notin Moves
  <2>1. busySensorId' = busySensorId /\ interfered' = interfered
    BY <1>4, EndsCall DEF EndSetupCall, Interfere, SetupTypeOK
  <2>2. \A d : d \in RunningCalls' /\ MovesIt(d)' <=> d \in RunningCalls /\ MovesIt(d)
    BY <1>1, <1>2, <1>4 DEF MovesIt
  <2>3. \A d \in RunningCalls : MovesIt(d) => setupCalls'[d] = setupCalls[d]
    BY <1>1, <1>4 DEF MovesIt
  <2> QED BY <1>3, <2>1, <2>2, <2>3, ChoiceKept
<1>5. CASE setupCalls[c].kind \in Moves /\ setupCalls[c].sensor # watched
  <2>1. interfered' = (interfered \/ MoveRuns)
    BY <1>5, EndsCall DEF Interfere
  <2>2. MoveRuns' => MoveRuns
    BY <1>1, <1>2 DEF MoveRuns, MovesIt
  <2> QED BY <1>3, <2>1, <2>2, ChoiceIdle DEF MoveRuns
<1>6. CASE MovesIt(c)
  <2>1. interfered' = interfered
    BY <1>6, EndsCall DEF Interfere, MovesIt, SetupTypeOK
  <2>2. ~interfered => \A d \in RunningCalls' : ~MovesIt(d)'
    BY <1>1, <1>2, <1>6 DEF ChoiceInv, OneMove
  <2>3. choice' # "open" => setupCalls[c].step = "list" /\ home' = home /\ choice' = choice
    BY <1>6 DEF HandlerEnds, RequestFails, ListArrives, ListIsLost, MovesIt
  <2>4. ~interfered /\ choice' # "open" => home' = choice'
    BY <1>6, <2>3 DEF ChoiceInv, OnItsWay
  <2> QED BY <2>1, <2>2, <2>4 DEF ChoiceInv, OneMove, OnItsWay, LastChoiceWins
<1> QED BY <1>4, <1>5, <1>6 DEF MovesIt

LEMMA ChoiceStep ==
  ASSUME SetupTypeOK, ChoiceInv, [SetupNext]_setupVars
  PROVE  ChoiceInv'
<1>1. CASE UNCHANGED setupVars
  BY <1>1 DEF setupVars, flagVars, homeVars, ChoiceInv, OneMove, OnItsWay,
     LastChoiceWins, MoveRuns, MovesIt, RunningCalls
<1>2. CASE PollSetup \/ RefreshSetup \/ RetrySetup
  <2>1. PICK kind \in {"load", "refresh"} : BeginCall(LoadSetup(kind))
    BY <1>2 DEF PollSetup, RefreshSetup, RetrySetup
  <2>2. LoadSetup(kind) \in SetupCall /\ LoadSetup(kind).kind \notin Moves
    BY CallTypes DEF LoadSetup, Kinds, Moves
  <2>3. UNCHANGED <<busySensorId, homeVars>>
    BY <1>2 DEF PollSetup, RefreshSetup, RetrySetup, flagVars
  <2> QED BY <2>1, <2>2, <2>3, OtherHandlerBegins
<1>3. CASE CreateRoom
  <2>1. BeginCall(Handler("create", Null, Null)) /\ UNCHANGED <<busySensorId, homeVars>>
    BY <1>3 DEF CreateRoom, BeginHandler
  <2> QED BY <2>1, CallTypes, OtherHandlerBegins DEF Kinds, Moves
<1>4. ASSUME NEW r \in Rooms, SaveRoom(r) \/ DeleteRoom(r)
      PROVE  ChoiceInv'
  <2>1. PICK kind \in {"saveRoom", "deleteRoom"} :
          BeginCall(Handler(kind, r, Null)) /\ UNCHANGED <<busySensorId, homeVars>>
    BY <1>4 DEF SaveRoom, DeleteRoom, BeginHandler
  <2> QED BY <2>1, CallTypes, OtherHandlerBegins DEF Kinds, Moves
<1>5. ASSUME NEW s \in Sensors, SaveSensorName(s)
      PROVE  ChoiceInv'
  <2>1. BeginCall(Handler("saveSensor", Null, s)) /\ UNCHANGED <<busySensorId, homeVars>>
    BY <1>5 DEF SaveSensorName, BeginHandler
  <2> QED BY <2>1, CallTypes, OtherHandlerBegins DEF Kinds, Moves
<1>6. CASE ToggleCreate \/ (\E r \in Rooms \cup {Null} : EditRoom(r) \/ OthersMove(r))
           \/ \E s \in Sensors \cup {Null} : EditSensor(s)
  <2>1. /\ setupCalls' = setupCalls /\ busySensorId' = busySensorId
        /\ interfered' = interfered
        /\ (home' = home /\ choice' = choice) \/ choice' = "open"
    BY <1>6 DEF ToggleCreate, EditRoom, OthersMove, EditSensor, flagVars, homeVars
  <2>2. \A c : c \in RunningCalls' /\ MovesIt(c)' <=> c \in RunningCalls /\ MovesIt(c)
    BY <2>1 DEF RunningCalls, MovesIt
  <2> QED BY <2>1, <2>2, ChoiceKept
<1> QED BY <1>1, <1>2, <1>3, <1>4, <1>5, <1>6, MoveBegins, RequestChoice, EndChoice
        DEF SetupNext, HandlerEnds

SetupInv == SetupTypeOK /\ DisabledHasHandler /\ ChoiceInv

LEMMA SetupInvInit == SetupInit => SetupInv
<1> SUFFICES ASSUME SetupInit PROVE SetupInv
  OBVIOUS
<1>1. choice = "open" /\ setupCalls = FirstCalls
  BY DEF SetupInit
<1>2. \A c \in RunningCalls : ~MovesIt(c)
  BY <1>1, FirstCallsType DEF RunningCalls, MovesIt, Moves
<1>3. ChoiceInv
  BY <1>1, <1>2 DEF ChoiceInv, OneMove, OnItsWay, LastChoiceWins
<1>4. DisabledHasHandler
  BY DEF SetupInit, DisabledHasHandler
<1> QED BY <1>3, <1>4, SetupTypeInit DEF SetupInv

LEMMA SetupMounted ==
  ASSUME NEW room \in Rooms \cup {Null}, SetupMount(room)
  PROVE  SetupInv'
<1>1. choice' = "open" /\ setupCalls' = FirstCalls
  BY DEF SetupMount
<1>2. \A c \in RunningCalls' : ~MovesIt(c)'
  BY <1>1, FirstCallsType DEF RunningCalls, MovesIt, Moves
<1>3. ChoiceInv'
  BY <1>1, <1>2 DEF ChoiceInv, OneMove, OnItsWay, LastChoiceWins
<1>4. DisabledHasHandler'
  BY DEF SetupMount, DisabledHasHandler
<1> QED BY <1>3, <1>4, SetupTypeMounted DEF SetupInv

LEMMA SetupInvStep ==
  ASSUME SetupInv, [SetupNext]_setupVars
  PROVE  SetupInv'
BY SetupTypeStep, DisabledStep, ChoiceStep DEF SetupInv

-----------------------------------------------------------------------------
(***************************************************************************)
(* The list of sensors with its scan dialog.                               *)
(***************************************************************************)

Ids == Boards \cup {Null}
ReadLists == [sensors : SUBSET Ids, gone : SUBSET Ids]

SensorsCalls ==
  [kind : {"poll", "refresh", "scan", "pair", "unpair"},
   step : {"scan", "candidates", "pair", "admit", "unpair", "list"},
   sensor : Ids, list : ReadLists \cup {Null},
   answer : GatewayStates \cup {Null}, removed : BOOLEAN]

SensorsTypeOK ==
  /\ registered \subseteq Ids /\ gatewayState \in GatewayStates
  /\ shown \in ReadLists \cup {Null}
  /\ calls \in [Slots -> SensorsCalls \cup {Null}]

(* Whatever a list names is registered still, or was unpaired since.        *)
Covers(list) == list.sensors \subseteq registered \cup list.gone

(* A call that pairs has passed the pairing with a sensor that is registered *)
(* still, or was unpaired since; it holds an answer of the gateway only      *)
(* while it waits for one.                                                  *)
Fine(call) ==
  /\ call.kind = "pair" /\ call.step # "pair"
       => call.sensor \in registered \/ call.removed
  /\ call.list # Null => Covers(call.list)
  /\ call.answer # Null => call.step \in {"scan", "candidates"}

SensorsInv ==
  /\ SensorsTypeOK
  /\ shown # Null => Covers(shown)
  /\ \A c \in Running : Fine(calls[c])

LEMMA NewCall ==
  ASSUME NEW kind \in {"poll", "refresh", "scan", "pair", "unpair"},
         NEW step \in {"scan", "candidates", "pair", "admit", "unpair", "list"},
         NEW sensor \in Ids
  PROVE  /\ Call(kind, step, sensor) \in SensorsCalls
         /\ Call(kind, step, sensor).kind = kind
         /\ Call(kind, step, sensor).step = step
         /\ Call(kind, step, sensor).sensor = sensor
         /\ Call(kind, step, sensor).list = Null
         /\ Call(kind, step, sensor).answer = Null
BY DEF Call, SensorsCalls

(* A step that touches one call at most, and lets the registry only grow.    *)
LEMMA OneCallChanges ==
  ASSUME SensorsInv,
         registered \subseteq registered', registered' \subseteq Ids,
         gatewayState' \in GatewayStates, shown' = shown,
         NEW c \in Slots, NEW call \in SensorsCalls \cup {Null},
         calls' = [calls EXCEPT ![c] = call],
         call # Null => Fine(call)'
  PROVE  SensorsInv'
<1>1. /\ calls'[c] = call /\ \A d \in Slots \ {c} : calls'[d] = calls[d]
      /\ calls' \in [Slots -> SensorsCalls \cup {Null}]
  BY DEF SensorsInv, SensorsTypeOK
<1>2. SensorsTypeOK'
  BY <1>1 DEF SensorsInv, SensorsTypeOK
<1>3. ASSUME NEW list, Covers(list)
      PROVE  Covers(list)'
  BY <1>3 DEF Covers
<1>4. shown' # Null => Covers(shown)'
  BY <1>3 DEF SensorsInv, Covers
<1>5. ASSUME NEW d \in Running', d # c
      PROVE  Fine(calls[d])'
  <2>1. d \in Running /\ calls'[d] = calls[d]
    BY <1>1, <1>5 DEF Running
  <2>2. Fine(calls[d])
    BY <2>1 DEF SensorsInv
  <2> QED BY <2>1, <2>2 DEF Fine, Covers
<1>6. c \in Running' => Fine(calls[c])'
  BY <1>1 DEF Running, Fine, Covers
<1> QED BY <1>2, <1>4, <1>5, <1>6 DEF SensorsInv

(* The same for a call that ends, and a list that it may leave on the page.  *)
LEMMA OneCallEnds ==
  ASSUME SensorsInv,
         registered \subseteq registered', registered' \subseteq Ids,
         gatewayState' \in GatewayStates,
         NEW c \in Running, calls' = [calls EXCEPT ![c] = Null],
         shown' = shown \/ shown' = calls[c].list
  PROVE  SensorsInv'
<1>1. /\ c \in Slots /\ calls[c] \in SensorsCalls
      /\ \A d \in Slots \ {c} : calls'[d] = calls[d]
      /\ calls' \in [Slots -> SensorsCalls \cup {Null}] /\ calls'[c] = Null
  BY DEF SensorsInv, SensorsTypeOK, Running
<1>2. calls[c].list \in ReadLists \cup {Null} /\ Fine(calls[c])
  BY <1>1 DEF SensorsCalls, SensorsInv
<1>3. SensorsTypeOK'
  BY <1>1, <1>2 DEF SensorsInv, SensorsTypeOK
<1>4. shown' # Null => Covers(shown)'
  BY <1>2 DEF SensorsInv, Covers, Fine
<1>5. ASSUME NEW d \in Running'
      PROVE  Fine(calls[d])'
  <2>1. d \in Running /\ calls'[d] = calls[d]
    BY <1>1, <1>5 DEF Running
  <2>2. Fine(calls[d])
    BY <2>1 DEF SensorsInv
  <2> QED BY <2>1, <2>2 DEF Fine, Covers
<1> QED BY <1>3, <1>4, <1>5 DEF SensorsInv

(* A call that goes on, and its answer is taken.                             *)
Advanced(c, step) == [calls[c] EXCEPT !.step = step, !.answer = Null]

LEMMA AdvancedType ==
  ASSUME SensorsInv, NEW c \in Running,
         NEW step \in {"scan", "candidates", "pair", "admit", "unpair", "list"}
  PROVE  /\ Advanced(c, step) \in SensorsCalls
         /\ Advanced(c, step).kind = calls[c].kind
         /\ Advanced(c, step).step = step
         /\ Advanced(c, step).sensor = calls[c].sensor
         /\ Advanced(c, step).list = calls[c].list
         /\ Advanced(c, step).answer = Null
         /\ Advanced(c, step).removed = calls[c].removed
         /\ ToStep(c, step) = [calls EXCEPT ![c] = Advanced(c, step)]
<1>1. c \in Slots /\ calls[c] \in SensorsCalls
  BY DEF SensorsInv, SensorsTypeOK, Running
<1> QED BY <1>1 DEF Advanced, ToStep, SensorsCalls, SensorsInv, SensorsTypeOK

(* A call that goes on beyond the pairing, with a sensor that is registered. *)
LEMMA CallAdvances ==
  ASSUME SensorsInv, NEW c \in Running,
         registered \subseteq registered', registered' \subseteq Ids,
         gatewayState' \in GatewayStates, shown' = shown,
         NEW step \in {"admit", "candidates", "list"}, calls' = ToStep(c, step),
         calls[c].kind = "pair" /\ calls[c].step = "pair"
           => calls[c].sensor \in registered'
  PROVE  SensorsInv'
<1>1. Fine(calls[c]) /\ c \in Slots
  BY DEF SensorsInv, Running
<1>2. PICK call \in SensorsCalls :
        /\ call.kind = calls[c].kind /\ call.step = step
        /\ call.sensor = calls[c].sensor /\ call.list = calls[c].list
        /\ call.answer = Null /\ call.removed = calls[c].removed
        /\ calls' = [calls EXCEPT ![c] = call]
  BY AdvancedType
<1>3. Fine(call)'
  BY <1>1, <1>2 DEF Fine, Covers
<1> QED BY <1>1, <1>2, <1>3, OneCallChanges

(* A sensor is unpaired: what was read before knows it, in its history.      *)
LEMMA ForgetInList ==
  ASSUME NEW list \in ReadLists \cup {Null}, NEW s \in Ids, list # Null
  PROVE  /\ ForgetIn(list, s) \in ReadLists
         /\ ForgetIn(list, s).sensors = list.sensors
         /\ ForgetIn(list, s).gone = list.gone \cup {s}
BY DEF ForgetIn, ReadLists

Forgotten(call, s) ==
  [call EXCEPT !.list = ForgetIn(@, s), !.removed = @ \/ call.sensor = s]

LEMMA ForgottenType ==
  ASSUME NEW call \in SensorsCalls, NEW s \in Ids
  PROVE  /\ Forgotten(call, s) \in SensorsCalls
         /\ Forgotten(call, s).kind = call.kind
         /\ Forgotten(call, s).step = call.step
         /\ Forgotten(call, s).sensor = call.sensor
         /\ Forgotten(call, s).answer = call.answer
         /\ Forgotten(call, s).list = ForgetIn(call.list, s)
         /\ Forgotten(call, s).removed = (call.removed \/ call.sensor = s)
<1>1. ForgetIn(call.list, s) \in ReadLists \cup {Null}
  <2>1. call.list \in ReadLists \cup {Null}
    BY DEF SensorsCalls
  <2> QED BY <2>1, ForgetInList DEF ForgetIn
<1> DEFINE newList == ForgetIn(call.list, s)
           newRemoved == call.removed \/ call.sensor = s
<1>2. newRemoved \in BOOLEAN
  BY DEF SensorsCalls
<1>3. Forgotten(call, s) = [call EXCEPT !.list = newList, !.removed = newRemoved]
  BY DEF Forgotten
<1> HIDE DEF newList, newRemoved
<1>4. newList \in ReadLists \cup {Null}
  BY <1>1 DEF newList
<1>5. LET new == [call EXCEPT !.list = newList, !.removed = newRemoved]
      IN  /\ new \in SensorsCalls
          /\ new.kind = call.kind /\ new.step = call.step /\ new.sensor = call.sensor
          /\ new.answer = call.answer /\ new.list = newList /\ new.removed = newRemoved
  BY <1>2, <1>4 DEF SensorsCalls
<1> QED BY <1>3, <1>5 DEF newList, newRemoved

LEMMA UnlistStep ==
  ASSUME SensorsInv, NEW s \in Ids,
         NEW rest \in [Slots -> SensorsCalls \cup {Null}],
         \A c \in Slots : rest[c] # Null => Fine(rest[c]),
         Unlist(s, rest), gatewayState' = gatewayState
  PROVE  SensorsInv'
<1>1. registered' = registered \ {s} /\ shown' = ForgetIn(shown, s)
  BY DEF Unlist
<1>2. \A c \in Slots :
        calls'[c] = IF rest[c] = Null THEN Null ELSE Forgotten(rest[c], s)
  BY DEF Unlist, Forgotten
<1>3. calls' \in [Slots -> SensorsCalls \cup {Null}]
  <2>1. calls' = [c \in Slots |-> IF rest[c] = Null THEN Null ELSE Forgotten(rest[c], s)]
    BY DEF Unlist, Forgotten
  <2> QED BY <2>1, ForgottenType
<1>4. shown' \in ReadLists \cup {Null}
  BY <1>1, ForgetInList DEF SensorsInv, SensorsTypeOK, ForgetIn
<1>5. ASSUME NEW list \in ReadLists \cup {Null}, list # Null, Covers(list),
             NEW new, new = ForgetIn(list, s)
      PROVE  Covers(new)'
  BY <1>1, <1>5, ForgetInList DEF Covers
<1>6. shown' # Null => Covers(shown)'
  <2> SUFFICES ASSUME shown' # Null PROVE Covers(shown)'
    OBVIOUS
  <2>1. shown # Null /\ shown \in ReadLists \cup {Null} /\ Covers(shown)
    BY <1>1 DEF ForgetIn, SensorsInv, SensorsTypeOK
  <2> QED BY <1>1, <1>5, <2>1 DEF Covers
<1>7. ASSUME NEW c \in Running'
      PROVE  Fine(calls[c])'
  <2>1. c \in Slots /\ rest[c] # Null
    BY <1>2, <1>7 DEF Running
  <2>2. PICK call \in SensorsCalls : call = rest[c] /\ Fine(call)
    BY <2>1
  <2>3. PICK new \in SensorsCalls :
          /\ new = calls'[c]
          /\ new.kind = call.kind /\ new.step = call.step /\ new.sensor = call.sensor
          /\ new.answer = call.answer /\ new.list = ForgetIn(call.list, s)
          /\ new.removed = (call.removed \/ call.sensor = s)
    BY <1>2, <2>1, <2>2, ForgottenType
  <2>4. new.list # Null => Covers(new.list)'
    <3> SUFFICES ASSUME new.list # Null PROVE Covers(new.list)'
      OBVIOUS
    <3>1. call.list # Null /\ call.list \in ReadLists \cup {Null}
      BY <2>3 DEF ForgetIn, SensorsCalls
    <3>2. Covers(call.list)
      BY <2>2, <3>1 DEF Fine
    <3> QED BY <1>5, <2>3, <3>1, <3>2
  <2>5. new.kind = "pair" /\ new.step # "pair"
          => new.sensor \in registered' \/ new.removed
    BY <1>1, <2>2, <2>3 DEF Fine
  <2>6. new.answer # Null => new.step \in {"scan", "candidates"}
    BY <2>2, <2>3 DEF Fine
  <2>7. Fine(new)'
    BY <2>4, <2>5, <2>6 DEF Fine
  <2> QED BY <2>3, <2>7 DEF Fine, Covers
<1>8. SensorsTypeOK'
  BY <1>1, <1>3, <1>4 DEF SensorsInv, SensorsTypeOK
<1> QED BY <1>6, <1>7, <1>8 DEF SensorsInv

(* A call begins: it holds no answer yet, and one that pairs is at pairing,  *)
(* or is about a sensor that the page lists.                                *)
LEMMA CallStarts ==
  ASSUME SensorsInv, NEW call \in SensorsCalls, Begin(call), Fine(call),
         UNCHANGED <<registryVars, shown>>
  PROVE  SensorsInv'
<1>1. PICK c \in Slots : calls' = [calls EXCEPT ![c] = call]
  BY DEF Begin
<1>2. Fine(call)'
  BY DEF Fine, Covers, registryVars
<1> QED
  BY <1>1, <1>2, OneCallChanges DEF registryVars, SensorsInv, SensorsTypeOK

LEMMA StartsStep ==
  ASSUME SensorsInv,
         \/ PollList \/ RefreshList \/ RetryList \/ PollCandidates \/ Scan
         \/ \E s \in Boards : UnpairListed(s)
  PROVE  SensorsInv'
<1>1. PICK kind \in {"poll", "refresh", "scan", "unpair"},
           step \in {"list", "candidates", "scan", "unpair"}, sensor \in Ids :
        Begin(Call(kind, step, sensor))
  BY DEF PollList, RefreshList, RetryList, PollCandidates, Scan, UnpairListed,
         LoadList, Ids
<1>2. UNCHANGED <<registryVars, shown>>
  BY DEF PollList, RefreshList, RetryList, PollCandidates, Scan, UnpairListed, listVars
<1>3. Fine(Call(kind, step, sensor))
  BY NewCall DEF Fine
<1> QED BY <1>1, <1>2, <1>3, NewCall, CallStarts

LEMMA AcceptStep ==
  ASSUME SensorsInv, NEW s \in Boards, Accept(s)
  PROVE  SensorsInv'
<1>1. UNCHANGED <<registryVars, shown>> /\ s \in Ids
  BY DEF Accept, listVars, Ids
<1>2. CASE Known(s)
  <2> DEFINE admit == Call("pair", "admit", s)
             call == [admit EXCEPT !.removed = s \in shown.gone]
  <2>1. /\ admit \in SensorsCalls /\ admit.kind = "pair" /\ admit.step = "admit"
        /\ admit.sensor = s /\ admit.list = Null /\ admit.answer = Null
    BY <1>1, NewCall
  <2>2. Begin(call)
    BY <1>2 DEF Accept
  <2> HIDE DEF admit
  <2>3. (s \in shown.gone) \in BOOLEAN
    OBVIOUS
  <2>4. /\ call \in SensorsCalls /\ call.kind = "pair" /\ call.step = "admit"
        /\ call.sensor = s /\ call.list = Null /\ call.answer = Null
        /\ call.removed = (s \in shown.gone)
    BY <2>1, <2>3 DEF SensorsCalls
  <2>5. s \in registered \/ s \in shown.gone
    BY <1>2 DEF Known, SensorsInv, Covers
  <2> HIDE DEF call
  <2>6. Fine(call)
    BY <2>4, <2>5 DEF Fine
  <2> QED BY <1>1, <2>2, <2>4, <2>6, CallStarts
<1>3. CASE ~Known(s)
  <2>1. Begin(Call("pair", "pair", s))
    BY <1>3 DEF Accept
  <2>2. Fine(Call("pair", "pair", s))
    BY <1>1, NewCall DEF Fine
  <2> QED BY <1>1, <2>1, <2>2, NewCall, CallStarts
<1> QED BY <1>2, <1>3

LEMMA OthersStep ==
  ASSUME SensorsInv,
         \/ OthersScan \/ WindowCloses \/ GatewayRestarts \/ Done
         \/ \E s \in Boards : OthersUnpair(s) \/ OthersPair(s)
  PROVE  SensorsInv'
<1> USE DEF listVars
<1>1. ASSUME registered \subseteq registered', registered' \subseteq Ids,
             gatewayState' \in GatewayStates, UNCHANGED <<shown, calls>>
      PROVE  SensorsInv'
  <2>1. SensorsTypeOK'
    BY <1>1 DEF SensorsInv, SensorsTypeOK
  <2>2. \A c \in Running' : Fine(calls[c])'
    <3> SUFFICES ASSUME NEW c \in Running' PROVE Fine(calls[c])'
      OBVIOUS
    <3>1. c \in Running /\ calls'[c] = calls[c]
      BY <1>1 DEF Running
    <3>2. Fine(calls[c])
      BY <3>1 DEF SensorsInv
    <3> QED BY <1>1, <3>1, <3>2 DEF Fine, Covers
  <2> QED BY <1>1, <2>1, <2>2 DEF SensorsInv, Covers
<1>2. CASE OthersScan \/ WindowCloses \/ GatewayRestarts
  BY <1>1, <1>2 DEF OthersScan, WindowCloses, GatewayRestarts, GatewayMoves,
     GatewayStates, SensorsInv, SensorsTypeOK
<1>3. CASE Done
  BY <1>1, <1>3 DEF Done, registryVars, SensorsInv, SensorsTypeOK
<1>4. ASSUME NEW s \in Boards, OthersPair(s)
      PROVE  SensorsInv'
  BY <1>1, <1>4 DEF OthersPair, Ids, SensorsInv, SensorsTypeOK
<1>5. ASSUME NEW s \in Boards, OthersUnpair(s)
      PROVE  SensorsInv'
  <2>1. /\ s \in Ids /\ Unlist(s, calls) /\ gatewayState' = gatewayState
        /\ calls \in [Slots -> SensorsCalls \cup {Null}]
    BY <1>5 DEF OthersUnpair, Ids, SensorsInv, SensorsTypeOK
  <2>2. \A c \in Slots : calls[c] # Null => Fine(calls[c])
    BY DEF SensorsInv, Running
  <2> QED BY <2>1, <2>2, UnlistStep
<1> QED BY <1>2, <1>3, <1>4, <1>5

(* A call for which an answer was read, or a list.                           *)
LEMMA ReadType ==
  ASSUME NEW call \in SensorsCalls, NEW answer \in GatewayStates, NEW list \in ReadLists
  PROVE  /\ [call EXCEPT !.answer = answer] \in SensorsCalls
         /\ [call EXCEPT !.answer = answer].kind = call.kind
         /\ [call EXCEPT !.answer = answer].step = call.step
         /\ [call EXCEPT !.answer = answer].sensor = call.sensor
         /\ [call EXCEPT !.answer = answer].list = call.list
         /\ [call EXCEPT !.answer = answer].removed = call.removed
         /\ [call EXCEPT !.list = list] \in SensorsCalls
         /\ [call EXCEPT !.list = list].kind = call.kind
         /\ [call EXCEPT !.list = list].step = call.step
         /\ [call EXCEPT !.list = list].sensor = call.sensor
         /\ [call EXCEPT !.list = list].list = list
         /\ [call EXCEPT !.list = list].answer = call.answer
         /\ [call EXCEPT !.list = list].removed = call.removed
BY DEF SensorsCalls

LEMMA GoesOnStep ==
  ASSUME SensorsInv, NEW c \in Running, CallGoesOn(c)
  PROVE  SensorsInv'
<1> USE DEF listVars, registryVars, busyVars
<1>1. /\ c \in Slots /\ calls[c] \in SensorsCalls /\ Fine(calls[c])
      /\ calls[c].sensor \in Ids /\ calls[c].list \in ReadLists \cup {Null}
      /\ registered \subseteq Ids /\ gatewayState \in GatewayStates
  BY DEF SensorsInv, SensorsTypeOK, Running, SensorsCalls
<1>2. ASSUME AfterScan(c), UNCHANGED <<registryVars, shown>>,
             calls[c].kind = "pair" => calls[c].step # "pair"
      PROVE  SensorsInv'
  <2>1. CASE calls[c].kind = "pair"
    BY <1>1, <1>2, <2>1, CallAdvances DEF AfterScan
  <2>2. CASE calls[c].kind # "pair"
    BY <1>1, <1>2, <2>2, OneCallEnds DEF AfterScan, End
  <2> QED BY <2>1, <2>2
<1>3. CASE PairSensor(c)
  BY <1>1, <1>3, CallAdvances DEF PairSensor
<1>4. CASE PairFails(c)
  <2>1. registered \subseteq registered' /\ registered' \subseteq Ids
    BY <1>1, <1>4 DEF PairFails
  <2> QED BY <1>1, <1>4, <2>1, OneCallEnds DEF PairFails, End
<1>5. CASE Admit(c)
  BY <1>1, <1>5, CallAdvances DEF Admit
<1>6. CASE StartScan(c) \/ ReadCandidates(c)
  <2>1. PICK answer \in GatewayStates :
          /\ calls' = [calls EXCEPT ![c] = [calls[c] EXCEPT !.answer = answer]]
          /\ calls[c].step \in {"scan", "candidates"}
    BY <1>1, <1>6 DEF StartScan, ReadCandidates, GatewayStates
  <2>2. PICK call \in SensorsCalls :
          /\ call = [calls[c] EXCEPT !.answer = answer]
          /\ call.kind = calls[c].kind /\ call.step = calls[c].step
          /\ call.sensor = calls[c].sensor /\ call.list = calls[c].list
          /\ call.removed = calls[c].removed
    <3>1. [sensors |-> {}, gone |-> {}] \in ReadLists
      BY DEF ReadLists
    <3> QED BY ONLY <1>1, <3>1, ReadType
  <2>3. UNCHANGED <<registered, shown>> /\ gatewayState' \in GatewayStates
    BY <1>1, <1>6 DEF StartScan, ReadCandidates, GatewayStates
  <2>4. Fine(call)'
    BY <1>1, <2>1, <2>2, <2>3 DEF Fine, Covers
  <2> QED BY <1>1, <2>1, <2>2, <2>3, <2>4, OneCallChanges
<1>7. CASE ShowScan(c)
  BY <1>1, <1>2, <1>7 DEF ShowScan, Fine
<1>8. CASE ScanFails(c)
  BY <1>2, <1>8 DEF ScanFails
<1>9. CASE UnpairSensor(c)
  <2>1. PICK rest \in [Slots -> SensorsCalls \cup {Null}],
             call \in SensorsCalls, s \in Ids :
          /\ rest = ToStep(c, "list") /\ s = calls[c].sensor
          /\ rest = [calls EXCEPT ![c] = call]
          /\ call.kind = calls[c].kind /\ call.step = "list"
          /\ call.sensor = calls[c].sensor /\ call.list = calls[c].list
          /\ call.answer = Null /\ call.removed = calls[c].removed
    BY <1>1, AdvancedType DEF SensorsInv, SensorsTypeOK
  <2>2. calls[c].step = "unpair" /\ Unlist(s, rest) /\ gatewayState' = gatewayState
    BY <1>9, <2>1 DEF UnpairSensor
  <2>3. Fine(call)
    BY <1>1, <2>1, <2>2 DEF Fine
  <2>4. \A d \in Slots : rest[d] # Null => Fine(rest[d])
    <3>1. rest[c] = call /\ \A d \in Slots \ {c} : rest[d] = calls[d]
      BY <1>1, <2>1 DEF SensorsInv, SensorsTypeOK
    <3> QED BY <2>3, <3>1 DEF SensorsInv, Running
  <2> QED BY <2>2, <2>4, UnlistStep
<1>10. CASE UnpairSensorFails(c)
  BY <1>1, <1>10, OneCallEnds DEF UnpairSensorFails, End
<1>11. CASE ReadList(c)
  <2>1. /\ calls' = [calls EXCEPT ![c] = [calls[c] EXCEPT !.list = List(registered)]]
        /\ UNCHANGED <<registered, gatewayState, shown>>
    BY <1>11 DEF ReadList
  <2>2. List(registered) \in ReadLists /\ List(registered).sensors = registered
    BY <1>1 DEF List, ReadLists
  <2>3. PICK list \in ReadLists : list = List(registered) /\ list.sensors = registered
    BY <2>2
  <2>4. PICK call \in SensorsCalls :
          /\ call = [calls[c] EXCEPT !.list = list]
          /\ call.kind = calls[c].kind /\ call.step = calls[c].step
          /\ call.sensor = calls[c].sensor /\ call.list = list
          /\ call.answer = calls[c].answer /\ call.removed = calls[c].removed
    BY ONLY <1>1, ReadType
  <2>5. Fine(call)'
    BY <1>1, <2>1, <2>3, <2>4 DEF Fine, Covers
  <2> QED BY <1>1, <2>1, <2>3, <2>4, <2>5, OneCallChanges
<1>12. CASE ShowList(c)
  BY <1>1, <1>12, OneCallEnds DEF ShowList, End
<1>13. CASE ListFails(c)
  BY <1>1, <1>13, OneCallEnds DEF ListFails, End
<1> QED
  BY <1>3, <1>4, <1>5, <1>6, <1>7, <1>8, <1>9, <1>10, <1>11, <1>12, <1>13
  DEF CallGoesOn

LEMMA SensorsInvStep ==
  ASSUME SensorsInv, [SensorsPageNext]_sensorsVars
  PROVE  SensorsInv'
<1>1. CASE UNCHANGED sensorsVars
  <2>1. UNCHANGED <<registered, gatewayState, shown, calls>>
    BY <1>1 DEF sensorsVars, registryVars, listVars
  <2> QED BY <2>1 DEF SensorsInv, SensorsTypeOK, Running, Fine, Covers
<1> QED
  BY <1>1, StartsStep, AcceptStep, OthersStep, GoesOnStep DEF SensorsPageNext

(* The page as it is mounted, at first and later: nothing is shown, and the  *)
(* calls that are under way only load the list.                             *)
LEMMA FirstLoadType ==
  /\ FirstLoad \in [Slots -> SensorsCalls \cup {Null}]
  /\ \A c \in Slots : FirstLoad[c] # Null => FirstLoad[c] = LoadList
  /\ LoadList.kind = "poll" /\ LoadList.list = Null /\ LoadList.answer = Null
BY NewCall DEF FirstLoad, LoadList, Ids

LEMMA SensorsInvInit == SensorsPageInit => SensorsInv
<1> SUFFICES ASSUME SensorsPageInit PROVE SensorsInv
  OBVIOUS
<1>1. registered \subseteq Boards /\ shown = Null /\ calls = FirstLoad
  BY DEF SensorsPageInit
<1>2. SensorsTypeOK
  BY <1>1, FirstLoadType DEF SensorsPageInit, SensorsTypeOK, Ids
<1>3. \A c \in Running : Fine(calls[c])
  BY <1>1, FirstLoadType DEF Running, Fine
<1> QED BY <1>1, <1>2, <1>3 DEF SensorsInv

LEMMA SensorsMounted ==
  ASSUME NEW known \in SUBSET Boards, NEW state \in GatewayStates,
         SensorsPageMount(known, state)
  PROVE  SensorsInv'
<1>1. registered' = known /\ gatewayState' = state /\ shown' = Null /\ calls' = FirstLoad
  BY DEF SensorsPageMount
<1>2. SensorsTypeOK'
  BY <1>1, FirstLoadType DEF SensorsTypeOK, Ids
<1>3. \A c \in Running' : Fine(calls[c])'
  BY <1>1, FirstLoadType DEF Running, Fine
<1> QED BY <1>1, <1>2, <1>3 DEF SensorsInv

-----------------------------------------------------------------------------
(***************************************************************************)
(* The router.  A link mounts both pages anew; any other step is one of    *)
(* the page that is mounted.                                               *)
(***************************************************************************)

DevicesInv == SensorsInv /\ SetupInv

LEMMA Mounted ==
  ASSUME GoToSensors \/ GoToSetup
  PROVE  DevicesInv'
<1>1. CASE GoToSensors
  BY <1>1, SensorsMounted, SetupMounted DEF GoToSensors, DevicesInv
<1>2. CASE GoToSetup
  <2>1. {} \in SUBSET Boards /\ "idle" \in GatewayStates
    BY DEF GatewayStates
  <2>2. SensorsPageMount({}, "idle") /\ \E room \in Rooms \cup {Null} : SetupMount(room)
    BY <1>2 DEF GoToSetup
  <2> QED BY <2>1, <2>2, SensorsMounted, SetupMounted DEF DevicesInv
<1> QED BY <1>1, <1>2

LEMMA DevicesInvHolds == Spec => []DevicesInv
<1>1. Init => DevicesInv
  BY SensorsInvInit, SetupInvInit DEF Init, DevicesInv
<1>2. DevicesInv /\ [Next]_vars => DevicesInv'
  <2> SUFFICES ASSUME DevicesInv, [Next]_vars,
                      [SensorsPageNext]_sensorsVars, [SetupNext]_setupVars
               PROVE  DevicesInv'
    BY Mounted DEF Next, OnSensorsPage, OnSetupPage, vars
  <2> QED BY SensorsInvStep, SetupInvStep DEF DevicesInv
<1> QED BY <1>1, <1>2, PTL DEF Spec

(* A sensor that is accepted is known to home-api by the time the gateway    *)
(* is done with it, or was unpaired meanwhile, although handlePair leaves    *)
(* the pairing out for a sensor that the page lists already.                *)
THEOREM AcceptedIsRegistered == Spec => []AcceptRegisters
<1>1. DevicesInv => AcceptRegisters
  BY DEF DevicesInv, SensorsInv, Fine, AcceptRegisters
<1> QED BY <1>1, DevicesInvHolds, PTL

(* The page that organizes the home only ever holds states, drafts and calls *)
(* of its kinds (SetupPage).                                                *)
THEOREM SetupTypes == Spec => []SetupTypeOK
<1>1. DevicesInv => SetupTypeOK
  BY DEF DevicesInv, SetupInv
<1> QED BY <1>1, DevicesInvHolds, PTL

(* Every control of it that is disabled has a handler under way that enables *)
(* it again (SetupPage: the finally of each handler).                       *)
THEOREM SetupDisabledHasHandler == Spec => []DisabledHasHandler
<1>1. DevicesInv => DisabledHasHandler
  BY DEF DevicesInv, SetupInv
<1> QED BY <1>1, DevicesInvHolds, PTL

(* A sensor ends up where it was last put, unless a request fails, somebody  *)
(* else moves it or another sensor is moved at the same time (handleAssign,  *)
(* handleUnassign).                                                         *)
THEOREM SetupLastChoiceWins == Spec => []LastChoiceWins
<1>1. DevicesInv => LastChoiceWins
  BY DEF DevicesInv, SetupInv, ChoiceInv
<1> QED BY <1>1, DevicesInvHolds, PTL
=============================================================================
