----------------------------- MODULE SetupPage ------------------------------
(***************************************************************************)
(* The page that organizes the home: rooms are created, edited and removed *)
(* and sensors renamed and put into rooms.  Every button starts a handler: *)
(* a request, then a load of the whole page, then the button comes back.   *)
(* What is disabled meanwhile is told by one id for each kind of handler,  *)
(* which the next handler of that kind overwrites and the first to end     *)
(* clears, whoever it belongs to.                                          *)
(*                                                                         *)
(* Of the registry of home-api the model keeps the room of one sensor; the *)
(* lists on the page, which are old as soon as they are shown, are free.   *)
(* A form that does not validate starts nothing.                           *)
(***************************************************************************)
EXTENDS DashboardNames

CONSTANT SetupSlots   \* bound: one for each call in flight

VARIABLES
  setupState, setupError,
  listed,          \* the last lists were not empty
  showCreateRoom, creating,
  editingRoomId, savingRoomId, deletingRoomId,
  editingSensorId, savingSensorId,
  busySensorId,
  setupCalls,      \* the calls that have not ended; Null: the slot is free
  home,            \* home-api: the room of the watched sensor, or Null
  choice,          \* history: where the user last wanted it; "open": nowhere,
                   \* or a request has failed, or others have moved it
  interfered       \* history: since then a handler of another sensor began or
                   \* ended while one of this sensor was under way

formVars == <<showCreateRoom, editingRoomId, editingSensorId>>
flagVars == <<creating, savingRoomId, deletingRoomId, savingSensorId, busySensorId>>
homeVars == <<home, choice, interfered>>
setupVars == <<setupState, setupError, listed, formVars, flagVars, setupCalls,
               homeVars>>

(* The sensor whose room the model keeps. *)
watched == CHOOSE s \in Sensors : TRUE

Kinds == {"load", "refresh", "create", "saveRoom", "deleteRoom", "saveSensor",
          "assign", "unassign"}
Moves == {"assign", "unassign"}

SetupCall ==
  [kind : Kinds, step : {"request", "list"}, room : Rooms \cup {Null},
   sensor : Sensors \cup {Null}]

Handler(kind, room, sensor) ==
  [kind |-> kind, step |-> "request", room |-> room, sensor |-> sensor]

LoadSetup(kind) ==
  [kind |-> kind, step |-> "list", room |-> Null, sensor |-> Null]

ASSUME SetupAssumption == Null \notin SetupCall /\ "open" \notin Rooms \cup {Null}

SetupTypeOK ==
  /\ setupState \in {"loading", "ready", "error"}
  /\ setupError \in BOOLEAN /\ listed \in BOOLEAN
  /\ showCreateRoom \in BOOLEAN /\ creating \in BOOLEAN
  /\ {editingRoomId, savingRoomId, deletingRoomId} \subseteq Rooms \cup {Null}
  /\ {editingSensorId, savingSensorId, busySensorId} \subseteq Sensors \cup {Null}
  /\ setupCalls \in [SetupSlots -> SetupCall \cup {Null}]
  /\ home \in Rooms \cup {Null}
  /\ choice \in Rooms \cup {Null, "open"}
  /\ interfered \in BOOLEAN

FirstCalls ==
  LET first == CHOOSE c \in SetupSlots : TRUE
  IN [c \in SetupSlots |-> IF c = first THEN LoadSetup("load") ELSE Null]

(* The page is mounted, and a first load is under way. *)
SetupInit ==
  /\ setupState = "loading" /\ setupError = FALSE /\ listed = FALSE
  /\ showCreateRoom = FALSE /\ creating = FALSE
  /\ editingRoomId = Null /\ savingRoomId = Null /\ deletingRoomId = Null
  /\ editingSensorId = Null /\ savingSensorId = Null /\ busySensorId = Null
  /\ setupCalls = FirstCalls
  /\ home \in Rooms \cup {Null} /\ choice = "open" /\ interfered = FALSE

(* The same as a step.  The calls of an earlier visit go on; to home-api    *)
(* they are calls of another client.                                        *)
SetupMount(room) ==
  /\ setupState' = "loading" /\ setupError' = FALSE /\ listed' = FALSE
  /\ showCreateRoom' = FALSE /\ creating' = FALSE
  /\ editingRoomId' = Null /\ savingRoomId' = Null /\ deletingRoomId' = Null
  /\ editingSensorId' = Null /\ savingSensorId' = Null /\ busySensorId' = Null
  /\ setupCalls' = FirstCalls
  /\ home' = room /\ choice' = "open" /\ interfered' = FALSE

-----------------------------------------------------------------------------
RunningCalls == {c \in SetupSlots : setupCalls[c] # Null}

MoveRuns == \E c \in RunningCalls :
  setupCalls[c].kind \in Moves /\ setupCalls[c].sensor = watched

BeginCall(call) ==
  \E c \in SetupSlots :
    setupCalls[c] = Null /\ setupCalls' = [setupCalls EXCEPT ![c] = call]

KeepPage == UNCHANGED <<setupState, setupError, listed>>

-----------------------------------------------------------------------------
(* Loads and forms.                                                        *)

PollSetup ==
  /\ BeginCall(LoadSetup("load")) /\ KeepPage
  /\ UNCHANGED <<formVars, flagVars, homeVars>>

RefreshSetup ==
  /\ ~\E c \in RunningCalls : setupCalls[c].kind = "refresh"
  /\ setupState # "loading" \/ listed
  /\ BeginCall(LoadSetup("refresh")) /\ KeepPage
  /\ UNCHANGED <<formVars, flagVars, homeVars>>

RetrySetup ==
  /\ setupState = "error"
  /\ BeginCall(LoadSetup("load"))
  /\ setupState' = "loading" /\ setupError' = FALSE
  /\ UNCHANGED <<listed, formVars, flagVars, homeVars>>

(* Add room, Cancel *)
ToggleCreate ==
  /\ setupState # "error" /\ showCreateRoom' = ~showCreateRoom
  /\ UNCHANGED <<setupCalls, editingRoomId, editingSensorId, flagVars, homeVars>>
  /\ KeepPage

RoomBusy(r) == r \in {savingRoomId, deletingRoomId}

(* Edit, or Cancel when r is Null *)
EditRoom(r) ==
  /\ listed /\ r # editingRoomId /\ editingRoomId' = r
  /\ IF r = Null THEN ~RoomBusy(editingRoomId) ELSE ~RoomBusy(r)
  /\ UNCHANGED <<setupCalls, showCreateRoom, editingSensorId, flagVars, homeVars>>
  /\ KeepPage

(* Rename, or Cancel when s is Null *)
EditSensor(s) ==
  /\ listed /\ s # editingSensorId /\ editingSensorId' = s
  /\ s = Null => savingSensorId # editingSensorId
  /\ UNCHANGED <<setupCalls, showCreateRoom, editingRoomId, flagVars, homeVars>>
  /\ KeepPage

-----------------------------------------------------------------------------
(* Handlers begin.  The page shows their controls unless its load failed.  *)

BeginHandler(call) ==
  /\ setupState # "error"
  /\ BeginCall(call)
  /\ KeepPage /\ UNCHANGED formVars

CreateRoom ==
  /\ showCreateRoom /\ ~creating /\ creating' = TRUE
  /\ BeginHandler(Handler("create", Null, Null))
  /\ UNCHANGED <<savingRoomId, deletingRoomId, savingSensorId, busySensorId, homeVars>>

SaveRoom(r) ==
  /\ listed /\ editingRoomId = r /\ ~RoomBusy(r) /\ savingRoomId' = r
  /\ BeginHandler(Handler("saveRoom", r, Null))
  /\ UNCHANGED <<creating, deletingRoomId, savingSensorId, busySensorId, homeVars>>

DeleteRoom(r) ==
  /\ listed /\ editingRoomId # r /\ ~RoomBusy(r) /\ deletingRoomId' = r
  /\ BeginHandler(Handler("deleteRoom", r, Null))
  /\ UNCHANGED <<creating, savingRoomId, savingSensorId, busySensorId, homeVars>>

SaveSensorName(s) ==
  /\ listed /\ editingSensorId = s /\ savingSensorId # s /\ savingSensorId' = s
  /\ BeginHandler(Handler("saveSensor", Null, s))
  /\ UNCHANGED <<creating, savingRoomId, deletingRoomId, busySensorId, homeVars>>

(* History of a click that wants sensor s in room r (Null: in none). *)
Choose(s, r) ==
  IF s = watched
  THEN choice' = r /\ interfered' = (interfered /\ MoveRuns)
  ELSE choice' = choice /\ interfered' = (interfered \/ MoveRuns)

(* Mutant of Move: the controls are not disabled meanwhile. *)
MoveTwice(kind, s, r) ==
  /\ listed /\ editingSensorId # s /\ busySensorId' = s
  /\ BeginHandler(Handler(kind, r, s))
  /\ Choose(s, IF kind = "assign" THEN r ELSE Null)
  /\ UNCHANGED <<home, creating, savingRoomId, deletingRoomId, savingSensorId>>

(* handleAssign to room r, handleUnassign from room r, as the page shows it *)
Move(kind, s, r) ==
  /\ listed /\ editingSensorId # s /\ busySensorId # s /\ busySensorId' = s
  /\ BeginHandler(Handler(kind, r, s))
  /\ Choose(s, IF kind = "assign" THEN r ELSE Null)
  /\ UNCHANGED <<home, creating, savingRoomId, deletingRoomId, savingSensorId>>

-----------------------------------------------------------------------------
(* Calls go on, in any order.                                              *)

(* Mutant of EndSetupCall: a handler clears what it has set, but for the    *)
(* one that assigns.                                                        *)
EndButAssign(c) ==
  LET clear(flag, kinds) == IF setupCalls[c].kind \in kinds THEN Null ELSE flag
  IN /\ setupCalls' = [setupCalls EXCEPT ![c] = Null]
     /\ creating' = (creating /\ setupCalls[c].kind # "create")
     /\ savingRoomId' = clear(savingRoomId, {"saveRoom"})
     /\ deletingRoomId' = clear(deletingRoomId, {"deleteRoom"})
     /\ savingSensorId' = clear(savingSensorId, {"saveSensor"})
     /\ busySensorId' = clear(busySensorId, {"unassign"})

(* The finally of each handler. *)
EndSetupCall(c) ==
  LET clear(flag, kinds) == IF setupCalls[c].kind \in kinds THEN Null ELSE flag
  IN /\ setupCalls' = [setupCalls EXCEPT ![c] = Null]
     /\ creating' = (creating /\ setupCalls[c].kind # "create")
     /\ savingRoomId' = clear(savingRoomId, {"saveRoom"})
     /\ deletingRoomId' = clear(deletingRoomId, {"deleteRoom"})
     /\ savingSensorId' = clear(savingSensorId, {"saveSensor"})
     /\ busySensorId' = clear(busySensorId, Moves)

(* What the success of a request does to the registry: the room of the      *)
(* sensor; a sensor leaves only the room that the request names.            *)
Effect(call) ==
  CASE call.kind = "assign" /\ call.sensor = watched -> {call.room}
    [] call.kind = "unassign" /\ call.sensor = watched ->
         IF home = call.room THEN {Null} ELSE {}
    [] call.kind = "deleteRoom" -> {IF home = call.room THEN Null ELSE home}
    [] OTHER -> {home}

RequestSucceeds(c) ==
  LET call == setupCalls[c]
  IN /\ call.step = "request"
     /\ home' \in Effect(call)
     /\ choice' = IF call.kind = "deleteRoom" /\ home' # home THEN "open" ELSE choice
     /\ editingRoomId' = IF call.kind = "saveRoom" THEN Null ELSE editingRoomId
     /\ editingSensorId' = IF call.kind = "saveSensor" THEN Null ELSE editingSensorId
     /\ showCreateRoom' = (showCreateRoom /\ call.kind # "create")
     /\ setupCalls' = [setupCalls EXCEPT ![c].step = "list"]
     /\ UNCHANGED <<flagVars, interfered>> /\ KeepPage

(* The end of a handler of another sensor, as history. *)
Interfere(c) ==
  interfered' = (interfered \/ (/\ MoveRuns
                                /\ setupCalls[c].kind \in Moves
                                /\ setupCalls[c].sensor # watched))

(* The request or its answer is lost, or home-api refuses; by then home-api *)
(* is done with it.                                                         *)
RequestFails(c) ==
  LET call == setupCalls[c]
      ofWatched == call.kind \in Moves /\ call.sensor = watched
  IN /\ call.step = "request"
     /\ home' \in {home} \cup Effect(call)
     /\ choice' = IF ofWatched \/ home' # home THEN "open" ELSE choice
     /\ Interfere(c) /\ EndSetupCall(c)
     /\ KeepPage /\ UNCHANGED formVars

ListArrives(c) ==
  /\ setupCalls[c].step = "list"
  /\ setupState' = "ready" /\ setupError' = FALSE
  /\ listed' \in BOOLEAN
  /\ showCreateRoom' \in IF listed' THEN BOOLEAN ELSE {TRUE}
  /\ Interfere(c) /\ EndSetupCall(c)
  /\ UNCHANGED <<editingRoomId, editingSensorId, home, choice>>

ListIsLost(c) ==
  /\ setupCalls[c].step = "list"
  /\ setupState' = IF listed THEN "ready" ELSE "error"
  /\ setupError' = TRUE
  /\ Interfere(c) /\ EndSetupCall(c)
  /\ UNCHANGED <<listed, formVars, home, choice>>

(* Another client moves the sensor, or removes its room. *)
OthersMove(r) ==
  /\ home' = r /\ choice' = "open"
  /\ UNCHANGED <<interfered, formVars, flagVars, setupCalls>> /\ KeepPage

SetupNext ==
  \/ PollSetup \/ RefreshSetup \/ RetrySetup \/ ToggleCreate \/ CreateRoom
  \/ \E r \in Rooms : SaveRoom(r) \/ DeleteRoom(r)
  \/ \E r \in Rooms \cup {Null} : EditRoom(r) \/ OthersMove(r)
  \/ \E s \in Sensors : SaveSensorName(s)
  \/ \E s \in Sensors \cup {Null} : EditSensor(s)
  \/ \E s \in Sensors, r \in Rooms, kind \in Moves : Move(kind, s, r)
  \/ \E c \in RunningCalls : RequestSucceeds(c) \/ RequestFails(c) \/ ListArrives(c) \/ ListIsLost(c)

-----------------------------------------------------------------------------
Handles(kind, room, sensor) ==
  \E c \in RunningCalls :
    /\ setupCalls[c].kind = kind
    /\ setupCalls[c].room = room /\ setupCalls[c].sensor = sensor

(* Whatever is disabled has a handler under way that will enable it again,  *)
(* although handlers of one kind share one id: none overwrites or clears it *)
(* so that a control stays disabled with nobody left to free it.            *)
DisabledHasHandler ==
  /\ creating => Handles("create", Null, Null)
  /\ savingRoomId # Null => Handles("saveRoom", savingRoomId, Null)
  /\ deletingRoomId # Null => Handles("deleteRoom", deletingRoomId, Null)
  /\ savingSensorId # Null => Handles("saveSensor", Null, savingSensorId)
  /\ busySensorId # Null =>
       \E r \in Rooms, kind \in Moves : Handles(kind, r, busySensorId)

(* A sensor ends up in the room that was chosen for it last, unless a       *)
(* request fails or somebody else moves it - as long as no other sensor is  *)
(* moved at the same time: that one's handler frees the controls of this    *)
(* sensor too soon, and two requests for it can pass each other.            *)
LastChoiceWins ==
  choice # "open" /\ ~MoveRuns /\ ~interfered => home = choice
=============================================================================
