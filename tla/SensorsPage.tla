---------------------------- MODULE SensorsPage -----------------------------
(***************************************************************************)
(* The list of sensors, with its scan dialog.  Calls of several kinds are  *)
(* under way at once, and nothing orders their answers: loads of the list; *)
(* questions to the gateway, every two seconds while it scans; Accept,     *)
(* which pairs a sensor unless the list has it already and then has the    *)
(* gateway admit it; Unpair.                                               *)
(*                                                                         *)
(* home-api and the gateway serve other clients too.  An answer is read at *)
(* one moment and arrives at a later one.  Which boards the gateway lists  *)
(* is free; the filter tabs only hide cards and are left out.              *)
(***************************************************************************)
EXTENDS DashboardNames

CONSTANTS Boards,   \* the sensors in reach of the gateway
          Slots     \* bound: one for each call in flight

ASSUME BoardsAssumption == Boards \subseteq Sensors

VARIABLES
  registered,    \* the sensors that home-api knows
  gatewayState,  \* of its pairing session; "idle": there is none
  shown,         \* the list that is shown; Null: fetchedAt is null
  listState, listError,
  scanOpen,      \* the dialog is open
  scan,          \* the state in the gateway's last answer; Null: none yet
  scanError,
  pairingId, unpairingId,
  calls          \* the calls that have not ended, each in a slot; Null: free

registryVars == <<registered, gatewayState>>
listVars == <<shown, listState, listError>>
dialogVars == <<scanOpen, scan, scanError>>
busyVars == <<pairingId, unpairingId>>
sensorsVars == <<registryVars, listVars, dialogVars, busyVars, calls>>

GatewayStates == {"idle", "scanning", "complete"}

(* A list as it was read, and (history) what was unpaired since. *)
List(sensors) == [sensors |-> sensors, gone |-> {}]

(* A call: whose it is, what it waits for, the answer that was read and has *)
(* not arrived, and (history) whether its sensor was unpaired since it was  *)
(* known to be paired.                                                      *)
Call(kind, step, sensor) ==
  [kind |-> kind, step |-> step, sensor |-> sensor, list |-> Null,
   answer |-> Null, removed |-> FALSE]

LoadList == Call("poll", "list", Null)

FirstLoad ==
  LET first == CHOOSE c \in Slots : TRUE
  IN [c \in Slots |-> IF c = first THEN LoadList ELSE Null]

(* The page is mounted, and a first load is under way. *)
SensorsPageInit ==
  /\ registered \in SUBSET Boards /\ gatewayState \in GatewayStates
  /\ shown = Null /\ listState = "loading" /\ listError = FALSE
  /\ scanOpen = FALSE /\ scan = Null /\ scanError = FALSE
  /\ pairingId = Null /\ unpairingId = Null
  /\ calls = FirstLoad

(* The same as a step; home-api and the gateway have been serving others.   *)
SensorsPageMount(known, state) ==
  /\ registered' = known /\ gatewayState' = state
  /\ shown' = Null /\ listState' = "loading" /\ listError' = FALSE
  /\ scanOpen' = FALSE /\ scan' = Null /\ scanError' = FALSE
  /\ pairingId' = Null /\ unpairingId' = Null
  /\ calls' = FirstLoad

-----------------------------------------------------------------------------
(* home-api and the gateway.                                               *)

ForgetIn(list, s) == IF list = Null THEN Null ELSE [list EXCEPT !.gone = @ \cup {s}]

(* A sensor is unpaired, by whomever. *)
Unlist(s, rest) ==
  /\ registered' = registered \ {s}
  /\ shown' = ForgetIn(shown, s)
  /\ calls' = [c \in Slots |->
                 IF rest[c] = Null THEN Null
                 ELSE [rest[c] EXCEPT !.list = ForgetIn(@, s),
                                      !.removed = @ \/ rest[c].sensor = s]]

OthersUnpair(s) ==
  /\ s \in registered /\ Unlist(s, calls)
  /\ UNCHANGED <<gatewayState, listState, listError, dialogVars, busyVars>>

OthersPair(s) ==
  /\ registered' = registered \cup {s}
  /\ UNCHANGED <<gatewayState, listVars, dialogVars, busyVars, calls>>

GatewayMoves(state) ==
  /\ gatewayState' = state
  /\ UNCHANGED <<registered, listVars, dialogVars, busyVars, calls>>

OthersScan == GatewayMoves("scanning")

WindowCloses == gatewayState = "scanning" /\ GatewayMoves("complete")

GatewayRestarts == GatewayMoves("idle")

-----------------------------------------------------------------------------
(* Calls begin.                                                            *)

Running == {c \in Slots : calls[c] # Null}

Begin(call) ==
  \E c \in Slots : calls[c] = Null /\ calls' = [calls EXCEPT ![c] = call]

Refreshing == \E c \in Running : calls[c].kind = "refresh"

PollList ==
  /\ Begin(LoadList)
  /\ UNCHANGED <<registryVars, listVars, dialogVars, busyVars>>

RefreshList ==
  /\ ~Refreshing /\ (shown # Null \/ listState # "loading")
  /\ Begin(Call("refresh", "list", Null))
  /\ UNCHANGED <<registryVars, listVars, dialogVars, busyVars>>

RetryList ==
  /\ listState = "error" /\ shown = Null
  /\ Begin(LoadList)
  /\ listState' = "loading" /\ listError' = FALSE
  /\ UNCHANGED <<registryVars, shown, dialogVars, busyVars>>

Looking == scanOpen /\ scan = "scanning"

PollCandidates ==
  /\ Looking
  /\ Begin(Call("poll", "candidates", Null))
  /\ UNCHANGED <<registryVars, listVars, dialogVars, busyVars>>

(* handleScan: the dialog opens, empty. *)
Scan ==
  /\ ~Looking
  /\ Begin(Call("scan", "scan", Null))
  /\ scanOpen' = TRUE /\ scan' = Null /\ scanError' = FALSE
  /\ UNCHANGED <<registryVars, listVars, busyVars>>

Done ==
  /\ scanOpen /\ scanOpen' = FALSE
  /\ UNCHANGED <<registryVars, listVars, scan, scanError, busyVars, calls>>

Known(s) == shown # Null /\ s \in shown.sensors

(* handlePair of a board that the gateway lists.  A sensor that is in the   *)
(* list of the page is not paired again.                                    *)
Accept(s) ==
  /\ scanOpen /\ scan # Null
  /\ pairingId # s /\ pairingId' = s
  /\ scanError' = FALSE
  /\ Begin(IF Known(s)
           THEN [Call("pair", "admit", s) EXCEPT !.removed = s \in shown.gone]
           ELSE Call("pair", "pair", s))
  /\ UNCHANGED <<registryVars, listVars, scanOpen, scan, unpairingId>>

(* handleUnpair, once confirmed. *)
UnpairListed(s) ==
  /\ Known(s)
  /\ unpairingId # s /\ unpairingId' = s
  /\ Begin(Call("unpair", "unpair", s))
  /\ UNCHANGED <<registryVars, listVars, dialogVars, pairingId>>

-----------------------------------------------------------------------------
(* Calls go on, in any order.                                              *)

ToStep(c, step) ==
  [calls EXCEPT ![c].step = step, ![c].answer = Null]

End(c) ==
  /\ calls' = [calls EXCEPT ![c] = Null]
  /\ pairingId' = IF calls[c].kind = "pair" THEN Null ELSE pairingId
  /\ unpairingId' = IF calls[c].kind = "unpair" THEN Null ELSE unpairingId

PairSensor(c) ==
  /\ calls[c].step = "pair"
  /\ registered' = registered \cup {calls[c].sensor}
  /\ calls' = ToStep(c, "admit")
  /\ UNCHANGED <<gatewayState, listVars, dialogVars, busyVars>>

(* Mutant of PairFails: the failure is reported, and the sensor admitted.   *)
PairFailsOnward(c) ==
  /\ calls[c].step = "pair"
  /\ scanError' = TRUE /\ calls' = ToStep(c, "admit")
  /\ UNCHANGED <<registryVars, listVars, scanOpen, scan, busyVars>>

(* The request or its answer is lost, or home-api refuses. *)
PairFails(c) ==
  /\ calls[c].step = "pair"
  /\ registered' \in {registered, registered \cup {calls[c].sensor}}
  /\ scanError' = TRUE /\ End(c)
  /\ UNCHANGED <<gatewayState, listVars, scanOpen, scan>>

(* The gateway admits the sensor, or fails to: the rest is done anyhow. *)
Admit(c) ==
  /\ calls[c].step = "admit"
  /\ scanError' \in {scanError, TRUE}
  /\ calls' = ToStep(c, "candidates")
  /\ UNCHANGED <<registryVars, listVars, scanOpen, scan, busyVars>>

StartScan(c) ==
  /\ calls[c].step = "scan" /\ calls[c].answer = Null
  /\ gatewayState' = "scanning"
  /\ calls' = [calls EXCEPT ![c].answer = "scanning"]
  /\ UNCHANGED <<registered, listVars, dialogVars, busyVars>>

ReadCandidates(c) ==
  /\ calls[c].step = "candidates" /\ calls[c].answer = Null
  /\ calls' = [calls EXCEPT ![c].answer = gatewayState]
  /\ UNCHANGED <<registryVars, listVars, dialogVars, busyVars>>

(* The rest of a call to the gateway. *)
AfterScan(c) ==
  IF calls[c].kind = "pair" THEN calls' = ToStep(c, "list") /\ UNCHANGED busyVars
                            ELSE End(c)

ShowScan(c) ==
  /\ calls[c].answer # Null
  /\ scan' = calls[c].answer /\ AfterScan(c)
  /\ UNCHANGED <<registryVars, listVars, scanOpen, scanError>>

(* Mutant of ScanFails: what the timer asks is best effort, too.            *)
ScanFailsSilently(c) ==
  /\ calls[c].step \in {"scan", "candidates"} /\ AfterScan(c)
  /\ UNCHANGED <<registryVars, listVars, dialogVars>>

ScanFails(c) ==
  /\ calls[c].step \in {"scan", "candidates"} /\ AfterScan(c)
  /\ scanError' = (scanError \/ calls[c].kind # "pair")
  /\ UNCHANGED <<registryVars, listVars, scanOpen, scan>>

UnpairSensor(c) ==
  /\ calls[c].step = "unpair"
  /\ Unlist(calls[c].sensor, ToStep(c, "list"))
  /\ UNCHANGED <<gatewayState, listState, listError, dialogVars, busyVars>>

(* The DELETE fails; if only its answer is lost, others have unpaired.      *)
UnpairSensorFails(c) ==
  /\ calls[c].step = "unpair"
  /\ listError' = TRUE /\ End(c)
  /\ UNCHANGED <<registryVars, shown, listState, dialogVars>>

ReadList(c) ==
  /\ calls[c].step = "list" /\ calls[c].list = Null
  /\ calls' = [calls EXCEPT ![c].list = List(registered)]
  /\ UNCHANGED <<registryVars, listVars, dialogVars, busyVars>>

ShowList(c) ==
  /\ calls[c].list # Null
  /\ shown' = calls[c].list
  /\ listState' = "ready" /\ listError' = FALSE /\ End(c)
  /\ UNCHANGED <<registryVars, dialogVars>>

ListFails(c) ==
  /\ calls[c].step = "list"
  /\ listState' = IF shown # Null THEN "ready" ELSE "error"
  /\ listError' = TRUE /\ End(c)
  /\ UNCHANGED <<registryVars, shown, dialogVars>>

CallGoesOn(c) ==
  \/ PairSensor(c) \/ PairFails(c) \/ Admit(c)
  \/ StartScan(c) \/ ReadCandidates(c) \/ ShowScan(c) \/ ScanFails(c)
  \/ UnpairSensor(c) \/ UnpairSensorFails(c)
  \/ ReadList(c) \/ ShowList(c) \/ ListFails(c)

SensorsPageNext ==
  \/ OthersScan \/ WindowCloses \/ GatewayRestarts
  \/ PollList \/ RefreshList \/ RetryList
  \/ PollCandidates \/ Scan \/ Done
  \/ \E s \in Boards :
       OthersUnpair(s) \/ OthersPair(s) \/ Accept(s) \/ UnpairListed(s)
  \/ \E c \in Running : CallGoesOn(c)

-----------------------------------------------------------------------------
(* A sensor that is accepted is known to home-api by the time the gateway   *)
(* is done with it, although pairing is left out for sensors that the page  *)
(* lists already: the one thing that comes between is an unpairing that the *)
(* list does not show yet.                                                  *)
AcceptRegisters ==
  \A c \in Running :
    calls[c].kind = "pair" /\ calls[c].step \in {"candidates", "list"}
      => calls[c].sensor \in registered \/ calls[c].removed
=============================================================================
