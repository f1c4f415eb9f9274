------------------------------- MODULE Pairing --------------------------------
(***************************************************************************)
(* The pairing service of the gateway: POST /scan and POST /admit on the   *)
(* threads of a ThreadingHTTPServer, the scan coroutines and their GATT    *)
(* probes on the event loop, and the session they all share.               *)
(*                                                                         *)
(* _session is guarded by a lock, and what is done under it is one step.   *)
(* _scan_future is not: every access to it is a step.  The radio, the      *)
(* boards and the firewall helper are external.                            *)
(***************************************************************************)
EXTENDS Naturals, FiniteSets

CONSTANTS Threads,      \* threads that serve requests
          Boards,       \* boards in pairing mode around the gateway
          Beacons,      \* those that only send a beacon, with their MAC: no GATT
          AdvertId,     \* AdvertId[b]: the sensorId in the advertisement of b
          GattId,       \* GattId[b]: the sensorId that its CHAR_INFO tells
          MaxScans      \* bound: scans that are submitted

ASSUME ScansAssumption == MaxScans \in Nat
ASSUME BeaconsAssumption == Beacons \subseteq Boards

VARIABLES
  session,     \* the scan that _session is about, or NoScan
  candidates,  \* its candidates
  admitted,    \* its admittedIds
  bleError,    \* it shows an error
  future,      \* the scan of _scan_future, or NoScan
  scan,        \* scan[s]: where the coroutine _scan_until of scan s is
  cancelled,   \* the scans that were cancelled and have not ended
  probed,      \* probed[s]: the boards scan s has connected to, or begun to
  probing,     \* the probes under way, each by its scan and board
  pc,          \* pc[q]: what thread q does next
  mine,        \* mine[q]: the scan that q has submitted, until it is installed
  picked,      \* picked[q]: the candidates that q has looked up to admit
  signalled,   \* the boards that were told they are admitted
  allowed,     \* what the firewall lets through: of a board "wifi", the MAC
               \* that it publishes from, or "ble", its BLE address
  raced        \* history: two threads have been in start_scan at once

sessionVars == <<session, candidates, admitted, bleError>>
scanVars == <<scan, cancelled, probed, probing>>
boardVars == <<signalled, allowed>>
vars == <<sessionVars, future, scanVars, pc, mine, picked, boardVars, raced>>

NoScan == 0
Scans == 1 .. MaxScans
Ids == {AdvertId[b] : b \in Boards} \cup {GattId[b] : b \in Boards}
Candidate == [id : Ids, board : Boards]

InStartScan == {"check", "cancel", "clear", "submit", "assign", "install"}
InAdmit == {"signal", "allow", "allowBle", "record"}

TypeOK ==
  /\ session \in Scans \cup {NoScan}
  /\ candidates \subseteq Candidate
  /\ \A c, d \in candidates : c.id = d.id => c = d
  /\ admitted \subseteq Ids
  /\ session = NoScan => candidates = {} /\ admitted = {} /\ ~ bleError
  /\ bleError \in BOOLEAN
  /\ future \in Scans \cup {NoScan}
  /\ scan \in [Scans -> {"none", "submitted", "listening", "over"}]
  /\ cancelled \subseteq Scans
  /\ probed \in [Scans -> SUBSET Boards]
  /\ probing \subseteq (Scans \X Boards)
  /\ pc \in [Threads -> {"idle"} \cup InStartScan \cup InAdmit]
  /\ mine \in [Threads -> Scans \cup {NoScan}]
  /\ \A q \in Threads : pc[q] \in {"assign", "install"} => mine[q] \in Scans
  /\ picked \in [Threads -> SUBSET Candidate]
  /\ signalled \subseteq Boards
  /\ allowed \subseteq (Boards \X {"wifi", "ble"})
  /\ raced \in BOOLEAN

Goto(q, step) == pc' = [pc EXCEPT ![q] = step]

Init ==
  /\ session = NoScan
  /\ candidates = {}
  /\ admitted = {}
  /\ bleError = FALSE
  /\ future = NoScan
  /\ scan = [s \in Scans |-> "none"]
  /\ cancelled = {}
  /\ probed = [s \in Scans |-> {}]
  /\ probing = {}
  /\ pc = [q \in Threads |-> "idle"]
  /\ mine = [q \in Threads |-> NoScan]
  /\ picked = [q \in Threads |-> {}]
  /\ signalled = {}
  /\ allowed = {}
  /\ raced = FALSE

-----------------------------------------------------------------------------
(* POST /scan: start_scan of pairing.py and of pairing_ble.py. *)

(* A request arrives. *)
BeginScan(q) ==
  /\ pc[q] = "idle"
  /\ \E s \in Scans : scan[s] = "none"
  /\ raced' = (raced \/ \E p \in Threads : pc[p] \in InStartScan)
  /\ Goto(q, "check")
  /\ UNCHANGED <<sessionVars, future, scanVars, mine, picked, boardVars>>

(* cancel_scan: is there a future? *)
CheckFuture(q) ==
  /\ pc[q] = "check"
  /\ Goto(q, IF future = NoScan THEN "submit" ELSE "cancel")
  /\ UNCHANGED <<sessionVars, future, scanVars, mine, picked, boardVars, raced>>

(* Mutant of CancelFuture: only a scan that listens is cancelled. *)
CancelListening(q) ==
  /\ pc[q] = "cancel"
  /\ future # NoScan
  /\ cancelled' = IF scan[future] = "listening"
                    THEN cancelled \cup {future}
                    ELSE cancelled
  /\ Goto(q, "clear")
  /\ UNCHANGED <<sessionVars, future, scan, probed, probing, mine,
                 picked, boardVars, raced>>

CancelFuture(q) ==
  /\ pc[q] = "cancel"
  /\ future # NoScan
  /\ cancelled' = IF scan[future] = "over" THEN cancelled ELSE cancelled \cup {future}
  /\ Goto(q, "clear")
  /\ UNCHANGED <<sessionVars, future, scan, probed, probing, mine,
                 picked, boardVars, raced>>

(* The future has gone since it was looked at: AttributeError ends the     *)
(* request, and nothing is started.                                        *)
CancelNothing(q) ==
  /\ pc[q] = "cancel"
  /\ future = NoScan
  /\ Goto(q, "idle")
  /\ UNCHANGED <<sessionVars, future, scanVars, mine, picked, boardVars, raced>>

ClearFuture(q) ==
  /\ pc[q] = "clear"
  /\ future' = NoScan
  /\ Goto(q, "submit")
  /\ UNCHANGED <<sessionVars, scanVars, mine, picked, boardVars, raced>>

(* The coroutine is handed to the event loop, which may run it at once. *)
Submit(q) ==
  /\ pc[q] = "submit"
  /\ \E s \in Scans :
       /\ scan[s] = "none"
       /\ \A t \in 1 .. s - 1 : scan[t] # "none"
       /\ scan' = [scan EXCEPT ![s] = "submitted"]
       /\ mine' = [mine EXCEPT ![q] = s]
  /\ Goto(q, "assign")
  /\ UNCHANGED <<sessionVars, future, cancelled, probed, probing, picked,
                 boardVars, raced>>

AssignFuture(q) ==
  /\ pc[q] = "assign"
  /\ future' = mine[q]
  /\ Goto(q, "install")
  /\ UNCHANGED <<sessionVars, scanVars, mine, picked, boardVars, raced>>

(* Only now does the new session replace the old one. *)
InstallSession(q) ==
  /\ pc[q] = "install"
  /\ session' = mine[q]
  /\ candidates' = {}
  /\ admitted' = {}
  /\ bleError' = FALSE
  /\ mine' = [mine EXCEPT ![q] = NoScan]
  /\ Goto(q, "idle")
  /\ UNCHANGED <<future, scanVars, picked, boardVars, raced>>

-----------------------------------------------------------------------------
(* The event loop. *)

(* Mutant of Remember: an admitted sensor is listed again. *)
RememberAlways(id, b) ==
  candidates' = IF session = NoScan
                  THEN candidates
                  ELSE {c \in candidates : c.id # id}
                         \cup {[id |-> id, board |-> b]}

(* Mutant of Remember: before there is a session, too. *)
RememberEarly(id, b) ==
  candidates' = IF id \in admitted
                  THEN candidates
                  ELSE {c \in candidates : c.id # id}
                         \cup {[id |-> id, board |-> b]}

(* _remember: into whatever session there is now, one entry per sensorId. *)
Remember(id, b) ==
  candidates' = IF session = NoScan \/ id \in admitted
                  THEN candidates
                  ELSE {c \in candidates : c.id # id}
                         \cup {[id |-> id, board |-> b]}

(* The scanner stops; probes under way go on. *)
EndScan(s) ==
  /\ scan' = [scan EXCEPT ![s] = "over"]
  /\ cancelled' = cancelled \ {s}
  /\ probed' = [probed EXCEPT ![s] = {}]

(* The coroutine runs, up to its first await even if it was cancelled. *)
Listen(s) ==
  /\ scan[s] = "submitted"
  /\ scan' = [scan EXCEPT ![s] = "listening"]
  /\ UNCHANGED <<sessionVars, future, cancelled, probed, probing, pc, mine,
                 picked, boardVars, raced>>

(* scanner.start or the wait fails: _ble_error, into whatever session. *)
ScanFails(s) ==
  /\ scan[s] = "listening"
  /\ bleError' = (bleError \/ session # NoScan)
  /\ EndScan(s)
  /\ UNCHANGED <<session, candidates, admitted, future, probing, pc, mine,
                 picked, boardVars, raced>>

(* Its deadline passes. *)
Complete(s) ==
  /\ scan[s] = "listening"
  /\ EndScan(s)
  /\ UNCHANGED <<sessionVars, future, probing, pc, mine, picked, boardVars,
                 raced>>

(* The cancellation reaches the coroutine. *)
StopScan(s) ==
  /\ scan[s] = "listening"
  /\ s \in cancelled
  /\ EndScan(s)
  /\ UNCHANGED <<sessionVars, future, probing, pc, mine, picked, boardVars,
                 raced>>

(* The first advertisement of a board that is no beacon: a task connects   *)
(* to it, which the end of the scan does not end.                          *)
BeginProbe(s, b) ==
  /\ scan[s] = "listening"
  /\ b \notin probed[s] \cup Beacons
  /\ probed' = [probed EXCEPT ![s] = @ \cup {b}]
  /\ probing' = probing \cup {<<s, b>>}
  /\ UNCHANGED <<sessionVars, future, scan, cancelled, pc, mine,
                 picked, boardVars, raced>>

(* It answers, or does not, and then the advertisement has to do. *)
EndProbe(s, b) ==
  /\ <<s, b>> \in probing
  /\ probing' = probing \ {<<s, b>>}
  /\ \E id \in {GattId[b], AdvertId[b]} : Remember(id, b)
  /\ UNCHANGED <<session, admitted, bleError, future, scan, cancelled,
                 probed, pc, mine, picked, boardVars, raced>>

(* Mutant of Hear: a board is published once in a scan. *)
HearOnce(s, b) ==
  /\ scan[s] = "listening"
  /\ b \in Beacons \ probed[s]
  /\ probed' = [probed EXCEPT ![s] = @ \cup {b}]
  /\ Remember(AdvertId[b], b)
  /\ UNCHANGED <<session, admitted, bleError, future, scan, cancelled,
                 probing, pc, mine, picked, boardVars, raced>>

(* Any other advertisement is published as it is.  Whether a beacon is in  *)
(* probed makes no difference to it.                                       *)
Hear(s, b) ==
  /\ scan[s] = "listening"
  /\ b \in probed[s] \cup Beacons
  /\ Remember(AdvertId[b], b)
  /\ UNCHANGED <<session, admitted, bleError, future, scanVars, pc, mine,
                 picked, boardVars, raced>>

-----------------------------------------------------------------------------
(* POST /admit: admit of pairing.py and admit_device of pairing_ble.py. *)

(* The candidate is looked up and copied; the lock is given back. *)
LookUp(q) ==
  /\ pc[q] = "idle"
  /\ session # NoScan
  /\ \E c \in candidates :
       /\ picked' = [picked EXCEPT ![q] = {c}]
       /\ Goto(q, IF c.board \in Beacons THEN "allow" ELSE "signal")
  /\ UNCHANGED <<sessionVars, future, scanVars, mine, boardVars, raced>>

PickedBoards(q) == {c.board : c \in picked[q]}
PickedIds(q) == {c.id : c \in picked[q]}

(* What stands for the Wi-Fi MAC of the board that is let through. *)
PickedMacs(q) ==
  {<<b, IF pc[q] = "allowBle" THEN "ble" ELSE "wifi">> : b \in PickedBoards(q)}

(* CHAR_INFO tells the Wi-Fi MAC; or it cannot be read, or has none, and    *)
(* the BLE address is taken for it.  The board is told either way.          *)
SignalBoard(q) ==
  /\ pc[q] = "signal"
  /\ signalled' = signalled \cup PickedBoards(q)
  /\ \E step \in {"allow", "allowBle"} : Goto(q, step)
  /\ UNCHANGED <<sessionVars, future, scanVars, mine, picked, allowed, raced>>

AllowMac(q) ==
  /\ pc[q] \in {"allow", "allowBle"}
  /\ allowed' = allowed \cup PickedMacs(q)
  /\ Goto(q, "record")
  /\ UNCHANGED <<sessionVars, future, scanVars, mine, picked, signalled, raced>>

(* Mutant of AdmitFails: a helper that takes too long is passed over. *)
AdmitAnyway(q) ==
  \/ /\ pc[q] = "signal"
     /\ signalled' \in {signalled, signalled \cup PickedBoards(q)}
     /\ picked' = [picked EXCEPT ![q] = {}]
     /\ Goto(q, "idle")
     /\ UNCHANGED <<sessionVars, future, scanVars, mine, allowed, raced>>
  \/ /\ pc[q] \in {"allow", "allowBle"}
     /\ allowed' \in {allowed, allowed \cup PickedMacs(q)}
     /\ Goto(q, "record")
     /\ UNCHANGED <<sessionVars, future, scanVars, mine, picked, signalled, raced>>

(* GATT or the helper fails, or takes too long: the board may have been    *)
(* told and the MAC let through all the same.                              *)
AdmitFails(q) ==
  /\ \/ /\ pc[q] = "signal"
        /\ signalled' \in {signalled, signalled \cup PickedBoards(q)}
        /\ UNCHANGED allowed
     \/ /\ pc[q] \in {"allow", "allowBle"}
        /\ allowed' \in {allowed, allowed \cup PickedMacs(q)}
        /\ UNCHANGED signalled
  /\ picked' = [picked EXCEPT ![q] = {}]
  /\ Goto(q, "idle")
  /\ UNCHANGED <<sessionVars, future, scanVars, mine, raced>>

(* The result is recorded in whatever session there is now. *)
RecordAdmitted(q) ==
  /\ pc[q] = "record"
  /\ IF session = NoScan
       THEN UNCHANGED <<admitted, candidates>>
       ELSE /\ admitted' = admitted \cup PickedIds(q)
            /\ candidates' = {c \in candidates : c.id \notin PickedIds(q)}
  /\ picked' = [picked EXCEPT ![q] = {}]
  /\ Goto(q, "idle")
  /\ UNCHANGED <<session, bleError, future, scanVars, mine, boardVars, raced>>

StartScan(q) ==
  \/ CheckFuture(q)
  \/ CancelFuture(q)
  \/ CancelNothing(q)
  \/ ClearFuture(q)
  \/ Submit(q)
  \/ AssignFuture(q)
  \/ InstallSession(q)

Admit(q) ==
  \/ SignalBoard(q)
  \/ AllowMac(q)
  \/ AdmitFails(q)
  \/ RecordAdmitted(q)

Loop ==
  \/ \E s \in Scans : Listen(s) \/ ScanFails(s) \/ Complete(s) \/ StopScan(s)
  \/ \E s \in Scans, b \in Boards :
       BeginProbe(s, b) \/ EndProbe(s, b) \/ Hear(s, b)

Next ==
  \/ \E q \in Threads : BeginScan(q) \/ StartScan(q) \/ LookUp(q) \/ Admit(q)
  \/ Loop

Spec == Init /\ [][Next]_vars

(* Threads and the event loop run, and boards in pairing mode go on        *)
(* advertising.  Nothing is assumed of users, deadlines or failures.       *)
Fairness ==
  /\ \A q \in Threads : WF_vars(StartScan(q)) /\ WF_vars(Admit(q))
  /\ \A s \in Scans : WF_vars(Listen(s)) /\ WF_vars(StopScan(s))
  /\ \A s \in Scans, b \in Boards :
       WF_vars(BeginProbe(s, b)) /\ WF_vars(EndProbe(s, b)) /\ WF_vars(Hear(s, b))

FairSpec == Spec /\ Fairness

-----------------------------------------------------------------------------
(* Properties. *)

Listed(b) == \E c \in candidates : c.board = b

(* A sensorId that the session lists as admitted is not among its          *)
(* candidates, although advertisements and probes of several scans arrive  *)
(* while it is admitted, several requests admit it, and the session is     *)
(* replaced meanwhile.                                                     *)
AdmittedNotListed == \A c \in candidates : c.id \notin admitted

CanPublish(b) == b \in signalled \cup Beacons /\ <<b, "wifi">> \in allowed

(* Told, but not let through: its CHAR_INFO did not tell the Wi-Fi MAC, and *)
(* the firewall was opened for its BLE address.  No beacon ends up here.    *)
MacUnread(b) == b \in signalled \ Beacons /\ <<b, "ble">> \in allowed

(* Whatever is shown as admitted is a board that can publish: it was told,  *)
(* unless it is a beacon, and the firewall lets its Wi-Fi MAC through.  The *)
(* one exception that the code leaves is a board whose MAC signal_admit     *)
(* could not read; README.md quotes what the gateway promises instead.  It  *)
(* is about the order in which admit signals, allows and records, about     *)
(* helpers that fail, and about records that arrive in another session than *)
(* the one they were picked from.                                           *)
AdmittedCanPublishOrMacUnread ==
  \A id \in admitted : \E b \in Boards :
    /\ id \in {AdvertId[b], GattId[b]}
    /\ CanPublish(b) \/ MacUnread(b)

(* As long as no two requests were in start_scan at once, a new scan       *)
(* supersedes the old one: a scan that still runs is cancelled, or is the  *)
(* one that _scan_future or the current request stands for.                *)
SupersededScansCancelled ==
  ~ raced =>
    \A s \in Scans :
      scan[s] \in {"submitted", "listening"} /\ s \notin cancelled
        => s = future \/ \E q \in Threads : pc[q] = "assign" /\ mine[q] = s

(* The first candidates of a scan go to the session before it, and are     *)
(* lost; but as long as a scan listens, every board that advertises gets   *)
(* listed in the end, or has been admitted.                                *)
HeardGetsListed ==
  <>[] (session # NoScan /\ \E s \in Scans : scan[s] = "listening")
    => <>[] \A b \in Boards :
              Listed(b) \/ {AdvertId[b], GattId[b]} \cap admitted # {}
=============================================================================
