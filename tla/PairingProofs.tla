---------------------------- MODULE PairingProofs -----------------------------
(***************************************************************************)
(* Theorems about Pairing, for any threads, boards and number of scans.    *)
(***************************************************************************)
EXTENDS Pairing, TLAPS

(* The sensorId of a candidate is one that its board tells. *)
Tells(c) == c.id \in {AdvertId[c.board], GattId[c.board]}

CandidatesTold ==
  /\ \A c \in candidates : Tells(c)
  /\ \A q \in Threads : \A c \in picked[q] : Tells(c)

(* A request that has signalled the board, or need not, goes on to the      *)
(* firewall; one that has passed that, too, records.                        *)
Signalled ==
  \A q \in Threads : pc[q] \in {"allow", "allowBle", "record"} =>
    \A c \in picked[q] : c.board \in signalled \cup Beacons

(* What is asked for over GATT is no beacon: the BLE address never stands   *)
(* for the MAC of one.                                                      *)
AskedOverGatt ==
  \A q \in Threads : pc[q] \in {"signal", "allowBle"} =>
    \A c \in picked[q] : c.board \notin Beacons

LetThrough ==
  \A q \in Threads : pc[q] = "record" =>
    \A c \in picked[q] : CanPublish(c.board) \/ MacUnread(c.board)

AdmitInv ==
  /\ CandidatesTold
  /\ Signalled
  /\ AskedOverGatt
  /\ LetThrough
  /\ AdmittedNotListed
  /\ AdmittedCanPublishOrMacUnread

(* While requests do not race, one at a time is in start_scan, and has seen *)
(* to the scan before it.                                                   *)
OneStarts ==
  ~ raced =>
    \A p, q \in Threads : pc[p] \in InStartScan /\ pc[q] \in InStartScan => p = q

FutureCancelled ==
  ~ raced => \A q \in Threads : 
    pc[q] = "clear" => \/ future = NoScan
                       \/ future \in cancelled
                       \/ scan[future] = "over"

FutureCleared ==
  ~ raced => \A q \in Threads : pc[q] \in {"submit", "assign"} => future = NoScan

StartInv ==
  /\ OneStarts
  /\ FutureCancelled
  /\ FutureCleared
  /\ SupersededScansCancelled

-----------------------------------------------------------------------------
LEMMA TypeInit == Init => TypeOK
BY DEF Init, TypeOK, NoScan, InStartScan

(* What _remember leaves of the list. *)
LEMMA RememberType ==
  ASSUME TypeOK, NEW b \in Boards, NEW id \in {AdvertId[b], GattId[b]},
         Remember(id, b)
  PROVE  /\ candidates' \subseteq Candidate
         /\ \A c, d \in candidates' : c.id = d.id => c = d
         /\ session = NoScan => candidates' = candidates
<1>1. id \in Ids
  BY DEF Ids
<1>. QED
  BY <1>1 DEF TypeOK, Remember, Candidate

LEMMA StartScanType ==
  ASSUME TypeOK, NEW q \in Threads, BeginScan(q) \/ StartScan(q)
  PROVE  TypeOK'
<1>1. CASE BeginScan(q)
  BY <1>1 DEF TypeOK, BeginScan, Goto, InStartScan, sessionVars, scanVars, boardVars
<1>2. CASE CheckFuture(q)
  BY <1>2 DEF TypeOK, CheckFuture, Goto, InStartScan, sessionVars, scanVars, boardVars
<1>3. CASE CancelFuture(q)
  BY <1>3 DEF TypeOK, CancelFuture, Goto, InStartScan, sessionVars, boardVars
<1>4. CASE CancelNothing(q)
  BY <1>4 DEF TypeOK, CancelNothing, Goto, InStartScan, sessionVars, scanVars, boardVars
<1>5. CASE ClearFuture(q)
  BY <1>5 DEF TypeOK, ClearFuture, Goto, InStartScan, sessionVars, scanVars, boardVars
<1>6. CASE Submit(q)
  BY <1>6 DEF TypeOK, Submit, Goto, InStartScan, sessionVars, boardVars
<1>7. CASE AssignFuture(q)
  BY <1>7 DEF TypeOK, AssignFuture, Goto, InStartScan, sessionVars, scanVars, boardVars
<1>8. CASE InstallSession(q)
  BY <1>8, ScansAssumption
  DEF TypeOK, InstallSession, Goto, InStartScan, scanVars, boardVars, Scans, NoScan
<1>. QED
  BY <1>1, <1>2, <1>3, <1>4, <1>5, <1>6, <1>7, <1>8 DEF StartScan

LEMMA AdmitType ==
  ASSUME TypeOK, NEW q \in Threads, LookUp(q) \/ Admit(q)
  PROVE  TypeOK'
<1>1. CASE LookUp(q)
  BY <1>1 DEF TypeOK, LookUp, Goto, InStartScan, InAdmit, sessionVars, scanVars, boardVars
<1>2. PickedBoards(q) \subseteq Boards /\ PickedIds(q) \subseteq Ids
  BY DEF TypeOK, PickedBoards, PickedIds, Candidate
<1>7. PickedMacs(q) \subseteq (Boards \X {"wifi", "ble"})
  BY <1>2 DEF PickedMacs
<1>3. CASE SignalBoard(q)
  BY <1>2, <1>3 DEF TypeOK, SignalBoard, Goto, InStartScan, InAdmit, sessionVars, scanVars
<1>4. CASE AllowMac(q)
  BY <1>7, <1>4 DEF TypeOK, AllowMac, Goto, InStartScan, InAdmit, sessionVars, scanVars
<1>5. CASE AdmitFails(q)
  BY <1>2, <1>7, <1>5 DEF TypeOK, AdmitFails, Goto, InStartScan, InAdmit, sessionVars, scanVars
<1>6. CASE RecordAdmitted(q)
  BY <1>2, <1>6 DEF TypeOK, RecordAdmitted, Goto, InStartScan, InAdmit, scanVars, boardVars
<1>. QED
  BY <1>1, <1>3, <1>4, <1>5, <1>6 DEF Admit

LEMMA LoopType ==
  ASSUME TypeOK, Loop
  PROVE  TypeOK'
<1>1. ASSUME NEW s \in Scans, Listen(s) PROVE TypeOK'
  BY <1>1 DEF TypeOK, Listen, sessionVars, boardVars
<1>2. ASSUME NEW s \in Scans, ScanFails(s) PROVE TypeOK'
  <2>1. bleError' \in BOOLEAN
    BY <1>2, Zenon DEF ScanFails
  <2>2. session = NoScan => ~ bleError'
    BY <1>2 DEF TypeOK, ScanFails
  <2>. QED
    BY <1>2, <2>1, <2>2 DEF TypeOK, ScanFails, EndScan, boardVars
<1>3. ASSUME NEW s \in Scans, Complete(s) \/ StopScan(s) PROVE TypeOK'
  BY <1>3 DEF TypeOK, Complete, StopScan, EndScan, sessionVars, boardVars
<1>4. ASSUME NEW s \in Scans, NEW b \in Boards, BeginProbe(s, b) PROVE TypeOK'
  BY <1>4 DEF TypeOK, BeginProbe, sessionVars, boardVars
<1>5. ASSUME NEW s \in Scans, NEW b \in Boards, EndProbe(s, b) PROVE TypeOK'
  BY <1>5, RememberType DEF TypeOK, EndProbe, boardVars
<1>6. ASSUME NEW s \in Scans, NEW b \in Boards, Hear(s, b) PROVE TypeOK'
  BY <1>6, RememberType DEF TypeOK, Hear, scanVars, boardVars
<1>. QED
  BY <1>1, <1>2, <1>3, <1>4, <1>5, <1>6 DEF Loop

LEMMA TypeStep == TypeOK /\ [Next]_vars => TypeOK'
<1>1. CASE UNCHANGED vars
  BY <1>1 DEF TypeOK, vars, sessionVars, scanVars, boardVars
<1>. QED
  BY <1>1, StartScanType, AdmitType, LoopType DEF Next

(* The types hold, whatever threads and coroutines do. *)
THEOREM TypeCorrect == Spec => []TypeOK
BY TypeInit, TypeStep, PTL DEF Spec

-----------------------------------------------------------------------------
(* Admission. *)

LEMMA RememberAdmit ==
  ASSUME AdmitInv, NEW b \in Boards, NEW id \in {AdvertId[b], GattId[b]},
         Remember(id, b), UNCHANGED <<pc, picked, admitted, boardVars>>
  PROVE  AdmitInv'
<1>1. \A c \in candidates' : Tells(c) /\ c.id \notin admitted
  BY DEF AdmitInv, CandidatesTold, AdmittedNotListed, Remember, Tells
<1>. QED
  BY <1>1
  DEF AdmitInv, CandidatesTold, Tells, CanPublish, MacUnread, Signalled,
      AskedOverGatt, LetThrough, AdmittedNotListed,
      AdmittedCanPublishOrMacUnread, boardVars

(* Steps that leave alone what AdmitInv is about, or empty the session. *)
LEMMA ElsewhereAdmit ==
  ASSUME AdmitInv, UNCHANGED <<picked, boardVars>>,
         \/ UNCHANGED <<candidates, admitted>>
         \/ candidates' = {} /\ admitted' = {},
         \A q \in Threads : pc'[q] \in InAdmit => pc'[q] = pc[q]
  PROVE  AdmitInv'
BY DEF AdmitInv, CandidatesTold, Tells, CanPublish, MacUnread, Signalled,
       AskedOverGatt, LetThrough, AdmittedNotListed,
       AdmittedCanPublishOrMacUnread, boardVars, InAdmit

LEMMA StartScanAdmit ==
  ASSUME TypeOK, AdmitInv, NEW q \in Threads, BeginScan(q) \/ StartScan(q)
  PROVE  AdmitInv'
<1>1. \A p \in Threads : pc'[p] \in InAdmit => pc'[p] = pc[p]
  BY DEF TypeOK, BeginScan, StartScan, CheckFuture, CancelFuture, CancelNothing,
         ClearFuture, Submit, AssignFuture, InstallSession, Goto, InAdmit
<1>2. UNCHANGED <<picked, boardVars>>
  BY DEF BeginScan, StartScan, CheckFuture, CancelFuture, CancelNothing,
         ClearFuture, Submit, AssignFuture, InstallSession
<1>3. \/ UNCHANGED <<candidates, admitted>>
      \/ candidates' = {} /\ admitted' = {}
  BY DEF BeginScan, StartScan, CheckFuture, CancelFuture, CancelNothing,
         ClearFuture, Submit, AssignFuture, InstallSession, sessionVars
<1>. QED
  BY <1>1, <1>2, <1>3, ElsewhereAdmit

(* What is told and let through stays so.                                   *)
LEMMA StaysAdmitted ==
  ASSUME AdmitInv, signalled \subseteq signalled', allowed \subseteq allowed',
         UNCHANGED <<candidates, admitted>>
  PROVE  /\ AdmittedNotListed' /\ AdmittedCanPublishOrMacUnread'
         /\ \A b \in Boards : CanPublish(b) \/ MacUnread(b)
                              => CanPublish(b)' \/ MacUnread(b)'
<1>1. \A b \in Boards : CanPublish(b) \/ MacUnread(b)
                        => CanPublish(b)' \/ MacUnread(b)'
  BY DEF CanPublish, MacUnread
<1>. QED
  BY <1>1 DEF AdmitInv, AdmittedNotListed, AdmittedCanPublishOrMacUnread

LEMMA AdmitAdmit ==
  ASSUME TypeOK, AdmitInv, NEW q \in Threads, LookUp(q) \/ Admit(q)
  PROVE  AdmitInv'
<1>0. /\ \A p \in Threads : \A c \in picked[p] : c.board \in Boards
      /\ picked \in [Threads -> SUBSET Candidate] /\ DOMAIN pc = Threads
  BY DEF TypeOK, Candidate
<1>1. CASE LookUp(q)
  <2>1. UNCHANGED <<signalled, allowed, candidates, admitted>>
    BY <1>1 DEF LookUp, sessionVars, boardVars
  <2>2. CandidatesTold' /\ Signalled' /\ AskedOverGatt' /\ LetThrough'
    BY <1>0, <1>1 DEF LookUp, Goto, sessionVars, boardVars, AdmitInv, CandidatesTold,
       Tells, Signalled, AskedOverGatt, LetThrough, CanPublish, MacUnread
  <2>. QED
    BY <2>1, <2>2, StaysAdmitted DEF AdmitInv
<1>2. CASE SignalBoard(q)
  <2>1. /\ UNCHANGED <<allowed, candidates, admitted, picked>>
        /\ signalled' = signalled \cup PickedBoards(q)
    BY <1>2 DEF SignalBoard, sessionVars
  <2>2. pc[q] = "signal" /\ \E step \in {"allow", "allowBle"} :
          pc' = [pc EXCEPT ![q] = step]
    BY <1>2 DEF SignalBoard, Goto
  <2>3. CandidatesTold' /\ Signalled' /\ AskedOverGatt'
    BY <1>0, <2>1, <2>2 DEF AdmitInv, CandidatesTold, Tells, Signalled, AskedOverGatt,
       PickedBoards
  <2>4. LetThrough'
    BY <1>0, <2>1, <2>2, StaysAdmitted DEF AdmitInv, LetThrough
  <2>. QED
    BY <2>1, <2>3, <2>4, StaysAdmitted DEF AdmitInv
<1>3. CASE AllowMac(q)
  <2>1. /\ UNCHANGED <<signalled, candidates, admitted, picked>>
        /\ allowed' = allowed \cup PickedMacs(q)
        /\ pc[q] \in {"allow", "allowBle"} /\ pc' = [pc EXCEPT ![q] = "record"]
    BY <1>3 DEF AllowMac, Goto, sessionVars
  <2>2. CandidatesTold' /\ Signalled' /\ AskedOverGatt'
    BY <1>0, <2>1 DEF AdmitInv, CandidatesTold, Tells, Signalled, AskedOverGatt
  <2>3. ASSUME NEW c \in picked[q]
        PROVE  CanPublish(c.board)' \/ MacUnread(c.board)'
    <3>1. c.board \in PickedBoards(q) /\ c.board \in signalled \cup Beacons
      BY <2>1 DEF PickedBoards, AdmitInv, Signalled
    <3>2. CASE pc[q] = "allow"
      <4>1. <<c.board, "wifi">> \in PickedMacs(q)
        BY <3>1, <3>2 DEF PickedMacs
      <4>. QED
        BY <2>1, <3>1, <4>1 DEF CanPublish
    <3>3. CASE pc[q] = "allowBle"
      <4>1. <<c.board, "ble">> \in PickedMacs(q)
        BY <3>1, <3>3 DEF PickedMacs
      <4>2. c.board \notin Beacons
        BY <3>3 DEF AdmitInv, AskedOverGatt
      <4>. QED
        BY <2>1, <3>1, <4>1, <4>2 DEF MacUnread
    <3>. QED
      BY <2>1, <3>2, <3>3
  <2>4. LetThrough'
    <3>1. ASSUME NEW p \in Threads, pc'[p] = "record", NEW c \in picked[p]
          PROVE  CanPublish(c.board)' \/ MacUnread(c.board)'
      <4>1. CASE p = q
        BY <2>3, <4>1, <3>1
      <4>2. CASE p # q
        <5>1. CanPublish(c.board) \/ MacUnread(c.board)
          BY <1>0, <2>1, <3>1, <4>2 DEF AdmitInv, LetThrough
        <5>. QED
          BY <1>0, <2>1, <5>1, StaysAdmitted
      <4>. QED
        BY <4>1, <4>2
    <3>. QED
      BY <2>1, <3>1 DEF LetThrough
  <2>. QED
    BY <2>1, <2>2, <2>4, StaysAdmitted DEF AdmitInv
<1>4. CASE AdmitFails(q)
  <2>1. /\ UNCHANGED <<candidates, admitted>>
        /\ signalled \subseteq signalled' /\ allowed \subseteq allowed'
        /\ picked' = [picked EXCEPT ![q] = {}] /\ pc' = [pc EXCEPT ![q] = "idle"]
    BY <1>4 DEF AdmitFails, Goto, sessionVars
  <2>2. CandidatesTold' /\ Signalled' /\ AskedOverGatt'
    BY <1>0, <2>1 DEF AdmitInv, CandidatesTold, Tells, Signalled, AskedOverGatt
  <2>3. LetThrough'
    BY <1>0, <2>1, StaysAdmitted DEF AdmitInv, LetThrough
  <2>. QED
    BY <2>1, <2>2, <2>3, StaysAdmitted DEF AdmitInv
<1>5. CASE RecordAdmitted(q)
  <2>1. /\ UNCHANGED <<signalled, allowed>>
        /\ pc[q] = "record" /\ pc' = [pc EXCEPT ![q] = "idle"]
        /\ picked' = [picked EXCEPT ![q] = {}]
    BY <1>5 DEF RecordAdmitted, Goto, boardVars
  <2>2. /\ admitted' \subseteq admitted \cup PickedIds(q)
        /\ \A c \in candidates' : c \in candidates /\ c.id \notin admitted'
    BY <1>5 DEF RecordAdmitted, AdmitInv, AdmittedNotListed
  <2>3. CandidatesTold' /\ Signalled' /\ AskedOverGatt'
    BY <1>0, <2>1, <2>2 DEF AdmitInv, CandidatesTold, Tells, Signalled, AskedOverGatt
  <2>4. LetThrough'
    BY <1>0, <2>1 DEF AdmitInv, LetThrough, CanPublish, MacUnread
  <2>5. AdmittedCanPublishOrMacUnread'
    <3>1. ASSUME NEW id \in PickedIds(q)
          PROVE  \E b \in Boards : /\ id \in {AdvertId[b], GattId[b]}
                                   /\ CanPublish(b) \/ MacUnread(b)
      BY <1>0, <2>1 DEF PickedIds, AdmitInv, CandidatesTold, Tells, LetThrough
    <3>. QED
      BY <2>1, <2>2, <3>1 DEF AdmitInv, AdmittedCanPublishOrMacUnread, CanPublish, MacUnread
  <2>. QED
    BY <2>2, <2>3, <2>4, <2>5 DEF AdmitInv, AdmittedNotListed
<1>. QED
  BY <1>1, <1>2, <1>3, <1>4, <1>5 DEF Admit

LEMMA LoopAdmit ==
  ASSUME TypeOK, AdmitInv, Loop
  PROVE  AdmitInv'
<1>1. ASSUME NEW s \in Scans, Listen(s) \/ ScanFails(s) \/ Complete(s) \/ StopScan(s)
      PROVE  AdmitInv'
  BY <1>1, ElsewhereAdmit DEF Listen, ScanFails, Complete, StopScan, sessionVars
<1>2. ASSUME NEW s \in Scans, NEW b \in Boards, BeginProbe(s, b)
      PROVE  AdmitInv'
  BY <1>2, ElsewhereAdmit DEF BeginProbe, sessionVars
<1>3. ASSUME NEW s \in Scans, NEW b \in Boards, EndProbe(s, b) \/ Hear(s, b)
      PROVE  AdmitInv'
  <2>1. PICK id \in {AdvertId[b], GattId[b]} : Remember(id, b)
    BY <1>3 DEF EndProbe, Hear
  <2>2. UNCHANGED <<pc, picked, admitted, boardVars>>
    BY <1>3 DEF EndProbe, Hear
  <2>. QED
    BY <2>1, <2>2, RememberAdmit
<1>. QED
  BY <1>1, <1>2, <1>3 DEF Loop

LEMMA AdmitStep == TypeOK /\ AdmitInv /\ [Next]_vars => AdmitInv'
<1>1. CASE TypeOK /\ AdmitInv /\ UNCHANGED vars
  BY <1>1, ElsewhereAdmit DEF vars, sessionVars
<1>. QED
  BY <1>1, StartScanAdmit, AdmitAdmit, LoopAdmit DEF Next

LEMMA AdmitInit == Init => AdmitInv
BY DEF Init, AdmitInv, CandidatesTold, Signalled, AskedOverGatt, LetThrough, AdmittedNotListed,
       AdmittedCanPublishOrMacUnread

(* However many requests, scans and probes run into each other, a sensorId *)
(* that is shown as admitted is not among the candidates.                  *)
THEOREM AdmittedNotListedHolds == Spec => []AdmittedNotListed
<1>1. AdmitInv => AdmittedNotListed
  BY DEF AdmitInv
<1>. QED
  BY <1>1, AdmitInit, AdmitStep, TypeCorrect, PTL DEF Spec

(* A board shown as admitted was told, unless it is a beacon, and its MAC   *)
(* was let through, or could not be read (signal_admit).                    *)
THEOREM AdmittedCanPublishOrMacUnreadHolds == Spec => []AdmittedCanPublishOrMacUnread
<1>1. AdmitInv => AdmittedCanPublishOrMacUnread
  BY DEF AdmitInv
<1>. QED
  BY <1>1, AdmitInit, AdmitStep, TypeCorrect, PTL DEF Spec

-----------------------------------------------------------------------------
(* One scan supersedes the other. *)

LEMMA StartInit == Init => StartInv
BY DEF Init, StartInv, OneStarts, FutureCancelled, FutureCleared,
       SupersededScansCancelled, InStartScan, NoScan

LEMMA StartScanStart ==
  ASSUME TypeOK, StartInv, NEW q \in Threads, BeginScan(q) \/ StartScan(q)
  PROVE  StartInv'
<1>. USE DEF StartInv, OneStarts, FutureCancelled, FutureCleared,
             SupersededScansCancelled, InStartScan, TypeOK, Goto
<1>1. CASE BeginScan(q)
  BY <1>1 DEF BeginScan, scanVars
<1>2. CASE CheckFuture(q)
  BY <1>2 DEF CheckFuture, scanVars
<1>3. CASE CancelFuture(q)
  BY <1>3 DEF CancelFuture
<1>4. CASE CancelNothing(q)
  BY <1>4 DEF CancelNothing, scanVars
<1>5. CASE ClearFuture(q)
  BY <1>5 DEF ClearFuture, scanVars
<1>6. CASE Submit(q)
  BY <1>6 DEF Submit
<1>7. CASE AssignFuture(q)
  <2>1. NoScan \notin Scans
    BY ScansAssumption DEF NoScan, Scans
  <2>2. ~ raced => \A p \in Threads : p # q => pc[p] \notin InStartScan
    BY <1>7 DEF AssignFuture
  <2>3. (OneStarts /\ FutureCancelled /\ FutureCleared)'
    BY <1>7, <2>2 DEF AssignFuture, scanVars
  <2>4. SupersededScansCancelled'
    BY <1>7, <2>1, <2>2 DEF AssignFuture, scanVars
  <2>. QED
    BY <2>3, <2>4
<1>8. CASE InstallSession(q)
  BY <1>8 DEF InstallSession, scanVars
<1>. QED
  BY <1>1, <1>2, <1>3, <1>4, <1>5, <1>6, <1>7, <1>8 DEF StartScan

(* Admission and the event loop start no scan; cancelled ones end. *)
LEMMA ElsewhereStart ==
  ASSUME TypeOK, StartInv, UNCHANGED <<future, mine, raced>>,
         \A q \in Threads :
           pc[q] \in InStartScan \/ pc'[q] \in InStartScan => pc'[q] = pc[q],
         \A s \in Scans :
           /\ scan'[s] \in {"submitted", "listening"}
                => scan[s] \in {"submitted", "listening"}
           /\ scan[s] = "over" => scan'[s] = "over"
           /\ s \in cancelled => s \in cancelled' \/ scan'[s] = "over"
  PROVE  StartInv'
<1>1. OneStarts' /\ FutureCleared'
  BY DEF StartInv, OneStarts, FutureCleared, InStartScan
<1>2. FutureCancelled'
  BY DEF TypeOK, StartInv, FutureCancelled, InStartScan
<1>3. SupersededScansCancelled'
  BY DEF StartInv, SupersededScansCancelled, InStartScan
<1>. QED
  BY <1>1, <1>2, <1>3 DEF StartInv

LEMMA AdmitStart ==
  ASSUME TypeOK, StartInv, NEW q \in Threads, LookUp(q) \/ Admit(q)
  PROVE  StartInv'
<1>1. \A p \in Threads :
        pc[p] \in InStartScan \/ pc'[p] \in InStartScan => pc'[p] = pc[p]
  BY DEF TypeOK, LookUp, Admit, SignalBoard, AllowMac, AdmitFails, RecordAdmitted,
         Goto, InStartScan
<1>2. UNCHANGED <<future, cancelled, mine, raced, scan>>
  BY DEF LookUp, Admit, SignalBoard, AllowMac, AdmitFails, RecordAdmitted, scanVars
<1>. QED
  BY <1>1, <1>2, ElsewhereStart

LEMMA LoopStart ==
  ASSUME TypeOK, StartInv, Loop
  PROVE  StartInv'
<1>1. UNCHANGED <<future, mine, raced, pc>>
  BY DEF Loop, Listen, ScanFails, Complete, StopScan, BeginProbe, EndProbe, Hear
<1>2. ASSUME NEW s \in Scans, Listen(s) PROVE StartInv'
  BY <1>1, <1>2, ElsewhereStart DEF TypeOK, Listen
<1>3. ASSUME NEW s \in Scans, ScanFails(s) \/ Complete(s) \/ StopScan(s)
      PROVE  StartInv'
  <2>1. EndScan(s)
    BY <1>3 DEF ScanFails, Complete, StopScan
  <2>. QED
    BY <1>1, <2>1, ElsewhereStart DEF TypeOK, EndScan
<1>4. ASSUME NEW s \in Scans, NEW b \in Boards,
             BeginProbe(s, b) \/ EndProbe(s, b) \/ Hear(s, b)
      PROVE  StartInv'
  <2>1. UNCHANGED <<scan, cancelled>>
    BY <1>4 DEF BeginProbe, EndProbe, Hear, scanVars
  <2>. QED
    BY <1>1, <2>1, ElsewhereStart
<1>. QED
  BY <1>2, <1>3, <1>4 DEF Loop

LEMMA StartStep == TypeOK /\ StartInv /\ [Next]_vars => StartInv'
<1>1. CASE TypeOK /\ StartInv /\ UNCHANGED vars
  BY <1>1, ElsewhereStart DEF vars, scanVars
<1>. QED
  BY <1>1, StartScanStart, AdmitStart, LoopStart DEF Next

(* As long as requests do not race, a new scan cancels the one before it. *)
THEOREM SupersededScansCancelledHolds == Spec => []SupersededScansCancelled
<1>1. StartInv => SupersededScansCancelled
  BY DEF StartInv
<1>. QED
  BY <1>1, StartInit, StartStep, TypeCorrect, PTL DEF Spec
=============================================================================
