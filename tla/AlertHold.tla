------------------------------ MODULE AlertHold ------------------------------
(***************************************************************************)
(* The hold duration of an alert: the scheduled cycles of home-api, the    *)
(* reload of the rule file before each, and the row of home_api.alert_state *)
(* that carries from cycle to cycle since when the condition holds.        *)
(*                                                                         *)
(* One instance of one THRESHOLD or BOOLEAN_STATE rule is followed: a      *)
(* sensor that stays in its room.  A file holds one version of the rule,   *)
(* or is not valid; a version in which the rule is disabled stands also    *)
(* for one whose list of rooms leaves the room out, which does the same to *)
(* the instance.  The versions a rule is stored with tell its fingerprints *)
(* apart.                                                                  *)
(*                                                                         *)
(* Evaluators are the schedulers of the replicas: one in steady state, two *)
(* while a rolling update overlaps the old pod and the new one.  Each SQL  *)
(* statement of a cycle commits on its own and is an action.               *)
(***************************************************************************)
EXTENDS Integers

CONSTANTS Evaluators,    \* schedulers that run
          Values,        \* what a reading can say
          NoValue,       \* there is no reading yet
          Files,         \* what the rule file can hold
          Valid,         \* the files that parse and validate
          Enabled,       \* the valid files whose rule applies to the room
          Visiting,      \* those whose rule is about sensors of this type
          Matching,      \* Matching[f]: the values that meet the condition
          Delay,         \* Delay[f]: the hold duration, "for"
          MaxAge,        \* maxDataAge
          MaxSkew,       \* bound: how far observedAt may be ahead of the clock
          MaxTime,       \* bound: the clock
          MaxFailures    \* bound: crashes and statements that fail

ASSUME FilesAssumption ==
  Valid \subseteq Files /\ Enabled \subseteq Valid /\ Visiting \subseteq Enabled
ASSUME RuleAssumption ==
  /\ NoValue \notin Values
  /\ Matching \in [Enabled -> SUBSET Values]
  /\ Delay \in [Enabled -> Nat]
ASSUME TimeAssumption ==
  MaxAge \in Nat /\ MaxSkew \in Nat /\ MaxTime \in Nat /\ MaxFailures \in Nat

VARIABLES
  clock,      \* the time
  file,       \* what the rule file holds
  reading,    \* the newest reading of the sensor
  state,      \* the row of alert_state: since when it holds, under which rule
  active,     \* there is an ACTIVE alert of the instance
  pc,         \* pc[e]: the statement evaluator e runs next
  loaded,     \* loaded[e]: the last valid file e has loaded
  now,        \* now[e]: the time of e's cycle
  snapshot,   \* snapshot[e]: the reading that e's cycle has read
  found,      \* found[e]: the start of the condition in the row e has read
  failures,   \* how often an evaluator crashed or a statement failed
  lapsed,     \* history: lapsed[f], the latest time at which a cycle saw the
              \*   rule of f not to hold
  overtaken,  \* history: another evaluator saved while e's cycle ran
  tainted     \* history: the row was saved by an overtaken cycle

shared == <<clock, file, reading, state, active>>
cycle == <<now, snapshot, found>>
ghosts == <<lapsed, overtaken, tainted>>
vars == <<shared, pc, loaded, cycle, failures, ghosts>>

NoTime == -1
NewReading == [value |-> NoValue, at |-> 0]

Reading == [value : Values \cup {NoValue}, at : Nat]
State == [since : Nat \cup {NoTime}, rule : Files]
Steps == {"down", "idle", "retire", "forget", "look", "find", "save",
          "resolve", "check", "create"}

TypeOK ==
  /\ clock \in 0 .. MaxTime
  /\ file \in Files
  /\ reading \in Reading
  /\ state \in State /\ state.since <= clock
  /\ active \in BOOLEAN
  /\ pc \in [Evaluators -> Steps]
  /\ loaded \in [Evaluators -> Valid]
  /\ \A e \in Evaluators :
       pc[e] \in {"look", "find", "save", "check", "create"}
         => loaded[e] \in Enabled
  /\ now \in [Evaluators -> Nat]
  /\ \A e \in Evaluators : now[e] <= clock
  /\ snapshot \in [Evaluators -> Reading]
  /\ found \in [Evaluators -> Nat \cup {NoTime}]
  /\ \A e \in Evaluators : found[e] <= clock
  /\ failures \in 0 .. MaxFailures
  /\ lapsed \in [Enabled -> Nat]
  /\ overtaken \in [Evaluators -> BOOLEAN]
  /\ tainted \in BOOLEAN

-----------------------------------------------------------------------------
(* The rule. *)

(* evaluateThresholdLeaf: the reading is fresh and its value matches. *)
Met(f, r, t) == r.at >= t - MaxAge /\ r.value \in Matching[f]

(* What a cycle of e knows of its condition. *)
Matched(e) == Met(loaded[e], snapshot[e], now[e])

(* noLaterThanNow. *)
SuggestedStart(e) ==
  IF snapshot[e].at > now[e] THEN now[e] ELSE snapshot[e].at

(* Mutant of HeldBefore: the fingerprint is not compared. *)
HeldUnderAnyRule(e) == state.since

(* The row counts only if it was saved under the rule as it is now. *)
HeldBefore(e) == IF state.rule = loaded[e] THEN state.since ELSE NoTime

ConditionStart(e) == IF found[e] = NoTime THEN SuggestedStart(e) ELSE found[e]

-----------------------------------------------------------------------------
Goto(e, step) == pc' = [pc EXCEPT ![e] = step]

(* The variables of a method end with it. *)
Drop(e) ==
  /\ snapshot' = [snapshot EXCEPT ![e] = NewReading]
  /\ found' = [found EXCEPT ![e] = NoTime]

EndCycle(e, step) ==
  /\ Goto(e, step)
  /\ now' = [now EXCEPT ![e] = 0]
  /\ overtaken' = [overtaken EXCEPT ![e] = FALSE]

Init ==
  /\ clock = 0
  /\ file \in Valid
  /\ reading = NewReading
  /\ state = [since |-> NoTime, rule |-> file]
  /\ active = FALSE
  /\ pc = [e \in Evaluators |-> "down"]
  /\ loaded = [e \in Evaluators |-> file]
  /\ now = [e \in Evaluators |-> 0]
  /\ snapshot = [e \in Evaluators |-> NewReading]
  /\ found = [e \in Evaluators |-> NoTime]
  /\ failures = 0
  /\ lapsed = [f \in Enabled |-> 0]
  /\ overtaken = [e \in Evaluators |-> FALSE]
  /\ tainted = FALSE

(* The surroundings: time, the sensor, whoever edits the file. *)

Tick ==
  /\ clock < MaxTime
  /\ clock' = clock + 1
  /\ UNCHANGED <<file, reading, state, active, pc, loaded, cycle, failures,
                 ghosts>>

(* A reading that becomes the newest.  It may have been observed a while   *)
(* ago, or by a clock that is ahead.                                       *)
Observe(v, t) ==
  /\ reading.at <= t /\ t <= clock + MaxSkew
  /\ reading' = [value |-> v, at |-> t]
  /\ UNCHANGED <<clock, file, state, active, pc, loaded, cycle, failures,
                 ghosts>>

Edit(f) ==
  /\ f # file
  /\ file' = f
  /\ UNCHANGED <<clock, reading, state, active, pc, loaded, cycle, failures,
                 ghosts>>

(* A pod starts; with a file that is not valid it does not come up. *)
Start(e) ==
  /\ pc[e] = "down"
  /\ file \in Valid
  /\ loaded' = [loaded EXCEPT ![e] = file]
  /\ Goto(e, "idle")
  /\ UNCHANGED <<shared, cycle, failures, ghosts>>

Crash(e) ==
  /\ pc[e] # "down"
  /\ failures < MaxFailures
  /\ failures' = failures + 1
  /\ Drop(e)
  /\ EndCycle(e, "down")
  /\ UNCHANGED <<shared, loaded, lapsed, tainted>>

(* A statement fails: the error is logged, the rest left to the next cycle. *)
Fail(e) ==
  /\ pc[e] \notin {"down", "idle"}
  /\ failures < MaxFailures
  /\ failures' = failures + 1
  /\ Drop(e)
  /\ EndCycle(e, "idle")
  /\ UNCHANGED <<shared, loaded, lapsed, tainted>>

-----------------------------------------------------------------------------
(* A cycle. *)

(* Mutant of Reloaded: the file is read at the start only. *)
ReloadedNever(e) == loaded[e]

(* reloadIfChanged: the last valid configuration is kept. *)
Reloaded(e) == IF file \in Valid THEN file ELSE loaded[e]

Cycle(e) ==
  /\ pc[e] = "idle"
  /\ loaded' = [loaded EXCEPT ![e] = Reloaded(e)]
  /\ now' = [now EXCEPT ![e] = clock]
  /\ Goto(e, IF Reloaded(e) \in Enabled THEN "look" ELSE "retire")
  /\ UNCHANGED <<shared, snapshot, found, failures, ghosts>>

(* resolveAlertsForInactiveRules, resolveAlertsOutsideRooms: the alerts. *)
Retire(e) ==
  /\ pc[e] = "retire"
  /\ active' = FALSE
  /\ Goto(e, "forget")
  /\ UNCHANGED <<clock, file, reading, state, loaded, cycle, failures, ghosts>>

(* ... and their state, whose fingerprint stays. *)
Forget(e) ==
  /\ pc[e] = "forget"
  /\ state' = [state EXCEPT !.since = NoTime]
  /\ EndCycle(e, "idle")
  /\ UNCHANGED <<clock, file, reading, active, loaded, snapshot, found,
                 failures, lapsed, tainted>>

(* latestEnvironment, latestOccupancy return nothing of this sensor, and   *)
(* the rule does not come to its instance.                                 *)
LookInVain(e) ==
  /\ pc[e] = "look"
  /\ reading.value = NoValue \/ loaded[e] \notin Visiting
  /\ EndCycle(e, "idle")
  /\ UNCHANGED <<shared, loaded, snapshot, found, failures, lapsed, tainted>>

Look(e) ==
  /\ pc[e] = "look"
  /\ reading.value # NoValue /\ loaded[e] \in Visiting
  /\ snapshot' = [snapshot EXCEPT ![e] = reading]
  /\ Goto(e, "find")
  /\ UNCHANGED <<shared, loaded, now, found, failures, ghosts>>

FindState(e) ==
  /\ pc[e] = "find"
  /\ found' = [found EXCEPT ![e] = HeldBefore(e)]
  /\ Goto(e, "save")
  /\ UNCHANGED <<shared, loaded, now, snapshot, failures, ghosts>>

(* History: what a save by e says of the rules in fs, that they did not    *)
(* hold at the time of the reading.                                        *)
Lapse(e, fs) ==
  lapsed' = [f \in Enabled |->
               IF f \in fs /\ SuggestedStart(e) > lapsed[f]
                 THEN SuggestedStart(e)
                 ELSE lapsed[f]]

(* History: e has saved under the cycles of the others. *)
Overtake(e) ==
  [d \in Evaluators |->
     overtaken[d] \/ (d # e /\ pc[d] \notin {"down", "idle"})]

(* Mutant of SaveCleared: the row is left as it is. *)
SaveNothing(e) ==
  /\ pc[e] = "save"
  /\ ~ Matched(e)
  /\ Lapse(e, Enabled)
  /\ overtaken' = Overtake(e)
  /\ tainted' = overtaken[e]
  /\ Drop(e)
  /\ Goto(e, "resolve")
  /\ UNCHANGED <<shared, loaded, now, failures>>

(* saveState when the condition is not met. *)
SaveCleared(e) ==
  /\ pc[e] = "save"
  /\ ~ Matched(e)
  /\ state' = [since |-> NoTime, rule |-> loaded[e]]
  /\ Lapse(e, Enabled)
  /\ overtaken' = Overtake(e)
  /\ tainted' = overtaken[e]
  /\ Drop(e)
  /\ Goto(e, "resolve")
  /\ UNCHANGED <<clock, file, reading, active, loaded, now, failures>>

(* saveState when it is. *)
SaveHeld(e) ==
  /\ pc[e] = "save"
  /\ Matched(e)
  /\ state' = [since |-> ConditionStart(e), rule |-> loaded[e]]
  /\ Lapse(e, Enabled \ {loaded[e]})
  /\ tainted' = (overtaken[e] \/ (found[e] # NoTime /\ tainted))
  /\ Drop(e)
  /\ UNCHANGED <<clock, file, reading, active, loaded, failures>>

SavePending(e) ==
  /\ SaveHeld(e)
  /\ now[e] < ConditionStart(e) + Delay[loaded[e]]
  /\ overtaken' = [Overtake(e) EXCEPT ![e] = FALSE]
  /\ now' = [now EXCEPT ![e] = 0]
  /\ Goto(e, "idle")

SaveElapsed(e) ==
  /\ SaveHeld(e)
  /\ now[e] >= ConditionStart(e) + Delay[loaded[e]]
  /\ overtaken' = Overtake(e)
  /\ Goto(e, "check")
  /\ UNCHANGED now

ResolveActiveAlert(e) ==
  /\ pc[e] = "resolve"
  /\ active' = FALSE
  /\ EndCycle(e, "idle")
  /\ UNCHANGED <<clock, file, reading, state, loaded, snapshot, found,
                 failures, lapsed, tainted>>

(* hasActiveAlert finds one, which is only touched. *)
TouchActiveAlert(e) ==
  /\ pc[e] = "check"
  /\ active
  /\ EndCycle(e, "idle")
  /\ UNCHANGED <<shared, loaded, snapshot, found, failures, lapsed, tainted>>

NoActiveAlert(e) ==
  /\ pc[e] = "check"
  /\ ~ active
  /\ Goto(e, "create")
  /\ UNCHANGED <<shared, loaded, cycle, failures, ghosts>>

(* createAlert; the unique index turns a second one away. *)
CreateAlert(e) ==
  /\ pc[e] = "create"
  /\ active' = TRUE
  /\ EndCycle(e, "idle")
  /\ UNCHANGED <<clock, file, reading, state, loaded, snapshot, found,
                 failures, lapsed, tainted>>

Step(e) ==
  \/ Cycle(e)
  \/ Retire(e)
  \/ Forget(e)
  \/ LookInVain(e)
  \/ Look(e)
  \/ FindState(e)
  \/ SaveCleared(e)
  \/ SavePending(e)
  \/ SaveElapsed(e)
  \/ ResolveActiveAlert(e)
  \/ TouchActiveAlert(e)
  \/ NoActiveAlert(e)
  \/ CreateAlert(e)

Next ==
  \/ Tick
  \/ \E v \in Values, t \in 0 .. MaxTime + MaxSkew : Observe(v, t)
  \/ \E f \in Files : Edit(f)
  \/ \E e \in Evaluators : Start(e) \/ Crash(e) \/ Fail(e) \/ Step(e)

Spec == Init /\ [][Next]_vars

(* Pods are started and cycles go on; nothing is assumed of the clock, the *)
(* sensor or the file.                                                     *)
Fairness == \A e \in Evaluators : WF_vars(Start(e)) /\ WF_vars(Step(e))

FairSpec == Spec /\ Fairness

-----------------------------------------------------------------------------
(* Properties. *)

(* The rule e raises an alert of has held for its duration: since every    *)
(* reading that a cycle has seen not to meet it.                           *)
HeldForDelay(e) == now[e] >= lapsed[loaded[e]] + Delay[loaded[e]]

(* "The parent rooms filter and for hold duration apply to the combined    *)
(* result": an alert appears only when no cycle has, for the hold          *)
(* duration, seen a reading that did not meet the rule as it is now (and   *)
(* no cycle under another version of the rule, which restarts the hold).   *)
(* It is about the order of findState and saveState, the fingerprint, the  *)
(* limits of observedAt, crashes between statements and edits.             *)
NoEarlyAlert ==
  [][\A e \in Evaluators :
       pc[e] = "create" /\ active' /\ ~ active => HeldForDelay(e)]_vars

(* With two evaluators an alert may be early, but only if a cycle was      *)
(* overtaken: the other evaluator saved the state while it ran.            *)
EarlyOnlyWhenOvertaken ==
  [][\A e \in Evaluators :
       pc[e] = "create" /\ active' /\ ~ active
         => HeldForDelay(e) \/ overtaken[e] \/ tainted]_vars

(* When the file and the reading come to rest, so does the alert: it is    *)
(* ACTIVE if the reading has met the rule for its duration, and not if it  *)
(* does not meet it or the rule is disabled, whatever cycles failed, were  *)
(* overtaken or ran under an older file before.                            *)
AtRest == <>[][FALSE]_<<file, reading>>

Due ==
  /\ file \in Visiting
  /\ reading.value # NoValue
  /\ Met(file, reading, clock)
  /\ clock >= reading.at + Delay[file]

NotDue ==
  \/ file \in Valid \ Enabled
  \/ /\ file \in Visiting
     /\ reading.value # NoValue
     /\ ~ Met(file, reading, clock)

FollowsReading ==
  /\ AtRest /\ <>[] Due => <>[] active
  /\ AtRest /\ <>[] NotDue => <>[] ~ active
=============================================================================
