-------------------------- MODULE AlertHoldProofs ----------------------------
(***************************************************************************)
(* Theorems about AlertHold, for any number of evaluators, any files,      *)
(* rules and durations: types, that an alert is early only when a cycle    *)
(* was overtaken, and that a sole evaluator is never early.                *)
(***************************************************************************)
EXTENDS AlertHold, TLAPS

(* The step of evaluator e is one of these. *)
Looking == {"look", "find", "save"}
Deciding == {"check", "create"}

(* What a cycle has seen lies behind the newest reading and the clock. *)
LapsedBehind ==
  \A f \in Enabled : lapsed[f] <= reading.at /\ lapsed[f] <= clock

(* ... and, while nobody overtakes it, behind the time of e's cycle. *)
LapsedBeforeCycle ==
  \A e \in Evaluators, f \in Enabled :
    pc[e] \in Looking /\ ~ overtaken[e] => lapsed[f] <= now[e]

(* ... and behind the reading it has read. *)
LapsedBeforeSnapshot ==
  \A e \in Evaluators :
    pc[e] \in {"find", "save"} =>
      /\ snapshot[e].at <= reading.at
      /\ ~ overtaken[e] => \A f \in Enabled : lapsed[f] <= snapshot[e].at

(* The row counts from a time after the rule was last seen not to hold. *)
RowCounts ==
  ~ tainted /\ state.since # NoTime =>
    state.rule \in Enabled /\ lapsed[state.rule] <= state.since

FoundCounts ==
  \A e \in Evaluators :
    pc[e] = "save" /\ ~ overtaken[e] /\ ~ tainted /\ found[e] # NoTime
      => lapsed[loaded[e]] <= found[e]

(* An evaluator that is about to raise an alert does so in time. *)
DecisionHolds ==
  \A e \in Evaluators :
    pc[e] \in Deciding /\ ~ overtaken[e] /\ ~ tainted => HeldForDelay(e)

Counts ==
  /\ LapsedBehind
  /\ LapsedBeforeCycle
  /\ LapsedBeforeSnapshot
  /\ RowCounts
  /\ FoundCounts
  /\ DecisionHolds

IInv == TypeOK /\ Counts

-----------------------------------------------------------------------------
LEMMA TypeInit == Init => TypeOK
<1> SUFFICES ASSUME Init PROVE TypeOK
  OBVIOUS
<1>1. state \in State /\ state.since <= clock
  BY FilesAssumption DEF Init, State, NoTime
<1>2. /\ snapshot \in [Evaluators -> Reading]
      /\ reading \in Reading
  BY DEF Init, NewReading, Reading
<1>3. /\ pc \in [Evaluators -> Steps]
      /\ loaded \in [Evaluators -> Valid]
      /\ \A e \in Evaluators : pc[e] = "down"
  BY DEF Init, Steps
<1>4. /\ found \in [Evaluators -> Nat \cup {NoTime}]
      /\ \A e \in Evaluators : now[e] <= clock /\ found[e] <= clock
  BY DEF Init, NoTime
<1>5. file \in Files /\ clock \in 0 .. MaxTime /\ failures \in 0 .. MaxFailures
  BY FilesAssumption, TimeAssumption DEF Init
<1>6. now \in [Evaluators -> Nat] /\ lapsed \in [Enabled -> Nat]
  BY DEF Init
<1>. QED
  BY <1>1, <1>2, <1>3, <1>4, <1>5, <1>6 DEF Init, TypeOK

(* The ghosts and the local variables a step assigns stay in their types. *)
LEMMA DropType ==
  ASSUME TypeOK, NEW e \in Evaluators, Drop(e)
  PROVE  /\ snapshot' \in [Evaluators -> Reading]
         /\ found' \in [Evaluators -> Nat \cup {NoTime}]
         /\ \A d \in Evaluators : found'[d] <= clock
BY DEF TypeOK, Drop, NewReading, Reading, NoTime

LEMMA EndCycleType ==
  ASSUME TypeOK, NEW e \in Evaluators, NEW step \in {"idle", "down"},
         EndCycle(e, step)
  PROVE  /\ pc' \in [Evaluators -> Steps]
         /\ \A d \in Evaluators : pc'[d] = pc[d] \/ pc'[d] \in {"idle", "down"}
         /\ now' \in [Evaluators -> Nat]
         /\ \A d \in Evaluators : now'[d] <= clock
         /\ overtaken' \in [Evaluators -> BOOLEAN]
BY DEF TypeOK, EndCycle, Goto, Steps

LEMMA StartType ==
  ASSUME TypeOK, NEW e \in Evaluators
  PROVE  /\ SuggestedStart(e) \in Nat
         /\ SuggestedStart(e) <= snapshot[e].at
         /\ SuggestedStart(e) <= now[e]
         /\ ConditionStart(e) \in Nat
         /\ ConditionStart(e) <= clock
<1>1. snapshot[e].at \in Nat /\ now[e] \in Nat /\ now[e] <= clock /\ clock \in Nat
  BY TimeAssumption DEF TypeOK, Reading
<1>2. found[e] \in Nat \cup {NoTime} /\ found[e] <= clock
  BY DEF TypeOK
<1>. QED
  BY <1>1, <1>2 DEF SuggestedStart, ConditionStart

LEMMA LapseType ==
  ASSUME TypeOK, NEW e \in Evaluators, NEW fs, Lapse(e, fs)
  PROVE  /\ lapsed' \in [Enabled -> Nat]
         /\ \A f \in Enabled :
              \/ lapsed'[f] = lapsed[f]
              \/ f \in fs /\ lapsed'[f] = SuggestedStart(e)
BY StartType DEF TypeOK, Lapse

LEMMA SaveType ==
  ASSUME TypeOK, NEW e \in Evaluators, NEW fs, Lapse(e, fs), Drop(e)
  PROVE  /\ lapsed' \in [Enabled -> Nat]
         /\ Overtake(e) \in [Evaluators -> BOOLEAN]
BY LapseType DEF TypeOK, Overtake

(* TypeOK is preserved. *)
LEMMA TypeStep == TypeOK /\ [Next]_vars => TypeOK'
<1> SUFFICES ASSUME TypeOK, [Next]_vars PROVE TypeOK'
  OBVIOUS
<1>1. CASE Tick
  BY <1>1, TimeAssumption DEF Tick, TypeOK, cycle, ghosts, State, NoTime
<1>2. ASSUME NEW v \in Values, NEW t \in 0 .. MaxTime + MaxSkew, Observe(v, t)
      PROVE  TypeOK'
  <2>1. reading' \in Reading
    BY <1>2, TimeAssumption DEF Observe, Reading
  <2>. QED
    BY <1>2, <2>1 DEF Observe, TypeOK, cycle, ghosts
<1>3. ASSUME NEW f \in Files, Edit(f) PROVE TypeOK'
  BY <1>3 DEF Edit, TypeOK, cycle, ghosts
<1>4. ASSUME NEW e \in Evaluators, Start(e) PROVE TypeOK'
  BY <1>4 DEF Start, TypeOK, shared, cycle, ghosts, Goto, Steps
<1>5. ASSUME NEW e \in Evaluators, Crash(e) PROVE TypeOK'
  <2>1. failures' \in 0 .. MaxFailures
    BY <1>5, TimeAssumption DEF Crash, TypeOK
  <2>. QED
    BY <1>5, <2>1, DropType, EndCycleType DEF Crash, TypeOK, shared
<1>6. ASSUME NEW e \in Evaluators, Fail(e) PROVE TypeOK'
  <2>1. failures' \in 0 .. MaxFailures
    BY <1>6, TimeAssumption DEF Fail, TypeOK
  <2>. QED
    BY <1>6, <2>1, DropType, EndCycleType DEF Fail, TypeOK, shared
<1>7. ASSUME NEW e \in Evaluators, Cycle(e) PROVE TypeOK'
  <2>1. Reloaded(e) \in Valid
    BY <1>7 DEF Reloaded, TypeOK
  <2>. QED
    BY <1>7, <2>1, TimeAssumption
    DEF Cycle, TypeOK, shared, ghosts, Goto, Steps
<1>8. ASSUME NEW e \in Evaluators, Retire(e) PROVE TypeOK'
  BY <1>8 DEF Retire, TypeOK, cycle, ghosts, Goto, Steps
<1>9. ASSUME NEW e \in Evaluators, Forget(e) PROVE TypeOK'
  <2>1. state' \in State /\ state'.since <= clock
    BY <1>9, TimeAssumption DEF Forget, TypeOK, State, NoTime
  <2>. QED
    BY <1>9, <2>1, EndCycleType DEF Forget, TypeOK
<1>10. ASSUME NEW e \in Evaluators, LookInVain(e) PROVE TypeOK'
  BY <1>10, EndCycleType DEF LookInVain, TypeOK, shared
<1>11. ASSUME NEW e \in Evaluators, Look(e) PROVE TypeOK'
  BY <1>11 DEF Look, TypeOK, shared, ghosts, Goto, Steps
<1>12. ASSUME NEW e \in Evaluators, FindState(e) PROVE TypeOK'
  <2>1. HeldBefore(e) \in Nat \cup {NoTime} /\ HeldBefore(e) <= clock
    BY TimeAssumption DEF HeldBefore, TypeOK, State, NoTime
  <2>. QED
    BY <1>12, <2>1 DEF FindState, TypeOK, shared, ghosts, Goto, Steps
<1>13. ASSUME NEW e \in Evaluators, SaveCleared(e) PROVE TypeOK'
  <2>1. state' \in State /\ state'.since <= clock
    BY <1>13, FilesAssumption, TimeAssumption
    DEF SaveCleared, TypeOK, State, NoTime
  <2>2. lapsed' \in [Enabled -> Nat] /\ overtaken' \in [Evaluators -> BOOLEAN]
    BY <1>13, SaveType DEF SaveCleared
  <2>3. tainted' \in BOOLEAN
    BY <1>13 DEF SaveCleared, TypeOK
  <2>. QED
    BY <1>13, <2>1, <2>2, <2>3, DropType
    DEF SaveCleared, TypeOK, Goto, Steps
<1>14. ASSUME NEW e \in Evaluators, SaveHeld(e)
       PROVE  /\ state' \in State /\ state'.since <= clock
              /\ lapsed' \in [Enabled -> Nat]
              /\ Overtake(e) \in [Evaluators -> BOOLEAN]
              /\ tainted' \in BOOLEAN
  <2>1. state' \in State /\ state'.since <= clock
    BY <1>14, StartType, FilesAssumption DEF SaveHeld, TypeOK, State
  <2>2. lapsed' \in [Enabled -> Nat] /\ Overtake(e) \in [Evaluators -> BOOLEAN]
    BY <1>14, SaveType DEF SaveHeld
  <2>3. tainted' \in BOOLEAN
    BY <1>14 DEF SaveHeld, TypeOK
  <2>. QED
    BY <2>1, <2>2, <2>3
<1>15. ASSUME NEW e \in Evaluators, SavePending(e) PROVE TypeOK'
  <2>1. SaveHeld(e)
    BY <1>15 DEF SavePending
  <2>2. overtaken' \in [Evaluators -> BOOLEAN]
    BY <1>14, <1>15, <2>1 DEF SavePending
  <2>. QED
    BY <1>14, <1>15, <2>1, <2>2, DropType
    DEF SavePending, SaveHeld, TypeOK, Goto, Steps
<1>16. ASSUME NEW e \in Evaluators, SaveElapsed(e) PROVE TypeOK'
  <2>1. SaveHeld(e)
    BY <1>16 DEF SaveElapsed
  <2>. QED
    BY <1>14, <1>16, <2>1, DropType
    DEF SaveElapsed, SaveHeld, TypeOK, Goto, Steps
<1>17. ASSUME NEW e \in Evaluators, ResolveActiveAlert(e) PROVE TypeOK'
  BY <1>17, EndCycleType DEF ResolveActiveAlert, TypeOK
<1>18. ASSUME NEW e \in Evaluators, TouchActiveAlert(e) PROVE TypeOK'
  BY <1>18, EndCycleType DEF TouchActiveAlert, TypeOK, shared
<1>19. ASSUME NEW e \in Evaluators, NoActiveAlert(e) PROVE TypeOK'
  BY <1>19 DEF NoActiveAlert, TypeOK, shared, cycle, ghosts, Goto, Steps
<1>20. ASSUME NEW e \in Evaluators, CreateAlert(e) PROVE TypeOK'
  BY <1>20, EndCycleType DEF CreateAlert, TypeOK
<1>21. CASE UNCHANGED vars
  BY <1>21 DEF vars, shared, cycle, ghosts, TypeOK
<1>. QED
  BY <1>1, <1>2, <1>3, <1>4, <1>5, <1>6, <1>7, <1>8, <1>9, <1>10, <1>11,
     <1>12, <1>13, <1>15, <1>16, <1>17, <1>18, <1>19, <1>20, <1>21
  DEF Next, Step

(* The types, for any evaluators, files and rules. *)
THEOREM TypeCorrect == Spec => []TypeOK
<1>. QED
  BY TypeInit, TypeStep, PTL DEF Spec

-----------------------------------------------------------------------------
LEMMA CountsInit == Init => Counts
<1> SUFFICES ASSUME Init PROVE Counts
  OBVIOUS
<1>1. \A e \in Evaluators : pc[e] = "down"
  BY DEF Init
<1>2. LapsedBehind
  BY DEF Init, LapsedBehind, NewReading
<1>3. RowCounts
  BY DEF Init, RowCounts
<1>. QED
  BY <1>1, <1>2, <1>3
  DEF Counts, LapsedBeforeCycle, LapsedBeforeSnapshot, FoundCounts,
      DecisionHolds, Looking, Deciding

(* Steps that save nothing and leave every cycle where it is, or end it. *)
LEMMA CountsQuiet ==
  ASSUME TypeOK, TypeOK', Counts,
         reading.at <= reading'.at, clock <= clock',
         UNCHANGED <<lapsed, tainted>>,
         state' = state \/ state'.since = NoTime,
         \A e \in Evaluators :
           \/ pc'[e] \notin Looking \cup Deciding
           \/ /\ pc'[e] = pc[e] \/ {pc[e], pc'[e]} \subseteq Deciding
              /\ loaded'[e] = loaded[e] /\ now'[e] = now[e]
              /\ snapshot'[e] = snapshot[e] /\ found'[e] = found[e]
              /\ overtaken'[e] = overtaken[e]
  PROVE  Counts'
<1>1. reading.at \in Nat /\ reading'.at \in Nat /\ clock \in Nat /\ clock' \in Nat
  BY TimeAssumption DEF TypeOK, Reading
<1>2. lapsed \in [Enabled -> Nat] /\ snapshot \in [Evaluators -> Reading]
  BY DEF TypeOK
<1>3. LapsedBehind'
  BY <1>1, <1>2 DEF Counts, LapsedBehind
<1>4. LapsedBeforeCycle'
  BY DEF Counts, LapsedBeforeCycle, Looking, Deciding
<1>5. LapsedBeforeSnapshot'
  BY <1>1, <1>2 DEF Counts, LapsedBeforeSnapshot, Looking, Deciding, Reading
<1>6. RowCounts'
  BY DEF Counts, RowCounts
<1>7. FoundCounts'
  BY DEF Counts, FoundCounts, Looking, Deciding
<1>8. DecisionHolds'
  BY DEF Counts, DecisionHolds, HeldForDelay, Looking, Deciding
<1>. QED
  BY <1>3, <1>4, <1>5, <1>6, <1>7, <1>8 DEF Counts

(* A save by e, of a row that counts if it is not tainted. *)
LEMMA CountsSave ==
  ASSUME TypeOK, TypeOK', Counts,
         NEW e \in Evaluators, pc[e] = "save",
         NEW fs, Lapse(e, fs),
         UNCHANGED <<clock, reading, loaded>>,
         ~ tainted' /\ state'.since # NoTime =>
           /\ state'.rule \in Enabled \ fs
           /\ lapsed[state'.rule] <= state'.since,
         pc'[e] \in {"idle", "resolve", "check"},
         pc'[e] = "check" =>
           /\ now'[e] = now[e]
           /\ ~ tainted' => HeldForDelay(e)
           /\ loaded[e] \in Enabled \ fs,
         \A d \in Evaluators \ {e} :
           /\ pc'[d] = pc[d] /\ snapshot'[d] = snapshot[d]
           /\ pc[d] \notin {"down", "idle"} => overtaken'[d]
  PROVE  Counts'
<1>1. /\ reading.at \in Nat /\ clock \in Nat
      /\ snapshot[e].at \in Nat /\ now[e] \in Nat /\ now[e] <= clock
      /\ \A d \in Evaluators : snapshot[d].at \in Nat
      /\ lapsed \in [Enabled -> Nat]
  BY TimeAssumption DEF TypeOK, Reading
<1>2. /\ SuggestedStart(e) \in Nat
      /\ SuggestedStart(e) <= snapshot[e].at
      /\ SuggestedStart(e) <= now[e]
  BY StartType
<1>3. \A f \in Enabled :
        \/ lapsed'[f] = lapsed[f]
        \/ f \in fs /\ lapsed'[f] = SuggestedStart(e)
  BY LapseType
<1>4. snapshot[e].at <= reading.at
  BY DEF Counts, LapsedBeforeSnapshot
<1>5. LapsedBehind'
  BY <1>1, <1>2, <1>3, <1>4 DEF Counts, LapsedBehind
<1>6. LapsedBeforeCycle'
  BY DEF LapsedBeforeCycle, Looking
<1>7. LapsedBeforeSnapshot'
  BY DEF Counts, LapsedBeforeSnapshot
<1>8. RowCounts'
  BY <1>3 DEF RowCounts
<1>9. FoundCounts'
  BY DEF FoundCounts
<1>10. DecisionHolds'
  BY <1>3 DEF DecisionHolds, HeldForDelay, Deciding
<1>. QED
  BY <1>5, <1>6, <1>7, <1>8, <1>9, <1>10 DEF Counts

(* What e found counts, and so does the start it computes from it. *)
LEMMA StartCounts ==
  ASSUME TypeOK, Counts, NEW e \in Evaluators, SaveHeld(e), ~ tainted'
  PROVE  lapsed[loaded[e]] <= ConditionStart(e)
<1>1. pc[e] = "save" /\ ~ overtaken[e] /\ (found[e] # NoTime => ~ tainted)
  BY DEF SaveHeld, TypeOK
<1>2. loaded[e] \in Enabled
  BY <1>1 DEF TypeOK
<1>3. CASE found[e] # NoTime
  BY <1>1, <1>3 DEF Counts, FoundCounts, ConditionStart
<1>4. CASE found[e] = NoTime
  <2>1. lapsed[loaded[e]] <= now[e] /\ lapsed[loaded[e]] <= snapshot[e].at
    BY <1>1, <1>2 DEF Counts, LapsedBeforeCycle, LapsedBeforeSnapshot, Looking
  <2>. QED
    BY <1>4, <2>1 DEF ConditionStart, SuggestedStart
<1>. QED
  BY <1>3, <1>4

(* A step that ends the cycle of e, whatever becomes of its variables. *)
LEMMA CountsEnd ==
  ASSUME TypeOK, TypeOK', Counts,
         NEW e \in Evaluators, NEW step \in {"idle", "down"}, EndCycle(e, step),
         UNCHANGED <<clock, reading, lapsed, tainted, loaded>>,
         state' = state \/ state'.since = NoTime,
         UNCHANGED <<snapshot, found>> \/ Drop(e)
  PROVE  Counts'
<1>1. /\ pc \in [Evaluators -> Steps]
      /\ now \in [Evaluators -> Nat]
      /\ snapshot \in [Evaluators -> Reading]
      /\ found \in [Evaluators -> Nat \cup {NoTime}]
      /\ overtaken \in [Evaluators -> BOOLEAN]
      /\ reading.at \in Nat /\ clock \in Nat
  BY TimeAssumption DEF TypeOK, Reading
<1>2. reading.at <= reading'.at /\ clock <= clock'
  BY <1>1
<1>3. pc'[e] \notin Looking \cup Deciding
  BY <1>1 DEF EndCycle, Goto, Looking, Deciding
<1>4. ASSUME NEW d \in Evaluators, d # e
      PROVE  /\ pc'[d] = pc[d] /\ now'[d] = now[d]
             /\ overtaken'[d] = overtaken[d]
             /\ snapshot'[d] = snapshot[d] /\ found'[d] = found[d]
             /\ loaded'[d] = loaded[d]
  BY <1>1, <1>4 DEF EndCycle, Goto, Drop
<1>. QED
  BY <1>2, <1>3, <1>4, CountsQuiet

LEMMA CountsStep == TypeOK /\ TypeOK' /\ Counts /\ [Next]_vars => Counts'
<1> SUFFICES ASSUME TypeOK, TypeOK', Counts, [Next]_vars PROVE Counts'
  OBVIOUS
<1>0. /\ reading.at \in Nat /\ clock \in Nat
      /\ pc \in [Evaluators -> Steps]
      /\ loaded \in [Evaluators -> Valid]
      /\ now \in [Evaluators -> Nat]
      /\ snapshot \in [Evaluators -> Reading]
      /\ found \in [Evaluators -> Nat \cup {NoTime}]
      /\ overtaken \in [Evaluators -> BOOLEAN]
      /\ lapsed \in [Enabled -> Nat]
  BY TimeAssumption DEF TypeOK, Reading
<1>1. CASE Tick
  BY <1>1, <1>0, CountsQuiet DEF Tick, cycle, ghosts
<1>2. ASSUME NEW v \in Values, NEW t \in 0 .. MaxTime + MaxSkew, Observe(v, t)
      PROVE  Counts'
  <2>1. reading.at <= reading'.at /\ clock <= clock'
    BY <1>2, <1>0 DEF Observe
  <2>. QED
    BY <1>2, <2>1, CountsQuiet DEF Observe, cycle, ghosts
<1>3. ASSUME NEW f \in Files, Edit(f) PROVE Counts'
  BY <1>3, <1>0, CountsQuiet DEF Edit, cycle, ghosts
<1>4. ASSUME NEW e \in Evaluators, Start(e) PROVE Counts'
  <2>1. reading' = reading /\ clock' = clock
    BY <1>4 DEF Start, shared
  <2>. QED
    BY <1>4, <2>1, <1>0, CountsQuiet
    DEF Start, shared, cycle, ghosts, Goto, Looking, Deciding
<1>5. ASSUME NEW e \in Evaluators, Crash(e) PROVE Counts'
  BY <1>5, CountsEnd DEF Crash, shared
<1>6. ASSUME NEW e \in Evaluators, Fail(e) PROVE Counts'
  BY <1>6, CountsEnd DEF Fail, shared
<1>7. ASSUME NEW e \in Evaluators, Cycle(e) PROVE Counts'
  <2>1. /\ UNCHANGED <<clock, reading, state, snapshot, found, ghosts>>
        /\ now'[e] = clock /\ pc'[e] \in {"look", "retire"}
        /\ \A d \in Evaluators \ {e} : /\ pc'[d] = pc[d] /\ now'[d] = now[d]
                                       /\ loaded'[d] = loaded[d]
    BY <1>7, <1>0 DEF Cycle, shared, Goto
  <2>2. LapsedBehind' /\ RowCounts'
    BY <2>1 DEF Counts, LapsedBehind, RowCounts, ghosts
  <2>3. LapsedBeforeCycle'
    BY <2>1 DEF Counts, LapsedBehind, LapsedBeforeCycle, ghosts
  <2>4. LapsedBeforeSnapshot' /\ FoundCounts'
    BY <2>1 DEF Counts, LapsedBeforeSnapshot, FoundCounts, ghosts
  <2>5. DecisionHolds'
    BY <2>1 DEF Counts, DecisionHolds, HeldForDelay, Deciding, ghosts
  <2>. QED
    BY <2>2, <2>3, <2>4, <2>5 DEF Counts
<1>8. ASSUME NEW e \in Evaluators, Retire(e) PROVE Counts'
  <2>1. reading' = reading /\ clock' = clock
    BY <1>8 DEF Retire
  <2>. QED
    BY <1>8, <2>1, <1>0, CountsQuiet
    DEF Retire, cycle, ghosts, Goto, Looking, Deciding
<1>9. ASSUME NEW e \in Evaluators, Forget(e) PROVE Counts'
  BY <1>9, CountsEnd DEF Forget
<1>10. ASSUME NEW e \in Evaluators, LookInVain(e) PROVE Counts'
  BY <1>10, CountsEnd DEF LookInVain, shared
<1>11. ASSUME NEW e \in Evaluators, Look(e) PROVE Counts'
  <2>1. /\ UNCHANGED <<clock, reading, state, loaded, now, found, ghosts>>
        /\ pc[e] = "look" /\ pc'[e] = "find" /\ snapshot'[e] = reading
        /\ \A d \in Evaluators \ {e} : /\ pc'[d] = pc[d]
                                       /\ snapshot'[d] = snapshot[d]
    BY <1>11, <1>0 DEF Look, shared, Goto
  <2>2. LapsedBehind' /\ RowCounts'
    BY <2>1 DEF Counts, LapsedBehind, RowCounts, ghosts
  <2>3. LapsedBeforeCycle'
    BY <2>1 DEF Counts, LapsedBeforeCycle, Looking, ghosts
  <2>4. LapsedBeforeSnapshot'
    BY <2>1, <1>0 DEF Counts, LapsedBehind, LapsedBeforeSnapshot, ghosts
  <2>5. FoundCounts'
    BY <2>1 DEF Counts, FoundCounts, ghosts
  <2>6. DecisionHolds'
    BY <2>1 DEF Counts, DecisionHolds, HeldForDelay, Deciding, ghosts
  <2>. QED
    BY <2>2, <2>3, <2>4, <2>5, <2>6 DEF Counts
<1>12. ASSUME NEW e \in Evaluators, FindState(e) PROVE Counts'
  <2>1. /\ UNCHANGED <<clock, reading, state, loaded, now, snapshot, ghosts>>
        /\ pc[e] = "find" /\ pc'[e] = "save" /\ found'[e] = HeldBefore(e)
        /\ \A d \in Evaluators \ {e} : /\ pc'[d] = pc[d]
                                       /\ found'[d] = found[d]
    BY <1>12, <1>0 DEF FindState, shared, Goto
  <2>2. LapsedBehind' /\ RowCounts'
    BY <2>1 DEF Counts, LapsedBehind, RowCounts, ghosts
  <2>3. LapsedBeforeCycle'
    BY <2>1 DEF Counts, LapsedBeforeCycle, Looking, ghosts
  <2>4. LapsedBeforeSnapshot'
    BY <2>1 DEF Counts, LapsedBeforeSnapshot, ghosts
  <2>5. ~ tainted /\ HeldBefore(e) # NoTime => lapsed[loaded[e]] <= HeldBefore(e)
    BY DEF Counts, RowCounts, HeldBefore
  <2>6. FoundCounts'
    BY <2>1, <2>5 DEF Counts, FoundCounts, ghosts
  <2>7. DecisionHolds'
    BY <2>1 DEF Counts, DecisionHolds, HeldForDelay, Deciding, ghosts
  <2>. QED
    BY <2>2, <2>3, <2>4, <2>6, <2>7 DEF Counts
<1>13. ASSUME NEW e \in Evaluators, SaveCleared(e) PROVE Counts'
  <2>1. /\ pc[e] = "save" /\ Lapse(e, Enabled) /\ state'.since = NoTime
        /\ UNCHANGED <<clock, reading, loaded>> /\ pc'[e] = "resolve"
    BY <1>13, <1>0 DEF SaveCleared, Goto
  <2>2. \A d \in Evaluators \ {e} :
          /\ pc'[d] = pc[d] /\ snapshot'[d] = snapshot[d]
          /\ pc[d] \notin {"down", "idle"} => overtaken'[d]
    BY <1>13, <1>0 DEF SaveCleared, Goto, Drop, Overtake
  <2>. QED
    BY <2>1, <2>2, CountsSave
<1>14. ASSUME NEW e \in Evaluators, SaveHeld(e), ~ tainted'
       PROVE  /\ state'.rule \in Enabled \ (Enabled \ {loaded[e]})
              /\ lapsed[state'.rule] <= state'.since
              /\ now[e] >= ConditionStart(e) + Delay[loaded[e]] => HeldForDelay(e)
  <2>1. loaded[e] \in Enabled /\ lapsed[loaded[e]] <= ConditionStart(e)
    BY <1>14, StartCounts DEF SaveHeld, TypeOK
  <2>2. state'.rule = loaded[e] /\ state'.since = ConditionStart(e)
    BY <1>14 DEF SaveHeld
  <2>3. ConditionStart(e) \in Nat /\ Delay[loaded[e]] \in Nat
    BY <2>1, StartType, RuleAssumption
  <2>. QED
    BY <1>0, <2>1, <2>2, <2>3 DEF HeldForDelay
<1>15. ASSUME NEW e \in Evaluators, SavePending(e) PROVE Counts'
  <2>1. SaveHeld(e)
    BY <1>15 DEF SavePending
  <2>2. /\ pc[e] = "save" /\ Lapse(e, Enabled \ {loaded[e]})
        /\ UNCHANGED <<clock, reading, loaded>> /\ pc'[e] = "idle"
    BY <1>15, <2>1, <1>0 DEF SavePending, SaveHeld, Goto
  <2>3. \A d \in Evaluators \ {e} :
          /\ pc'[d] = pc[d] /\ snapshot'[d] = snapshot[d]
          /\ pc[d] \notin {"down", "idle"} => overtaken'[d]
    BY <1>15, <2>1, <1>0 DEF SavePending, SaveHeld, Goto, Drop, Overtake
  <2>. QED
    BY <1>14, <2>1, <2>2, <2>3, CountsSave
<1>16. ASSUME NEW e \in Evaluators, SaveElapsed(e) PROVE Counts'
  <2>1. SaveHeld(e) /\ now[e] >= ConditionStart(e) + Delay[loaded[e]]
    BY <1>16 DEF SaveElapsed
  <2>2. /\ pc[e] = "save" /\ Lapse(e, Enabled \ {loaded[e]})
        /\ UNCHANGED <<clock, reading, loaded, now>> /\ pc'[e] = "check"
    BY <1>16, <2>1, <1>0 DEF SaveElapsed, SaveHeld, Goto
  <2>3. \A d \in Evaluators \ {e} :
          /\ pc'[d] = pc[d] /\ snapshot'[d] = snapshot[d]
          /\ pc[d] \notin {"down", "idle"} => overtaken'[d]
    BY <1>16, <2>1, <1>0 DEF SaveElapsed, SaveHeld, Goto, Drop, Overtake
  <2>4. loaded[e] \in Enabled \ (Enabled \ {loaded[e]})
    BY <2>2 DEF TypeOK
  <2>. QED
    BY <1>14, <2>1, <2>2, <2>3, <2>4, CountsSave
<1>17. ASSUME NEW e \in Evaluators, ResolveActiveAlert(e) PROVE Counts'
  BY <1>17, CountsEnd DEF ResolveActiveAlert
<1>18. ASSUME NEW e \in Evaluators, TouchActiveAlert(e) PROVE Counts'
  BY <1>18, CountsEnd DEF TouchActiveAlert, shared
<1>19. ASSUME NEW e \in Evaluators, NoActiveAlert(e) PROVE Counts'
  <2>1. reading' = reading /\ clock' = clock
    BY <1>19 DEF NoActiveAlert, shared
  <2>. QED
    BY <1>19, <2>1, <1>0, CountsQuiet
    DEF NoActiveAlert, shared, cycle, ghosts, Goto, Looking, Deciding
<1>20. ASSUME NEW e \in Evaluators, CreateAlert(e) PROVE Counts'
  BY <1>20, CountsEnd DEF CreateAlert
<1>21. CASE UNCHANGED vars
  BY <1>21, <1>0, CountsQuiet DEF vars, shared, cycle, ghosts
<1>. QED
  BY <1>1, <1>2, <1>3, <1>4, <1>5, <1>6, <1>7, <1>8, <1>9, <1>10, <1>11,
     <1>12, <1>13, <1>15, <1>16, <1>17, <1>18, <1>19, <1>20, <1>21
  DEF Next, Step

(* The inductive invariant, for any evaluators, files and rules. *)
THEOREM InvHolds == Spec => []IInv
<1>1. Init => IInv
  BY TypeInit, CountsInit DEF IInv
<1>2. IInv /\ [Next]_vars => IInv'
  BY TypeStep, CountsStep DEF IInv
<1>. QED
  BY <1>1, <1>2, PTL DEF Spec

(* However many evaluators there are, an alert is early only when a cycle  *)
(* was overtaken by the save of another evaluator.                         *)
THEOREM EarlyOnlyWhenOvertakenHolds == Spec => EarlyOnlyWhenOvertaken
<1>1. IInv =>
        \A e \in Evaluators :
          pc[e] = "create" /\ active' /\ ~ active
            => HeldForDelay(e) \/ overtaken[e] \/ tainted
  BY DEF IInv, Counts, DecisionHolds, Deciding
<1>. QED
  BY <1>1, InvHolds, PTL DEF EarlyOnlyWhenOvertaken

-----------------------------------------------------------------------------
(* With a sole evaluator no cycle is ever overtaken. *)
SoleEvaluator == \A d, e \in Evaluators : d = e

NeverOvertaken == ~ tainted /\ \A e \in Evaluators : ~ overtaken[e]

LEMMA NeverOvertakenStep ==
  SoleEvaluator /\ TypeOK /\ NeverOvertaken /\ [Next]_vars => NeverOvertaken'
<1> SUFFICES ASSUME SoleEvaluator, TypeOK, NeverOvertaken, [Next]_vars
             PROVE  NeverOvertaken'
  OBVIOUS
<1>0. overtaken \in [Evaluators -> BOOLEAN]
  BY DEF TypeOK
<1>1. CASE UNCHANGED <<overtaken, tainted>>
  BY <1>1 DEF NeverOvertaken
<1>2. ASSUME NEW e \in Evaluators, NEW step, EndCycle(e, step), UNCHANGED tainted
      PROVE  NeverOvertaken'
  BY <1>2, <1>0 DEF NeverOvertaken, EndCycle
<1>3. \A e \in Evaluators : \A d \in Evaluators : ~ Overtake(e)[d]
  BY DEF Overtake, SoleEvaluator, NeverOvertaken
<1>4. ASSUME NEW e \in Evaluators, SaveCleared(e) PROVE NeverOvertaken'
  BY <1>3, <1>4 DEF SaveCleared, NeverOvertaken
<1>5. ASSUME NEW e \in Evaluators, SavePending(e) PROVE NeverOvertaken'
  <2>1. ~ tainted'
    BY <1>5 DEF SavePending, SaveHeld, NeverOvertaken
  <2>2. \A d \in Evaluators : ~ overtaken'[d]
    BY <1>3, <1>5 DEF SavePending, Overtake
  <2>. QED
    BY <2>1, <2>2 DEF NeverOvertaken
<1>6. ASSUME NEW e \in Evaluators, SaveElapsed(e) PROVE NeverOvertaken'
  <2>1. ~ tainted'
    BY <1>6 DEF SaveElapsed, SaveHeld, NeverOvertaken
  <2>. QED
    BY <1>3, <1>6, <2>1 DEF SaveElapsed, NeverOvertaken
<1>7. CASE UNCHANGED vars
  BY <1>1, <1>7 DEF vars, ghosts
<1>8. CASE Tick \/ (\E v \in Values, t \in 0 .. MaxTime + MaxSkew : Observe(v, t))
           \/ (\E f \in Files : Edit(f))
  BY <1>1, <1>8 DEF Tick, Observe, Edit, ghosts
<1>9. ASSUME NEW e \in Evaluators,
             Crash(e) \/ Fail(e) \/ Forget(e) \/ LookInVain(e)
               \/ ResolveActiveAlert(e) \/ TouchActiveAlert(e) \/ CreateAlert(e)
      PROVE  NeverOvertaken'
  BY <1>2, <1>9
  DEF Crash, Fail, Forget, LookInVain, ResolveActiveAlert, TouchActiveAlert,
      CreateAlert
<1>10. ASSUME NEW e \in Evaluators,
              Start(e) \/ Cycle(e) \/ Retire(e) \/ Look(e) \/ FindState(e)
                \/ NoActiveAlert(e)
       PROVE  NeverOvertaken'
  BY <1>1, <1>10
  DEF Start, Cycle, Retire, Look, FindState, NoActiveAlert, ghosts
<1>. QED
  BY <1>4, <1>5, <1>6, <1>7, <1>8, <1>9, <1>10 DEF Next, Step

(* A sole evaluator raises no alert before the rule has held for its       *)
(* duration, whatever crashes, edits and late readings come between.       *)
THEOREM NoEarlyAlertHolds == SoleEvaluator /\ Spec => NoEarlyAlert
<1>1. Init => NeverOvertaken
  BY DEF Init, NeverOvertaken
<1>2. IInv /\ NeverOvertaken =>
        \A e \in Evaluators :
          pc[e] = "create" /\ active' /\ ~ active => HeldForDelay(e)
  BY DEF IInv, Counts, DecisionHolds, Deciding, NeverOvertaken
<1>3. IInv => TypeOK
  BY DEF IInv
<1>. SUFFICES ASSUME SoleEvaluator PROVE Spec => NoEarlyAlert
  OBVIOUS
<1>4. TypeOK /\ NeverOvertaken /\ [Next]_vars => NeverOvertaken'
  BY NeverOvertakenStep
<1>. QED
  BY <1>1, <1>2, <1>3, <1>4, InvHolds, PTL DEF Spec, NoEarlyAlert
=============================================================================
