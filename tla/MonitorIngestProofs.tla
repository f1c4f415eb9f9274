------------------------ MODULE MonitorIngestProofs -------------------------
(***************************************************************************)
(* Proofs about MonitorIngest, for any number of members, partitions,      *)
(* rooms, records and faults.                                              *)
(*                                                                         *)
(* What has to be added to NothingElseLost to make it inductive is where   *)
(* the records between "delivered" and "committed" are: below what every   *)
(* member has done, and below the position of every owner, each event is   *)
(* stored, was dropped, or is still pending in that owner's batch.         *)
(***************************************************************************)
EXTENDS MonitorIngest, TLAPS

(* Record i of p needs nothing more: it does not decode, it has its row,   *)
(* or a failing poll threw it away.                                        *)
Settled(p, i) ==
  log[p][i] # "malformed" => Stored(p, i) \/ <<p, i>> \in dropped

InLog ==
  \A p \in Partitions :
    /\ committed[p] <= Len(log[p])
    /\ position[p] <= Len(log[p])
    /\ \A m \in Members : /\ batch[m][p].done <= batch[m][p].end
                          /\ batch[m][p].end <= Len(log[p])

Idle ==
  \A m \in Members : pc[m] \in {"poll", "down"} =>
    \A p \in Partitions : batch[m][p].done = batch[m][p].end

HandFull ==
  \A m \in Members :
    /\ pc[m] \in {"persist", "commit"} => Pending(m, current[m])
    /\ pc[m] = "commit" => Settled(current[m], InHand(m))

DoneSettled ==
  \A m \in Members, p \in Partitions : \A i \in 1 .. batch[m][p].done :
    Settled(p, i)

FetchedSettled ==
  \A p \in Partitions : owner[p] \in Members =>
    \A i \in 1 .. position[p] :
      \/ Settled(p, i)
      \/ /\ batch[owner[p]][p].done < i
         /\ i <= batch[owner[p]][p].end

CommittedSettled ==
  \A p \in Partitions : \A i \in 1 .. committed[p] : Settled(p, i)

IInv == /\ TypeOK /\ InLog /\ Idle /\ HandFull
        /\ DoneSettled /\ FetchedSettled /\ CommittedSettled

-----------------------------------------------------------------------------
(* TypeOK holds in every reachable state. *)
LEMMA TypeInit == Init => TypeOK
<1> SUFFICES ASSUME Init PROVE TypeOK
  OBVIOUS
<1>1. log \in [Partitions -> Seq(Kinds)]
  BY DEF Init
<1>2. batch \in [Members -> [Partitions -> [done : Nat, end : Nat]]]
  BY DEF Init, NoRecords
<1>. QED
  BY <1>1, <1>2, BoundsAssumption DEF Init, TypeOK, States

LEMMA TypeStep == TypeOK /\ [Next]_vars => TypeOK'
<1> SUFFICES ASSUME TypeOK, [Next]_vars PROVE TypeOK'
  OBVIOUS
<1> USE DEF TypeOK
<1>1. ASSUME NEW p \in Partitions, NEW kind \in Kinds, Produce(p, kind)
      PROVE  TypeOK'
  <2>1. Append(log[p], kind) \in Seq(Kinds)
    OBVIOUS
  <2>2. log' \in [Partitions -> Seq(Kinds)]
    BY <1>1, <2>1 DEF Produce
  <2>. QED
    BY <1>1, <2>2 DEF Produce, memberVars
<1>2. ASSUME NEW r \in Rooms, MoveSensor(r) PROVE TypeOK'
  BY <1>2 DEF MoveSensor, kafkaVars, memberVars
<1>3. ASSUME NEW m \in Members, Start(m) PROVE TypeOK'
  BY <1>3 DEF Start, Goto, States, kafkaVars
<1>4. ASSUME NEW m \in Members, Stop(m) PROVE TypeOK'
  <2>1. NoRecords \in [Partitions -> [done : Nat, end : Nat]]
    BY DEF NoRecords
  <2>2. batch' \in [Members -> [Partitions -> [done : Nat, end : Nat]]]
    BY <1>4, <2>1 DEF Stop
  <2>3. faults' = faults + 1 /\ faults < MaxFaults
    BY <1>4 DEF Stop
  <2>5. faults' \in 0 .. MaxFaults
    BY <2>3, BoundsAssumption
  <2>4. owner' \in [Partitions -> Members \cup {Nobody}]
    BY <1>4 DEF Stop
  <2>. QED
    BY <1>4, <2>2, <2>5, <2>4 DEF Stop, Goto, States
<1>5. ASSUME NEW p \in Partitions, NEW m \in Members, Rebalance(p, m)
      PROVE  TypeOK'
  <2>2. faults' = faults \/ (faults' = faults + 1 /\ faults < MaxFaults)
    BY <1>5 DEF Rebalance
  <2>1. faults' \in 0 .. MaxFaults
    BY <2>2, BoundsAssumption
  <2>. QED
    BY <1>5, <2>1 DEF Rebalance, memberVars
<1>6. ASSUME NEW m \in Members, Poll(m) PROVE TypeOK'
  <2> PICK ends \in FetchEnds(m) :
        /\ batch' = [batch EXCEPT ![m] = Fetched(m, ends)]
        /\ position' = ends
    BY <1>6 DEF Poll
  <2>1. ends \in [Partitions -> Nat]
    BY BoundsAssumption DEF FetchEnds, Offsets
  <2>3. Fetched(m, ends) \in [Partitions -> [done : Nat, end : Nat]]
    BY <2>1 DEF Fetched
  <2>2. batch' \in [Members -> [Partitions -> [done : Nat, end : Nat]]]
    BY <2>3
  <2>. QED
    BY <1>6, <2>1, <2>2 DEF Poll, Goto, States
<1>7. ASSUME NEW m \in Members, FetchError(m) PROVE TypeOK'
  <2> PICK ends \in FetchEnds(m) :
        /\ position' = ends
        /\ dropped' = dropped \cup
             UNION {{p} \X (position[p] + 1 .. ends[p]) : p \in Partitions}
    BY <1>7 DEF FetchError
  <2>1. ends \in [Partitions -> Nat]
    BY BoundsAssumption DEF FetchEnds, Offsets
  <2>2. ASSUME NEW p \in Partitions
        PROVE  {p} \X (position[p] + 1 .. ends[p])
                 \subseteq Partitions \X (Nat \ {0})
    BY <2>1
  <2>3. dropped' \subseteq Partitions \X (Nat \ {0})
    BY <2>2
  <2>. QED
    BY <1>7, <2>1, <2>3 DEF FetchError, memberVars
<1>8. ASSUME NEW m \in Members, NextRecord(m) PROVE TypeOK'
  <2> PICK p \in Partitions :
        /\ current' = [current EXCEPT ![m] = p]
        /\ Goto(m, IF log[p][batch[m][p].done + 1] = "malformed"
                     THEN "commit"
                     ELSE "persist")
    BY <1>8 DEF NextRecord
  <2>. QED
    BY <1>8 DEF NextRecord, Goto, States, kafkaVars
<1>9. ASSUME NEW m \in Members, BatchFinished(m) PROVE TypeOK'
  BY <1>9 DEF BatchFinished, Goto, States, kafkaVars
<1>10. ASSUME NEW m \in Members, Persist(m) \/ PersistUnacknowledged(m)
       PROVE  TypeOK'
  <2>1. InHand(m) \in Nat \ {0}
    BY DEF InHand
  <2>2. PICK r \in held[m] : InsertEvent(current[m], InHand(m), r)
    BY <1>10 DEF Persist, PersistUnacknowledged
  <2>3. rows' \subseteq Row
    BY <2>1, <2>2 DEF InsertEvent, Row
  <2>4. held' \in [Members -> SUBSET Rooms]
    BY <1>10 DEF Persist, PersistUnacknowledged, Ended
  <2>. QED
    BY <1>10, <2>3, <2>4
       DEF Persist, PersistUnacknowledged, Goto, States, kafkaVars
<1>13. ASSUME NEW m \in Members, LookUpRoom(m) \/ PersistFails(m)
       PROVE  TypeOK'
  <2>1. held' \in [Members -> SUBSET Rooms]
    <3>1. {room} \in SUBSET Rooms /\ {} \in SUBSET Rooms
      OBVIOUS
    <3>2. PICK read \in SUBSET Rooms : held' = [held EXCEPT ![m] = read]
      BY <1>13, <3>1 DEF LookUpRoom, PersistFails, Ended
    <3>. QED
      BY <3>2
  <2>2. UNCHANGED <<log, committed, owner, position, pc, batch, current, rows,
                    room, faults, dropped>>
    BY <1>13 DEF LookUpRoom, PersistFails, kafkaVars
  <2>. QED
    BY <2>1, <2>2
<1>11. ASSUME NEW m \in Members, CommitOffset(m) \/ CommitUnacknowledged(m)
       PROVE  TypeOK'
  <2>3. current[m] \in Partitions /\ InHand(m) \in Nat
    BY DEF InHand
  <2>4. committed' = [committed EXCEPT ![current[m]] = InHand(m)]
    BY <1>11 DEF CommitOffset, CommitUnacknowledged
  <2>1. committed' \in [Partitions -> Nat]
    BY <2>3, <2>4
  <2>2. batch' \in [Members -> [Partitions -> [done : Nat, end : Nat]]]
    <3>1. CASE UNCHANGED batch
      BY <3>1
    <3>2. CASE Advance(m)
      <4> DEFINE b == [done |-> InHand(m), end |-> batch[m][current[m]].end]
      <4>1. b \in [done : Nat, end : Nat]
        BY <2>3
      <4>2. [batch[m] EXCEPT ![current[m]] = b]
              \in [Partitions -> [done : Nat, end : Nat]]
        BY <2>3, <4>1
      <4>3. batch' = [batch EXCEPT ![m] = [batch[m] EXCEPT ![current[m]] = b]]
        BY <3>2 DEF Advance
      <4> HIDE DEF b
      <4>. QED
        BY <4>2, <4>3
    <3>. QED
      BY <1>11, <3>1, <3>2
         DEF CommitOffset, CommitUnacknowledged, memberVars
  <2>. QED
    BY <1>11, <2>1, <2>2
       DEF CommitOffset, CommitUnacknowledged, Goto, States, memberVars
<1>12. CASE UNCHANGED vars
  BY <1>12 DEF vars, kafkaVars, memberVars
<1>. QED
  BY <1>1, <1>2, <1>3, <1>4, <1>5, <1>6, <1>7, <1>8, <1>9, <1>10, <1>11,
     <1>12, <1>13 DEF Next, Loop

(* Every variable of the monitor, of its batch and of its table keeps its  *)
(* shape in every reachable state.                                         *)
THEOREM TypeCorrect == Spec => []TypeOK
BY TypeInit, TypeStep, PTL DEF Spec

-----------------------------------------------------------------------------
(* Partitions only grow, and a row that is written stays: what needs       *)
(* nothing more never needs anything again.                                *)
LEMMA LogGrows ==
  ASSUME TypeOK, [Next]_vars, NEW p \in Partitions
  PROVE  /\ Len(log[p]) <= Len(log'[p])
         /\ \A i \in 1 .. Len(log[p]) : log'[p][i] = log[p][i]
<1>1. ASSUME NEW q \in Partitions, NEW kind \in Kinds, Produce(q, kind)
      PROVE  /\ Len(log[p]) <= Len(log'[p])
             /\ \A i \in 1 .. Len(log[p]) : log'[p][i] = log[p][i]
  <2>1. log'[p] = IF p = q THEN Append(log[p], kind) ELSE log[p]
    BY <1>1 DEF Produce, TypeOK
  <2>2. log[p] \in Seq(Kinds)
    BY DEF TypeOK
  <2>. QED
    BY <2>1, <2>2
<1>2. CASE UNCHANGED log
  <2>1. log[p] \in Seq(Kinds)
    BY DEF TypeOK
  <2>. QED
    BY <1>2, <2>1
<1>. QED
  BY <1>1, <1>2
     DEF Next, Loop, vars, kafkaVars, MoveSensor, Start, Stop, Rebalance, Poll,
         FetchError, NextRecord, BatchFinished, LookUpRoom, Persist,
         PersistUnacknowledged, PersistFails, CommitOffset,
         CommitUnacknowledged

LEMMA RowsGrow == TypeOK /\ [Next]_vars => rows \subseteq rows'
<1> SUFFICES ASSUME [Next]_vars PROVE rows \subseteq rows'
  OBVIOUS
<1>1. ASSUME NEW m \in Members, Persist(m) \/ PersistUnacknowledged(m)
      PROVE  rows \subseteq rows'
  BY <1>1 DEF Persist, PersistUnacknowledged, InsertEvent
<1>2. CASE UNCHANGED rows
  BY <1>2
<1>. QED
  BY <1>1, <1>2
     DEF Next, Loop, vars, Produce, MoveSensor, Start, Stop, Rebalance, Poll,
         FetchError, NextRecord, BatchFinished, LookUpRoom, PersistFails,
         CommitOffset, CommitUnacknowledged

LEMMA DroppedGrows == [Next]_vars => dropped \subseteq dropped'
<1> SUFFICES ASSUME [Next]_vars PROVE dropped \subseteq dropped'
  OBVIOUS
<1>1. ASSUME NEW m \in Members, FetchError(m)
      PROVE  dropped \subseteq dropped'
  BY <1>1 DEF FetchError
<1>2. CASE UNCHANGED dropped
  BY <1>2
<1>. QED
  BY <1>1, <1>2
     DEF Next, Loop, vars, Produce, MoveSensor, Start, Stop, Rebalance, Poll,
         NextRecord, BatchFinished, LookUpRoom, Persist,
         PersistUnacknowledged, PersistFails, CommitOffset,
         CommitUnacknowledged

LEMMA SettledStays ==
  ASSUME TypeOK, [Next]_vars,
         NEW p \in Partitions, NEW i \in 1 .. Len(log[p]), Settled(p, i)
  PROVE  Settled(p, i)'
BY LogGrows, RowsGrow, DroppedGrows DEF Settled, Stored

-----------------------------------------------------------------------------
(* The inductive invariant. *)
LEMMA InvInit == Init => IInv
<1> SUFFICES ASSUME Init PROVE IInv
  OBVIOUS
<1>1. TypeOK
  BY TypeInit
<1>2. \A p \in Partitions : Len(log[p]) = 0
  BY DEF Init
<1>3. \A m \in Members, p \in Partitions :
        batch[m][p].done = 0 /\ batch[m][p].end = 0
  BY DEF Init, NoRecords
<1>. QED
  BY <1>1, <1>2, <1>3, MembersAssumption
     DEF Init, IInv, InLog, Idle, HandFull, DoneSettled, FetchedSettled,
         CommittedSettled

LEMMA InsertStores ==
  ASSUME NEW p, NEW i, NEW at, InsertEvent(p, i, at)
  PROVE  \E r \in rows' : r.part = p /\ r.num = i
<1>1. CASE Stored(p, i)
  BY <1>1 DEF InsertEvent, Stored
<1>2. CASE ~ Stored(p, i)
  <2> DEFINE r == [part |-> p, num |-> i, room |-> at]
  <2>1. r \in rows' /\ r.part = p /\ r.num = i
    BY <1>2 DEF InsertEvent
  <2>. QED
    BY <2>1
<1>. QED
  BY <1>1, <1>2

LEMMA InvStep == IInv /\ [Next]_vars => IInv'
<1> SUFFICES ASSUME IInv, [Next]_vars PROVE IInv'
  OBVIOUS
<1>a. TypeOK /\ TypeOK'
  BY TypeStep DEF IInv
<1>b. InLog /\ Idle /\ HandFull /\ DoneSettled /\ FetchedSettled
        /\ CommittedSettled
  BY DEF IInv
<1>c. \A p \in Partitions :
        /\ Len(log[p]) \in Nat /\ Len(log'[p]) \in Nat
        /\ Len(log[p]) <= Len(log'[p])
        /\ \A i \in 1 .. Len(log[p]) : log'[p][i] = log[p][i]
  <2> SUFFICES ASSUME NEW p \in Partitions
               PROVE  /\ Len(log[p]) \in Nat /\ Len(log'[p]) \in Nat
                      /\ Len(log[p]) <= Len(log'[p])
                      /\ \A i \in 1 .. Len(log[p]) : log'[p][i] = log[p][i]
    OBVIOUS
  <2>1. log[p] \in Seq(Kinds) /\ log'[p] \in Seq(Kinds)
    BY <1>a DEF TypeOK
  <2>2. Len(log[p]) \in Nat /\ Len(log'[p]) \in Nat
    BY <2>1
  <2>. QED
    BY <1>a, <2>2, LogGrows
<1>d. \A p \in Partitions : \A i \in 1 .. Len(log[p]) :
        Settled(p, i) => Settled(p, i)'
  BY <1>a, SettledStays
<1>e. /\ \A p \in Partitions : position[p] \in Nat /\ committed[p] \in Nat
      /\ \A m \in Members : current[m] \in Partitions
      /\ \A m \in Members, p \in Partitions :
           batch[m][p].done \in Nat /\ batch[m][p].end \in Nat
  BY <1>a DEF TypeOK
(* A step that leaves Kafka's offsets and the members alone. *)
<1>1. ASSUME UNCHANGED <<committed, owner, position, pc, batch, current>>
      PROVE  IInv'
  <2>0. /\ committed' = committed /\ owner' = owner /\ position' = position
        /\ pc' = pc /\ batch' = batch /\ current' = current
    BY <1>1
  <2>1. InLog'
    <3> SUFFICES ASSUME NEW p \in Partitions
                 PROVE  /\ committed[p] <= Len(log'[p])
                        /\ position[p] <= Len(log'[p])
                        /\ \A m \in Members :
                             /\ batch[m][p].done <= batch[m][p].end
                             /\ batch[m][p].end <= Len(log'[p])
      BY <2>0 DEF InLog
    <3>. QED
      BY <1>b, <1>c, <1>e DEF InLog
  <2>2. Idle'
    BY <2>0, <1>b DEF Idle
  <2>3. HandFull'
    <3>1. ASSUME NEW m \in Members, pc[m] = "commit"
          PROVE  Settled(current[m], InHand(m))'
      <4>1. Settled(current[m], InHand(m)) /\ Pending(m, current[m])
        BY <3>1, <1>b DEF HandFull
      <4>2. InHand(m) \in 1 .. Len(log[current[m]])
        BY <4>1, <1>b, <1>c, <1>e DEF Pending, InHand, InLog
      <4>3. ASSUME NEW p \in Partitions, NEW i \in 1 .. Len(log[p]),
                   Settled(p, i)
            PROVE  Settled(p, i)'
        BY <4>3, <1>d
      <4>. QED
        BY <4>1, <4>2, <4>3, <2>0, <1>e DEF InHand, Settled, Stored
    <3>. QED
      BY <3>1, <2>0, <1>b DEF HandFull, Pending
  <2>4. DoneSettled'
    BY <2>0, <1>b, <1>c, <1>d, <1>e DEF DoneSettled, InLog
  <2>5. FetchedSettled'
    BY <2>0, <1>b, <1>c, <1>d, <1>e DEF FetchedSettled, InLog
  <2>6. CommittedSettled'
    <3> SUFFICES ASSUME NEW p \in Partitions, NEW i \in 1 .. committed[p]
                 PROVE  Settled(p, i)'
      BY <2>0 DEF CommittedSettled
    <3>. QED
      BY <1>b, <1>c, <1>d, <1>e DEF CommittedSettled, InLog
  <2>. QED
    BY <1>a, <2>1, <2>2, <2>3, <2>4, <2>5, <2>6 DEF IInv
<1>2. ASSUME NEW p \in Partitions, NEW kind \in Kinds, Produce(p, kind)
      PROVE  IInv'
  BY <1>1, <1>2 DEF Produce, memberVars
<1>3. ASSUME NEW r \in Rooms, MoveSensor(r) PROVE IInv'
  BY <1>1, <1>3 DEF MoveSensor, kafkaVars, memberVars
<1>4. ASSUME NEW m \in Members,
             LookUpRoom(m) \/ PersistUnacknowledged(m) \/ PersistFails(m)
      PROVE  IInv'
  BY <1>1, <1>4
     DEF LookUpRoom, PersistUnacknowledged, PersistFails, kafkaVars
<1>5. CASE UNCHANGED vars
  BY <1>1, <1>5 DEF vars, kafkaVars, memberVars
(* Positions and batches only, so what is settled stays settled. *)
<1>f. ASSUME UNCHANGED <<log, rows, dropped>>
      PROVE  \A p \in Partitions, i \in Nat : Settled(p, i) <=> Settled(p, i)'
  BY <1>f DEF Settled, Stored
<1>6. ASSUME NEW m \in Members, Start(m) PROVE IInv'
  <2>1. \A p \in Partitions, i \in Nat : Settled(p, i) <=> Settled(p, i)'
    BY <1>6, <1>f DEF Start, kafkaVars
  <2>2. Idle'
    BY <1>6, <1>a, <1>b DEF Start, Goto, Idle, TypeOK
  <2>8. /\ batch' = batch /\ current' = current
        /\ \A n \in Members : pc'[n] = IF n = m THEN "poll" ELSE pc[n]
    BY <1>6, <1>a DEF Start, Goto, TypeOK
  <2>3. HandFull'
    BY <2>1, <2>8, <1>b, <1>e DEF HandFull, Pending, InHand
  <2>4. InLog'
    BY <1>6, <1>b DEF Start, kafkaVars, InLog
  <2>5. DoneSettled'
    BY <1>6, <1>b, <1>e, <2>1 DEF Start, DoneSettled
  <2>6. FetchedSettled'
    BY <1>6, <1>b, <1>e, <2>1 DEF Start, kafkaVars, FetchedSettled
  <2>7. CommittedSettled'
    BY <1>6, <1>b, <1>e, <2>1 DEF Start, kafkaVars, CommittedSettled
  <2>. QED
    BY <1>a, <2>2, <2>3, <2>4, <2>5, <2>6, <2>7 DEF IInv
<1>7. ASSUME NEW m \in Members, Stop(m) PROVE IInv'
  <2>1. \A p \in Partitions, i \in Nat : Settled(p, i) <=> Settled(p, i)'
    BY <1>7, <1>f DEF Stop
  <2>2. \A n \in Members, p \in Partitions :
          batch'[n][p] = IF n = m THEN [done |-> 0, end |-> 0] ELSE batch[n][p]
    BY <1>7, <1>a DEF Stop, NoRecords, TypeOK
  <2>3. \A n \in Members : pc'[n] = IF n = m THEN "down" ELSE pc[n]
    BY <1>7, <1>a DEF Stop, Goto, TypeOK
  <2>4. \A p \in Partitions :
          owner'[p] \in Members => owner'[p] = owner[p] /\ owner[p] # m
    BY <1>7, MembersAssumption DEF Stop
  <2>5. Idle'
    BY <2>2, <2>3, <1>b DEF Idle
  <2>6. HandFull'
    BY <1>7, <1>b, <1>e, <2>1, <2>2, <2>3
       DEF Stop, HandFull, Pending, InHand
  <2>7. InLog'
    BY <1>7, <1>b, <1>c, <2>2 DEF Stop, InLog
  <2>8. DoneSettled'
    BY <1>b, <1>e, <2>1, <2>2 DEF DoneSettled
  <2>9. FetchedSettled'
    BY <1>7, <1>b, <1>e, <2>1, <2>2, <2>4 DEF Stop, FetchedSettled
  <2>10. CommittedSettled'
    BY <1>7, <1>b, <1>e, <2>1 DEF Stop, CommittedSettled
  <2>. QED
    BY <1>a, <2>5, <2>6, <2>7, <2>8, <2>9, <2>10 DEF IInv
<1>8. ASSUME NEW p \in Partitions, NEW m \in Members, Rebalance(p, m)
      PROVE  IInv'
  <2>1. \A q \in Partitions, i \in Nat : Settled(q, i) <=> Settled(q, i)'
    BY <1>8, <1>f DEF Rebalance
  <2>2. Idle' /\ DoneSettled'
    BY <1>8, <1>b, <1>e, <2>1 DEF Rebalance, memberVars, Idle, DoneSettled
  <2>3. HandFull'
    BY <1>8, <1>b, <1>e, <2>1
       DEF Rebalance, memberVars, HandFull, Pending, InHand
  <2>4. \A q \in Partitions :
          /\ position'[q] = IF q = p THEN committed[p] ELSE position[q]
          /\ owner'[q] = IF q = p THEN m ELSE owner[q]
    BY <1>8, <1>a DEF Rebalance, TypeOK
  <2>5. InLog'
    BY <1>8, <1>b, <2>4 DEF Rebalance, memberVars, InLog
  <2>6. FetchedSettled'
    BY <1>8, <1>b, <1>e, <2>1, <2>4
       DEF Rebalance, memberVars, FetchedSettled, CommittedSettled
  <2>7. CommittedSettled'
    BY <1>8, <1>b, <1>e, <2>1 DEF Rebalance, CommittedSettled
  <2>. QED
    BY <1>a, <2>2, <2>3, <2>5, <2>6, <2>7 DEF IInv
<1>9. ASSUME NEW m \in Members, Poll(m) PROVE IInv'
  <2>1. \A q \in Partitions, i \in Nat : Settled(q, i) <=> Settled(q, i)'
    BY <1>9, <1>f DEF Poll
  <2> PICK ends \in FetchEnds(m) :
        /\ batch' = [batch EXCEPT ![m] = Fetched(m, ends)]
        /\ position' = ends
    BY <1>9 DEF Poll
  <2>2. \A p \in Partitions :
          /\ ends[p] \in Nat
          /\ position[p] <= ends[p] /\ ends[p] <= Len(log[p])
          /\ owner[p] # m => ends[p] = position[p]
    BY <1>e, <1>c DEF FetchEnds
  <2>3. /\ \A n \in Members \ {m}, p \in Partitions :
             batch'[n][p] = batch[n][p]
        /\ \A p \in Partitions : owner[p] = m =>
             batch'[m][p].done = position[p] /\ batch'[m][p].end = ends[p]
        /\ \A p \in Partitions : owner[p] # m =>
             batch'[m][p].done = 0 /\ batch'[m][p].end = 0
    BY <1>a DEF TypeOK, Fetched
  <2>4. pc[m] = "poll" /\ \A n \in Members :
          pc'[n] = IF n = m THEN "next" ELSE pc[n]
    BY <1>9, <1>a DEF Poll, Goto, TypeOK
  <2>5. ASSUME NEW p \in Partitions, owner[p] = m, NEW i \in 1 .. position[p]
        PROVE  Settled(p, i)
    BY <2>4, <2>5, <1>b, <1>e DEF Idle, FetchedSettled
  <2>6. Idle'
    BY <2>3, <2>4, <1>b DEF Idle
  <2>7. HandFull'
    BY <1>9, <1>b, <1>e, <2>1, <2>3, <2>4 DEF Poll, HandFull, Pending, InHand
  <2>12. log' = log /\ committed' = committed /\ owner' = owner
    BY <1>9 DEF Poll
  <2>8. InLog'
    BY <2>2, <2>3, <2>12, <1>b, <1>c, <1>e DEF InLog
  <2>9. DoneSettled'
    <3> SUFFICES ASSUME NEW n \in Members, NEW p \in Partitions,
                        NEW i \in 1 .. batch'[n][p].done
                 PROVE  Settled(p, i)
      BY <2>1, <2>3, <1>e DEF DoneSettled
    <3>1. CASE n # m
      BY <3>1, <2>3, <1>b DEF DoneSettled
    <3>2. CASE n = m
      BY <3>2, <2>3, <2>5
    <3>. QED
      BY <3>1, <3>2
  <2>10. FetchedSettled'
    <3> SUFFICES ASSUME NEW p \in Partitions, owner[p] \in Members,
                        NEW i \in 1 .. ends[p]
                 PROVE  \/ Settled(p, i)
                        \/ /\ batch'[owner[p]][p].done < i
                           /\ i <= batch'[owner[p]][p].end
      BY <2>1, <2>2, <2>12 DEF FetchedSettled
    <3>1. CASE owner[p] # m
      BY <3>1, <2>2, <2>3, <1>b DEF FetchedSettled
    <3>2. CASE owner[p] = m
      BY <3>2, <2>2, <2>3, <2>5, <1>e
    <3>. QED
      BY <3>1, <3>2
  <2>11. CommittedSettled'
    BY <1>9, <1>b, <1>e, <2>1 DEF Poll, CommittedSettled
  <2>. QED
    BY <1>a, <2>6, <2>7, <2>8, <2>9, <2>10, <2>11 DEF IInv
<1>10. ASSUME NEW m \in Members, FetchError(m) PROVE IInv'
  <2> PICK ends \in FetchEnds(m) :
        /\ position' = ends
        /\ dropped' = dropped \cup
             UNION {{p} \X (position[p] + 1 .. ends[p]) : p \in Partitions}
    BY <1>10 DEF FetchError
  <2>1. /\ pc[m] = "poll" /\ log' = log /\ committed' = committed
        /\ owner' = owner /\ rows' = rows
        /\ pc' = pc /\ batch' = batch /\ current' = current
    BY <1>10 DEF FetchError, memberVars
  <2>2. \A p \in Partitions, i \in Nat : Settled(p, i) => Settled(p, i)'
    BY <2>1 DEF Settled, Stored
  <2>3. \A p \in Partitions :
          /\ ends[p] \in Nat
          /\ position[p] <= ends[p] /\ ends[p] <= Len(log[p])
          /\ owner[p] # m => ends[p] = position[p]
    BY <1>e, <1>c DEF FetchEnds
  <2>4. \A p \in Partitions : \A i \in position[p] + 1 .. ends[p] :
          Settled(p, i)'
    <3> SUFFICES ASSUME NEW p \in Partitions,
                        NEW i \in position[p] + 1 .. ends[p]
                 PROVE  <<p, i>> \in dropped'
      BY DEF Settled
    <3>. QED
      OBVIOUS
  <2>5. Idle' /\ DoneSettled'
    BY <2>1, <2>2, <1>b, <1>e DEF Idle, DoneSettled
  <2>6. HandFull'
    BY <2>1, <2>2, <1>b, <1>e DEF HandFull, Pending, InHand
  <2>7. InLog'
    BY <2>1, <2>3, <1>b DEF InLog
  <2>8. FetchedSettled'
    <3> SUFFICES ASSUME NEW p \in Partitions, owner[p] \in Members,
                        NEW i \in 1 .. ends[p]
                 PROVE  \/ Settled(p, i)'
                        \/ /\ batch[owner[p]][p].done < i
                           /\ i <= batch[owner[p]][p].end
      BY <2>1 DEF FetchedSettled
    <3>1. CASE i \in 1 .. position[p]
      BY <3>1, <2>2, <1>b DEF FetchedSettled
    <3>2. CASE i \in position[p] + 1 .. ends[p]
      BY <3>2, <2>4
    <3>. QED
      BY <3>1, <3>2, <2>3, <1>e
  <2>9. CommittedSettled'
    BY <2>1, <2>2, <1>b, <1>e DEF CommittedSettled
  <2>. QED
    BY <1>a, <2>5, <2>6, <2>7, <2>8, <2>9 DEF IInv
<1>11. ASSUME NEW m \in Members, NextRecord(m) PROVE IInv'
  <2>1. \A p \in Partitions, i \in Nat : Settled(p, i) <=> Settled(p, i)'
    BY <1>11, <1>f DEF NextRecord, kafkaVars
  <2> PICK p \in Partitions :
        /\ Pending(m, p)
        /\ current' = [current EXCEPT ![m] = p]
        /\ Goto(m, IF log[p][batch[m][p].done + 1] = "malformed"
                     THEN "commit"
                     ELSE "persist")
    BY <1>11 DEF NextRecord
  <2>2. /\ log' = log /\ committed' = committed /\ owner' = owner
        /\ position' = position /\ batch' = batch
    BY <1>11 DEF NextRecord, kafkaVars
  <2>3. \A n \in Members : current'[n] = IF n = m THEN p ELSE current[n]
    BY <1>a DEF TypeOK
  <2>4. /\ \A n \in Members \ {m} : pc'[n] = pc[n]
        /\ pc'[m] \in {"persist", "commit"}
        /\ pc'[m] = "commit" => log[p][batch[m][p].done + 1] = "malformed"
    BY <1>a DEF TypeOK, Goto
  <2>5. InLog' /\ DoneSettled'
    BY <2>1, <2>2, <1>b, <1>e DEF InLog, DoneSettled
  <2>6. FetchedSettled' /\ CommittedSettled'
    BY <2>1, <2>2, <1>b, <1>e DEF FetchedSettled, CommittedSettled
  <2>7. Idle'
    BY <2>2, <2>4, <1>b DEF Idle
  <2>8. HandFull'
    <3>1. ASSUME NEW n \in Members \ {m}
          PROVE  /\ pc'[n] \in {"persist", "commit"} =>
                      Pending(n, current[n])'
                 /\ pc'[n] = "commit" => Settled(current[n], InHand(n))'
      BY <2>1, <2>2, <2>3, <2>4, <1>b, <1>e DEF HandFull, Pending, InHand
    <3>2. Pending(m, current[m])'
      BY <2>2, <2>3 DEF Pending
    <3>3. pc'[m] = "commit" => Settled(current[m], InHand(m))'
      BY <2>2, <2>3, <2>4 DEF Settled, InHand
    <3>. QED
      BY <3>1, <3>2, <3>3 DEF HandFull
  <2>. QED
    BY <1>a, <2>5, <2>6, <2>7, <2>8 DEF IInv
<1>12. ASSUME NEW m \in Members, BatchFinished(m) PROVE IInv'
  <2>1. \A p \in Partitions, i \in Nat : Settled(p, i) <=> Settled(p, i)'
    BY <1>12, <1>f DEF BatchFinished, kafkaVars
  <2>2. /\ log' = log /\ committed' = committed /\ owner' = owner
        /\ position' = position /\ batch' = batch /\ current' = current
    BY <1>12 DEF BatchFinished, kafkaVars
  <2>3. \A n \in Members : pc'[n] = IF n = m THEN "poll" ELSE pc[n]
    BY <1>12, <1>a DEF BatchFinished, Goto, TypeOK
  <2>4. InLog' /\ DoneSettled'
    BY <2>1, <2>2, <1>b, <1>e DEF InLog, DoneSettled
  <2>5. FetchedSettled' /\ CommittedSettled'
    BY <2>1, <2>2, <1>b, <1>e DEF FetchedSettled, CommittedSettled
  <2>6. \A p \in Partitions : batch[m][p].done = batch[m][p].end
    BY <1>12, <1>b, <1>e DEF BatchFinished, Pending, InLog
  <2>7. Idle'
    BY <2>2, <2>3, <2>6, <1>b DEF Idle
  <2>8. HandFull'
    BY <2>1, <2>2, <2>3, <1>b, <1>e DEF HandFull, Pending, InHand
  <2>. QED
    BY <1>a, <2>4, <2>5, <2>7, <2>8 DEF IInv
<1>13. ASSUME NEW m \in Members, Persist(m) PROVE IInv'
  <2>1. \A p \in Partitions : \A i \in 1 .. Len(log[p]) :
          Settled(p, i) => Settled(p, i)'
    BY <1>d
  <2>2. /\ log' = log /\ committed' = committed /\ owner' = owner
        /\ position' = position /\ batch' = batch /\ current' = current
    BY <1>13 DEF Persist, kafkaVars
  <2>3. pc[m] = "persist" /\ \A n \in Members :
          pc'[n] = IF n = m THEN "commit" ELSE pc[n]
    BY <1>13, <1>a DEF Persist, Goto, TypeOK
  <2>4. InLog'
    BY <2>2, <1>b DEF InLog
  <2>5. Idle'
    BY <2>2, <2>3, <1>b DEF Idle
  <2>6. DoneSettled'
    BY <2>1, <2>2, <1>b, <1>c, <1>e DEF DoneSettled, InLog
  <2>7. FetchedSettled' /\ CommittedSettled'
    BY <2>1, <2>2, <1>b, <1>c, <1>e
       DEF FetchedSettled, CommittedSettled, InLog
  <2>8. HandFull'
    <3>1. \A n \in Members : pc'[n] \in {"persist", "commit"} =>
            Pending(n, current[n])'
      BY <2>2, <2>3, <1>b DEF HandFull, Pending
    <3>2. Stored(current[m], InHand(m))'
      <4>1. Stored(current[m], InHand(m))' <=>
              \E r \in rows' : r.part = current[m] /\ r.num = InHand(m)
        BY <2>2 DEF Stored, InHand
      <4>2. PICK at \in held[m] : InsertEvent(current[m], InHand(m), at)
        BY <1>13 DEF Persist
      <4>. QED
        BY <4>1, <4>2, InsertStores
    <3>3. Settled(current[m], InHand(m))'
      BY <3>2, <2>2 DEF Settled, Stored, InHand
    <3>4. ASSUME NEW n \in Members \ {m}, pc[n] = "commit"
          PROVE  Settled(current[n], InHand(n))'
      <4>1. Settled(current[n], InHand(n)) /\ Pending(n, current[n])
        BY <3>4, <1>b DEF HandFull
      <4>2. InHand(n) \in 1 .. Len(log[current[n]])
        BY <4>1, <1>b, <1>c, <1>e DEF Pending, InHand, InLog
      <4>3. \A p \in Partitions : \A i \in 1 .. Len(log[p]) :
              Settled(p, i) => Settled(p, i)'
        BY <2>1
      <4>. QED
        BY <4>1, <4>2, <4>3, <2>2, <1>e DEF InHand, Settled, Stored
    <3>. QED
      BY <3>1, <3>3, <3>4, <2>3 DEF HandFull
  <2>. QED
    BY <1>a, <2>4, <2>5, <2>6, <2>7, <2>8 DEF IInv
(* Committing: what is behind the new offset was done, or is in hand. *)
<1>14. ASSUME NEW m \in Members, CommitOffset(m) \/ CommitUnacknowledged(m)
       PROVE  IInv'
  <2>1. \A p \in Partitions, i \in Nat : Settled(p, i) <=> Settled(p, i)'
    BY <1>14, <1>f DEF CommitOffset, CommitUnacknowledged
  <2>2. /\ log' = log /\ owner' = owner /\ position' = position
        /\ current' = current /\ pc[m] = "commit"
    BY <1>14 DEF CommitOffset, CommitUnacknowledged, memberVars
  <2>3. \A p \in Partitions :
          committed'[p] = IF p = current[m] THEN InHand(m) ELSE committed[p]
    BY <1>14, <1>a, <1>e DEF CommitOffset, CommitUnacknowledged, TypeOK
  <2>4. /\ Pending(m, current[m])
        /\ InHand(m) \in 1 .. Len(log[current[m]])
        /\ InHand(m) <= batch[m][current[m]].end
    BY <2>2, <1>b, <1>c, <1>e DEF HandFull, Pending, InHand, InLog
  <2>5. \A i \in 1 .. InHand(m) : Settled(current[m], i)
    BY <2>2, <2>4, <1>b, <1>e DEF HandFull, DoneSettled, InHand
  <2>6. CommittedSettled'
    BY <2>1, <2>3, <2>5, <1>b, <1>e DEF CommittedSettled
  <2>7. CASE CommitUnacknowledged(m)
    <3>1. batch' = batch /\ pc' = pc
      BY <2>7 DEF CommitUnacknowledged, memberVars
    <3>2. InLog'
      BY <3>1, <2>2, <2>3, <2>4, <1>b, <1>c, <1>e DEF InLog
    <3>3. Idle' /\ DoneSettled' /\ FetchedSettled'
      BY <3>1, <2>1, <2>2, <1>b, <1>e DEF Idle, DoneSettled, FetchedSettled
    <3>4. HandFull'
      BY <3>1, <2>1, <2>2, <1>b, <1>e DEF HandFull, Pending, InHand
    <3>. QED
      BY <1>a, <2>6, <3>2, <3>3, <3>4 DEF IInv
  <2>8. CASE CommitOffset(m)
    <3>1. /\ \A n \in Members, p \in Partitions :
               (n # m \/ p # current[m]) => batch'[n][p] = batch[n][p]
          /\ batch'[m][current[m]].done = InHand(m)
          /\ batch'[m][current[m]].end = batch[m][current[m]].end
      BY <2>8, <1>a, <1>e DEF CommitOffset, Advance, TypeOK
    <3>2. \A n \in Members : pc'[n] = IF n = m THEN "next" ELSE pc[n]
      BY <2>8, <1>a DEF CommitOffset, Goto, TypeOK
    <3>3. InLog'
      <4> SUFFICES ASSUME NEW p \in Partitions
                   PROVE  /\ committed'[p] <= Len(log[p])
                          /\ position[p] <= Len(log[p])
                          /\ \A n \in Members :
                               /\ batch'[n][p].done <= batch'[n][p].end
                               /\ batch'[n][p].end <= Len(log[p])
        BY <2>2 DEF InLog
      <4>1. committed'[p] <= Len(log[p]) /\ position[p] <= Len(log[p])
        BY <2>3, <2>4, <1>b, <1>c DEF InLog
      <4>2. ASSUME NEW n \in Members
            PROVE  /\ batch'[n][p].done <= batch'[n][p].end
                   /\ batch'[n][p].end <= Len(log[p])
        BY <3>1, <2>4, <1>b DEF InLog
      <4>. QED
        BY <4>1, <4>2
    <3>4. Idle'
      BY <3>1, <3>2, <2>2, <1>b DEF Idle
    <3>5. HandFull'
      BY <3>1, <3>2, <2>1, <2>2, <1>b, <1>e DEF HandFull, Pending, InHand
    <3>6. DoneSettled'
      <4> SUFFICES ASSUME NEW n \in Members, NEW p \in Partitions,
                          NEW i \in 1 .. batch'[n][p].done
                   PROVE  Settled(p, i)
        BY <2>1, <1>a DEF DoneSettled, TypeOK
      <4>1. CASE n = m /\ p = current[m]
        BY <4>1, <3>1, <2>5
      <4>2. CASE n # m \/ p # current[m]
        BY <4>2, <3>1, <1>b DEF DoneSettled
      <4>. QED
        BY <4>1, <4>2
    <3>7. FetchedSettled'
      <4> SUFFICES ASSUME NEW p \in Partitions, owner[p] \in Members,
                          NEW i \in 1 .. position[p]
                   PROVE  \/ Settled(p, i)
                          \/ /\ batch'[owner[p]][p].done < i
                             /\ i <= batch'[owner[p]][p].end
        BY <2>1, <2>2, <1>e DEF FetchedSettled
      <4>1. CASE owner[p] = m /\ p = current[m]
        <5>1. CASE i <= InHand(m)
          BY <5>1, <4>1, <2>4, <2>5
        <5>2. CASE i > InHand(m)
          BY <5>2, <4>1, <3>1, <1>b, <1>e DEF FetchedSettled
        <5>. QED
          BY <5>1, <5>2, <1>e, <2>4
      <4>2. CASE owner[p] # m \/ p # current[m]
        BY <4>2, <3>1, <1>b DEF FetchedSettled
      <4>. QED
        BY <4>1, <4>2
    <3>. QED
      BY <1>a, <2>6, <3>3, <3>4, <3>5, <3>6, <3>7 DEF IInv
  <2>. QED
    BY <1>14, <2>7, <2>8
<1>. QED
  BY <1>2, <1>3, <1>4, <1>5, <1>6, <1>7, <1>8, <1>9, <1>10, <1>11, <1>12,
     <1>13, <1>14 DEF Next, Loop

LEMMA InvHolds == Spec => []IInv
BY InvInit, InvStep, PTL DEF Spec

(* Whatever the polls report: a record behind the committed offset that    *)
(* has no row does not decode or was thrown away by a failing poll.        *)
THEOREM NothingElseLostHolds == Spec => []NothingElseLost
<1>1. IInv => NothingElseLost
  BY DEF IInv, CommittedSettled, Settled, NothingElseLost
<1>. QED
  BY <1>1, InvHolds, PTL

(* The only rows a step writes are new ones. *)
THEOREM HistoryKeptHolds == Spec => HistoryKept
<1>1. TypeOK /\ [Next]_vars => [rows \subseteq rows']_vars
  BY RowsGrow
<1>. QED
  BY <1>1, TypeCorrect, PTL DEF Spec, HistoryKept

-----------------------------------------------------------------------------
(* With a client that reports an error only in polls without records.      *)
LEMMA NothingDropped ==
  ASSUME PartialFetchErrors = FALSE
  PROVE  Spec => [](dropped = {})
<1>1. Init => dropped = {}
  BY DEF Init
<1>2. dropped = {} /\ [Next]_vars => (dropped = {})'
  <2> SUFFICES ASSUME dropped = {}, [Next]_vars PROVE dropped' = {}
    OBVIOUS
  <2>1. ASSUME NEW m \in Members PROVE ~ FetchError(m)
    BY DEF FetchError
  <2>. QED
    BY <2>1
       DEF Next, Loop, vars, Produce, MoveSensor, Start, Stop, Rebalance, Poll,
           NextRecord, BatchFinished, LookUpRoom, Persist,
           PersistUnacknowledged, PersistFails, CommitOffset,
           CommitUnacknowledged
<1>. QED
  BY <1>1, <1>2, PTL DEF Spec

(* Offsets are committed only after a successful insert.                   *)
THEOREM CommittedOnlyAfterInsertHolds ==
  ASSUME PartialFetchErrors = FALSE
  PROVE  Spec => []CommittedOnlyAfterInsert
<1>1. IInv /\ dropped = {} => CommittedOnlyAfterInsert
  BY DEF IInv, CommittedSettled, Settled, CommittedOnlyAfterInsert
<1>. QED
  BY <1>1, InvHolds, NothingDropped, PTL

-----------------------------------------------------------------------------
(* The order of the rows: a row is written for the record in hand, before  *)
(* which everything is settled.                                            *)
RowsInOrder ==
  \A r \in rows : /\ r.num <= Len(log[r.part])
                  /\ \A i \in 1 .. r.num - 1 : Settled(r.part, i)

LEMMA RowsInOrderStep ==
  IInv /\ RowsInOrder /\ [Next]_vars => RowsInOrder'
<1> SUFFICES ASSUME IInv, RowsInOrder, [Next]_vars,
                    NEW r \in rows'
             PROVE  /\ r.num <= Len(log'[r.part])
                    /\ \A i \in 1 .. r.num - 1 : Settled(r.part, i)'
  BY DEF RowsInOrder
<1>a. TypeOK /\ TypeOK'
  BY TypeStep DEF IInv
<1>b. r.part \in Partitions /\ r.num \in Nat \ {0}
  BY <1>a DEF TypeOK, Row
<1>c. /\ Len(log[r.part]) \in Nat /\ Len(log'[r.part]) \in Nat
      /\ Len(log[r.part]) <= Len(log'[r.part])
  <2>1. log[r.part] \in Seq(Kinds) /\ log'[r.part] \in Seq(Kinds)
    BY <1>a, <1>b DEF TypeOK
  <2>2. Len(log[r.part]) \in Nat /\ Len(log'[r.part]) \in Nat
    BY <2>1
  <2>. QED
    BY <2>2, <1>a, <1>b, LogGrows
<1>d. \A i \in 1 .. Len(log[r.part]) :
        Settled(r.part, i) => Settled(r.part, i)'
  BY <1>a, <1>b, SettledStays
<1>1. CASE r \in rows
  BY <1>1, <1>b, <1>c, <1>d DEF RowsInOrder
<1>2. CASE r \notin rows
  <2>1. PICK m \in Members : Persist(m) \/ PersistUnacknowledged(m)
    BY <1>2
       DEF Next, Loop, vars, Produce, MoveSensor, Start, Stop, Rebalance, Poll,
           FetchError, NextRecord, BatchFinished, LookUpRoom, PersistFails,
           CommitOffset, CommitUnacknowledged
  <2>2. r.part = current[m] /\ r.num = InHand(m) /\ pc[m] = "persist"
    BY <1>2, <2>1 DEF Persist, PersistUnacknowledged, InsertEvent
  <2>3. /\ batch[m][r.part].done \in Nat
        /\ batch[m][r.part].end \in Nat
        /\ batch[m][r.part].done < batch[m][r.part].end
        /\ batch[m][r.part].end <= Len(log[r.part])
    BY <1>a, <1>b, <2>2 DEF IInv, HandFull, Pending, InLog, TypeOK
  <2>4. \A i \in 1 .. r.num - 1 : Settled(r.part, i)
    BY <2>2, <2>3, <1>b DEF IInv, DoneSettled, InHand
  <2>5. r.num = batch[m][r.part].done + 1 /\ r.num <= Len(log[r.part])
    BY <2>2, <2>3, <1>c DEF InHand
  <2>6. \A i \in 1 .. r.num - 1 : i \in 1 .. Len(log[r.part])
    BY <2>5, <1>b, <1>c
  <2>. QED
    BY <2>4, <2>5, <2>6, <1>b, <1>c, <1>d
<1>. QED
  BY <1>1, <1>2

(* The rows of a partition follow the order of its records, for any        *)
(* overlap of members.                                                     *)
THEOREM StoredInOrderHolds ==
  ASSUME PartialFetchErrors = FALSE
  PROVE  Spec => []StoredInOrder
<1>1. Init => RowsInOrder
  BY DEF Init, RowsInOrder
<1>2. RowsInOrder /\ dropped = {} => StoredInOrder
  BY DEF RowsInOrder, Settled, StoredInOrder
<1>. QED
  BY <1>1, <1>2, RowsInOrderStep, InvHolds, NothingDropped, PTL DEF Spec

-----------------------------------------------------------------------------
(* Refinement: every step of the monitor is a step of the ledger, or       *)
(* leaves log, rows, room and the attempts under way alone.  A transaction *)
(* is open only while its record is in hand, so that the loop never turns  *)
(* to another record with the room it read for this one.                   *)
HeldInHand == \A m \in Members : held[m] # {} => pc[m] = "persist"

LEMMA HeldStep == TypeOK /\ HeldInHand /\ [Next]_vars => HeldInHand'
<1> SUFFICES ASSUME TypeOK, HeldInHand, [Next]_vars PROVE HeldInHand'
  OBVIOUS
<1>1. ASSUME NEW m \in Members,
             \/ LookUpRoom(m) \/ Persist(m) \/ PersistUnacknowledged(m)
             \/ PersistFails(m) \/ Stop(m)
      PROVE  HeldInHand'
  BY <1>1
     DEF TypeOK, HeldInHand, LookUpRoom, Persist, PersistUnacknowledged,
         PersistFails, Stop, Ended, Goto
<1>2. ASSUME NEW m \in Members, pc[m] # "persist", held' = held,
             \E label : Goto(m, label)
      PROVE  HeldInHand'
  BY <1>2 DEF TypeOK, HeldInHand, Goto
<1>3. CASE UNCHANGED <<pc, held>>
  BY <1>3 DEF HeldInHand
<1>. QED
  BY <1>1, <1>2, <1>3
     DEF Next, Loop, vars, memberVars, Produce, MoveSensor, Start, Rebalance,
         Poll, FetchError, NextRecord, BatchFinished, CommitOffset,
         CommitUnacknowledged

LogBounded == \A p \in Partitions : Len(log[p]) <= MaxRecords

LEMMA LogBoundedStep == TypeOK /\ LogBounded /\ [Next]_vars => LogBounded'
<1> SUFFICES ASSUME TypeOK, LogBounded, [Next]_vars, NEW p \in Partitions
             PROVE  Len(log'[p]) <= MaxRecords
  BY DEF LogBounded
<1>1. ASSUME NEW q \in Partitions, NEW kind \in Kinds, Produce(q, kind)
      PROVE  Len(log'[p]) <= MaxRecords
  <2>1. log'[p] = IF p = q THEN Append(log[p], kind) ELSE log[p]
    BY <1>1 DEF Produce, TypeOK
  <2>2. log[p] \in Seq(Kinds)
    BY DEF TypeOK
  <2>3. CASE p = q
    BY <2>1, <2>2, <2>3, <1>1, BoundsAssumption DEF Produce
  <2>4. CASE p # q
    BY <2>1, <2>4 DEF LogBounded
  <2>. QED
    BY <2>3, <2>4
<1>2. CASE UNCHANGED log
  BY <1>2 DEF LogBounded
<1>. QED
  BY <1>1, <1>2
     DEF Next, Loop, vars, kafkaVars, MoveSensor, Start, Stop, Rebalance, Poll,
         FetchError, NextRecord, BatchFinished, LookUpRoom, Persist,
         PersistUnacknowledged, PersistFails, CommitOffset,
         CommitUnacknowledged

(* The attempt of m, as the ledger sees it. *)
AttemptOf(m, r) == [part |-> current[m], num |-> InHand(m), room |-> r]

(* Attempts end, and none begins: the ledger forgets, or stutters.         *)
LEMMA AttemptsShrink ==
  ASSUME TypeOK, UNCHANGED <<log, rows, room>>,
         \A m \in Members : \A r \in held'[m] :
           r \in held[m] /\ AttemptOf(m, r)' = AttemptOf(m, r)
  PROVE  Ledger!LedgerNext
<1>1. Looked' \subseteq Looked
  <2> SUFFICES ASSUME NEW x \in Looked' PROVE x \in Looked
    OBVIOUS
  <2>3. PICK m \in Members : \E r \in held'[m] :
          x = [part |-> current'[m], num |-> InHand(m)', room |-> r]
    BY DEF Looked
  <2>1. PICK r \in held'[m] :
          x = [part |-> current'[m], num |-> InHand(m)', room |-> r]
    BY <2>3
  <2>2. r \in held[m] /\ x = [part |-> current[m], num |-> InHand(m),
                              room |-> r]
    BY <2>1 DEF AttemptOf
  <2>. QED
    BY <2>2 DEF Looked
<1>. QED
  BY <1>1 DEF Ledger!LedgerNext, Ledger!Forget

LEMMA StepRefines ==
  IInv /\ HeldInHand /\ dropped = {} /\ LogBounded /\ [Next]_vars
    => [Ledger!LedgerNext]_(Ledger!ledgerVars)
<1> SUFFICES ASSUME IInv, HeldInHand, dropped = {}, LogBounded, [Next]_vars
             PROVE  Ledger!LedgerNext \/ UNCHANGED <<log, rows, room, Looked>>
  BY DEF Ledger!ledgerVars
<1>a. TypeOK
  BY DEF IInv
<1>b. ASSUME UNCHANGED <<batch, current, held>> PROVE Looked' = Looked
  BY <1>b DEF Looked, InHand
<1>c. ASSUME NEW m \in Members, pc[m] = "persist"
      PROVE  /\ current[m] \in Partitions
             /\ InHand(m) \in 1 .. Len(log[current[m]])
             /\ InHand(m) \in 1 .. MaxRecords
             /\ batch[m][current[m]].done \in Nat
  <2>1. current[m] \in Partitions /\ log[current[m]] \in Seq(Kinds)
    BY <1>a DEF TypeOK
  <2>2. Len(log[current[m]]) \in Nat /\ Len(log[current[m]]) <= MaxRecords
    BY <2>1 DEF LogBounded
  <2>3. /\ batch[m][current[m]].done \in Nat
        /\ batch[m][current[m]].end \in Nat
        /\ batch[m][current[m]].done < batch[m][current[m]].end
        /\ batch[m][current[m]].end <= Len(log[current[m]])
    BY <1>c, <2>1 DEF IInv, HandFull, Pending, InLog, TypeOK
  <2>. QED
    BY <2>1, <2>2, <2>3, BoundsAssumption DEF InHand
<1>1. ASSUME NEW p \in Partitions, NEW kind \in Kinds, Produce(p, kind)
      PROVE  Ledger!LedgerNext
  BY <1>1, <1>b
     DEF Produce, memberVars, Ledger!LedgerNext, Ledger!Produce, Ledger!Kinds,
         Kinds
<1>2. ASSUME NEW r \in Rooms, MoveSensor(r)
      PROVE  Ledger!LedgerNext
  BY <1>2, <1>b
     DEF MoveSensor, kafkaVars, memberVars, Ledger!LedgerNext,
         Ledger!MoveSensor
<1>3. ASSUME NEW m \in Members, LookUpRoom(m) PROVE Ledger!LedgerNext
  <2> DEFINE p == current[m]
             i == InHand(m)
  <2>1. /\ held[m] = {}
        /\ \A n \in Members : held'[n] = IF n = m THEN {room} ELSE held[n]
    BY <1>3, <1>a DEF LookUpRoom, TypeOK
  <2>2. /\ log' = log /\ rows' = rows /\ room' = room
        /\ current' = current /\ batch' = batch /\ pc[m] = "persist"
    BY <1>3 DEF LookUpRoom, kafkaVars
  <2>3. Looked' = Looked \cup {[part |-> p, num |-> i, room |-> room]}
    BY <2>1, <2>2 DEF Looked, InHand
  <2>4. p \in Partitions /\ i \in 1 .. Len(log[p]) /\ i \in 1 .. MaxRecords
    BY <2>2, <1>c
  <2> HIDE DEF p, i
  <2>5. Ledger!Look(p, i)
    BY <2>2, <2>3, <2>4 DEF Ledger!Look
  <2>. QED
    BY <2>4, <2>5 DEF Ledger!LedgerNext
<1>4. ASSUME NEW m \in Members, Persist(m) \/ PersistUnacknowledged(m)
      PROVE  Ledger!LedgerNext
  <2> DEFINE p == current[m]
             i == InHand(m)
  <2>1. PICK r \in held[m] : InsertEvent(p, i, r)
    BY <1>4 DEF Persist, PersistUnacknowledged
  <2>2. /\ pc[m] = "persist" /\ log[p][i] = "event"
        /\ log' = log /\ room' = room /\ current' = current /\ batch' = batch
    BY <1>4 DEF Persist, PersistUnacknowledged, kafkaVars
  <2>3. \A n \in Members : held'[n] = IF n = m THEN {} ELSE held[n]
    BY <1>4, <1>a DEF Persist, PersistUnacknowledged, Ended, TypeOK
  <2>4. \A n \in Members : \A s \in held'[n] :
          s \in held[n] /\ AttemptOf(n, s)' = AttemptOf(n, s)
    BY <2>2, <2>3 DEF AttemptOf, InHand
  <2>5. CASE Stored(p, i)
    <3>1. rows' = rows
      BY <2>1, <2>5 DEF InsertEvent
    <3>. QED
      BY <3>1, <2>2, <2>4, <1>a, AttemptsShrink
  <2>6. CASE ~ Stored(p, i)
    <3>1. /\ p \in Partitions /\ i \in 1 .. Len(log[p])
          /\ i \in 1 .. MaxRecords
      BY <2>2, <1>c
    <3>2. ASSUME NEW j \in 1 .. i - 1, log[p][j] = "event"
          PROVE  Stored(p, j)
      BY <3>2, <2>2, <1>c DEF IInv, DoneSettled, Settled, InHand
    <3>3. AttemptOf(m, r) \in Looked
      BY <2>1 DEF Looked, AttemptOf
    <3>4. Looked' \subseteq Looked
      BY <2>2, <2>3 DEF Looked, InHand
    <3>5. rows' = rows \cup {AttemptOf(m, r)}
      BY <2>1, <2>6 DEF InsertEvent, AttemptOf
    <3>6. AttemptOf(m, r).part = p /\ AttemptOf(m, r).num = i
      BY DEF AttemptOf
    <3> HIDE DEF p, i
    <3>7. Ledger!Write(p, i)
      BY <2>2, <2>6, <3>1, <3>2, <3>3, <3>4, <3>5, <3>6
         DEF Ledger!Write, Ledger!Stored, Stored
    <3>. QED
      BY <3>1, <3>7 DEF Ledger!LedgerNext
  <2>. QED
    BY <2>5, <2>6
<1>5. ASSUME NEW m \in Members, PersistFails(m) \/ Stop(m)
      PROVE  Ledger!LedgerNext
  <2>1. \A n \in Members : held'[n] = IF n = m THEN {} ELSE held[n]
    BY <1>5, <1>a DEF PersistFails, Stop, Ended, TypeOK
  <2>2. \A n \in Members \ {m} : batch'[n] = batch[n]
    BY <1>5, <1>a DEF PersistFails, Stop, TypeOK
  <2>3. current' = current /\ UNCHANGED <<log, rows, room>>
    BY <1>5 DEF PersistFails, Stop, kafkaVars
  <2>4. \A n \in Members : \A s \in held'[n] :
          s \in held[n] /\ AttemptOf(n, s)' = AttemptOf(n, s)
    BY <2>1, <2>2, <2>3 DEF AttemptOf, InHand
  <2>. QED
    BY <2>3, <2>4, <1>a, AttemptsShrink
(* The other steps of m come when m has no transaction open. *)
<1>6. ASSUME NEW m \in Members, pc[m] # "persist",
             UNCHANGED <<log, rows, room, held>>,
             \A n \in Members \ {m} :
               batch'[n] = batch[n] /\ current'[n] = current[n]
      PROVE  Ledger!LedgerNext
  <2>1. \A n \in Members : \A s \in held'[n] : s \in held[n] /\ n # m
    BY <1>6 DEF HeldInHand
  <2>2. \A n \in Members : \A s \in held'[n] :
          s \in held[n] /\ AttemptOf(n, s)' = AttemptOf(n, s)
    BY <2>1, <1>6 DEF AttemptOf, InHand
  <2>. QED
    BY <2>2, <1>6, <1>a, AttemptsShrink
<1>7. ASSUME NEW m \in Members,
             \/ Poll(m) \/ NextRecord(m) \/ BatchFinished(m)
             \/ CommitOffset(m) \/ Start(m)
      PROVE  Ledger!LedgerNext
  <2>1. pc[m] # "persist" /\ UNCHANGED <<log, rows, room, held>>
    BY <1>7
       DEF Poll, NextRecord, BatchFinished, CommitOffset, Start, kafkaVars
  <2>2. \A n \in Members \ {m} : batch'[n] = batch[n]
    BY <1>7, <1>a
       DEF Poll, NextRecord, BatchFinished, CommitOffset, Advance, Start,
           TypeOK
  <2>3. \A n \in Members \ {m} : current'[n] = current[n]
    BY <1>7, <1>a
       DEF Poll, NextRecord, BatchFinished, CommitOffset, Start, TypeOK
  <2>. QED
    BY <2>1, <2>2, <2>3, <1>6
<1>8. CASE UNCHANGED <<log, rows, room, batch, current, held>>
  BY <1>8, <1>b
<1>. QED
  BY <1>1, <1>2, <1>3, <1>4, <1>5, <1>7, <1>8
     DEF Next, Loop, vars, kafkaVars, memberVars, Rebalance, FetchError,
         CommitUnacknowledged

(* The monitor implements the ledger: one row per event, in order, with a  *)
(* room that an attempt at the record has read, never rewritten.           *)
THEOREM ImplementsLedger ==
  ASSUME PartialFetchErrors = FALSE
  PROVE  Spec => LedgerSpec
<1>1. Init => Ledger!LedgerInit
  BY DEF Init, Ledger!LedgerInit, Looked
<1>4. Init => HeldInHand
  BY DEF Init, HeldInHand
<1>2. Init => LogBounded
  BY BoundsAssumption DEF Init, LogBounded
<1>3. Spec => []LogBounded
  BY <1>2, LogBoundedStep, TypeCorrect, PTL DEF Spec
<1>5. Spec => []HeldInHand
  BY <1>4, HeldStep, TypeCorrect, PTL DEF Spec
<1>. QED
  BY <1>1, <1>3, <1>5, StepRefines, InvHolds, NothingDropped, PTL
     DEF Spec, LedgerSpec, Ledger!LedgerSpec
=============================================================================
