-------------------------- MODULE HeartbeatsProofs --------------------------
(***************************************************************************)
(* What TLAPS proves of the heartbeat: the types, that home-api says        *)
(* "online" only of a gateway that was heard of within the timeout, and     *)
(* that no offset is committed past a valid record without a row; for every *)
(* timeout and every bound of the queues and of the partition.              *)
(***************************************************************************)
EXTENDS Heartbeats, SequenceTheorems, TLAPS

(* No record of a sequence holds a heartbeat that is newer than the last one *)
(* the collector has had.                                                   *)
NoneIsNewer(s) == \A i \in 1..Len(s) : s[i].kind = "bad" \/ heard <= s[i].age

(* No heartbeat on its way to the table, and no row, is newer than the last  *)
(* one that came to the collector.                                          *)
Ordered == heard <= fresh /\ NoneIsNewer(unacked) /\ NoneIsNewer(log)

(* A row or a rejected record behind every acknowledgement.                  *)
AcknowledgedIsDone == \A i \in 1..done : log[i].stored \/ log[i].kind = "bad"

HeartbeatsInv == TypeOK /\ Ordered /\ AcknowledgedIsDone

USE DEF Expired, Ages

-----------------------------------------------------------------------------
(* Ages and records.                                                        *)

LEMMA ReceivedType == \A kind \in {"ok", "refused"} : Received(kind) \in Records
  BY TimeoutAssumption DEF Received, Records

LEMMA ForeignType == Foreign \in Records
  BY TimeoutAssumption DEF Foreign, Records

(* An older age is an age, and of two ages the order stays.                  *)
LEMMA OlderType == \A age \in Ages : Older(age) \in Ages
  BY TimeoutAssumption DEF Older

LEMMA OlderKeepsOrder ==
  \A a, b \in Ages : a <= b => Older(a) <= Older(b)
  BY TimeoutAssumption DEF Older

(* An interval that passes changes nothing of a record but its age.          *)
LEMMA AgedRecord ==
  ASSUME NEW s \in Seq(Records)
  PROVE  /\ Aged(s) \in Seq(Records) /\ Len(Aged(s)) = Len(s)
         /\ \A i \in 1..Len(s) :
              /\ Aged(s)[i].kind = s[i].kind /\ Aged(s)[i].stored = s[i].stored
              /\ Aged(s)[i].age = Older(s[i].age)
<1> DEFINE e(i) == [s[i] EXCEPT !.age = Older(@)]
<1>1. DOMAIN s = 1..Len(s) /\ Len(s) \in Nat
  BY LenProperties
<1>2. ASSUME NEW i \in 1..Len(s)
      PROVE  /\ e(i) \in Records
             /\ e(i).kind = s[i].kind /\ e(i).stored = s[i].stored
             /\ e(i).age = Older(s[i].age)
  <2>1. s[i] \in Records
    BY ElementOfSeq
  <2>2. Older(s[i].age) \in Ages
    BY <2>1, OlderType DEF Records
  <2> QED
    BY <2>1, <2>2 DEF Records
<1>3. Aged(s) = [i \in 1..Len(s) |-> e(i)]
  BY <1>1 DEF Aged
<1> HIDE DEF e
<1>4. [i \in 1..Len(s) |-> e(i)] \in Seq(Records)
  BY <1>1, <1>2, IsASeq
<1>5. Len(Aged(s)) = Len(s)
  BY <1>1, <1>3, <1>4, LenProperties
<1> QED
  BY <1>2, <1>3, <1>4, <1>5

-----------------------------------------------------------------------------
(* The types, action by action.                                             *)

LEMMA InHandType ==
  ASSUME TypeOK, done < batch
  PROVE  /\ done + 1 \in 1..Len(log) /\ InHand \in Records /\ Len(log) \in Nat
         /\ done \in Nat /\ batch \in Nat /\ done + 1 <= batch
<1>1. Len(log) \in Nat /\ batch \in 0..Len(log) /\ done \in 0..batch
  BY LenProperties DEF TypeOK
<1>2. done + 1 \in 1..Len(log)
  BY <1>1
<1> QED
  BY <1>1, <1>2, ElementOfSeq DEF TypeOK, InHand

LEMMA PublishedType ==
  ASSUME TypeOK, NEW payload \in {"ok", "blank", "refused"},
         Len(mqtt) < MaxMqtt, ToCollector(payload)
  PROVE  mqtt' \in Seq({"ok", "blank", "refused"}) /\ Len(mqtt') <= MaxMqtt
<1>1. Len(mqtt) \in Nat /\ MaxMqtt \in Nat
  BY BoundsAssumption, LenProperties DEF TypeOK
<1> QED
  BY <1>1, AppendProperties DEF TypeOK, ToCollector

LEMMA CollectTypes ==
  ASSUME TypeOK, Collect
  PROVE  TypeOK'
<1>1. mqtt \in Seq({"ok", "blank", "refused"}) /\ mqtt # <<>> /\ Len(mqtt) <= MaxMqtt
  BY DEF TypeOK, Collect
<1>2. /\ Head(mqtt) \in {"ok", "blank", "refused"}
      /\ mqtt' \in Seq({"ok", "blank", "refused"}) /\ Len(mqtt') <= MaxMqtt
  BY <1>1, HeadTailProperties, LenProperties, BoundsAssumption DEF Collect
<1>3. unacked' \in Seq(Records) /\ Len(unacked') <= MaxUnacked /\ heard' \in Ages
  <2>1. CASE Head(mqtt) = "blank"
    BY <2>1 DEF TypeOK, Collect
  <2>2. CASE Head(mqtt) # "blank"
    <3>1. Received(Head(mqtt)) \in Records
      BY <1>2, <2>2, ReceivedType
    <3>2. unacked \in Seq(Records) /\ Len(unacked) < MaxUnacked /\ MaxUnacked \in Nat
      BY BoundsAssumption DEF TypeOK, Collect
    <3> QED
      BY <2>2, <3>1, <3>2, AppendProperties, LenProperties, TimeoutAssumption
      DEF Collect
  <2> QED
    BY <2>1, <2>2
<1> QED
  BY <1>2, <1>3 DEF TypeOK, Collect, gatewayVars, consumerVars

LEMMA InsertTypes ==
  ASSUME TypeOK, Insert
  PROVE  TypeOK'
<1>1. /\ done + 1 \in 1..Len(log) /\ InHand \in Records /\ Len(log) \in Nat
      /\ done \in Nat /\ batch \in Nat /\ done + 1 <= batch
  BY InHandType DEF Insert
<1>2. [InHand EXCEPT !.stored = TRUE] \in Records
  BY <1>1 DEF Records
<1>3. log' = [log EXCEPT ![done + 1] = [InHand EXCEPT !.stored = TRUE]]
  BY DEF Insert, InHand
<1>4. log' \in Seq(Records) /\ Len(log') = Len(log)
  BY <1>1, <1>2, <1>3, ExceptSeq DEF TypeOK
<1>5. fresh' \in Ages
  BY <1>1 DEF TypeOK, Insert, Records
<1> QED
  BY <1>1, <1>4, <1>5 DEF TypeOK, Insert, gatewayVars, collectorVars

LEMMA CommitTypes ==
  ASSUME TypeOK, CommitOffsets
  PROVE  TypeOK'
<1>1. Len(log) \in Nat /\ batch \in 1..Len(log) /\ log \in Seq(Records)
  BY LenProperties DEF TypeOK, CommitOffsets
<1>2. \A i \in (batch + 1)..Len(log) : log[i] \in Records
  BY <1>1, ElementOfSeq
<1>3. log' \in Seq(Records) /\ Len(log') <= Len(log) /\ Len(log') \in Nat
  BY <1>1, <1>2, SubSeqProperties, LenProperties DEF CommitOffsets
<1> QED
  BY <1>1, <1>3, BoundsAssumption
  DEF TypeOK, CommitOffsets, gatewayVars, collectorVars

LEMMA TickTypes ==
  ASSUME TypeOK, Tick
  PROVE  TypeOK'
<1>1. heard' \in Ages /\ fresh' \in Ages
  BY OlderType DEF TypeOK, Tick
<1>2. /\ unacked' \in Seq(Records) /\ Len(unacked') = Len(unacked)
      /\ log' \in Seq(Records) /\ Len(log') = Len(log)
  BY AgedRecord DEF TypeOK, Tick
<1> QED
  BY <1>1, <1>2 DEF TypeOK, Tick, consumerVars

LEMMA TypesStep ==
  ASSUME TypeOK, [Next]_vars
  PROVE  TypeOK'
<1> USE DEF gatewayVars, collectorVars, consumerVars
<1>1. CASE Beat
  <2>1. CASE Len(mqtt) < MaxMqtt /\ ToCollector("ok")
    BY <1>1, <2>1, PublishedType DEF TypeOK, Beat
  <2>2. CASE ~calm /\ mqtt' = mqtt
    BY <1>1, <2>2 DEF TypeOK, Beat
  <2> QED
    BY <1>1, <2>1, <2>2 DEF Beat
<1>2. CASE OtherPublishes
  <2>1. PICK payload \in OtherPayloads : ToCollector(payload)
    BY <1>2 DEF OtherPublishes
  <2>2. mqtt' \in Seq({"ok", "blank", "refused"}) /\ Len(mqtt') <= MaxMqtt
    BY <1>2, <2>1, PublishedType, PayloadsAssumption DEF OtherPublishes
  <2> QED
    BY <1>2, <2>2 DEF TypeOK, OtherPublishes
<1>3. CASE SendConfirmed
  <2>1. /\ Head(unacked) \in Records /\ Tail(unacked) \in Seq(Records)
        /\ Len(Tail(unacked)) <= MaxUnacked
    BY <1>3, HeadTailProperties, LenProperties, BoundsAssumption
    DEF TypeOK, SendConfirmed
  <2>2. /\ log' \in Seq(Records) /\ Len(log') = Len(log) + 1
        /\ Len(log) \in Nat /\ Len(log) < MaxLog /\ MaxLog \in Nat
    BY <1>3, <2>1, AppendProperties, LenProperties, BoundsAssumption
    DEF TypeOK, SendConfirmed
  <2>3. unacked' \in Seq(Records) /\ Len(unacked') <= MaxUnacked
    BY <1>3, <2>1 DEF SendConfirmed
  <2>4. Len(log') <= MaxLog /\ batch \in 0..Len(log')
    BY <2>2 DEF TypeOK
  <2> QED
    BY <1>3, <2>2, <2>3, <2>4 DEF TypeOK, SendConfirmed
<1>4. CASE SendFails
  <2>1. unacked' \in Seq(Records) /\ Len(unacked') <= MaxUnacked
    BY <1>4, HeadTailProperties, LenProperties, BoundsAssumption
    DEF TypeOK, SendFails
  <2> QED
    BY <1>4, <2>1 DEF TypeOK, SendFails
<1>5. CASE ForeignRecord
  <2>1. /\ log' \in Seq(Records) /\ Len(log') = Len(log) + 1
        /\ Len(log) \in Nat /\ Len(log) < MaxLog /\ MaxLog \in Nat
    BY <1>5, ForeignType, AppendProperties, LenProperties, BoundsAssumption
    DEF TypeOK, ForeignRecord
  <2>2. Len(log') <= MaxLog /\ batch \in 0..Len(log')
    BY <2>1 DEF TypeOK
  <2> QED
    BY <1>5, <2>1, <2>2 DEF TypeOK, ForeignRecord
<1>6. CASE Poll
  <2>1. Len(log) \in Nat /\ batch' \in 0..Len(log) /\ done \in 0..batch'
    BY <1>6, LenProperties DEF TypeOK, Poll
  <2> QED
    BY <1>6, <2>1 DEF TypeOK, Poll
<1>7. CASE SkipInvalid
  <2>1. done' \in 0..batch
    BY <1>7, InHandType DEF SkipInvalid
  <2> QED
    BY <1>7, <2>1 DEF TypeOK, SkipInvalid
<1>8. CASE CollectorCrashes \/ Disconnects
  <2>1. /\ mqtt' \in Seq({"ok", "blank", "refused"}) /\ Len(mqtt') <= MaxMqtt
        /\ collector' = "away"
    <3>1. mqtt' = <<>> /\ Len(<<>>) <= MaxMqtt
      BY <1>8, EmptySeq, BoundsAssumption DEF CollectorCrashes, Disconnects
    <3> QED
      BY <1>8, <3>1, EmptySeq DEF CollectorCrashes, Disconnects
  <2>2. unacked' \in Seq(Records) /\ Len(unacked') <= MaxUnacked
    <3>1. <<>> \in Seq(Records) /\ Len(<<>>) <= MaxUnacked
      BY EmptySeq, BoundsAssumption
    <3> QED
      BY <1>8, <3>1 DEF TypeOK, CollectorCrashes, Disconnects
  <2> QED
    BY <1>8, <2>1, <2>2 DEF TypeOK, CollectorCrashes, Disconnects
<1>9. CASE Rejoins \/ Restarts
  <2>1. member' = TRUE /\ done' = 0 /\ batch' = 0
    BY <1>9 DEF Rejoins, Restarts
  <2>2. 0 \in 0..Len(log) /\ 0 \in 0..0
    BY LenProperties DEF TypeOK
  <2> QED
    BY <1>9, <2>1, <2>2 DEF TypeOK, Rejoins, Restarts
<1>10. CASE Connects \/ GatewayStarts \/ GatewayStops \/ LosesPartition \/ Weather
  BY <1>10 DEF TypeOK, Connects, GatewayStarts, GatewayStops, LosesPartition, Weather
<1>11. CASE UNCHANGED vars
  BY <1>11 DEF TypeOK, vars
<1> QED
  BY <1>1, <1>2, <1>3, <1>4, <1>5, <1>6, <1>7, <1>8, <1>9, <1>10, <1>11,
     CollectTypes, InsertTypes, CommitTypes, TickTypes DEF Next, Work

-----------------------------------------------------------------------------
(* The ages, action by action.                                               *)

LEMMA OrderedStep ==
  ASSUME TypeOK, Ordered, [Next]_vars
  PROVE  Ordered'
<1> USE DEF gatewayVars, collectorVars, consumerVars
<1>0. /\ unacked \in Seq(Records) /\ log \in Seq(Records)
      /\ Len(unacked) \in Nat /\ Len(log) \in Nat
      /\ \A i \in 1..Len(unacked) : unacked[i] \in Records
      /\ \A i \in 1..Len(log) : log[i] \in Records
      /\ heard \in Ages /\ fresh \in Ages
      /\ heard \in Nat /\ fresh \in Nat
  BY LenProperties, ElementOfSeq, TimeoutAssumption DEF TypeOK
<1>1. CASE Collect
  <2>1. CASE Head(mqtt) = "blank"
    BY <1>1, <2>1 DEF Ordered, NoneIsNewer, Collect
  <2>2. CASE Head(mqtt) # "blank"
    <3>1. heard' = 0 /\ log' = log /\ fresh' = fresh
      BY <1>1, <2>2 DEF Collect
    <3>2. unacked' \in Seq(Records)
      BY <1>1, CollectTypes DEF TypeOK
    <3>3. \A i \in 1..Len(unacked') : unacked'[i].age >= 0
      <4>1. \A i \in 1..Len(unacked') : unacked'[i] \in Records
        BY <3>2, ElementOfSeq
      <4> QED
        BY <4>1, TimeoutAssumption DEF Records
    <3>4. \A i \in 1..Len(log) : log[i].age >= 0
      BY <1>0, TimeoutAssumption DEF Records
    <3> QED
      BY <1>0, <3>1, <3>3, <3>4 DEF Ordered, NoneIsNewer
  <2> QED
    BY <2>1, <2>2
<1>2. CASE SendConfirmed
  <2>1. /\ Head(unacked) = unacked[1] /\ 1 \in 1..Len(unacked)
        /\ Head(unacked) \in Records
    BY <1>0, <1>2, EmptySeq, HeadTailProperties DEF SendConfirmed
  <2>2. NoneIsNewer(log)'
    <3>1. /\ Len(log') = Len(log) + 1 /\ log'[Len(log) + 1] = unacked[1]
          /\ \A i \in 1..Len(log) : log'[i] = log[i]
      BY <1>0, <1>2, <2>1, AppendProperties DEF SendConfirmed
    <3> QED
      BY <1>0, <1>2, <2>1, <3>1 DEF Ordered, NoneIsNewer, SendConfirmed
  <2>3. NoneIsNewer(unacked)'
    <3>1. /\ Len(unacked') = Len(unacked) - 1
          /\ \A i \in 1..Len(unacked') : unacked'[i] = unacked[i + 1]
      BY <1>0, <1>2, HeadTailProperties DEF SendConfirmed
    <3> QED
      BY <1>0, <1>2, <3>1 DEF Ordered, NoneIsNewer, SendConfirmed
  <2> QED
    BY <1>2, <2>2, <2>3 DEF Ordered, SendConfirmed
<1>3. CASE SendFails
  <2>1. /\ Len(unacked') = Len(unacked) - 1
        /\ \A i \in 1..Len(unacked') : unacked'[i] = unacked[i + 1]
    BY <1>0, <1>3, HeadTailProperties DEF SendFails
  <2> QED
    BY <1>0, <1>3, <2>1 DEF Ordered, NoneIsNewer, SendFails
<1>4. CASE ForeignRecord
  <2>1. /\ Len(log') = Len(log) + 1 /\ log'[Len(log) + 1] = Foreign
        /\ \A i \in 1..Len(log) : log'[i] = log[i]
    BY <1>0, <1>4, ForeignType, AppendProperties DEF ForeignRecord
  <2> QED
    BY <1>0, <1>4, <2>1 DEF Ordered, NoneIsNewer, ForeignRecord, Foreign
<1>5. CASE Insert
  <2>1. done + 1 \in 1..Len(log) /\ InHand \in Records
    BY <1>5, InHandType DEF Insert
  <2>2. heard <= fresh'
    BY <1>0, <1>5, <2>1 DEF Ordered, NoneIsNewer, Insert, InHand
  <2>3. /\ Len(log') = Len(log)
        /\ \A i \in 1..Len(log) : log'[i].kind = log[i].kind /\ log'[i].age = log[i].age
    <3>1. [InHand EXCEPT !.stored = TRUE] \in Records
      BY <2>1 DEF Records
    <3>2. log' = [log EXCEPT ![done + 1] = [InHand EXCEPT !.stored = TRUE]]
      BY <1>5 DEF Insert, InHand
    <3> QED
      BY <1>0, <2>1, <3>1, <3>2, ExceptSeq DEF Records, InHand
  <2> QED
    BY <1>0, <1>5, <2>2, <2>3 DEF Ordered, NoneIsNewer, Insert
<1>6. CASE CommitOffsets
  <2>1. batch \in 1..Len(log)
    BY <1>0, <1>6 DEF TypeOK, CommitOffsets
  <2>2. /\ Len(log') = IF batch + 1 <= Len(log) THEN Len(log) - batch ELSE 0
        /\ \A i \in 1..(Len(log) - batch) : log'[i] = log[batch + i]
    BY <1>0, <1>6, <2>1, SubSeqProperties DEF CommitOffsets
  <2>3. \A i \in 1..Len(log') : log'[i] = log[batch + i] /\ batch + i \in 1..Len(log)
    BY <1>0, <2>1, <2>2
  <2> QED
    BY <1>6, <2>3 DEF Ordered, NoneIsNewer, CommitOffsets
<1>7. CASE Tick
  <2>1. heard' <= fresh'
    BY <1>0, <1>7, OlderKeepsOrder DEF Ordered, Tick
  <2>2. ASSUME NEW s \in Seq(Records), NoneIsNewer(s), NEW i \in 1..Len(s)
        PROVE  Aged(s)[i].kind = "bad" \/ Older(heard) <= Aged(s)[i].age
    <3>1. s[i] \in Records
      BY ElementOfSeq
    <3>2. s[i].kind = "bad" \/ Older(heard) <= Older(s[i].age)
      BY <1>0, <2>2, <3>1, OlderKeepsOrder DEF NoneIsNewer, Records
    <3> QED
      BY <3>2, AgedRecord
  <2>3. NoneIsNewer(unacked)'
    BY <1>0, <1>7, <2>2, AgedRecord DEF Ordered, NoneIsNewer, Tick
  <2>4. NoneIsNewer(log)'
    BY <1>0, <1>7, <2>2, AgedRecord DEF Ordered, NoneIsNewer, Tick
  <2> QED
    BY <2>1, <2>3, <2>4 DEF Ordered
<1>8. CASE CollectorCrashes
  BY <1>8, EmptySeq DEF Ordered, NoneIsNewer, CollectorCrashes
<1>9. CASE UNCHANGED <<unacked, log, heard, fresh>>
  BY <1>9 DEF Ordered, NoneIsNewer
<1>10. QED
  BY <1>1, <1>2, <1>3, <1>4, <1>5, <1>6, <1>7, <1>8, <1>9
  DEF Next, Work, vars, Beat, OtherPublishes, Connects, Disconnects, Poll,
      SkipInvalid, LosesPartition, Rejoins, Restarts, Weather, GatewayStarts,
      GatewayStops

-----------------------------------------------------------------------------
(* The consumer: what a batch leaves behind when it is through.             *)

LEMMA AcknowledgedStep ==
  ASSUME TypeOK, AcknowledgedIsDone, [Next]_vars
  PROVE  AcknowledgedIsDone'
<1> USE DEF gatewayVars, collectorVars, consumerVars
<1>0. /\ log \in Seq(Records) /\ Len(log) \in Nat
      /\ done \in 0..Len(log) /\ done \in Nat
  BY LenProperties DEF TypeOK
<1>1. CASE SkipInvalid
  BY <1>0, <1>1 DEF AcknowledgedIsDone, SkipInvalid, InHand
<1>2. CASE Insert
  <2>1. done + 1 \in 1..Len(log) /\ InHand \in Records
    BY <1>2, InHandType DEF Insert
  <2>2. [InHand EXCEPT !.stored = TRUE] \in Records
    BY <2>1 DEF Records
  <2>3. log' = [log EXCEPT ![done + 1] = [InHand EXCEPT !.stored = TRUE]]
    BY <1>2 DEF Insert, InHand
  <2>4. \A i \in 1..Len(log) :
          log'[i] = IF i = done + 1 THEN [InHand EXCEPT !.stored = TRUE] ELSE log[i]
    BY <1>0, <2>1, <2>2, <2>3, ExceptSeq
  <2>5. log'[done + 1].stored
    BY <2>1, <2>4 DEF Records
  <2> QED
    BY <1>0, <1>2, <2>4, <2>5 DEF AcknowledgedIsDone, Insert
<1>3. CASE CommitOffsets \/ Rejoins \/ Restarts
  BY <1>3 DEF AcknowledgedIsDone, CommitOffsets, Rejoins, Restarts
<1>4. CASE SendConfirmed
  <2>1. Head(unacked) \in Records
    BY <1>4, HeadTailProperties DEF TypeOK, SendConfirmed
  <2>2. \A i \in 1..Len(log) : log'[i] = log[i]
    BY <1>0, <1>4, <2>1, AppendProperties DEF SendConfirmed
  <2> QED
    BY <1>0, <1>4, <2>2 DEF AcknowledgedIsDone, SendConfirmed
<1>5. CASE ForeignRecord
  <2>1. \A i \in 1..Len(log) : log'[i] = log[i]
    BY <1>0, <1>5, ForeignType, AppendProperties DEF ForeignRecord
  <2> QED
    BY <1>0, <1>5, <2>1 DEF AcknowledgedIsDone, ForeignRecord
<1>6. CASE Tick
  <2>1. \A i \in 1..Len(log) : log'[i].kind = log[i].kind /\ log'[i].stored = log[i].stored
    BY <1>0, <1>6, AgedRecord DEF Tick
  <2> QED
    BY <1>0, <1>6, <2>1 DEF AcknowledgedIsDone, Tick
<1>7. CASE UNCHANGED <<log, done>>
  BY <1>7 DEF AcknowledgedIsDone
<1> QED
  BY <1>1, <1>2, <1>3, <1>4, <1>5, <1>6, <1>7
  DEF Next, Work, vars, Beat, OtherPublishes, Connects, Disconnects, Poll, Collect,
      SendFails, CollectorCrashes, LosesPartition, Weather, GatewayStarts, GatewayStops

(* The log gets shorter by a commit only, and then by the batch that is      *)
(* through.                                                                 *)
LEMMA OnlyCommitsShorten ==
  ASSUME TypeOK, [Next]_vars, Len(log') < Len(log)
  PROVE  done = batch /\ batch \in 1..Len(log) /\ Len(log) - Len(log') = batch
<1> USE DEF gatewayVars, collectorVars, consumerVars
<1>0. log \in Seq(Records) /\ Len(log) \in Nat
  BY LenProperties DEF TypeOK
<1>1. CASE CommitOffsets
  <2>1. batch \in 1..Len(log) /\ done = batch
    BY <1>0, <1>1 DEF TypeOK, CommitOffsets
  <2>2. \A i \in (batch + 1)..Len(log) : log[i] \in Records
    BY <1>0, <2>1, ElementOfSeq
  <2>3. Len(log') = IF batch + 1 <= Len(log) THEN Len(log) - batch ELSE 0
    BY <1>0, <1>1, <2>1, <2>2, SubSeqProperties DEF CommitOffsets
  <2> QED
    BY <1>0, <2>1, <2>3
<1>2. CASE Insert
  <2>1. done + 1 \in 1..Len(log) /\ InHand \in Records
    BY <1>2, InHandType DEF Insert
  <2>2. [InHand EXCEPT !.stored = TRUE] \in Records
    BY <2>1 DEF Records
  <2>3. log' = [log EXCEPT ![done + 1] = [InHand EXCEPT !.stored = TRUE]]
    BY <1>2 DEF Insert, InHand
  <2>4. Len(log') = Len(log)
    BY <1>0, <2>1, <2>2, <2>3, ExceptSeq
  <2> QED
    BY <1>0, <2>4
<1>3. CASE SendConfirmed
  <2>1. Head(unacked) \in Records
    BY <1>3, HeadTailProperties DEF TypeOK, SendConfirmed
  <2>2. Len(log') = Len(log) + 1
    BY <1>0, <1>3, <2>1, AppendProperties DEF SendConfirmed
  <2> QED
    BY <1>0, <2>2
<1>4. CASE ForeignRecord
  <2>1. Len(log') = Len(log) + 1
    BY <1>0, <1>4, ForeignType, AppendProperties DEF ForeignRecord
  <2> QED
    BY <1>0, <2>1
<1>5. CASE Tick
  <2>1. Len(log') = Len(log)
    BY <1>0, <1>5, AgedRecord DEF Tick
  <2> QED
    BY <1>0, <2>1
<1>6. CASE UNCHANGED log
  BY <1>0, <1>6
<1> QED
  BY <1>1, <1>2, <1>3, <1>4, <1>5, <1>6
  DEF Next, Work, vars, Beat, OtherPublishes, Connects, Disconnects, Poll, Collect,
      SendFails, CollectorCrashes, LosesPartition, Rejoins, Restarts, Weather,
      GatewayStarts, GatewayStops, SkipInvalid

-----------------------------------------------------------------------------
LEMMA HeartbeatsInit == Init => HeartbeatsInv
<1> SUFFICES ASSUME Init PROVE HeartbeatsInv
  OBVIOUS
<1>1. <<>> \in Seq(Records) /\ <<>> \in Seq({"ok", "blank", "refused"}) /\ Len(<<>>) = 0
  BY EmptySeq
<1>2. TypeOK
  <2>1. 0 <= MaxMqtt /\ 0 <= MaxUnacked /\ 0 <= MaxLog /\ 0 \in 0..0
    BY BoundsAssumption
  <2>2. /\ Len(mqtt) = 0 /\ mqtt \in Seq({"ok", "blank", "refused"})
        /\ Len(unacked) = 0 /\ unacked \in Seq(Records)
        /\ Len(log) = 0 /\ log \in Seq(Records)
    BY <1>1 DEF Init
  <2>3. Expired \in Ages
    BY TimeoutAssumption
  <2> QED
    BY <2>1, <2>2, <2>3 DEF Init, TypeOK
<1>3. heard <= fresh
  BY TimeoutAssumption DEF Init
<1>4. NoneIsNewer(unacked) /\ NoneIsNewer(log) /\ AcknowledgedIsDone
  BY <1>1 DEF Init, NoneIsNewer, AcknowledgedIsDone
<1> QED
  BY <1>2, <1>3, <1>4 DEF HeartbeatsInv, Ordered

LEMMA HeartbeatsStep == HeartbeatsInv /\ [Next]_vars => HeartbeatsInv'
<1> SUFFICES ASSUME HeartbeatsInv, [Next]_vars PROVE HeartbeatsInv'
  OBVIOUS
<1>1. TypeOK'
  BY TypesStep DEF HeartbeatsInv
<1>2. Ordered'
  BY OrderedStep DEF HeartbeatsInv
<1>3. AcknowledgedIsDone'
  BY AcknowledgedStep DEF HeartbeatsInv
<1> QED
  BY <1>1, <1>2, <1>3 DEF HeartbeatsInv

LEMMA HeartbeatsInvHolds == Spec => []HeartbeatsInv
  BY HeartbeatsInit, HeartbeatsStep, PTL DEF Spec

(* The queues and the partition stay within their bounds, and the consumer   *)
(* within its batch (GatewayHeartbeatConsumer, SensorDataConsumer).          *)
THEOREM HeartbeatsTypes == Spec => []TypeOK
<1>1. HeartbeatsInv => TypeOK
  BY DEF HeartbeatsInv
<1> QED
  BY <1>1, HeartbeatsInvHolds, PTL

(* home-api never says "online" of a gateway that the collector has not      *)
(* heard of within the timeout: whatever is replayed, caught up with or      *)
(* inserted late, a row is no newer than the last heartbeat (isOnline).      *)
THEOREM OnlineMeansFresh == Spec => []OnlineIsFresh
<1>1. HeartbeatsInv => OnlineIsFresh
  <2> SUFFICES ASSUME HeartbeatsInv, isOnline PROVE heard <= Timeout
    BY DEF OnlineIsFresh
  <2>1. heard \in Ages /\ fresh \in Ages /\ heard <= fresh
    BY DEF HeartbeatsInv, TypeOK, Ordered
  <2> QED
    BY <2>1, TimeoutAssumption DEF isOnline
<1> QED
  BY <1>1, HeartbeatsInvHolds, PTL

(* No offset is committed past a valid record that has no row, whichever     *)
(* batches, failures and rebalances came before (consume).                   *)
THEOREM CommitsPassOnlyStored == Spec => CommitsOnlyStored
<1>1. HeartbeatsInv /\ [Next]_vars =>
        (Len(log') < Len(log) =>
           \A i \in 1..(Len(log) - Len(log')) : log[i].stored \/ log[i].kind = "bad")
  <2> SUFFICES ASSUME HeartbeatsInv, [Next]_vars, Len(log') < Len(log),
                      NEW i \in 1..(Len(log) - Len(log'))
               PROVE  log[i].stored \/ log[i].kind = "bad"
    OBVIOUS
  <2>1. done = batch /\ Len(log) - Len(log') = batch
    BY OnlyCommitsShorten DEF HeartbeatsInv
  <2> QED
    BY <2>1 DEF HeartbeatsInv, AcknowledgedIsDone
<1> QED
  BY <1>1, HeartbeatsInvHolds, PTL DEF Spec, CommitsOnlyStored

=============================================================================
