----------------------------- MODULE Heartbeats -----------------------------
(***************************************************************************)
(* Whether the gateway is online: the heartbeat of the gateway, through    *)
(* the MQTT broker, the collector and Kafka, to the table of heartbeats in *)
(* which home-api looks for the newest.                                    *)
(*                                                                         *)
(* Time is counted in heartbeat intervals (HEARTBEAT_INTERVAL, 10 s).      *)
(* Instead of a clock and timestamps there are ages, which stop growing    *)
(* when they are past the timeout.                                         *)
(***************************************************************************)
EXTENDS Naturals, Sequences

CONSTANTS
  Timeout,        \* SENSOR_GATEWAY_HEARTBEAT_TIMEOUT (30 s), in intervals
  OtherPayloads,  \* what others than the gateway publish on its topic
  MaxMqtt,        \* bound: messages between the broker and the collector
  MaxUnacked,     \* bound: records the Kafka producer has not had confirmed
  MaxLog          \* bound: records that no committed offset has passed

ASSUME TimeoutAssumption == Timeout \in Nat \ {0}
ASSUME BoundsAssumption == {MaxMqtt, MaxUnacked, MaxLog} \subseteq Nat \ {0}
ASSUME PayloadsAssumption == OtherPayloads \subseteq {"blank", "refused"}

VARIABLES
  calm,       \* nothing fails, starts, stops or interferes while this holds
  gateway,    \* "up" or "down": the process that publishes heartbeats
  due,        \* its interval is over, the next heartbeat has not been sent
  collector,  \* "away" from the broker, "subscribed", or connected but "deaf"
  mqtt,       \* payloads on their way to the collector
  unacked,    \* records the collector has sent, not confirmed by Kafka
  log,        \* the partition, from the committed offset on
  done,       \* how many of them the consumer has acknowledged
  batch,      \* how many of them it has fetched
  member,     \* Kafka still counts the consumer as the owner
  heard,      \* age of the last valid heartbeat that came to the collector
  fresh       \* age of the newest row of home_api.gateway_heartbeat

gatewayVars == <<gateway, due>>
collectorVars == <<collector, mqtt, unacked, heard>>
consumerVars == <<done, batch, member>>
vars == <<calm, gatewayVars, collectorVars, log, consumerVars, fresh>>

Expired == Timeout + 1
Ages == 0..Expired
Older(age) == IF age = Expired THEN age ELSE age + 1

(* "ok" and "refused" are valid STATUS envelopes; the second holds what the *)
(* database does not take, a time beyond its range for one.  "bad" is a     *)
(* record that the parser rejects.  Its age is never looked at.             *)
Records == [kind : {"ok", "refused", "bad"}, age : Ages, stored : BOOLEAN]
Received(kind) == [kind |-> kind, age |-> 0, stored |-> FALSE]
Foreign == [kind |-> "bad", age |-> Expired, stored |-> FALSE]
Aged(s) == [i \in DOMAIN s |-> [s[i] EXCEPT !.age = Older(@)]]

isOnline == fresh <= Timeout

TypeOK ==
  /\ calm \in BOOLEAN /\ gateway \in {"up", "down"} /\ due \in BOOLEAN
  /\ collector \in {"away", "subscribed", "deaf"}
  /\ mqtt \in Seq({"ok", "blank", "refused"}) /\ Len(mqtt) <= MaxMqtt
  /\ unacked \in Seq(Records) /\ Len(unacked) <= MaxUnacked
  /\ log \in Seq(Records) /\ Len(log) <= MaxLog
  /\ batch \in 0..Len(log) /\ done \in 0..batch /\ member \in BOOLEAN
  /\ heard \in Ages /\ fresh \in Ages

Init ==
  /\ calm = FALSE
  /\ gateway = "down" /\ due = FALSE
  /\ collector = "away" /\ mqtt = <<>> /\ unacked = <<>>
  /\ log = <<>> /\ done = 0 /\ batch = 0 /\ member = TRUE
  /\ heard = Expired /\ fresh = Expired

-----------------------------------------------------------------------------
(* The gateway (heartbeat.py): publish, then sleep for the interval.        *)

GatewayStarts ==
  /\ ~calm /\ gateway = "down"
  /\ gateway' = "up" /\ due' = TRUE
  /\ UNCHANGED <<calm, collectorVars, log, consumerVars, fresh>>

GatewayStops ==
  /\ ~calm /\ gateway = "up"
  /\ gateway' = "down" /\ due' = FALSE
  /\ UNCHANGED <<calm, collectorVars, log, consumerVars, fresh>>

(* Without a session to keep it for, the broker drops what comes while the  *)
(* collector is not subscribed.                                             *)
ToCollector(payload) ==
  mqtt' = IF collector = "subscribed" THEN Append(mqtt, payload) ELSE mqtt

Beat ==
  /\ gateway = "up" /\ due /\ due' = FALSE
  /\ \/ Len(mqtt) < MaxMqtt /\ ToCollector("ok")
     \/ ~calm /\ mqtt' = mqtt
  /\ UNCHANGED <<calm, gateway, collector, unacked, heard, log, consumerVars, fresh>>

(* Another client publishes on the topic of the gateway.                    *)
OtherPublishes ==
  /\ ~calm /\ Len(mqtt) < MaxMqtt
  /\ \E payload \in OtherPayloads : ToCollector(payload)
  /\ UNCHANGED <<calm, gatewayVars, collector, unacked, heard, log, consumerVars, fresh>>

-----------------------------------------------------------------------------
(* The collector (SensorDataConsumer, SensorDataHandler).                   *)

(* onConnected subscribes, since the broker has no session of a client with *)
(* a clean start.  A subscription that is refused is logged, no more.       *)
Connects ==
  /\ collector = "away"
  /\ \/ collector' = "subscribed"
     \/ ~calm /\ collector' = "deaf"
  /\ UNCHANGED <<calm, gatewayVars, mqtt, unacked, heard, log, consumerVars, fresh>>

Disconnects ==
  /\ ~calm /\ collector # "away"
  /\ collector' = "away" /\ mqtt' = <<>>
  /\ UNCHANGED <<calm, gatewayVars, unacked, heard, log, consumerVars, fresh>>

(* The MQTT messages it took are acknowledged; what the producer holds is    *)
(* lost with the process.                                                   *)
CollectorCrashes ==
  /\ ~calm
  /\ collector' = "away" /\ mqtt' = <<>> /\ unacked' = <<>>
  /\ UNCHANGED <<calm, gatewayVars, heard, log, consumerVars, fresh>>

(* A payload without a status goes to the dead-letter topic; any other is    *)
(* sent on with the time of the collector, whatever time it brings along.    *)
Collect ==
  /\ mqtt # <<>> /\ Len(unacked) < MaxUnacked
  /\ mqtt' = Tail(mqtt)
  /\ IF Head(mqtt) = "blank"
       THEN UNCHANGED <<unacked, heard>>
       ELSE unacked' = Append(unacked, Received(Head(mqtt))) /\ heard' = 0
  /\ UNCHANGED <<calm, gatewayVars, collector, log, consumerVars, fresh>>

SendConfirmed ==
  /\ unacked # <<>> /\ Len(log) < MaxLog
  /\ log' = Append(log, Head(unacked)) /\ unacked' = Tail(unacked)
  /\ UNCHANGED <<calm, gatewayVars, collector, mqtt, heard, consumerVars, fresh>>

(* The producer gives up: an error in the log, a counter, and no record.    *)
SendFails ==
  /\ ~calm /\ unacked # <<>>
  /\ unacked' = Tail(unacked)
  /\ UNCHANGED <<calm, gatewayVars, collector, mqtt, heard, log, consumerVars, fresh>>

(* Something else writes to status-data what the parser does not accept.    *)
ForeignRecord ==
  /\ ~calm /\ Len(log) < MaxLog
  /\ log' = Append(log, Foreign)
  /\ UNCHANGED <<calm, gatewayVars, collectorVars, consumerVars, fresh>>

-----------------------------------------------------------------------------
(* home-api (GatewayHeartbeatConsumer, GatewayHeartbeatRepository), whose   *)
(* acknowledgements are committed when a batch is through.                  *)

Poll ==
  /\ done = batch /\ batch < Len(log)
  /\ batch' \in (batch + 1)..Len(log)
  /\ UNCHANGED <<calm, gatewayVars, collectorVars, log, done, member, fresh>>

InHand == log[done + 1]

(* Mutant: a record the parser rejects is retried like a failed insert.      *)
RetryInvalid == done < batch /\ InHand.kind = "bad" /\ UNCHANGED vars

SkipInvalid ==
  /\ done < batch /\ InHand.kind = "bad"
  /\ done' = done + 1
  /\ UNCHANGED <<calm, gatewayVars, collectorVars, log, batch, member, fresh>>

(* Mutant: freshness by ingested_at instead of receivedAt.                  *)
InsertByIngestedAt ==
  /\ done < batch /\ InHand.kind = "ok"
  /\ log' = [log EXCEPT ![done + 1].stored = TRUE]
  /\ fresh' = IF InHand.stored THEN fresh ELSE 0
  /\ done' = done + 1
  /\ UNCHANGED <<calm, gatewayVars, collectorVars, batch, member>>

(* Mutant: the record is acknowledged whether the insert fails or not.       *)
InsertAcknowledgedFirst ==
  /\ done < batch /\ InHand.kind = "ok"
  /\ \/ /\ log' = [log EXCEPT ![done + 1].stored = TRUE]
        /\ fresh' = IF InHand.stored \/ fresh < InHand.age THEN fresh ELSE InHand.age
     \/ ~calm /\ UNCHANGED <<log, fresh>>
  /\ done' = done + 1
  /\ UNCHANGED <<calm, gatewayVars, collectorVars, batch, member>>

(* The insert of a record that has its row already is ignored.  An insert    *)
(* that fails is tried again after a while: the consumer stays where it is,  *)
(* with a record that the database refuses for ever.                        *)
Insert ==
  /\ done < batch /\ InHand.kind = "ok"
  /\ log' = [log EXCEPT ![done + 1].stored = TRUE]
  /\ fresh' = IF InHand.stored \/ fresh < InHand.age THEN fresh ELSE InHand.age
  /\ done' = done + 1
  /\ UNCHANGED <<calm, gatewayVars, collectorVars, batch, member>>

(* Mutant: the position is not moved along with the committed offset.        *)
CommitKeepsPosition ==
  /\ member /\ done = batch /\ batch > 0
  /\ log' = SubSeq(log, batch + 1, Len(log))
  /\ UNCHANGED <<calm, gatewayVars, collectorVars, consumerVars, fresh>>

(* A commit that fails, while the partition is kept, is made up for by the   *)
(* next one: it is a commit that is not taken.                              *)
CommitOffsets ==
  /\ member /\ done = batch /\ batch > 0
  /\ log' = SubSeq(log, batch + 1, Len(log))
  /\ done' = 0 /\ batch' = 0
  /\ UNCHANGED <<calm, gatewayVars, collectorVars, member, fresh>>

(* A consumer that retries for longer than max.poll.interval.ms loses its    *)
(* partition.  It notices when it is through with the batch, and then starts *)
(* from the committed offset.                                               *)
LosesPartition ==
  /\ ~calm /\ member /\ member' = FALSE
  /\ UNCHANGED <<calm, gatewayVars, collectorVars, log, done, batch, fresh>>

Rejoins ==
  /\ ~member /\ done = batch
  /\ member' = TRUE /\ done' = 0 /\ batch' = 0
  /\ UNCHANGED <<calm, gatewayVars, collectorVars, log, fresh>>

(* The process ends, or the thread is interrupted in waitRetry, which leaves *)
(* the record unacknowledged; the next one starts from the committed offset. *)
Restarts ==
  /\ ~calm
  /\ member' = TRUE /\ done' = 0 /\ batch' = 0
  /\ UNCHANGED <<calm, gatewayVars, collectorVars, log, fresh>>

-----------------------------------------------------------------------------
(* The surroundings come to rest and cease to.                              *)
Weather ==
  /\ calm' = ~calm
  /\ UNCHANGED <<gatewayVars, collectorVars, log, consumerVars, fresh>>

Refused == done < Len(log) /\ InHand.kind = "refused"

(* Something in the pipeline that goes on by itself.                        *)
Moving == mqtt # <<>> \/ unacked # <<>> \/ (done < Len(log) /\ ~Refused)

(* An interval passes.  While nothing fails, the gateway is in time and what *)
(* is on its way takes less than an interval.                               *)
Tick ==
  /\ calm => ~due /\ ~Moving
  /\ due' = (gateway = "up")
  /\ heard' = Older(heard) /\ fresh' = Older(fresh)
  /\ unacked' = Aged(unacked) /\ log' = Aged(log)
  /\ UNCHANGED <<calm, gateway, collector, mqtt, consumerVars>>

Work ==
  \/ Beat
  \/ Connects \/ Collect \/ SendConfirmed
  \/ Poll \/ SkipInvalid \/ Insert \/ CommitOffsets \/ Rejoins

Next ==
  \/ Work \/ Tick \/ Weather
  \/ GatewayStarts \/ GatewayStops \/ OtherPublishes
  \/ Disconnects \/ CollectorCrashes \/ SendFails \/ ForeignRecord
  \/ LosesPartition \/ Restarts

Spec == Init /\ [][Next]_vars

(* The processes work while nothing fails, and time goes on.                *)
FairSpec ==
  /\ Spec
  /\ WF_vars(calm /\ Work) /\ WF_vars(calm /\ Connects)
  /\ SF_vars(Tick)

-----------------------------------------------------------------------------
(* home-api says "online" only if the collector has had a heartbeat within   *)
(* the timeout: no replay after a crash, no backlog that is caught up and no *)
(* late insert makes an old heartbeat count (isOnline, createStatus).       *)
OnlineIsFresh == isOnline => heard <= Timeout

(* No offset is committed past a record that is valid and has no row,        *)
(* whichever batches, failures and rebalances came before (consume).        *)
CommitsOnlyStored ==
  [][ Len(log') < Len(log) =>
        \A i \in 1..(Len(log) - Len(log')) : log[i].stored \/ log[i].kind = "bad" ]_vars

(* Once nothing fails any more, a gateway that runs is online and stays so:  *)
(* no record that was rejected, replayed or left unacknowledged keeps the    *)
(* next ones back.  The exceptions are a collector whose subscription was    *)
(* refused, and a record that the database refuses (onConnected, consume).   *)
ComesOnline ==
  <>[](calm /\ gateway = "up" /\ collector # "deaf" /\ ~Refused) => <>[]isOnline
=============================================================================
