--------------------------- MODULE MonitorIngest ----------------------------
(***************************************************************************)
(* The consuming side of environment-monitor and occupancy-monitor, whose  *)
(* consumer loops are the same program: poll Kafka, decode each record,    *)
(* persist it in one PostgreSQL transaction, commit its offset, retrying   *)
(* the last two for ever.                                                  *)
(*                                                                         *)
(* Members are the processes of the consumer group: one in steady state,   *)
(* two while a rolling update overlaps the old pod and the new one.  The   *)
(* Kafka broker, its group coordinator and the client library are external *)
(* and modelled from what the loop sees of them.                           *)
(*                                                                         *)
(* The i-th record of a partition has Kafka offset i - 1; a position or a  *)
(* committed offset n says that the records 1 .. n are behind it.          *)
(***************************************************************************)
EXTENDS Naturals, Sequences

CONSTANTS Members,             \* processes of the consumer group
          Partitions,          \* partitions of the topic
          Rooms,               \* what sensor.room_id can hold, NULL included
          Nobody,              \* not a member
          MaxRecords,          \* bound: records produced to one partition
          MaxFaults,           \* bound: crashes and reassignments
          PartialFetchErrors   \* a poll may report an error AND hold records

ASSUME MembersAssumption == Nobody \notin Members
ASSUME BoundsAssumption == MaxRecords \in Nat /\ MaxFaults \in Nat
ASSUME FetchAssumption == PartialFetchErrors \in BOOLEAN

VARIABLES
  log,         \* log[p]: the records of partition p, by kind
  committed,   \* committed[p]: the group's committed offset
  owner,       \* owner[p]: the member the coordinator gave p to
  position,    \* position[p]: where that member's client fetches next
  pc,          \* pc[m]: where the loop of member m is
  batch,       \* batch[m]: what is left of the records the last poll returned
  current,     \* current[m]: the partition whose records m is going through
  held,        \* held[m]: the room that m's open transaction has read, if any
  rows,        \* the reading (or event) table
  room,        \* home_api.sensor.room_id of the sensor that is followed
  faults,      \* how many crashes and reassignments have happened
  dropped      \* history: records a failing poll threw away

kafkaVars  == <<log, committed, owner, position>>
memberVars == <<pc, batch, current, held>>
vars == <<kafkaVars, memberVars, rows, room, faults, dropped>>

Kinds == {"event", "malformed", "unstorable"}
States == {"poll", "next", "persist", "commit", "down"}
Offsets == 0 .. MaxRecords

Row == [part : Partitions, num : Nat \ {0}, room : Rooms]

TypeOK ==
  /\ log \in [Partitions -> Seq(Kinds)]
  /\ committed \in [Partitions -> Nat]
  /\ owner \in [Partitions -> Members \cup {Nobody}]
  /\ position \in [Partitions -> Nat]
  /\ pc \in [Members -> States]
  /\ batch \in [Members -> [Partitions -> [done : Nat, end : Nat]]]
  /\ current \in [Members -> Partitions]
  /\ held \in [Members -> SUBSET Rooms]
  /\ rows \subseteq Row
  /\ room \in Rooms
  /\ faults \in 0 .. MaxFaults
  /\ dropped \subseteq (Partitions \X (Nat \ {0}))

-----------------------------------------------------------------------------
(* The table and the batch. *)

(* The table has a row for record i of partition p. *)
Stored(p, i) == \E r \in rows : r.part = p /\ r.num = i

(* Mutants of InsertEvent: no unique index, num one too low. *)
InsertAlways(p, i, r) ==
  rows' = rows \cup {[part |-> p, num |-> i, room |-> r]}

InsertOffByOne(p, i, r) ==
  rows' = rows \cup {[part |-> p, num |-> i - 1, room |-> r]}

(* INSERT ... ON CONFLICT (topic, partition, offset) DO NOTHING. *)
InsertEvent(p, i, r) ==
  rows' = IF Stored(p, i)
            THEN rows
            ELSE rows \cup {[part |-> p, num |-> i, room |-> r]}

(* What m holds of partition p: records done + 1 .. end. *)
Pending(m, p) == batch[m][p].done < batch[m][p].end

(* The record m has in hand, when pc[m] is "persist" or "commit". *)
InHand(m) == batch[m][current[m]].done + 1

(* m is through with the record in hand. *)
Advance(m) ==
  batch' = [batch EXCEPT ![m][current[m]] =
              [done |-> InHand(m), end |-> @.end]]

NoRecords == [p \in Partitions |-> [done |-> 0, end |-> 0]]

Goto(m, state) == pc' = [pc EXCEPT ![m] = state]

Init ==
  /\ log = [p \in Partitions |-> <<>>]
  /\ committed = [p \in Partitions |-> 0]
  /\ owner = [p \in Partitions |-> Nobody]
  /\ position = [p \in Partitions |-> 0]
  /\ pc = [m \in Members |-> "down"]
  /\ batch = [m \in Members |-> NoRecords]
  /\ current \in [Members -> Partitions]
  /\ held = [m \in Members |-> {}]
  /\ rows = {}
  /\ room \in Rooms
  /\ faults = 0
  /\ dropped = {}

-----------------------------------------------------------------------------
(* The surroundings: the collector, home-api, Kubernetes, the coordinator. *)

(* The collector sends one more record to partition p. *)
Produce(p, kind) ==
  /\ Len(log[p]) < MaxRecords
  /\ log' = [log EXCEPT ![p] = Append(@, kind)]
  /\ UNCHANGED <<committed, owner, position, memberVars, rows, room, faults,
                 dropped>>

(* home-api assigns or unassigns the sensor. *)
MoveSensor(r) ==
  /\ r # room
  /\ room' = r
  /\ UNCHANGED <<kafkaVars, memberVars, rows, faults, dropped>>

(* A pod starts: the loop's first step is a poll. *)
Start(m) ==
  /\ pc[m] = "down"
  /\ Goto(m, "poll")
  /\ UNCHANGED <<kafkaVars, batch, current, held, rows, room, faults, dropped>>

(* The process ends between two steps, by a crash or because the signal    *)
(* context is cancelled: every wait and retry of the loop then returns.    *)
(* Its partitions are left without an owner.                               *)
Stop(m) ==
  /\ pc[m] # "down"
  /\ faults < MaxFaults
  /\ faults' = faults + 1
  /\ Goto(m, "down")
  /\ batch' = [batch EXCEPT ![m] = NoRecords]
  /\ held' = [held EXCEPT ![m] = {}]
  /\ owner' = [p \in Partitions |-> IF owner[p] = m THEN Nobody ELSE owner[p]]
  /\ UNCHANGED <<log, committed, position, current, rows, room, dropped>>

(* Mutant of Rebalance: a group without an offset starts at the end. *)
RebalanceAtEnd(p, m) ==
  /\ pc[m] # "down"
  /\ \/ owner[p] = Nobody /\ UNCHANGED faults
     \/ owner[p] # Nobody /\ faults < MaxFaults /\ faults' = faults + 1
  /\ owner' = [owner EXCEPT ![p] = m]
  /\ position' = [position EXCEPT ![p] =
                     IF committed[p] = 0 THEN Len(log[p]) ELSE committed[p]]
  /\ UNCHANGED <<log, committed, memberVars, rows, room, dropped>>

(* The coordinator gives partition p to m, whose client resumes at the     *)
(* committed offset, or at the start when there is none.  A previous owner *)
(* that still runs is not stopped: it goes on with the records it holds.   *)
(* A partition that has an owner changes hands only by a fault of the      *)
(* group (a rebalance, a session that timed out), m itself included.       *)
Rebalance(p, m) ==
  /\ pc[m] # "down"
  /\ \/ owner[p] = Nobody /\ UNCHANGED faults
     \/ owner[p] # Nobody /\ faults < MaxFaults /\ faults' = faults + 1
  /\ owner' = [owner EXCEPT ![p] = m]
  /\ position' = [position EXCEPT ![p] = committed[p]]
  /\ UNCHANGED <<log, committed, memberVars, rows, room, dropped>>

-----------------------------------------------------------------------------
(* The loop. *)

(* How far a poll of m may get: beyond position only in its partitions. *)
FetchEnds(m) ==
  {ends \in [Partitions -> Offsets] :
     /\ \A p \in Partitions : ends[p] \in position[p] .. Len(log[p])
     /\ \A p \in Partitions : owner[p] # m => ends[p] = position[p]
     /\ ends # position}

(* The records such a poll hands over. *)
Fetched(m, ends) ==
  [p \in Partitions |-> IF owner[p] = m
                           THEN [done |-> position[p], end |-> ends[p]]
                           ELSE [done |-> 0, end |-> 0]]

(* Mutant of Poll: the client commits what it returned (no                 *)
(* DisableAutoCommit).                                                     *)
PollAutocommit(m) ==
  /\ pc[m] = "poll"
  /\ \E ends \in FetchEnds(m) :
       /\ batch' = [batch EXCEPT ![m] = Fetched(m, ends)]
       /\ position' = ends
       /\ committed' = [p \in Partitions |-> IF owner[p] = m
                                               THEN ends[p]
                                               ELSE committed[p]]
  /\ Goto(m, "next")
  /\ UNCHANGED <<log, owner, current, held, rows, room, faults, dropped>>

(* PollFetches returns records and no error. *)
Poll(m) ==
  /\ pc[m] = "poll"
  /\ \E ends \in FetchEnds(m) :
       /\ batch' = [batch EXCEPT ![m] = Fetched(m, ends)]
       /\ position' = ends
  /\ Goto(m, "next")
  /\ UNCHANGED <<log, committed, owner, current, held, rows, room, faults,
                 dropped>>

(* PollFetches returns an error of one partition and records of others:    *)
(* processFetches returns before it looks at the records, and the client,  *)
(* which handed them over, fetches on behind them.                         *)
FetchError(m) ==
  /\ PartialFetchErrors
  /\ pc[m] = "poll"
  /\ \E failed \in Partitions, ends \in FetchEnds(m) :
       /\ owner[failed] = m
       /\ ends[failed] = position[failed]
       /\ position' = ends
       /\ dropped' = dropped \cup
            UNION {{p} \X (position[p] + 1 .. ends[p]) : p \in Partitions}
  /\ UNCHANGED <<log, committed, owner, memberVars, rows, room, faults>>

(* The next record: the partition m is going through is finished before    *)
(* another one, and a record that does not decode skips persisting.        *)
NextRecord(m) ==
  /\ pc[m] = "next"
  /\ \E p \in Partitions :
       /\ Pending(m, p)
       /\ Pending(m, current[m]) => p = current[m]
       /\ current' = [current EXCEPT ![m] = p]
       /\ Goto(m, IF log[p][batch[m][p].done + 1] = "malformed"
                    THEN "commit"
                    ELSE "persist")
  /\ UNCHANGED <<kafkaVars, batch, held, rows, room, faults, dropped>>

BatchFinished(m) ==
  /\ pc[m] = "next"
  /\ \A p \in Partitions : ~ Pending(m, p)
  /\ Goto(m, "poll")
  /\ UNCHANGED <<kafkaVars, batch, current, held, rows, room, faults, dropped>>

(* A transaction begins: it reads the sensor's room, without a lock. *)
LookUpRoom(m) ==
  /\ pc[m] = "persist"
  /\ held[m] = {}
  /\ held' = [held EXCEPT ![m] = {room}]
  /\ UNCHANGED <<kafkaVars, pc, batch, current, rows, room, faults, dropped>>

(* The transaction ends, one way or another. *)
Ended(m) == held' = [held EXCEPT ![m] = {}]

(* Mutant of Persist: an attempt that fails is not retried. *)
PersistOnce(m) ==
  /\ pc[m] = "persist"
  /\ \E r \in held[m] :
       \/ /\ log[current[m]][InHand(m)] = "event"
          /\ InsertEvent(current[m], InHand(m), r)
       \/ UNCHANGED rows
  /\ Ended(m)
  /\ Goto(m, "commit")
  /\ UNCHANGED <<kafkaVars, batch, current, room, faults, dropped>>

(* The transaction inserts and commits, and the loop knows.  The database  *)
(* never takes a record that is "unstorable": its attempts all fail.       *)
Persist(m) ==
  /\ pc[m] = "persist"
  /\ log[current[m]][InHand(m)] = "event"
  /\ \E r \in held[m] : InsertEvent(current[m], InHand(m), r)
  /\ Ended(m)
  /\ Goto(m, "commit")
  /\ UNCHANGED <<kafkaVars, batch, current, room, faults, dropped>>

(* The transaction commits but the loop sees an error (a timeout, a broken *)
(* connection) and will try again.                                         *)
PersistUnacknowledged(m) ==
  /\ pc[m] = "persist"
  /\ log[current[m]][InHand(m)] = "event"
  /\ \E r \in held[m] : InsertEvent(current[m], InHand(m), r)
  /\ Ended(m)
  /\ UNCHANGED <<kafkaVars, pc, batch, current, room, faults, dropped>>

(* The transaction fails and is rolled back; the loop will try again. *)
PersistFails(m) ==
  /\ pc[m] = "persist"
  /\ held[m] # {}
  /\ Ended(m)
  /\ UNCHANGED <<kafkaVars, pc, batch, current, rows, room, faults, dropped>>

(* The coordinator takes the offset of any live member, whoever owns p. *)
CommitOffset(m) ==
  /\ pc[m] = "commit"
  /\ committed' = [committed EXCEPT ![current[m]] = InHand(m)]
  /\ Advance(m)
  /\ Goto(m, "next")
  /\ UNCHANGED <<log, owner, position, current, held, rows, room, faults,
                 dropped>>

(* The offset is committed but the loop sees an error and will try again. *)
CommitUnacknowledged(m) ==
  /\ pc[m] = "commit"
  /\ committed' = [committed EXCEPT ![current[m]] = InHand(m)]
  /\ UNCHANGED <<log, owner, position, memberVars, rows, room, faults,
                 dropped>>

Loop(m) ==
  \/ Poll(m)
  \/ FetchError(m)
  \/ NextRecord(m)
  \/ BatchFinished(m)
  \/ LookUpRoom(m)
  \/ Persist(m)
  \/ PersistUnacknowledged(m)
  \/ PersistFails(m)
  \/ CommitOffset(m)
  \/ CommitUnacknowledged(m)

Next ==
  \/ \E p \in Partitions, kind \in Kinds : Produce(p, kind)
  \/ \E r \in Rooms : MoveSensor(r)
  \/ \E m \in Members : Start(m) \/ Stop(m) \/ Loop(m)
  \/ \E p \in Partitions, m \in Members : Rebalance(p, m)

Spec == Init /\ [][Next]_vars

(* The pod is restarted, the coordinator hands out what nobody owns, and   *)
(* the loop runs: a poll returns, a retried transaction or offset commit   *)
(* gets through.  Nothing is assumed of the collector, of the sensor, or   *)
(* of a commit that is lost.                                               *)
Fairness ==
  /\ \A m \in Members :
       /\ WF_vars(Start(m))
       /\ WF_vars(Poll(m))
       /\ WF_vars(NextRecord(m))
       /\ WF_vars(BatchFinished(m))
       /\ WF_vars(LookUpRoom(m))
       /\ SF_vars(Persist(m))
       /\ WF_vars(CommitOffset(m))
  /\ \A p \in Partitions :
       WF_vars(owner[p] = Nobody /\ \E m \in Members : Rebalance(p, m))

FairSpec == Spec /\ Fairness

-----------------------------------------------------------------------------
(* Properties. *)

(* "Offsets are committed only after a successful insert (or idempotent    *)
(* conflict ignore)": whatever is behind the committed offset has its row, *)
(* except records that do not decode, which are skipped.  It is about the  *)
(* order of persist and commit in processFetches, a crash between them,    *)
(* and the position a new owner starts from.                               *)
CommittedOnlyAfterInsert ==
  \A p \in Partitions : \A i \in 1 .. committed[p] :
    log[p][i] # "malformed" => Stored(p, i)

(* Even when a poll reports an error along with records, a record behind   *)
(* the committed offset that has no row is one that such a poll threw      *)
(* away: retries, crashes and reassignments lose nothing more.             *)
NothingElseLost ==
  \A p \in Partitions : \A i \in 1 .. committed[p] :
    log[p][i] # "malformed" => Stored(p, i) \/ <<p, i>> \in dropped

(* The events of a partition are stored in the order of its records, even  *)
(* when two members hold records of it at once: no row is written before   *)
(* the rows of all earlier records that decode.                            *)
StoredInOrder ==
  \A r \in rows : \A i \in 1 .. r.num - 1 :
    log[r.part][i] # "malformed" => Stored(r.part, i)

(* "Moving or unassigning a sensor affects only later events": a row, with *)
(* the room it was written with, stays as it is when its record is         *)
(* delivered again after the sensor has moved.                             *)
HistoryKept == [][rows \subseteq rows']_vars

(* The monitor implements the ledger: each step that writes a row writes   *)
(* the next one of its partition, once, with a room that the transaction   *)
(* read from the sensor, however often the record has been delivered.      *)
Looked ==
  UNION {{[part |-> current[m], num |-> InHand(m), room |-> r] : r \in held[m]}
           : m \in Members}

Ledger == INSTANCE IngestLedger WITH looked <- Looked
LedgerSpec == Ledger!LedgerSpec

(* Every event is eventually stored, through crashes, reassignments and    *)
(* lost acknowledgements, provided that no record is one the database      *)
(* always refuses (such a record holds up its partition for ever, and the  *)
(* other partitions of the member that has it in hand).                    *)
AllStorable ==
  \A p \in Partitions : \A i \in 1 .. Len(log[p]) : log[p][i] # "unstorable"

EventuallyStored ==
  [] AllStorable =>
    \A p \in Partitions, i \in 1 .. MaxRecords :
      (i <= Len(log[p]) /\ log[p][i] = "event") ~> Stored(p, i)
=============================================================================
