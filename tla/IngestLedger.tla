---------------------------- MODULE IngestLedger ----------------------------
(***************************************************************************)
(* What a monitor promises to the rest of the system, whatever happens to  *)
(* Kafka, to PostgreSQL and to its own process: every record of a          *)
(* partition that holds an event gets one row, the rows of a partition are *)
(* written in the order of its records, a row carries a room that the      *)
(* sensor was in when the record was looked at, and nothing rewrites it.   *)
(*                                                                         *)
(* The i-th record of a partition has Kafka offset i - 1.                  *)
(***************************************************************************)
EXTENDS Naturals, Sequences

CONSTANTS Partitions,   \* partitions of the topic
          Rooms,        \* what sensor.room_id can hold, NULL included
          MaxRecords    \* bound: records produced to one partition

Kinds == {"event", "malformed", "unstorable"}

VARIABLES log,     \* log[p]: the records of partition p, by kind
          rows,    \* the reading (or event) table
          room,    \* home_api.sensor.room_id of the sensor that is followed
          looked   \* the rows that attempts under way would write

ledgerVars == <<log, rows, room, looked>>

Row == [part : Partitions, num : Nat \ {0}, room : Rooms]

(* The table has a row for record i of partition p. *)
Stored(p, i) == \E r \in rows : r.part = p /\ r.num = i

LedgerInit ==
  /\ log = [p \in Partitions |-> <<>>]
  /\ rows = {}
  /\ room \in Rooms
  /\ looked = {}

(* The collector sends one more record to partition p. *)
Produce(p, kind) ==
  /\ Len(log[p]) < MaxRecords
  /\ log' = [log EXCEPT ![p] = Append(@, kind)]
  /\ UNCHANGED <<rows, room, looked>>

(* home-api assigns or unassigns the sensor. *)
MoveSensor(r) ==
  /\ r # room
  /\ room' = r
  /\ UNCHANGED <<log, rows, looked>>

(* An attempt to store record i of partition p reads the sensor's room. *)
Look(p, i) ==
  /\ i \in 1 .. Len(log[p])
  /\ looked' = looked \cup {[part |-> p, num |-> i, room |-> room]}
  /\ UNCHANGED <<log, rows, room>>

(* The first event of partition p that has no row gets one, by one of the  *)
(* attempts.                                                               *)
Write(p, i) ==
  /\ i \in 1 .. Len(log[p])
  /\ log[p][i] = "event"
  /\ ~ Stored(p, i)
  /\ \A j \in 1 .. i - 1 : log[p][j] = "event" => Stored(p, j)
  /\ \E r \in looked : r.part = p /\ r.num = i /\ rows' = rows \cup {r}
  /\ looked' \subseteq looked
  /\ UNCHANGED <<log, room>>

(* An attempt ends without a new row. *)
Forget ==
  /\ looked' \subseteq looked
  /\ UNCHANGED <<log, rows, room>>

LedgerNext ==
  \/ \E p \in Partitions, kind \in Kinds : Produce(p, kind)
  \/ \E r \in Rooms : MoveSensor(r)
  \/ \E p \in Partitions, i \in 1 .. MaxRecords : Look(p, i) \/ Write(p, i)
  \/ Forget

LedgerSpec == LedgerInit /\ [][LedgerNext]_ledgerVars
=============================================================================
