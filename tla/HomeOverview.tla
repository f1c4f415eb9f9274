---------------------------- MODULE HomeOverview ----------------------------
(***************************************************************************)
(* The start page: what loadOverview has stored, and what the page makes   *)
(* of it with the rules of ComfortRules.  A load stores the gateway's      *)
(* status, the newest reading of each room (null where it has none, or     *)
(* where its request failed) and the active alerts, or nothing but the     *)
(* error.  Between two loads home-api changes in one respect, so that a    *)
(* step says what one reading or one alert does to the page.               *)
(***************************************************************************)
EXTENDS ComfortRules

CONSTANTS Samples,    \* bound: the readings that sensors send
          AlertKinds, \* bound: the alerts that are raised
          MaxAlerts   \* bound: ACTIVE alerts at a time

ASSUME SamplesAssumption ==
  Samples \subseteq Reading /\ AlertKinds \subseteq Alert /\ MaxAlerts \in Nat

VARIABLES
  gatewayOnline,  \* Null until the first load
  readingsByRoom, \* the reading shown for each room
  alerts,         \* the active alerts, newest first
  loadState,      \* "loading", "ready" or "error"
  errorMessage    \* whether an error is shown

vars == <<gatewayOnline, readingsByRoom, alerts, loadState, errorMessage>>

TypeOK ==
  /\ gatewayOnline \in BOOLEAN \cup {Null}
  /\ readingsByRoom \in [Rooms -> Samples \cup {Null}]
  /\ alerts \in Seq(AlertKinds) /\ Len(alerts) <= MaxAlerts
  /\ loadState \in {"loading", "ready", "error"}
  /\ errorMessage \in BOOLEAN
  /\ loadState # "ready" => gatewayOnline = Null

Init ==
  /\ gatewayOnline = Null
  /\ readingsByRoom = [r \in Rooms |-> Null]
  /\ alerts = <<>>
  /\ loadState = "loading" /\ errorMessage = FALSE

fetchedAt == loadState = "ready"   \* is not null

(* setState at the end of loadOverview. *)
Loaded(online, readings, active) ==
  /\ gatewayOnline' = online
  /\ readingsByRoom' = readings
  /\ alerts' = active
  /\ loadState' = "ready" /\ errorMessage' = FALSE

Online == IF gatewayOnline = Null THEN BOOLEAN ELSE {gatewayOnline}

LoadReading ==
  \E r \in Rooms, x \in Samples, online \in Online :
    Loaded(online, [readingsByRoom EXCEPT ![r] = x], alerts)

(* The request for the readings of the room fails, or it has none any more. *)
LoadWithoutReading ==
  \E r \in Rooms, online \in Online :
    /\ readingsByRoom[r] # Null
    /\ Loaded(online, [readingsByRoom EXCEPT ![r] = Null], alerts)

LoadRaised ==
  \E a \in AlertKinds, online \in Online :
    /\ Len(alerts) < MaxAlerts
    /\ Loaded(online, readingsByRoom, <<a>> \o alerts)

LoadResolved ==
  \E i \in DOMAIN alerts, online \in Online :
    Loaded(online, readingsByRoom,
           [j \in 1 .. Len(alerts) - 1 |-> alerts[IF j < i THEN j ELSE j + 1]])

LoadGateway ==
  \E online \in BOOLEAN : Loaded(online, readingsByRoom, alerts)

(* One of the three requests fails: the page keeps what it shows. *)
LoadFails ==
  /\ loadState' = IF fetchedAt THEN "ready" ELSE "error"
  /\ errorMessage' = TRUE
  /\ UNCHANGED <<gatewayOnline, readingsByRoom, alerts>>

Next ==
  \/ LoadReading \/ LoadWithoutReading \/ LoadRaised \/ LoadResolved
  \/ LoadGateway \/ LoadFails

Spec == Init /\ [][Next]_vars

-----------------------------------------------------------------------------
(* What the page shows.                                                    *)

health == ComputeHomeHealth(readingsByRoom, alerts)
roomCards ==
  [r \in Rooms |-> MapRoomCard(r, readingsByRoom[r], alerts)]
statusLabel == HomeStatusLabel(gatewayOnline, Len(alerts))
statusDot == HomeStatusDot(gatewayOnline, Len(alerts))

HasBadMetric(r) ==
  \E k \in MetricKeys : Metrics(readingsByRoom[r])[k] \in Bad

(* A room with a metric in the band "poor" or "bad" is never passed over in *)
(* silence: its card has a telling label and a coloured border, and an      *)
(* advice goes with it.  The thresholds of the bands, of the labels and of  *)
(* the advice are written three times in comfort.ts; a value that falls     *)
(* between them would break this.                                           *)
BadAirIsTold ==
  \A r \in Rooms :
    HasBadMetric(r) =>
      /\ roomCards[r].label \notin {"Good", "Fair", "No data"}
      /\ roomCards[r].border \in {"warning", "error"}
      /\ roomCards[r].advice # Null

(* Nor does the home call itself comfortable, or speak of notices only,     *)
(* over a room with such a metric, although its score is an average.        *)
HomeTellsBadAir ==
  (\E r \in Rooms : HasBadMetric(r)) =>
    health.advice \notin HomeAdvices

(* A reading that is as bad or worse in every metric than the one it        *)
(* replaces does not improve the band of its room, under whatever alerts    *)
(* the room has: the rules of the label come in an order of their own.      *)
Worse(x, y) ==
  \A k \in MetricKeys :
    BandRank[Metrics(x)[k]] <= BandRank[Metrics(y)[k]]

GetsWorse(r) ==
  /\ alerts' = alerts
  /\ readingsByRoom[r] # Null /\ readingsByRoom'[r] # Null
  /\ readingsByRoom' = [readingsByRoom EXCEPT ![r] = readingsByRoom'[r]]
  /\ Worse(readingsByRoom[r], readingsByRoom'[r])

WorseAirNeverLooksBetter ==
  [][\A r \in Rooms : GetsWorse(r) =>
       BandRank[roomCards[r].band]
         <= BandRank[MapRoomCard(r, readingsByRoom'[r], alerts).band]]_vars

(* Nor does it raise the score of the home, whatever the other rooms, the   *)
(* averaging and the rounding do.                                           *)
WorseAirNeverScoresBetter ==
  [][\A r \in Rooms : GetsWorse(r) =>
       ComputeHomeHealth(readingsByRoom', alerts).score <= health.score]_vars

=============================================================================
