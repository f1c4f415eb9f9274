---------------------------- MODULE ComfortRules ----------------------------
(***************************************************************************)
(* What the dashboard says of a reading, of a room and of the home: the    *)
(* pure rules of comfort.ts, overview.ts and ui.ts.                        *)
(*                                                                         *)
(* Temperatures and humidities are whole tenths, CO2 is in whole ppm.      *)
(* Texts are names: a label is the word it is shown with, an advice the    *)
(* thing it is about, the message of an alert its topic, which is the      *)
(* first of the tests of adviceForAlert that the message passes.           *)
(***************************************************************************)
EXTENDS Integers, Sequences, FiniteSets, FiniteSetsExt

CONSTANTS RoomList,   \* the rooms, in the order of GET /api/v1/rooms
          Null        \* a missing value, a missing reading, no advice

Rooms == {RoomList[i] : i \in DOMAIN RoomList}

(* What there is to advise: about the air, about an alert, about the home.  *)
AirAdvices == {"open a window", "ventilate soon", "dehumidify", "humidify",
               "cool", "heat"}
AlertAdvices == {"air sensor quiet", "room sensor quiet", "close it",
                 "open a window", "ventilate or adjust", "check temperature",
                 "check now", "look soon", "look some time"}
HomeAdvices == {"add rooms", "notices", "comfortable", "drifting"}

ASSUME RoomListAssumption ==
  /\ RoomList \in Seq(Rooms)
  /\ \A i, j \in DOMAIN RoomList : RoomList[i] = RoomList[j] => i = j
  /\ Null \notin Int \cup Rooms \cup AirAdvices \cup AlertAdvices \cup HomeAdvices

-----------------------------------------------------------------------------
(* Bands of one metric.                                                    *)

Bands == {"unknown", "good", "moderate", "poor", "bad"}

BandRank ==
  [b \in Bands |-> CASE b = "unknown" -> 0 [] b = "good" -> 1
                     [] b = "moderate" -> 2 [] b = "poor" -> 3 [] b = "bad" -> 4]

WorseOf(a, b) == IF BandRank[b] > BandRank[a] THEN b ELSE a

WorstBand(a, b, c) == WorseOf(WorseOf(WorseOf("good", a), b), c)

(* Mutant of TemperatureBand: 18.0 is still "poor". *)
TemperatureBandOverlap(t) ==
  IF t = Null THEN "unknown"
  ELSE IF t \in 200 .. 229 THEN "good"
  ELSE IF t \in 181 .. 199 \cup 230 .. 249 THEN "moderate"
  ELSE IF t \in 160 .. 180 \cup 250 .. 269 THEN "poor"
  ELSE "bad"

TemperatureBand(t) ==
  IF t = Null THEN "unknown"
  ELSE IF t \in 200 .. 229 THEN "good"
  ELSE IF t \in 180 .. 199 \cup 230 .. 249 THEN "moderate"
  ELSE IF t \in 160 .. 179 \cup 250 .. 269 THEN "poor"
  ELSE "bad"

HumidityBand(h) ==
  IF h = Null THEN "unknown"
  ELSE IF h \in 400 .. 600 THEN "good"
  ELSE IF h \in 300 .. 399 \cup 601 .. 700 THEN "moderate"
  ELSE IF h \in 200 .. 299 \cup 701 .. 800 THEN "poor"
  ELSE "bad"

Co2Band(c) ==
  IF c = Null THEN "unknown"
  ELSE IF c <= 800 THEN "good"
  ELSE IF c <= 1200 THEN "moderate"
  ELSE IF c <= 2000 THEN "poor"
  ELSE "bad"

Bad == {"poor", "bad"}

-----------------------------------------------------------------------------
(* One reading.                                                            *)

Reading == [temperature : Int \cup {Null}, humidity : Int \cup {Null},
            co2 : Int \cup {Null}]

Metrics(x) ==
  IF x = Null THEN [temp |-> "unknown", humidity |-> "unknown", co2 |-> "unknown"]
  ELSE [temp |-> TemperatureBand(x.temperature),
        humidity |-> HumidityBand(x.humidity), co2 |-> Co2Band(x.co2)]

(* Mutant of WorstOf: CO2 decides where it is known. *)
WorstOfCo2(x) ==
  IF Metrics(x).co2 # "unknown" THEN Metrics(x).co2
  ELSE WorstBand(Metrics(x).temp, Metrics(x).humidity, "good")

WorstOf(x) == WorstBand(Metrics(x).temp, Metrics(x).humidity, Metrics(x).co2)

(* Mutant of PenaltyForBand: "poor" costs nothing. *)
PenaltyWithoutPoor(b) ==
  CASE b = "moderate" -> 12 [] b = "bad" -> 45 [] OTHER -> 0

PenaltyForBand(b) ==
  CASE b = "moderate" -> 12 [] b = "poor" -> 28 [] b = "bad" -> 45
    [] OTHER -> 0

AdviceForReading(x) ==
  LET m == Metrics(x) IN
  IF x = Null THEN Null
  ELSE IF m.co2 \in Bad THEN "open a window"
  ELSE IF m.co2 = "moderate" THEN "ventilate soon"
  ELSE IF m.humidity \in Bad /\ x.humidity > 600 THEN "dehumidify"
  ELSE IF m.humidity \in Bad /\ x.humidity < 400 THEN "humidify"
  ELSE IF m.temp \in Bad /\ x.temperature >= 250 THEN "cool"
  ELSE IF m.temp \in Bad /\ x.temperature < 180 THEN "heat"
  ELSE Null

-----------------------------------------------------------------------------
(* Alerts, in the order of GET /api/v1/alerts.                             *)

Severities == {"INFO", "WARNING", "CRITICAL"}
Topics == {"air quiet", "room quiet", "opening", "co2", "humidity",
           "temperature", "other"}
Alert == [room : Rooms, severity : Severities, topic : Topics]

SeverityRank ==
  [s \in Severities |-> CASE s = "INFO" -> 1 [] s = "WARNING" -> 2
                          [] s = "CRITICAL" -> 3]

(* The first of the alerts with the highest severity. *)
PickHighestSeverityAlert(alerts) ==
  IF alerts = <<>> THEN Null
  ELSE LET rank(i) == SeverityRank[alerts[i].severity]
       IN  alerts[CHOOSE i \in DOMAIN alerts :
                    \A j \in DOMAIN alerts :
                      rank(j) <= rank(i) /\ (j < i => rank(j) < rank(i))]

HighestSeverity(alerts) ==
  IF alerts = <<>> THEN Null ELSE PickHighestSeverityAlert(alerts).severity

AlertsForRoom(alerts, r) ==
  LET inRoom(a) == a.room = r IN SelectSeq(alerts, inRoom)

Actionable(alerts) ==
  LET urgent(a) == a.severity \in {"WARNING", "CRITICAL"}
  IN  SelectSeq(alerts, urgent)

AdviceForAlert(a) ==
  CASE a.topic = "air quiet"   -> "air sensor quiet"
    [] a.topic = "room quiet"  -> "room sensor quiet"
    [] a.topic = "opening"     -> "close it"
    [] a.topic = "co2"         -> "open a window"
    [] a.topic = "humidity"    -> "ventilate or adjust"
    [] a.topic = "temperature" -> "check temperature"
    [] OTHER -> CASE a.severity = "CRITICAL" -> "check now"
                  [] a.severity = "WARNING"  -> "look soon"
                  [] OTHER                   -> "look some time"

-----------------------------------------------------------------------------
(* One room.                                                               *)

RoomComfortLabel(x, severity) ==
  LET m == Metrics(x)
      says(l, b) == [label |-> l, band |-> b]
  IN  IF severity = "CRITICAL" THEN says("Alert", "bad")
      ELSE IF severity = "WARNING" THEN says("Watch", "poor")
      ELSE IF x = Null THEN says("No data", "unknown")
      ELSE IF m.co2 \in Bad THEN says("Stuffy", WorstOf(x))
      ELSE IF m.humidity \in Bad
           THEN says(IF x.humidity > 600 THEN "Humid" ELSE "Dry", WorstOf(x))
      ELSE IF m.temp \in Bad \cup {"moderate"} /\ x.temperature < 200
           THEN says("Cool", WorstOf(x))
      ELSE IF m.temp \in Bad \cup {"moderate"} /\ x.temperature >= 230
           THEN says("Warm", WorstOf(x))
      ELSE IF severity = "INFO" THEN says("Fair", WorseOf(WorstOf(x), "moderate"))
      ELSE says("Good", WorstOf(x))

RoomAdvice(x, roomAlerts) ==
  LET highest == PickHighestSeverityAlert(roomAlerts) IN
  IF Actionable(roomAlerts) # <<>> THEN AdviceForAlert(highest)
  ELSE IF AdviceForReading(x) # Null THEN AdviceForReading(x)
  ELSE IF highest # Null THEN AdviceForAlert(highest)
  ELSE Null

ComfortForRoom(r, x, alerts) ==
  LET roomAlerts == AlertsForRoom(alerts, r)
  IN  [comfort |-> RoomComfortLabel(x, HighestSeverity(roomAlerts)),
       metrics |-> Metrics(x),
       advice  |-> RoomAdvice(x, roomAlerts)]

(* The left border of a room's card. *)
RoomCardBorder(band, alerted) ==
  IF alerted \/ band = "bad" THEN "error"
  ELSE IF band \in {"poor", "moderate"} THEN "warning"
  ELSE IF band = "good" THEN "success" ELSE "none"

MapRoomCard(r, x, alerts) ==
  LET room    == ComfortForRoom(r, x, alerts)
      alerted == AlertsForRoom(alerts, r) # <<>>
  IN  [label  |-> room.comfort.label, band |-> room.comfort.band,
       advice |-> room.advice, alerted |-> alerted,
       border |-> RoomCardBorder(room.comfort.band, alerted)]

-----------------------------------------------------------------------------
(* The home.                                                               *)

(* Math.round of a quotient of naturals. *)
RoundedShare(total, n) == (2 * total + n) \div (2 * n)

Clamp(score) ==
  IF score > 100 THEN 100 ELSE IF score < 0 THEN 0 ELSE score

WithData(readings) == {r \in Rooms : readings[r] # Null}

MetricKeys == {"temp", "humidity", "co2"}

(* The metrics of all rooms that are in the band, and what they cost. *)
InBand(readings, b) ==
  {m \in WithData(readings) \X MetricKeys : Metrics(readings[m[1]])[m[2]] = b}

TotalPenalty(readings) ==
  LET cost(b) == PenaltyForBand(b) * Cardinality(InBand(readings, b))
  IN  cost("unknown") + cost("good") + cost("moderate") + cost("poor") + cost("bad")

AirPenalty(readings) ==
  LET n == Cardinality(WithData(readings))
  IN  IF n > 1 THEN RoundedShare(TotalPenalty(readings), n) ELSE TotalPenalty(readings)

AlertPenalty(alerts) ==
  LET count(s) == Cardinality({i \in DOMAIN alerts : alerts[i].severity = s})
  IN  18 * count("CRITICAL") + 10 * count("WARNING") + 4 * count("INFO")

ScoreBand(score) ==
  IF score >= 80 THEN "good" ELSE IF score >= 60 THEN "moderate"
  ELSE IF score >= 40 THEN "poor" ELSE "bad"

BandLabel(b) ==
  CASE b = "good" -> "Good" [] b = "moderate" -> "Fair" [] b = "poor" -> "Poor"
    [] b = "bad" -> "Bad" [] OTHER -> Null

(* Mutant of AdviceFromReadings: the advice of the first room. *)
AdviceFromFirst(readings) == AdviceForReading(readings[RoomList[1]])

(* The advice of the first room, in the order of the list, that has one. *)
AdviceFromReadings(readings) ==
  LET advice(i) == AdviceForReading(readings[RoomList[i]])
      advised == {i \in DOMAIN RoomList : advice(i) # Null}
  IN  IF advised = {} THEN Null ELSE advice(Min(advised))

HomeAdvice(readings, alerts, score) ==
  IF Actionable(alerts) # <<>>
  THEN AdviceForAlert(PickHighestSeverityAlert(Actionable(alerts)))
  ELSE IF AdviceFromReadings(readings) # Null THEN AdviceFromReadings(readings)
  ELSE IF alerts # <<>> THEN "notices"
  ELSE IF score >= 80 THEN "comfortable" ELSE "drifting"

ComputeHomeHealth(readings, alerts) ==
  LET score == Clamp(100 - AirPenalty(readings) - AlertPenalty(alerts))
      band  == ScoreBand(score)
  IN  IF WithData(readings) = {} /\ alerts = <<>>
      THEN [score |-> 0, band |-> "unknown", label |-> "No data",
            advice |-> "add rooms"]
      ELSE [score |-> score, band |-> band, label |-> BandLabel(band),
            advice |-> HomeAdvice(readings, alerts, score)]

(* The badge of the home in the header, and the dot in it. *)
HomeStatusLabel(online, alertCount) ==
  IF online = FALSE THEN "Gateway offline"
  ELSE IF alertCount > 0 THEN "Needs attention"
  ELSE IF online = Null THEN "Status unknown" ELSE "Home healthy"

HomeStatusDot(online, alertCount) ==
  IF online = FALSE THEN "error"
  ELSE IF alertCount > 0 THEN "warning"
  ELSE IF online = Null THEN "neutral" ELSE "success"
=============================================================================
