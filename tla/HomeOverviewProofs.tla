------------------------- MODULE HomeOverviewProofs --------------------------
(***************************************************************************)
(* Theorems about the start page, for any rooms, any readings and any      *)
(* alerts: the rules of comfort.ts have no gap between their thresholds,   *)
(* and the score of the home never rises when the air of a room gets       *)
(* worse.                                                                  *)
(***************************************************************************)
EXTENDS HomeOverview, WellFoundedInduction, FiniteSetTheorems, TLAPS

(* Bands are compared by rank.                                             *)

LEMMA Ranks ==
  /\ BandRank["unknown"] = 0 /\ BandRank["good"] = 1 /\ BandRank["moderate"] = 2
  /\ BandRank["poor"] = 3 /\ BandRank["bad"] = 4
BY DEF BandRank, Bands

LEMMA WorseOfRank ==
  ASSUME NEW a \in Bands, NEW b \in Bands
  PROVE  /\ WorseOf(a, b) \in {a, b}
         /\ BandRank[WorseOf(a, b)] >= BandRank[a]
         /\ BandRank[WorseOf(a, b)] >= BandRank[b]
BY Ranks DEF WorseOf, Bands

LEMMA BandTypes ==
  ASSUME NEW t \in Int \cup {Null}
  PROVE  TemperatureBand(t) \in Bands /\ HumidityBand(t) \in Bands /\ Co2Band(t) \in Bands
BY DEF TemperatureBand, HumidityBand, Co2Band, Bands

LEMMA MetricTypes ==
  ASSUME NEW x \in Reading \cup {Null}
  PROVE  /\ Metrics(x).temp \in Bands
         /\ Metrics(x).humidity \in Bands
         /\ Metrics(x).co2 \in Bands
<1>1. CASE x = Null
  BY <1>1 DEF Metrics, Bands
<1>2. CASE x \in Reading /\ x # Null
  <2>1. x.temperature \in Int \cup {Null} /\ x.humidity \in Int \cup {Null}
        /\ x.co2 \in Int \cup {Null}
    BY <1>2 DEF Reading
  <2> QED BY <1>2, <2>1, BandTypes DEF Metrics
<1> QED BY <1>1, <1>2

(* The band of a reading is that of its worst metric, at least "good".      *)
LEMMA WorstOfRank ==
  ASSUME NEW x \in Reading \cup {Null}
  PROVE  /\ WorstOf(x) \in {"good", Metrics(x).temp, Metrics(x).humidity, Metrics(x).co2}
         /\ WorstOf(x) \in Bands
         /\ BandRank[WorstOf(x)] >= BandRank["good"]
         /\ BandRank[WorstOf(x)] >= BandRank[Metrics(x).temp]
         /\ BandRank[WorstOf(x)] >= BandRank[Metrics(x).humidity]
         /\ BandRank[WorstOf(x)] >= BandRank[Metrics(x).co2]
<1> DEFINE a == WorseOf("good", Metrics(x).temp)
           b == WorseOf(a, Metrics(x).humidity)
           c == WorseOf(b, Metrics(x).co2)
<1>1. /\ Metrics(x).temp \in Bands /\ Metrics(x).humidity \in Bands
      /\ Metrics(x).co2 \in Bands /\ "good" \in Bands
  BY MetricTypes DEF Bands
<1>2. /\ a \in {"good", Metrics(x).temp} /\ BandRank[a] >= BandRank["good"]
      /\ BandRank[a] >= BandRank[Metrics(x).temp]
  BY <1>1, WorseOfRank
<1>3. /\ b \in {a, Metrics(x).humidity} /\ BandRank[b] >= BandRank[a]
      /\ BandRank[b] >= BandRank[Metrics(x).humidity]
  BY <1>1, <1>2, WorseOfRank
<1>4. /\ c \in {b, Metrics(x).co2} /\ BandRank[c] >= BandRank[b]
      /\ BandRank[c] >= BandRank[Metrics(x).co2]
  BY <1>1, <1>2, <1>3, WorseOfRank
<1>5. WorstOf(x) = c
  BY DEF WorstOf, WorstBand
<1>6. \A d \in Bands : BandRank[d] \in Int
  BY Ranks DEF Bands
<1> HIDE DEF a, b, c
<1> QED BY <1>1, <1>2, <1>3, <1>4, <1>5, <1>6

-----------------------------------------------------------------------------
(* A reading with a metric in the band "poor" or "bad".                    *)

IsBad(x) ==
  Metrics(x).temp \in Bad \/ Metrics(x).humidity \in Bad \/ Metrics(x).co2 \in Bad

LEMMA HumidityLimits ==
  ASSUME NEW x \in Reading, x # Null, Metrics(x).humidity \in Bad
  PROVE  x.humidity \in Int /\ (x.humidity > 600 \/ x.humidity < 400)
BY DEF Metrics, HumidityBand, Bad, Reading

LEMMA TemperatureLimits ==
  ASSUME NEW x \in Reading, x # Null
  PROVE  /\ Metrics(x).temp \in Bad =>
              x.temperature \in Int /\ (x.temperature >= 250 \/ x.temperature < 180)
         /\ Metrics(x).temp = "moderate" =>
              x.temperature \in Int /\ (x.temperature >= 230 \/ x.temperature < 200)
BY DEF Metrics, TemperatureBand, Bad, Reading

LEMMA BadIsWorst ==
  ASSUME NEW x \in Reading \cup {Null}, IsBad(x)
  PROVE  WorstOf(x) \in Bad
BY WorstOfRank, Ranks DEF IsBad, Bad, Bands

LEMMA BadIsReading ==
  ASSUME NEW x \in Reading \cup {Null}, IsBad(x)
  PROVE  x # Null
BY DEF IsBad, Metrics, Bad

LEMMA BadIsLabelled ==
  ASSUME NEW x \in Reading \cup {Null}, IsBad(x), NEW severity
  PROVE  /\ RoomComfortLabel(x, severity).label \notin {"Good", "Fair", "No data"}
         /\ RoomComfortLabel(x, severity).band \in Bad
<1>1. x \in Reading /\ x # Null
  BY BadIsReading
<1>2. WorstOf(x) \in Bad
  BY BadIsWorst
<1>3. Metrics(x).temp \in Bad => x.temperature >= 230 \/ x.temperature < 200
  BY <1>1, TemperatureLimits
<1>4. CASE severity \in {"CRITICAL", "WARNING"}
  BY <1>4 DEF RoomComfortLabel, Bad
<1>5. CASE severity \notin {"CRITICAL", "WARNING"} /\ Metrics(x).co2 \in Bad
  BY <1>1, <1>2, <1>5 DEF RoomComfortLabel
<1>6. CASE severity \notin {"CRITICAL", "WARNING"} /\ Metrics(x).co2 \notin Bad
           /\ Metrics(x).humidity \in Bad
  BY <1>1, <1>2, <1>6 DEF RoomComfortLabel
<1>7. CASE severity \notin {"CRITICAL", "WARNING"} /\ Metrics(x).co2 \notin Bad
           /\ Metrics(x).humidity \notin Bad
  <2>1. Metrics(x).temp \in Bad
    BY <1>7 DEF IsBad
  <2> QED BY <1>1, <1>2, <1>3, <1>7, <2>1 DEF RoomComfortLabel
<1> QED BY <1>4, <1>5, <1>6, <1>7

LEMMA BadIsAdvised ==
  ASSUME NEW x \in Reading \cup {Null}, IsBad(x)
  PROVE  AdviceForReading(x) \in AirAdvices
<1>1. x \in Reading /\ x # Null
  BY BadIsReading
<1>2. CASE Metrics(x).co2 \in Bad \cup {"moderate"}
  BY <1>1, <1>2 DEF AdviceForReading, AirAdvices
<1>3. CASE Metrics(x).co2 \notin Bad \cup {"moderate"} /\ Metrics(x).humidity \in Bad
  <2>1. x.humidity > 600 \/ x.humidity < 400
    BY <1>1, <1>3, HumidityLimits
  <2> QED BY <1>1, <1>3, <2>1 DEF AdviceForReading, AirAdvices
<1>4. CASE Metrics(x).co2 \notin Bad \cup {"moderate"} /\ Metrics(x).humidity \notin Bad
  <2>1. Metrics(x).temp \in Bad
    BY <1>4 DEF IsBad
  <2>2. x.temperature >= 250 \/ x.temperature < 180
    BY <1>1, <2>1, TemperatureLimits
  <2> QED BY <1>1, <1>4, <2>1, <2>2 DEF AdviceForReading, AirAdvices
<1> QED BY <1>2, <1>3, <1>4

LEMMA AlertIsAdvised ==
  ASSUME NEW a
  PROVE  AdviceForAlert(a) \in AlertAdvices
BY DEF AdviceForAlert, AlertAdvices

-----------------------------------------------------------------------------
(* Types.                                                                  *)

LEMMA HomeTypeStep ==
  ASSUME TypeOK, [Next]_vars
  PROVE  TypeOK'
<1>1. ASSUME NEW online \in BOOLEAN,
             NEW readings \in [Rooms -> Samples \cup {Null}],
             NEW active \in Seq(AlertKinds), Len(active) <= MaxAlerts,
             Loaded(online, readings, active)
      PROVE  TypeOK'
  BY <1>1 DEF Loaded, TypeOK
<1>2. Online \subseteq BOOLEAN
  BY DEF Online, TypeOK
<1>3. CASE LoadReading
  <2>1. PICK r \in Rooms, x \in Samples, online \in Online :
          Loaded(online, [readingsByRoom EXCEPT ![r] = x], alerts)
    BY <1>3 DEF LoadReading
  <2>2. [readingsByRoom EXCEPT ![r] = x] \in [Rooms -> Samples \cup {Null}]
    BY DEF TypeOK
  <2> QED BY <1>1, <1>2, <2>1, <2>2 DEF TypeOK
<1>4. CASE LoadWithoutReading
  <2>1. PICK r \in Rooms, online \in Online :
          Loaded(online, [readingsByRoom EXCEPT ![r] = Null], alerts)
    BY <1>4 DEF LoadWithoutReading
  <2>2. [readingsByRoom EXCEPT ![r] = Null] \in [Rooms -> Samples \cup {Null}]
    BY DEF TypeOK
  <2> QED BY <1>1, <1>2, <2>1, <2>2 DEF TypeOK
<1>5. CASE LoadRaised
  <2>1. PICK a \in AlertKinds, online \in Online :
          Len(alerts) < MaxAlerts /\ Loaded(online, readingsByRoom, <<a>> \o alerts)
    BY <1>5 DEF LoadRaised
  <2>2. <<a>> \o alerts \in Seq(AlertKinds) /\ Len(<<a>> \o alerts) <= MaxAlerts
    BY <2>1, SamplesAssumption DEF TypeOK
  <2> QED BY <1>1, <1>2, <2>1, <2>2 DEF TypeOK
<1>6. CASE LoadResolved
  <2>1. PICK i \in DOMAIN alerts, online \in Online :
          Loaded(online, readingsByRoom,
                 [j \in 1 .. Len(alerts) - 1 |-> alerts[IF j < i THEN j ELSE j + 1]])
    BY <1>6 DEF LoadResolved
  <2> DEFINE rest == [j \in 1 .. Len(alerts) - 1 |-> alerts[IF j < i THEN j ELSE j + 1]]
  <2>2. Len(alerts) \in Nat /\ DOMAIN alerts = 1 .. Len(alerts)
        /\ \A j \in 1 .. Len(alerts) : alerts[j] \in AlertKinds
    BY DEF TypeOK
  <2>3. Len(alerts) - 1 \in Nat
    BY <2>1, <2>2
  <2>4. rest \in [1 .. Len(alerts) - 1 -> AlertKinds]
    BY <2>1, <2>2
  <2>5. rest \in Seq(AlertKinds) /\ Len(rest) = Len(alerts) - 1
    BY <2>3, <2>4
  <2>6. Len(rest) <= MaxAlerts
    BY <2>2, <2>5, SamplesAssumption DEF TypeOK
  <2> HIDE DEF rest
  <2>7. Loaded(online, readingsByRoom, rest)
    BY <2>1 DEF rest
  <2> QED BY <1>1, <1>2, <2>1, <2>5, <2>6, <2>7 DEF TypeOK
<1>7. CASE LoadGateway
  BY <1>1, <1>7 DEF LoadGateway, TypeOK
<1>8. CASE LoadFails
  BY <1>8 DEF LoadFails, TypeOK, fetchedAt
<1>9. CASE UNCHANGED vars
  BY <1>9 DEF vars, TypeOK
<1> QED BY <1>3, <1>4, <1>5, <1>6, <1>7, <1>8, <1>9 DEF Next

(* The page only ever holds readings and alerts that home-api has sent.     *)
THEOREM HomeTypes == Spec => []TypeOK
<1>1. Init => TypeOK
  <2> SUFFICES ASSUME Init PROVE TypeOK
    OBVIOUS
  <2>1. alerts \in Seq(AlertKinds) /\ Len(alerts) <= MaxAlerts
    BY SamplesAssumption DEF Init
  <2>2. readingsByRoom \in [Rooms -> Samples \cup {Null}]
    BY DEF Init
  <2> QED BY <2>1, <2>2 DEF Init, TypeOK
<1> QED BY <1>1, HomeTypeStep, PTL DEF Spec

-----------------------------------------------------------------------------
(* Bad air.                                                                *)

LEMMA RoomTellsBadAir ==
  ASSUME NEW r \in Rooms, NEW x \in Reading \cup {Null}, IsBad(x), NEW active
  PROVE  /\ MapRoomCard(r, x, active).label \notin {"Good", "Fair", "No data"}
         /\ MapRoomCard(r, x, active).border \in {"warning", "error"}
         /\ MapRoomCard(r, x, active).advice # Null
<1> DEFINE own == AlertsForRoom(active, r)
           comfort == RoomComfortLabel(x, HighestSeverity(own))
           card == MapRoomCard(r, x, active)
<1>1. /\ card.label = comfort.label
      /\ card.border = RoomCardBorder(comfort.band, own # <<>>)
      /\ card.advice = RoomAdvice(x, own)
  BY DEF MapRoomCard, ComfortForRoom
<1>2. comfort.label \notin {"Good", "Fair", "No data"} /\ comfort.band \in Bad
  BY BadIsLabelled
<1> HIDE DEF comfort
<1>3. RoomCardBorder(comfort.band, own # <<>>) \in {"warning", "error"}
  BY <1>2 DEF RoomCardBorder, Bad
<1>4. RoomAdvice(x, own) \in AirAdvices \cup AlertAdvices
  BY BadIsAdvised, AlertIsAdvised, RoomListAssumption DEF RoomAdvice
<1> QED BY <1>1, <1>2, <1>3, <1>4, RoomListAssumption

(* A room with a metric in the band "poor" or "bad" is told by its label,   *)
(* its border and an advice, whatever the numbers: no value falls between   *)
(* the thresholds of the bands, of the labels and of the advice.            *)
THEOREM HomeBadAirIsTold == Spec => []BadAirIsTold
<1>1. TypeOK => BadAirIsTold
  <2> SUFFICES ASSUME TypeOK, NEW r \in Rooms, HasBadMetric(r)
               PROVE  /\ roomCards[r].label \notin {"Good", "Fair", "No data"}
                      /\ roomCards[r].border \in {"warning", "error"}
                      /\ roomCards[r].advice # Null
    BY DEF BadAirIsTold
  <2>1. readingsByRoom[r] \in Reading \cup {Null}
    BY SamplesAssumption DEF TypeOK
  <2>2. IsBad(readingsByRoom[r])
    BY DEF HasBadMetric, IsBad, Metrics, MetricKeys
  <2>3. roomCards[r] = MapRoomCard(r, readingsByRoom[r], alerts)
    BY DEF roomCards
  <2> QED BY <2>1, <2>2, <2>3, RoomTellsBadAir
<1> QED BY <1>1, HomeTypes, PTL

(* The first room of the list that has an advice gives the home its own.     *)

LEMMA LeastIndex ==
  ASSUME NEW S \in SUBSET Nat, S # {}
  PROVE  Min(S) \in S
<1>1. \A i, j \in Nat : <<i, j>> \in OpToRel(<, Nat) <=> i < j
  BY DEF OpToRel
<1>2. PICK i \in S : \A j \in S : ~ (<<j, i>> \in OpToRel(<, Nat))
  BY NatLessThanWellFounded, WFMin
<1>3. \A j \in S : ~ (j < i)
  BY <1>1, <1>2, Zenon
<1>4. \A j \in S : i <= j
  BY <1>3
<1> QED BY <1>4 DEF Min

LEMMA RoomAdvisesHome ==
  ASSUME NEW readings \in [Rooms -> Reading \cup {Null}],
         NEW r \in Rooms, IsBad(readings[r])
  PROVE  AdviceFromReadings(readings) \notin HomeAdvices \cup {Null}
<1> DEFINE advice(i) == AdviceForReading(readings[RoomList[i]])
           advised == {i \in DOMAIN RoomList : advice(i) # Null}
<1>1. DOMAIN RoomList \subseteq Nat /\ \A i \in DOMAIN RoomList : RoomList[i] \in Rooms
  BY RoomListAssumption
<1>2. PICK i \in DOMAIN RoomList : RoomList[i] = r
  BY DEF Rooms
<1>3. advice(i) \in AirAdvices
  BY <1>2, BadIsAdvised
<1>4. i \in advised /\ advised \in SUBSET Nat
  BY <1>1, <1>2, <1>3, RoomListAssumption
<1>5. Min(advised) \in advised
  BY <1>4, LeastIndex
<1>6. AdviceFromReadings(readings) = advice(Min(advised))
  BY <1>4 DEF AdviceFromReadings
<1>7. ASSUME NEW x
      PROVE  AdviceForReading(x) \in AirAdvices \cup {Null}
  BY DEF AdviceForReading, AirAdvices
<1>8. advice(Min(advised)) # Null
  BY <1>5
<1> HIDE DEF advised
<1>9. advice(Min(advised)) \in AirAdvices
  BY <1>7, <1>8
<1> QED BY <1>6, <1>8, <1>9 DEF AirAdvices, HomeAdvices

(* The home does not call itself comfortable either, or speak of notices     *)
(* only, over such a room, whatever the average and the other rooms are     *)
(* (computeHomeHealth).                                                     *)
THEOREM HomeTellsOfBadAir == Spec => []HomeTellsBadAir
<1>1. TypeOK => HomeTellsBadAir
  <2> SUFFICES ASSUME TypeOK, NEW r \in Rooms, HasBadMetric(r)
               PROVE  health.advice \notin HomeAdvices
    BY DEF HomeTellsBadAir
  <2>1. readingsByRoom \in [Rooms -> Reading \cup {Null}]
    BY SamplesAssumption DEF TypeOK
  <2>2. IsBad(readingsByRoom[r])
    BY DEF HasBadMetric, IsBad, Metrics, MetricKeys
  <2>3. readingsByRoom[r] # Null
    BY <2>1, <2>2, BadIsReading
  <2>4. WithData(readingsByRoom) # {}
    BY <2>3 DEF WithData
  <2>5. ASSUME NEW score
        PROVE  HomeAdvice(readingsByRoom, alerts, score) \notin HomeAdvices
    <3>1. AdviceFromReadings(readingsByRoom) \notin HomeAdvices \cup {Null}
      BY <2>1, <2>2, RoomAdvisesHome
    <3>2. \A a : AdviceForAlert(a) \notin HomeAdvices
      BY AlertIsAdvised DEF AlertAdvices, HomeAdvices
    <3> QED BY <3>1, <3>2, Zenon DEF HomeAdvice
  <2> QED BY <2>4, <2>5 DEF health, ComputeHomeHealth
<1> QED BY <1>1, HomeTypes, PTL

-----------------------------------------------------------------------------
(* Worse air.                                                              *)

LEMMA WorstIsMonotone ==
  ASSUME NEW x \in Reading, NEW y \in Reading, Worse(x, y)
  PROVE  BandRank[WorstOf(x)] <= BandRank[WorstOf(y)]
<1>1. /\ BandRank[Metrics(x).temp] <= BandRank[Metrics(y).temp]
      /\ BandRank[Metrics(x).humidity] <= BandRank[Metrics(y).humidity]
      /\ BandRank[Metrics(x).co2] <= BandRank[Metrics(y).co2]
  BY DEF Worse, Metrics, MetricKeys
<1>2. \A d \in Bands : BandRank[d] \in Int
  BY Ranks DEF Bands
<1>3. \A z \in {x, y} : Metrics(z).temp \in Bands /\ Metrics(z).humidity \in Bands
                       /\ Metrics(z).co2 \in Bands
  BY MetricTypes
<1> QED BY <1>1, <1>2, <1>3, WorstOfRank DEF Bands

(* The band of a label: that of the alert if it is urgent, else the worst   *)
(* of the reading, which an INFO alert does not let be "good".              *)
LEMMA LabelBand ==
  ASSUME NEW x \in Reading, x # Null, NEW severity
  PROVE  LET band == RoomComfortLabel(x, severity).band IN
         /\ severity = "CRITICAL" => band = "bad"
         /\ severity = "WARNING" => band = "poor"
         /\ severity = "INFO" =>
              band = IF WorstOf(x) = "good" THEN "moderate" ELSE WorstOf(x)
         /\ severity \notin Severities => band = WorstOf(x)
<1> DEFINE m == Metrics(x)
           band == RoomComfortLabel(x, severity).band
<1>1. CASE severity \in {"CRITICAL", "WARNING"}
  BY <1>1 DEF RoomComfortLabel, Severities
<1>2. CASE severity \notin {"CRITICAL", "WARNING"}
           /\ (m.co2 \in Bad \/ m.humidity \in Bad \/ m.temp \in Bad \cup {"moderate"})
  <2>1. band = WorstOf(x)
    <3>1. CASE m.co2 \in Bad
      BY <1>2, <3>1 DEF RoomComfortLabel
    <3>2. CASE m.co2 \notin Bad /\ m.humidity \in Bad
      BY <1>2, <3>2 DEF RoomComfortLabel
    <3>3. CASE m.co2 \notin Bad /\ m.humidity \notin Bad
      <4>1. x.temperature >= 230 \/ x.temperature < 200
        BY <1>2, <3>3, TemperatureLimits
      <4> QED BY <1>2, <3>3, <4>1 DEF RoomComfortLabel
    <3> QED BY <3>1, <3>2, <3>3
  <2>2. WorstOf(x) # "good"
    BY <1>2, WorstOfRank, Ranks DEF Bad, Bands
  <2> QED BY <1>2, <2>1, <2>2 DEF Severities
<1>3. CASE severity \notin {"CRITICAL", "WARNING"}
           /\ m.co2 \notin Bad /\ m.humidity \notin Bad /\ m.temp \notin Bad \cup {"moderate"}
  <2>1. band = IF severity = "INFO" THEN WorseOf(WorstOf(x), "moderate") ELSE WorstOf(x)
    BY <1>3 DEF RoomComfortLabel
  <2>2. WorstOf(x) \in {"good", "moderate"}
    BY <1>3, WorstOfRank, MetricTypes, Ranks DEF Bad, Bands
  <2>3. WorseOf(WorstOf(x), "moderate") = "moderate"
    BY <2>2, Ranks DEF WorseOf
  <2> QED BY <1>3, <2>1, <2>2, <2>3 DEF Severities
<1> QED BY <1>1, <1>2, <1>3

LEMMA CardIsMonotone ==
  ASSUME NEW r \in Rooms, NEW x \in Reading, NEW y \in Reading,
         x # Null, y # Null, Worse(x, y), NEW active
  PROVE  BandRank[MapRoomCard(r, x, active).band] <= BandRank[MapRoomCard(r, y, active).band]
<1> DEFINE severity == HighestSeverity(AlertsForRoom(active, r))
<1>1. \A z \in {x, y} :
        MapRoomCard(r, z, active).band = RoomComfortLabel(z, severity).band
  BY DEF MapRoomCard, ComfortForRoom
<1>2. BandRank[WorstOf(x)] <= BandRank[WorstOf(y)]
  BY WorstIsMonotone
<1>3. WorstOf(x) \in Bands \ {"unknown"} /\ WorstOf(y) \in Bands \ {"unknown"}
  BY WorstOfRank, Ranks DEF Bands
<1> HIDE DEF severity
<1>4. CASE severity \in {"CRITICAL", "WARNING"}
  BY <1>1, <1>4, LabelBand, Ranks
<1>5. CASE severity = "INFO"
  BY <1>1, <1>2, <1>3, <1>5, LabelBand, Ranks DEF Bands
<1>6. CASE severity \notin Severities
  BY <1>1, <1>2, <1>6, LabelBand
<1> QED BY <1>4, <1>5, <1>6 DEF Severities

(* A reading that is as bad or worse in every metric never improves the     *)
(* band of its room, under whatever alerts the room has.                    *)
THEOREM HomeWorseAirNeverLooksBetter == Spec => WorseAirNeverLooksBetter
<1> DEFINE A == \A r \in Rooms : GetsWorse(r) =>
                  BandRank[roomCards[r].band]
                    <= BandRank[MapRoomCard(r, readingsByRoom'[r], alerts).band]
<1>1. TypeOK /\ TypeOK' /\ [Next]_vars => [A]_vars
  <2> SUFFICES ASSUME TypeOK, TypeOK', NEW r \in Rooms, GetsWorse(r)
               PROVE  BandRank[roomCards[r].band]
                        <= BandRank[MapRoomCard(r, readingsByRoom'[r], alerts).band]
    OBVIOUS
  <2>1. /\ readingsByRoom[r] \in Reading /\ readingsByRoom[r] # Null
        /\ readingsByRoom'[r] \in Reading /\ readingsByRoom'[r] # Null
        /\ Worse(readingsByRoom[r], readingsByRoom'[r])
    BY SamplesAssumption DEF TypeOK, GetsWorse
  <2>2. roomCards[r] = MapRoomCard(r, readingsByRoom[r], alerts)
    BY DEF roomCards
  <2> QED BY <2>1, <2>2, CardIsMonotone
<1> QED BY <1>1, HomeTypes, PTL DEF Spec, WorseAirNeverLooksBetter

-----------------------------------------------------------------------------
(* The score of the home.  What the air costs counts the metrics of all     *)
(* rooms by band; a metric that gets worse moves up, so that it is told from *)
(* how many there are in each band or a worse one.                          *)

LEMMA RoomsFinite == IsFiniteSet(Rooms)
<1>1. PICK n \in Nat : RoomList \in [1..n -> Rooms]
  BY RoomListAssumption
<1>2. IsFiniteSet(1..n)
  BY FS_Interval
<1>3. RoomList \in Surjection(1..n, Rooms)
  BY <1>1 DEF Rooms, Surjection
<1> QED BY <1>2, <1>3, FS_Surjection

AtLeast(readings, rank) ==
  {m \in WithData(readings) \X MetricKeys :
     BandRank[Metrics(readings[m[1]])[m[2]]] >= rank}

LEMMA MetricsFinite ==
  ASSUME NEW readings
  PROVE  /\ IsFiniteSet(WithData(readings)) /\ Cardinality(WithData(readings)) \in Nat
         /\ IsFiniteSet(WithData(readings) \X MetricKeys)
<1>1. IsFiniteSet(WithData(readings))
  BY RoomsFinite, FS_Subset DEF WithData
<1>2. IsFiniteSet(MetricKeys)
  <2>1. IsFiniteSet({"temp"} \cup {"humidity"} \cup {"co2"})
    BY FS_Singleton, FS_Union
  <2> QED BY <2>1 DEF MetricKeys
<1> QED BY <1>1, <1>2, FS_Product, FS_CardinalityType

LEMMA CountsFinite ==
  ASSUME NEW readings, NEW S \in SUBSET (WithData(readings) \X MetricKeys)
  PROVE  IsFiniteSet(S) /\ Cardinality(S) \in Nat
BY MetricsFinite, FS_Subset, FS_CardinalityType

LEMMA MetricOfType ==
  ASSUME NEW readings \in [Rooms -> Reading \cup {Null}],
         NEW m \in WithData(readings) \X MetricKeys
  PROVE  Metrics(readings[m[1]])[m[2]] \in Bands
<1>1. m[1] \in Rooms /\ m[2] \in MetricKeys
  BY DEF WithData
<1>2. readings[m[1]] \in Reading \cup {Null}
  BY <1>1
<1> QED BY <1>1, <1>2, MetricTypes DEF MetricKeys

(* The metrics in a band or a worse one are those in it and those in worse.  *)
LEMMA CountSplits ==
  ASSUME NEW readings \in [Rooms -> Reading \cup {Null}],
         NEW b \in Bands, NEW rank \in Nat, BandRank[b] = rank
  PROVE  Cardinality(AtLeast(readings, rank))
           = Cardinality(InBand(readings, b)) + Cardinality(AtLeast(readings, rank + 1))
<1> DEFINE metrics == WithData(readings) \X MetricKeys
           band(m) == Metrics(readings[m[1]])[m[2]]
<1>1. \A m \in metrics : band(m) \in Bands
  BY MetricOfType
<1>2. \A c \in Bands : /\ BandRank[c] \in Nat
                       /\ BandRank[c] >= rank <=> c = b \/ BandRank[c] >= rank + 1
                       /\ c = b => ~(BandRank[c] >= rank + 1)
  BY Ranks DEF Bands
<1>3. /\ AtLeast(readings, rank) = InBand(readings, b) \cup AtLeast(readings, rank + 1)
      /\ InBand(readings, b) \cap AtLeast(readings, rank + 1) = {}
  BY <1>1, <1>2 DEF AtLeast, InBand
<1>4. /\ IsFiniteSet(InBand(readings, b)) /\ IsFiniteSet(AtLeast(readings, rank + 1))
      /\ Cardinality(InBand(readings, b)) \in Nat
      /\ Cardinality(AtLeast(readings, rank + 1)) \in Nat
  BY CountsFinite DEF AtLeast, InBand
<1>5. Cardinality({}) = 0
  BY FS_EmptySet
<1> DEFINE A == InBand(readings, b)
           B == AtLeast(readings, rank + 1)
<1>6. Cardinality(A \cup B) = Cardinality(A) + Cardinality(B) - Cardinality(A \cap B)
  BY <1>4, FS_Union
<1>7. Cardinality(A \cup B) = Cardinality(A) + Cardinality(B)
  BY <1>3, <1>4, <1>5, <1>6
<1> QED BY <1>3, <1>7

LEMMA TotalByRank ==
  ASSUME NEW readings \in [Rooms -> Reading \cup {Null}]
  PROVE  TotalPenalty(readings) = 12 * Cardinality(AtLeast(readings, 2))
           + 16 * Cardinality(AtLeast(readings, 3)) + 17 * Cardinality(AtLeast(readings, 4))
<1> DEFINE in(b) == Cardinality(InBand(readings, b))
           from(rank) == Cardinality(AtLeast(readings, rank))
<1>1. /\ from(2) = in("moderate") + from(3)
      /\ from(3) = in("poor") + from(4)
      /\ from(4) = in("bad") + from(5)
  BY CountSplits, Ranks DEF Bands
<1>2. from(5) = 0
  <2>1. \A c \in Bands : ~(BandRank[c] >= 5)
    BY Ranks DEF Bands
  <2>2. AtLeast(readings, 5) = {}
    BY <2>1, MetricOfType DEF AtLeast
  <2> QED BY <2>2, FS_EmptySet
<1>3. \A b \in Bands : in(b) \in Nat
  BY CountsFinite DEF InBand
<1>4. TotalPenalty(readings) = 12 * in("moderate") + 28 * in("poor") + 45 * in("bad")
  BY <1>3 DEF TotalPenalty, PenaltyForBand, Bands
<1>5. from(2) \in Nat /\ from(3) \in Nat /\ from(4) \in Nat
  BY CountsFinite DEF AtLeast
<1> QED BY <1>1, <1>2, <1>3, <1>4, <1>5 DEF Bands

(* Rounding keeps the order.                                                *)
LEMMA QuotientIsMonotone ==
  ASSUME NEW a \in Nat, NEW b \in Nat, NEW d \in Nat, d > 0, a <= b
  PROVE  a \div d <= b \div d
<1> DEFINE q == a \div d
           p == b \div d
<1>1. q \in Int /\ p \in Int /\ d * q <= a /\ b < d * p + d
  OBVIOUS
<1>2. d * q < d * (p + 1)
  BY <1>1
<1> QED BY <1>1, <1>2

LEMMA ShareIsMonotone ==
  ASSUME NEW a \in Nat, NEW b \in Nat, NEW n \in Nat, n > 0, a <= b
  PROVE  /\ RoundedShare(a, n) \in Int /\ RoundedShare(b, n) \in Int
         /\ RoundedShare(a, n) <= RoundedShare(b, n)
<1>1. 2 * a + n \in Nat /\ 2 * b + n \in Nat /\ 2 * n \in Nat /\ 2 * n > 0
      /\ 2 * a + n <= 2 * b + n
  OBVIOUS
<1>2. (2 * a + n) \div (2 * n) <= (2 * b + n) \div (2 * n)
  BY <1>1, QuotientIsMonotone
<1>3. (2 * a + n) \div (2 * n) \in Int /\ (2 * b + n) \div (2 * n) \in Int
  BY <1>1
<1> QED BY <1>2, <1>3 DEF RoundedShare

LEMMA AirPenaltyIsMonotone ==
  ASSUME NEW old \in [Rooms -> Reading \cup {Null}],
         NEW new \in [Rooms -> Reading \cup {Null}],
         NEW r \in Rooms, old[r] # Null, new[r] # Null, Worse(old[r], new[r]),
         \A q \in Rooms \ {r} : new[q] = old[q]
  PROVE  /\ AirPenalty(old) \in Int /\ AirPenalty(new) \in Int
         /\ AirPenalty(old) <= AirPenalty(new)
<1>1. WithData(new) = WithData(old)
  BY DEF WithData
<1>2. ASSUME NEW rank \in {2, 3, 4}
      PROVE  /\ Cardinality(AtLeast(old, rank)) \in Nat
             /\ Cardinality(AtLeast(new, rank)) \in Nat
             /\ Cardinality(AtLeast(old, rank)) <= Cardinality(AtLeast(new, rank))
  <2>1. ASSUME NEW m \in WithData(old) \X MetricKeys,
               BandRank[Metrics(old[m[1]])[m[2]]] >= rank
        PROVE  BandRank[Metrics(new[m[1]])[m[2]]] >= rank
    <3>1. m[1] \in Rooms /\ m[2] \in MetricKeys
      BY DEF WithData
    <3>2. CASE m[1] = r
      <4>1. BandRank[Metrics(old[r])[m[2]]] <= BandRank[Metrics(new[r])[m[2]]]
        BY <3>1 DEF Worse
      <4>2. Metrics(old[r])[m[2]] \in Bands /\ Metrics(new[r])[m[2]] \in Bands
        BY <1>1, <2>1, <3>2, MetricOfType
      <4>3. \A b \in Bands : BandRank[b] \in Nat
        BY Ranks DEF Bands
      <4> QED BY <2>1, <3>2, <4>1, <4>2, <4>3
    <3>3. CASE m[1] # r
      BY <2>1, <3>1, <3>3
    <3> QED BY <3>2, <3>3
  <2>2. AtLeast(old, rank) \subseteq AtLeast(new, rank)
    BY <1>1, <2>1 DEF AtLeast
  <2>3. IsFiniteSet(AtLeast(new, rank))
    BY CountsFinite DEF AtLeast
  <2> QED BY <2>2, <2>3, FS_Subset, FS_CardinalityType
<1>3. /\ TotalPenalty(old) \in Nat /\ TotalPenalty(new) \in Nat
      /\ TotalPenalty(old) <= TotalPenalty(new)
  BY <1>2, TotalByRank
<1> DEFINE n == Cardinality(WithData(old))
<1>4. n \in Nat
  BY MetricsFinite
<1>5. CASE n > 1
  BY <1>1, <1>3, <1>4, <1>5, ShareIsMonotone DEF AirPenalty
<1>6. CASE ~(n > 1)
  BY <1>1, <1>3, <1>6 DEF AirPenalty
<1> QED BY <1>5, <1>6

LEMMA AlertPenaltyType ==
  ASSUME NEW active \in Seq(AlertKinds)
  PROVE  AlertPenalty(active) \in Int
<1> DEFINE of(s) == {i \in DOMAIN active : active[i].severity = s}
<1>1. IsFiniteSet(DOMAIN active)
  <2>1. PICK n \in Nat : DOMAIN active = 1..n
    OBVIOUS
  <2> QED BY <2>1, FS_Interval
<1>2. \A s : of(s) \in SUBSET DOMAIN active
  OBVIOUS
<1> DEFINE count(s) == Cardinality(of(s))
<1>3. \A s : count(s) \in Nat
  BY <1>1, <1>2, FS_Subset, FS_CardinalityType
<1>4. AlertPenalty(active)
        = 18 * count("CRITICAL") + 10 * count("WARNING") + 4 * count("INFO")
  BY DEF AlertPenalty
<1> HIDE DEF count
<1> QED BY <1>3, <1>4

(* A reading that is as bad or worse in every metric never raises the score *)
(* of the home, however many rooms share in the average, whatever the       *)
(* rounding does and whatever alerts there are (computeHomeHealth).          *)
THEOREM HomeWorseAirNeverScoresBetter == Spec => WorseAirNeverScoresBetter
<1> DEFINE A == \A r \in Rooms : GetsWorse(r) =>
                  ComputeHomeHealth(readingsByRoom', alerts).score <= health.score
<1>1. TypeOK /\ TypeOK' /\ [Next]_vars => [A]_vars
  <2> SUFFICES ASSUME TypeOK, TypeOK', NEW r \in Rooms, GetsWorse(r)
               PROVE  ComputeHomeHealth(readingsByRoom', alerts).score <= health.score
    OBVIOUS
  <2>1. /\ readingsByRoom \in [Rooms -> Reading \cup {Null}]
        /\ readingsByRoom' \in [Rooms -> Reading \cup {Null}]
        /\ alerts \in Seq(AlertKinds)
    BY SamplesAssumption DEF TypeOK
  <2>2. /\ readingsByRoom[r] # Null /\ readingsByRoom'[r] # Null
        /\ Worse(readingsByRoom[r], readingsByRoom'[r])
        /\ \A q \in Rooms \ {r} : readingsByRoom'[q] = readingsByRoom[q]
    BY <2>1 DEF GetsWorse
  <2>3. PICK old \in [Rooms -> Reading \cup {Null}],
             new \in [Rooms -> Reading \cup {Null}],
             active \in Seq(AlertKinds) :
          old = readingsByRoom /\ new = readingsByRoom' /\ active = alerts
    BY <2>1
  <2>4. /\ AirPenalty(old) \in Int /\ AirPenalty(new) \in Int
        /\ AirPenalty(old) <= AirPenalty(new)
    BY <2>2, <2>3, AirPenaltyIsMonotone
  <2>5. AlertPenalty(active) \in Int
    BY AlertPenaltyType
  <2>6. Clamp(100 - AirPenalty(new) - AlertPenalty(active))
          <= Clamp(100 - AirPenalty(old) - AlertPenalty(active))
    BY <2>4, <2>5 DEF Clamp
  <2>7. WithData(old) # {} /\ WithData(new) # {}
    BY <2>2, <2>3 DEF WithData
  <2>8. ComputeHomeHealth(new, active).score <= ComputeHomeHealth(old, active).score
    BY <2>6, <2>7 DEF ComputeHomeHealth
  <2> QED BY <2>3, <2>8 DEF health
<1> QED BY <1>1, HomeTypes, PTL DEF Spec, WorseAirNeverScoresBetter
=============================================================================
