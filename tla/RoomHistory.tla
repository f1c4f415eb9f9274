---------------------------- MODULE RoomHistory -----------------------------
(***************************************************************************)
(* What the page of a room makes of the readings it has loaded: the value  *)
(* "now" of a metric, its range over the last 24 hours and its chart, over *)
(* all sensors of the room (the overview) or for the selected one.  "Now"  *)
(* and the history come from two requests, which home-api answers at two   *)
(* moments, while readings go on to arrive, also late ones.                *)
(*                                                                         *)
(* A reading has an id, in the order of arrival, the tick at which it was  *)
(* observed, two ticks to the second, and the value of the one metric that *)
(* the model follows, or Null.  An occupancy event has the same shape.     *)
(***************************************************************************)
EXTENDS DashboardNames, Integers, FiniteSets, Sequences, SequencesExt

CONSTANTS Values,        \* what a metric measures: integers
          Ticks,         \* when readings are observed
          RecentLimit,   \* of the newest readings, 50
          HistoryLimit,  \* of the readings of 24 hours, 200, or 100 of one sensor
          MaxReadings    \* bound: the readings that arrive

Row == [id : Nat, sensor : Sensors, at : Ticks, value : Values \cup {Null}]

Points == [sum : Int, count : Nat, at : Ticks, sensor : Sensors \cup {Null}]

ASSUME NoRowAssumption == Null \notin Values \cup Nat \cup Row \cup Points
ASSUME ValuesAssumption == Values \subseteq Int
ASSUME TicksAssumption == Ticks \subseteq Nat
ASSUME LimitsAssumption ==
  RecentLimit \in Nat \ {0} /\ HistoryLimit \in Nat /\ RecentLimit <= HistoryLimit

VARIABLES
  readings,    \* of the room, in home-api
  present,     \* the environment sensors of the room, as the load has read them
  selected,    \* the selected sensor, or Null
  from,        \* the begin of the last 24 hours, by the clock of the browser
  nowAt,       \* the readings that had arrived when the request for "now" was
               \* answered, by their number; Null: it was not
  historyAt    \* the same for the history

historyVars == <<readings, present, selected, from, nowAt, historyAt>>

loadVars == <<present, selected, from, nowAt, historyAt>>

(* No reading yet, and a load is under way. *)
HistoryInit ==
  /\ readings = {}
  /\ present \in SUBSET Sensors /\ selected \in present \cup {Null}
  /\ from \in Ticks
  /\ nowAt = Null /\ historyAt = Null

Arrive(sensor, at, value) ==
  /\ Cardinality(readings) < MaxReadings
  /\ readings' = readings \cup {[id |-> Cardinality(readings) + 1,
                                 sensor |-> sensor, at |-> at, value |-> value]}
  /\ UNCHANGED loadVars

AnswerNow ==
  /\ nowAt = Null /\ nowAt' = Cardinality(readings)
  /\ UNCHANGED <<readings, present, selected, from, historyAt>>

AnswerHistory ==
  /\ historyAt = Null /\ historyAt' = Cardinality(readings)
  /\ UNCHANGED <<readings, present, selected, from, nowAt>>

Loaded == nowAt # Null /\ historyAt # Null

(* The next load: the selection and the sensors of the room may be others. *)
LoadAgain ==
  /\ Loaded
  /\ present' \in SUBSET Sensors /\ selected' \in present' \cup {Null}
  /\ from' \in Ticks
  /\ nowAt' = Null /\ historyAt' = Null
  /\ UNCHANGED readings

HistoryNext ==
  \/ \E s \in Sensors, at \in Ticks, value \in Values \cup {Null} : Arrive(s, at, value)
  \/ AnswerNow \/ AnswerHistory \/ LoadAgain

HistorySpec == HistoryInit /\ [][HistoryNext]_historyVars

-----------------------------------------------------------------------------
(* The pages that home-api answers: the newest first.                      *)

Newer(x, y) == x.at > y.at \/ (x.at = y.at /\ x.id > y.id)

NewestFirst(rows, limit) ==
  LET place(r) == 1 + Cardinality({x \in rows : Newer(x, r)})
      size == Cardinality(rows)
  IN [i \in 1 .. IF size < limit THEN size ELSE limit |->
        CHOOSE r \in rows : place(r) = i]

Arrived(count) == {r \in readings : r.id <= count}
OfSelected(rows) == {r \in rows : selected \in {Null, r.sensor}}
InWindow(rows) == {r \in rows : r.at >= from}

(* recentPage, or selectedLatestPage *)
NowPage ==
  IF selected = Null THEN NewestFirst(Arrived(nowAt), RecentLimit)
                     ELSE NewestFirst(OfSelected(Arrived(nowAt)), 1)

(* Mutant of HistoryPage: as many as the request for "now" asks for. *)
HistoryOfOne == NewestFirst(OfSelected(InWindow(Arrived(historyAt))), 1)

HistoryPage == NewestFirst(OfSelected(InWindow(Arrived(historyAt))), HistoryLimit)

-----------------------------------------------------------------------------
(* The value "now".                                                        *)

(* Mutant of LatestReadingPerSensor: of sensors that have left, too. *)
LatestReadingOfAnySensor(page) ==
  {i \in DOMAIN page : \A j \in 1 .. i - 1 : page[j].sensor # page[i].sensor}

(* Where in the page the first reading is of each sensor that is there. *)
LatestReadingPerSensor(page) ==
  {i \in DOMAIN page :
     /\ page[i].sensor \in present
     /\ \A j \in 1 .. i - 1 : page[j].sensor # page[i].sensor}

(* The most recent of them that has a value; of several, the first.         *)
LatestMetricReading(page, latest) ==
  LET valued == {i \in latest : page[i].value # Null}
      first(i) == \A j \in valued : page[j].at < page[i].at
                                      \/ (page[j].at = page[i].at /\ i <= j)
  IN IF valued = {} THEN Null ELSE page[CHOOSE i \in valued : first(i)]

(* The reading whose value is shown, or Null: a dash.                       *)
CurrentReading ==
  IF selected = Null
  THEN LatestMetricReading(NowPage, LatestReadingPerSensor(NowPage))
  ELSE IF NowPage = <<>> \/ NowPage[1].value = Null THEN Null ELSE NowPage[1]

-----------------------------------------------------------------------------
(* The points of the chart, each under its key: they are drawn in the order *)
(* of their keys, from the oldest to the newest.                            *)

Second(r) == r.at \div 2

Point(r) == [sum |-> r.value, count |-> 1, at |-> r.at, sensor |-> r.sensor]

(* From the last row of the page to the first.                              *)
MetricSeries(page) ==
  [k \in {-i : i \in {j \in DOMAIN page : page[j].value # Null}} |-> Point(page[-k])]

(* Mutant of AddTo: a bucket counts what it adds only once. *)
AddUncounted(bucket, r) ==
  [sum |-> bucket.sum + r.value, count |-> bucket.count, sensor |-> Null,
   at |-> IF r.at > bucket.at THEN r.at ELSE bucket.at]

(* Another reading of the same second. *)
AddTo(bucket, r) ==
  [sum |-> bucket.sum + r.value, count |-> bucket.count + 1, sensor |-> Null,
   at |-> IF r.at > bucket.at THEN r.at ELSE bucket.at]

Put(buckets, r) ==
  IF r.value = Null THEN buckets
  ELSE [buckets EXCEPT ![Second(r)] = IF @ = Null THEN Point(r) ELSE AddTo(@, r)]

(* By the second.                                                           *)
OverviewMetricSeries(page) ==
  LET none == [s \in {Second(r) : r \in ToSet(page)} |-> Null]
      buckets == FoldLeft(Put, none, page)
  IN [s \in {t \in DOMAIN buckets : buckets[t] # Null} |-> buckets[s]]

Series ==
  IF selected = Null THEN OverviewMetricSeries(HistoryPage) ELSE MetricSeries(HistoryPage)

(* seriesStats: some point is not above v, and some is not below.           *)
InRange(v, points) ==
  /\ \E i \in DOMAIN points : points[i].sum <= v * points[i].count
  /\ \E i \in DOMAIN points : v * points[i].count <= points[i].sum

-----------------------------------------------------------------------------
(* Presence and openings: the latest event of each sensor.                 *)

EventPage == NewestFirst(InWindow(Arrived(nowAt)), RecentLimit)

(* Mutant of LatestOccupancyBySensor: a later entry replaces an earlier. *)
LastOccupancyBySensor(page) ==
  [s \in Sensors |->
     LET of == {i \in DOMAIN page : page[i].sensor = s}
     IN IF of = {} THEN Null ELSE page[CHOOSE i \in of : \A j \in of : i >= j]]

LatestOccupancyBySensor(page) ==
  [s \in Sensors |->
     LET of == {i \in DOMAIN page : page[i].sensor = s}
     IN IF of = {} THEN Null ELSE page[CHOOSE i \in of : \A j \in of : i <= j]]

-----------------------------------------------------------------------------
(* The overview shows a sensor of the room, and no older value than need    *)
(* be: a newer one of a sensor that is there is passed over only if a later *)
(* reading of that sensor came without a value; a dash is shown only if     *)
(* each value is hidden so or stands behind a full page of newer readings.  *)
(* The page itself says "latest value per metric across sensors"            *)
(* (RoomAirView.tsx:227), without these exceptions.                         *)
NowIsNewest ==
  Loaded /\ selected = Null =>
    LET shown == CurrentReading
        rows == Arrived(nowAt)
        hidden(y) == \E z \in rows : z.sensor = y.sensor /\ z.value = Null /\ Newer(z, y)
        crowdedOut(y) == Cardinality({z \in rows : Newer(z, y)}) >= RecentLimit
    IN /\ shown # Null => shown.sensor \in present
       /\ \A y \in rows : y.sensor \in present /\ y.value # Null =>
            IF shown = Null THEN hidden(y) \/ crowdedOut(y)
                            ELSE Newer(y, shown) => hidden(y)

SumOfValues(rows) == FoldSet(LAMBDA r, sum : sum + r.value, 0, rows)

(* The chart of the overview has one point for each second in which the     *)
(* history has a value: the average of all of them, whatever their sensors, *)
(* at the last of their times, in the order of time (overviewMetricSeries). *)
(* That is what the code does and not what its comments say: the chart      *)
(* "stays on one device" (RoomDetail.tsx:44, roomContext.ts:19) and does    *)
(* not mix every sensor of the room (roomDetail.ts:61-65).                  *)
ChartAveragesEachSecond ==
  Loaded /\ selected = Null =>
    LET points == Series
        valued == {r \in ToSet(HistoryPage) : r.value # Null}
        within(s) == {r \in valued : Second(r) = s}
    IN /\ DOMAIN points = {Second(r) : r \in valued}
       /\ \A s \in DOMAIN points :
            /\ points[s].count = Cardinality(within(s))
            /\ points[s].sum = SumOfValues(within(s))
            /\ points[s].at \div 2 = s
            /\ \A r \in within(s) : r.at <= points[s].at

(* The 24-hour range includes the value that is shown above it, unless that *)
(* is older than 24 hours, was averaged with others of its second, or the   *)
(* two requests were answered at different moments.                         *)
RangeCoversNow ==
  Loaded /\ nowAt = historyAt =>
    LET x == CurrentReading
        alone == selected = Null => \A r \in readings \ {x} : Second(r) # Second(x)
    IN x # Null /\ x.at >= from /\ alone => InRange(x.value, Series)

(* A sensor has "No events yet" only if it had none in 24 hours or a full   *)
(* page of newer ones, of whatever sensors, hides them; the state that is   *)
(* shown is that of its newest event.                                       *)
ActivityShowsNewest ==
  Loaded =>
    LET latest == LatestOccupancyBySensor(EventPage)
        events(s) == {r \in InWindow(Arrived(nowAt)) : r.sensor = s}
        newer(y) == {z \in InWindow(Arrived(nowAt)) : Newer(z, y)}
    IN \A s \in Sensors :
         IF latest[s] = Null
         THEN \A y \in events(s) : Cardinality(newer(y)) >= RecentLimit
         ELSE \A y \in events(s) : ~Newer(y, latest[s])
=============================================================================
