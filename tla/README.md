# Breathing House, specified in TLA+

TLA+ modules for the parts of Breathing House in which the order of events
matters, the TLC configurations that check them on small instances, and proofs
that TLAPS checks for instances of any size. The source of truth is the code
under `src/`; a definition that stands for code is listed with its lines in
`PROJECT.json`, under `map`.

Check a configuration, or the proofs, from this directory:

```
tlc -workers 2 -config ingest.cfg MCMonitorIngest.tla
tlapm MonitorIngestProofs.tla
```

## 1. The system

Sensors publish over MQTT to a broker on a Raspberry Pi. The collector forwards
what it hears to Kafka, two monitors store it in PostgreSQL, home-api serves
it, watches it for alerts and keeps the registry of rooms and sensors, and a
dashboard shows it.

```
sensors --MQTT--> gateway (Pi) --MQTT--> sensors-data-collector
   sensors-data-collector --Kafka sensor-data--> environment-monitor --+
                          --Kafka event-data---> occupancy-monitor ----+--> PostgreSQL
                          --Kafka status-data--> home-api -------------+       |
   browser (home-dashboard) --HTTP--> home-api <------- readings, rooms, alerts +
   browser (home-dashboard) --HTTP--> gateway (pairing)
```

| Component | State it keeps | Operations | Shares with others |
| :-- | :-- | :-- | :-- |
| environment-monitor, occupancy-monitor (Go) | consumer group offsets, partitions owned, records in hand; readiness flags | poll, decode, persist in a transaction, commit the offset, retry; two readiness goroutines | reads and registers `home_api.sensor`, appends to the reading and event tables |
| home-api: sensor registry and rooms (Java) | `home_api.room`, `home_api.sensor` | pair, unpair, rename, assign, unassign; create, update, delete a room | calls the alert handler inside its transactions |
| home-api: alerts | `home_api.alert`, `home_api.alert_state`, the loaded configuration | a cycle every 10 s over all rules; re-evaluation when a sensor leaves a room; reload of the rule file | reads the newest readings under the current assignments |
| home-api: gateway status | `home_api.gateway_heartbeat` | consume a heartbeat, retry, answer whether the gateway is online | Kafka `status-data` |
| home-api: history | none | paged queries | reads the monitors' tables |
| sensors-data-collector (Java) | MQTT session, Kafka producer buffer | connect, subscribe, transform, send, dead letter | MQTT, three Kafka topics and the dead-letter topic |
| gateway (Python) | the pairing session, the running scan, the MQTT connection | heartbeat; `POST /scan`, `GET /candidates`, `POST /admit` | BLE, the firewall's MAC list |
| home-dashboard (React) | what each page has loaded, what it has asked for, what is selected, edited and busy | load on mount, every 30 s and on demand; select, filter, load more; scan, accept, unpair; create, edit, assign, remove | home-api, gateway |
| deployment, scripts | manifests | none at run time | replica counts, update strategy |

### What is hard in it, and what would make it correct

* **Ingest.** A record is delivered at least once: the process may end, lose its
  partition to another member, or lose an acknowledgement, between the database
  transaction and the offset commit. Correct means: one row per event, never
  rewritten, in order, under a room the sensor had; no offset committed past a
  record that has no row; every event stored in the end.
* **Alerts and assignments.** The evaluator works statement by statement, without
  a transaction, on snapshots it has read before; requests move sensors and
  delete rooms meanwhile and settle alerts in their own transactions. Correct
  means: no alert outlives what it is about, none appears for a room the sensor
  has left, and an alert agrees with its sensor once the sensor stays put.
* **Hold durations.** The pending state is read, changed and written without a
  lock by the scheduler and by requests, under rules that may be edited. Correct
  means: no alert before its rule has held for its duration, and an alert that
  agrees with the rule file and the readings once these stay put.
* **Heartbeats and the collector.** At-least-once on one hop, fire and forget on
  the other; online is a matter of the age of the newest row.
* **Pairing.** HTTP threads, an event loop thread and callbacks that outlive the
  scan which registered them share one session.
* **Pages of the dashboard.** A page starts a request whenever it is mounted, its
  timer fires or somebody clicks, and stores whichever answer comes. Some pages number
  their loads, some do not. Correct means: what is shown is what was asked for last, at
  once or in the end; "loading" and disabled controls have something under way that ends
  them; what the user chose last is what happens.
* **What the dashboard says.** Thresholds stand in the bands, the labels and the advice
  of `comfort.ts`, values from several sensors are merged, averaged and cut off by a
  limit. Correct means: bad air is told, worse air never looks better, the value now is
  the newest, and its range and chart agree with it.
* **Pools and readiness.** `pair` takes a second connection while it holds one;
  readiness flags are written by several goroutines.

The hazards, each at its line, are listed in `PROJECT.json` under `hazards`.

## 2. Modules

| Module | What it is |
| :-- | :-- |
| `IngestLedger` | what a monitor promises: the abstract specification |
| `MonitorIngest` | the consumer loop of both monitors, with Kafka's group coordinator and client as their surroundings |
| `MonitorIngestProofs` | theorems about it |
| `MCMonitorIngest` | symmetry for TLC |
| `RoomAlerts` | the alert evaluators against the requests that move sensors and delete rooms |
| `RoomAlertsProofs` | theorems about it |
| `AlertHold` | hold durations: scheduled cycles, the state row, reloads of the rule file |
| `AlertHoldProofs` | theorems about it |
| `MCAlertHold` | rules for TLC |
| `Heartbeats` | whether the gateway is online: its heartbeats through the broker, the collector, Kafka and home-api's table |
| `HeartbeatsProofs` | theorems about it |
| `Pairing` | the pairing service of the gateway: requests, scans, probes, one session |
| `PairingProofs` | theorems about it |
| `MCPairing` | boards for TLC |
| `ComfortRules` | what the dashboard says of a reading, a room and the home: pure operators |
| `HomeOverview` | the start page, which applies them to what it has loaded |
| `MCHomeOverview`, `HomeOverviewProofs` | readings at the borders of the bands for TLC; theorems |
| `DashboardNames` | rooms and sensors, shared by the pages |
| `RoomDetail` | the page of a room, whose loads have generations |
| `RoomPage` | what that page promises: the abstract specification, with one question at a time |
| `SensorDetail` | the page of a sensor, whose loads have none |
| `AlertsPage` | the list of alerts, with filters and Load more |
| `AlertDrawer` | the details of one alert |
| `Dashboard` | the four of them behind the router |
| `MCDashboard` | filters of the list of alerts, for TLC |
| `SensorsPage` | the list of sensors, the scan dialog, Accept and Unpair |
| `SetupPage` | the page that organizes the home |
| `Devices` | the two of them behind the router |
| `DevicesProofs` | theorems about them |
| `RoomHistory` | the value now, its range, its chart and the latest events, from the pages of rows that a load brings |
| `DashboardProofs` | theorems about the pages of `Dashboard`, and about `RoomHistory` |

### 2.1 MonitorIngest and IngestLedger

The two Go monitors have the same loop (`internal/kafka/consumer/*.go`) and the
same storage layer up to the columns of the row; `map` therefore names lines of
both. `Members` are processes of the group, more than one while a rolling
update overlaps pods. The partition log, the committed offset, the ownership of
partitions and the client's fetch position are the broker's; `pc`, `batch` and
`current` say where `processFetches` is, and `held` what the open transaction
has read of the sensor.

| Action | Code |
| :-- | :-- |
| `Poll`, `FetchError` | `PollFetches`, and the early return of `processFetches` on a fetch error |
| `NextRecord`, `BatchFinished` | the `for` over the records; a record that does not decode goes straight to its commit |
| `LookUpRoom` | `persistEvent` / `persistReading`: `Begin`, upsert of the sensor, `SELECT room_id` |
| `Persist`, `PersistUnacknowledged`, `PersistFails` | the insert and the commit: it succeeds; it succeeds and the loop sees an error; it is rolled back |
| `CommitOffset`, `CommitUnacknowledged` | `commitRecordWithRetry`; an attempt that does nothing is a stutter |
| `Stop`, `Start`, `Rebalance` | a process ends (crash, signal) and starts; the coordinator hands out a partition at the committed offset |
| `Produce`, `MoveSensor` | the collector; home-api's assign and unassign |

The transaction is split where another transaction can come between: the room
is read without a lock (`READ COMMITTED`), so a row may be written under a room
the sensor has left since. `IngestLedger` says so: `Look` notes the room, `Write`
uses what some attempt has noted. Every step of `MonitorIngest` is a step of the
ledger or leaves it alone, with `looked` mapped to what open transactions hold.

Not in the model: the columns of a row, the registration of an unknown sensor
(in `RoomAlerts!Report`), a commit that the server finishes only after the
client has begun its next attempt.

### 2.2 RoomAlerts

One evaluator per replica goes through the rules: one per sensor and one
`COMPOSITE`, all with rooms `*`. Each SQL statement of the cycle is an action
(`Load` per sensor type, `SaveCleared` / `SavePending` / `SaveElapsed`,
`ResolveActiveAlert`, `HasActiveAlert`, `CreateAlert`), because each commits on
its own. The transactions of `SensorService` have two steps, since they hold the
sensor's row lock from `lockCurrentRoom` on: `BeginMove` reads what the alert
handler reads, `CommitMove` is what becomes visible. `deleteRoom` likewise
(`BeginDelete`, `CommitDelete`). A deletion that has resolved rows keeps them
locked (`Locked`); a move that must write such a row, and a deletion that must
take a sensor out of the room while a move holds it, wait for each other, which
`Rollback` ends as the database does.

Whether the hold duration has elapsed is a choice (`SavePending` or
`SaveElapsed`). `strays` is a history variable: the instances that were set, or
left set, with nothing that would come back to them. Not in the model: rules
with a list of rooms (they are visited whatever the snapshots are), edits of the
rules, rows without a sensor identity, renames.

### 2.3 AlertHold

`RoomAlerts` leaves open whether a hold duration has passed; `AlertHold` is about
nothing else. It follows one instance of a `THRESHOLD` or `BOOLEAN_STATE` rule, of a
sensor that stays in its room. `file` is what `ALERT_CONFIG_PATH` holds: a version of
the rule (the fingerprint), or something that does not validate. Versions differ in
the values they match and in their durations; some are disabled, or leave the room
out (`Valid \ Enabled`), some are about sensors of another type
(`Enabled \ Visiting`).

| Action | Code |
| :-- | :-- |
| `Start`, `Cycle` | `initialize`; `reloadIfChanged`, then `clock.instant()` |
| `Retire`, `Forget` | the two `UPDATE`s of `resolveAlertsForInactiveRules` (or `resolveAlertsOutsideRooms`) |
| `Look`, `LookInVain` | `latestEnvironment` / `latestOccupancy` |
| `FindState` | `findState` and the comparison of fingerprints |
| `SaveCleared`, `SavePending`, `SaveElapsed` | `saveState`, and what follows it in `evaluateInstance` |
| `ResolveActiveAlert`, `TouchActiveAlert`, `NoActiveAlert`, `CreateAlert` | the statements on `home_api.alert` |
| `Crash`, `Fail` | the process ends; a statement throws, the rest of the rule is left out |
| `Tick`, `Observe`, `Edit` | time; a reading that becomes the newest, observed a while ago or by a clock ahead; the ConfigMap |

"The condition has held" is a statement about readings that some cycle has looked
at, since the code looks at nothing else: `lapsed[f]` is the latest time of a reading
that a cycle saw not to meet the rule of `f`, or saw under another version. `overtaken`
and `tainted` record that another evaluator saved the row during a cycle. All three
are history variables. Not in the model: `STALE_DATA` rules (no hold state of their
own: the delay is zero), several instances, a `maxDataAge` that is edited.

### 2.4 Pairing

`ThreadingHTTPServer` serves each request on a thread of its own, and all scans and
GATT exchanges run on one event loop. `_session` is guarded by `_lock`, so what is
done under the lock is one action; `_scan_future` is not guarded, so every access to
it is one.

| Action | Code |
| :-- | :-- |
| `BeginScan` ... `InstallSession` | `pairing.start_scan`: the deadline; `cancel_scan` in three steps; `_submit`, the assignment of `_scan_future`; only then the new `_session` |
| `CancelNothing` | another thread has cleared `_scan_future` since it was looked at: `AttributeError` |
| `Listen`, `Complete`, `StopScan`, `ScanFails` | `_scan_until`: it begins, its deadline passes, it is cancelled, the scanner fails |
| `BeginProbe`, `EndProbe` | `_publish` of a board's first advertisement, before and after the `await` of `_fill_from_gatt` |
| `Hear` | `_publish` of any other advertisement |
| `LookUp`, `SignalBoard`, `AllowMac`, `RecordAdmitted`, `AdmitFails` | `admit`, `admit_device`, `signal_admit`, `allow_wifi_mac` |

A board is in `Beacons` when it only sends `TYPE:id:MAC` and cannot be connected to.
What an advertisement tells, and what `CHAR_INFO` tells, are the constants `AdvertId`
and `GattId`. `signalled` and `allowed` are the world outside: boards that got the
admit write, addresses the firewall lets through. `signal_admit` reads the Wi-Fi MAC from
`CHAR_INFO`; when that fails, or it has no `wifiMac`, it takes the BLE address for it and goes
on. `SignalBoard` has both outcomes ("allow", "allowBle"), and `AllowMac` lets through one
address or the other (`PickedMacs`), so that `AdmittedCanPublishOrMacUnread` tells an admitted
board that can publish (`CanPublish`) from one that was let through under the wrong address
(`MacUnread`). `raced` is a history variable. Not in the model: `type` and `rssi`, two boards
with one MAC, a board whose BLE address is its Wi-Fi MAC (it could publish all the same), a
beacon whose MAC is not in its advertisement (it would be asked over GATT), an advertisement
with no sensorId (it is dropped), a write that reaches the board after the request has
given up.

### 2.5 Heartbeats

One heartbeat goes from `heartbeat.py` to the broker, from there to the collector, which
stamps it with its own time (`createStatus`) and hands it to the Kafka producer, and from
the partition of `status-data` to home-api's table. `mqtt`, `unacked` and `log` are what
is on each of the three ways; `log` begins at the committed offset. Time is counted in
intervals of heartbeats, as ages.

| Action | Code |
| :-- | :-- |
| `GatewayStarts`, `GatewayStops`, `Beat` | `main` of `heartbeat.py`; a publication that is not confirmed in time may be lost |
| `Connects`, `Disconnects`, `CollectorCrashes` | `startMqttSubscription`, `onConnected` and its subscription, which may be refused (`deaf`) |
| `Collect`, `SendConfirmed`, `SendFails` | `handle`, `send`: a blank status becomes a dead letter; the MQTT message is acknowledged before Kafka has confirmed the record |
| `Poll`, `SkipInvalid`, `Insert`, `CommitOffsets` | `consume`: a record the parser rejects is acknowledged and passed over, one that is there is ignored, acknowledgements are committed behind the batch |
| `LosesPartition`, `Rejoins`, `Restarts` | a consumer that retries for too long, and one that ends, are followed by one that starts at the committed offset |
| `OtherPublishes`, `ForeignRecord` | others write to the topics |

`heard` is a history variable: when the collector last had a valid heartbeat. `calm`
says that nothing fails, starts or stops; it comes and goes. A record that the database
refuses ("refused": it is valid for the parser, and its time is beyond the range of
`TIMESTAMPTZ`, say) is never inserted. Not in the model: the readings that pass the same
collector, several partitions or instances of home-api, clocks that differ.

### 2.6 The dashboard: pages that show data

`useAutoRefresh` calls the `load` of a page when the page is mounted, when `load`
changes (another room, sensor or filter in the address), every 30 seconds, and on
Refresh. Nothing keeps two calls from overlapping. A load is a member of a set or
sequence of calls that have not returned; any of them may be the next to. `view`,
`sensorView`, `listed` and `detail` are what was stored last, each with the question that
brought it; what home-api answers to a question is free, failures included, but for
the alerts (below).

| Module | Code | In short |
| :-- | :-- | :-- |
| `RoomDetail` | `loadDetail` of `RoomDetail.tsx` | `StartLoad` takes a generation; `FirstRound` reads the sensors, may drop the selection and asks for the history; `SecondRound`, `NotFound`, `LoadFails` store, all for the newest generation only; `ReturnStale` for the others |
| `SensorDetail` | `SensorDetailPage.tsx` | `StoreSensor`, `SensorNotFound`, `SensorFails` of any load; `Unpair` |
| `AlertsPage` | `AlertsPage.tsx`, `findAlerts` of home-api | `StoreAlerts` replaces the list, `AppendMore` appends to whatever is listed the alert that stands at its offset in the table as it is then; `torn` (history) says that these two crossed |
| `AlertDrawer` | the effect of `AlertDrawer.tsx` | a question is cancelled when the drawer closes |
| `Dashboard` | `App.tsx` | one page is mounted at a time, from its initial state; what others asked for comes to nothing, but a DELETE that succeeds calls `navigate('/sensors')` from wherever the user is |

`RoomPage` is the page of a room without generations and without a set of loads: there is
one question, or none, a new one takes its place, and what comes of it is the only thing that
touches the page. `RoomDetail` implements it (`OneQuestion`): the newest load in flight is the
question (`Standing`), what was stored is what is shown, and the return of any other load is a
step that changes nothing there. This is what `loadGenerationRef` is for, in one property:
late answers, a selection or a room that changes between the two rounds and failures of old
loads are all covered, because the abstract page has no such things.

The list of alerts is read page by page from a table that home-api goes on changing.
`changes` is that table, as the log of what was done to it: `RaiseAlert` and `ResolveAlert`
(`createAlert`, `resolveActiveAlert`) append to it. An alert is the place where it was raised,
a version of the table is a length of the log, and `Matching`, `AtOffset` and `HasMore` are the
`WHERE`, `ORDER BY .. LIMIT .. OFFSET` and the extra row of `findAlerts`, at one version. Load
more is answered from a version between its click and the answer. A load may be answered from
any version so far: that is more than the code allows, and costs nothing, since a load
replaces the whole list. `raised` and `resolved` (history) say that the table of the filter has gained,
or lost, an alert between two pages of the list. A page holds one alert (50 in the code); the
order of the log stands for that of `triggered_at` and `id`, which two evaluators at once
could mix up by the time a cycle takes. Several alerts that one statement resolves are resolved
one by one.

The drawer is a page of its own in `Dashboard`: it shares nothing with the list, or the
room, that it stands on except the alert that is selected. The tabs of the room page show
parts of one state, and the badge with the number of alerts is a load of its own that
nothing else reads; both are left out.

### 2.7 The dashboard: pages that change the home

`SensorsPage` has home-api's set of known sensors and the state of the gateway's scan
beside the page, since two clients may use either. A call is a record in a slot: whose
it is, the step it waits for, and the answer that was read and has not arrived.
`Accept`, for one, goes through "pair" (unless the sensor is in the list on the page),
"admit", "candidates" and "list". `removed` and `gone` are history: an unpairing that the
list does not show yet.

`SetupPage` has its eight kinds of calls in slots too. A handler makes a request
(`RequestSucceeds`, `RequestFails`), then loads the page (`ListArrives`, `ListIsLost`), then
clears the id that disabled its button (`EndSetupCall`). There is one such id for each kind
of handler. The model keeps the room of one sensor (`watched`); `home` is home-api's, `choice`
what the user wanted, `interfered` that another sensor's handler came in between. The
lists on the page are free, since they are old as soon as they are shown.

`Devices` mounts one or the other. The calls of a page that was left are those of
another client.

Validation of names, the tabs, the confirmation dialogs and the texts of errors are left
out. `handleDeleteRoom` also closes the form of the room it removes, which never happens:
Remove is shown only while the form is not.

### 2.8 The dashboard: what is said

`ComfortRules` translates `comfort.ts` and the parts of `overview.ts` and `ui.ts` that
depend on it. Temperatures and humidities are tenths; a text is the name of what it
says, and the message of an alert is the first of the tests that it passes.
`HomeOverview` applies them to a page whose loads differ from the last in one reading, one
alert or the gateway, so that a step says what one change does. Loads of this page do
not overlap in the model.

`RoomHistory` follows one metric (or one kind of event) through the two requests of a
load of the room page (`HistorySpec`): `NewestFirst` is how home-api answers, each row at the
place that the number of newer ones gives it; `LatestReadingPerSensor`,
`LatestMetricReading`, `OverviewMetricSeries` and `LatestOccupancyBySensor` are those of
`roomDetail.ts`. A bucket of the chart keeps the sum and the count, so that its average
is compared without a division; `Put` is one turn of the loop over the page, a fold from the
first row to the last. A chart is a function from the keys of its points to the points, drawn
in the order of the keys: seconds in the overview, places from the last row to the first for
one sensor.

## 3. Runs

| Run | Instance | What it shows |
| :-- | :-- | :-- |
| `ingest` | 2 members, 1 partition, 2 records, 2 rooms, 3 crashes or rebalances | types, `CommittedOnlyAfterInsert`, `StoredInOrder`, the refinement `LedgerSpec`, and `EventuallyStored` |
| `ingest_partitions` | 1 member, 2 partitions, 2 records, 1 fault, polls that fail with records in hand | `NothingElseLost`: only what such a poll threw away is missing |
| `ingest_fetch_error` | the same, without symmetry | violation of `CommittedOnlyAfterInsert` |
| `alerts_follow` | 1 sensor, 2 rooms, `ALL`, 2 requests, 1 failure | types, `NothingElseLeft`, `FollowsSensor` |
| `hold` | 1 evaluator, 4 files, 3 values, time 0..3, 1 crash or failure | `NoEarlyAlert`, `FollowsReading` |
| `hold_overlap` | 2 evaluators, 2 versions, 2 values, time 0..2 | `EarlyOnlyWhenOvertaken` |
| `pairing` | 2 threads, 2 scans, a board with GATT and a beacon | types, `AdmittedNotListed`, `AdmittedCanPublishOrMacUnread`, `SupersededScansCancelled`, `HeardGetsListed` |
| `heartbeats` | a timeout of 2 intervals; 3 records that no committed offset has passed, 1 message and 1 unconfirmed record | types, `OnlineIsFresh`, `CommitsOnlyStored`, `ComesOnline` |
| `home` | 2 rooms, 20 readings at the borders of the bands, 4 kinds of alerts, 2 at a time | `BadAirIsTold`, `HomeTellsBadAir`, `WorseAirNeverLooksBetter`, `WorseAirNeverScoresBetter` |
| `dashboard` | 2 rooms, 2 sensors, 4 generations, 3 room loads, 2 loads of sensor and list, 2 filters, 3 changes to the table of alerts, 2 alerts in the drawer | `ShowsSelection`, `LoadingEnds`, the refinement `OneQuestion`, `ListBreaksForCause`, `DrawerShowsSelected`, `SensorCatchesUp`, `AlertsCatchUp` |
| `devices` | 1 board, 1 room, 2 sensors, 2 calls on each page | `AcceptRegisters`, `ScanSettles`, `DisabledHasHandler`, `LastChoiceWins` |
| `room_history` | 2 sensors, 3 readings, 3 ticks in 2 seconds, pages of 2 rows | `NowIsNewest`, `ChartAveragesEachSecond`, `RangeCoversNow`, `ActivityShowsNewest` |

The passing runs end by exhausting the state space. A bound is a constant with a
name (`MaxRecords`, `MaxFaults`, `MaxRequests`, `MaxFailures`, `MaxScans`, `MaxLoads`, `Slots` and so
on) and a guard.

*Why the bounds are enough.* Two members and two records of one partition are
what it takes for an old owner to commit an older offset over a newer one while
the new owner works ahead, and three faults let the partition go away and come
back, with a crash between. Two partitions are what a fetch error needs: one
that fails, one whose records are dropped. For alerts, two rooms and one sensor cover a move between rooms that both exist, one
of them being deleted, while the evaluator works on old snapshots. What needs two
sensors (a composite rule that is true by one and not by the other, two that are taken
out at once) is left to the proof of `NothingElseLeft`, which is for any number.
For hold durations, time up to 3 with durations 1 and 2 and a maximal age of 2 lets a
hold start, be broken, start again under another version and elapse, with a reading
that goes stale in between; the proofs do not need the bounds.
For pairing, two threads and two scans are what it takes to replace the session under an
admission, to admit a sensor twice, and to take `_scan_future` from under another
request; the safety properties are proved for any number.
For heartbeats, three records let a batch of two be fetched, replayed in part, and
followed by another; ages end one past the timeout, where they make no difference.
For the pages, two loads in flight are what it takes to answer in the wrong order, and a
third one in `RoomDetail` lets a load of either round be overtaken by one that is
overtaken itself. Three changes to the table of alerts make a list of three that is in order, one
that repeats an alert because another was raised between two pages, and one that skips an alert
because another was resolved; the filters are one that resolved alerts leave and one that
they do not. One board and two calls let an unpairing come between the list and
Accept. In `SetupPage` the second call is the one that interferes; the proofs are for any
number of calls, rooms and sensors. `home` has readings next to the thresholds of each
rule; that no value falls between them is proved for all of `Int`. `room_history` has a page of two rows and three readings,
so that one row is cut off, and two ticks that share a second.
`CHECK_DEADLOCK FALSE` in the `pairing` configuration: once the scans are used up and
nothing is listed, nobody has anything to do, and a request that finds no scan left by
the bound waits at `Submit`.

### Where the code and its documents disagree

* `ingest_fetch_error`, a run. `processFetches` returns on any fetch error before it
  looks at the records that the same poll holds. The client has handed them over
  and fetches on behind them, and the next record of the partition commits an
  offset beyond them. The monitors' READMEs promise that offsets are committed
  only after a successful insert. With `PartialFetchErrors = FALSE` (a client
  that reports errors alone) the promise holds, and is proved.

The following are not runs of their own. They are the exceptions that the invariants
name (`strays` of `NothingElseLeft`; the conditions of `FollowsReading`; what
`AdmittedNotListed` does not say):

* The evaluator reads the snapshots, the sensor is unassigned and its alerts are
  settled, the evaluator inserts the alert. Nothing evaluates that instance again,
  since the sensor has no snapshot in the room. `svc/home-api/README.md:429` says that
  readings from a previous room never create room alerts.
* `unpair` calls the handler before it deletes the sensor, so that the composite rule
  is re-evaluated with the sensor still counted. When it was the last one of the room,
  the composite alert stays `ACTIVE`. The integration test covers the same case for
  `unassign` only. Two unassigns at once do the same by write skew.
* Only disabled rules, and rooms left out of a rule's list, are resolved without a
  visit. When the `sensorType`, `eventType` or `type` of a rule changes under its id,
  the cycles visit other instances, and the old ones stay `ACTIVE`.
* `_publish` reads `CHAR_INFO` for the first advertisement of an address; further ones
  are handed on under the name in the advertisement, and `_remember` compares names. A
  board that advertises the name of its computer is a candidate under two names, and
  stays one, or becomes one again, after it has been admitted under the other, while
  `test_pairing.py:84` expects an admitted device not to be relisted.
* A heartbeat that the database refuses is retried for ever (`consume` retries every
  `DataAccessException`), and those behind it are not stored: the exception `Refused` of
  `ComesOnline`. `svc/home-api/README.md:115` says that every valid heartbeat is retained.
  A collector whose subscription was refused stays deaf until it connects again.
* `updateRoom` completes a patch from a row that it has read without a lock: of two
  patches at once, one of the name and one of the description, one is undone.
  `svc/home-api/README.md:165` says that an omitted field is unchanged. This one is read
  off the code; edits of rooms are not modelled.
* `svc/gateway/README.md:75-77` says that Admit "reads the board's MQTT MAC over GATT, writes
  `1` on the admit characteristic so it may start publishing, and allows that MAC on 1883". When
  `CHAR_INFO` cannot be read, or has no `wifiMac`, `signal_admit` (`pairing_ble.py:275-283`) writes
  all the same and takes the BLE address for the MAC. The board is shown as admitted, starts
  to publish, and the firewall drops what it sends. This is the exception `MacUnread` of
  `AdmittedCanPublishOrMacUnread`; without it TLC finds a scan, a probe and an admission that
  break the property.
* The chart of the overview mixes all sensors of the room (`overviewMetricSeries`, over the
  history without a sensor that `RoomDetail.tsx:113` asks for), and that is what
  `ChartAveragesEachSecond` states. `roomDetail.ts:61-65` says: "Keep history on one
  sensor so the chart is a real time series. Do not fall back to mixing every sensor in the
  room"; `RoomDetail.tsx:44`: "Prefer AIR for the overview chart so the series stays on one
  device"; `room/roomContext.ts:19`: "Sensor used for the overview trend chart (prefer AIR)".
  `preferSensorHistory`, which would do so, is called nowhere, and `chartSensorId` only names
  a sensor in the line "Viewing ..." of a room that has one sensor now
  (`RoomAirView.tsx:228-229`), whose chart has the readings of those that have left, too. The
  comments at `roomDetail.ts:100-103` and `RoomDetail.tsx:110` and the label "All sensors" of the
  chart agree with the code.
* `RoomAirView.tsx:227` announces the "latest value per metric across sensors". A sensor's newest
  reading stands for it even if it lacks the metric: its value before is passed over, for a dash
  or for an older value of another sensor (`hidden` of `NowIsNewest`; `crowdedOut` for what is
  not among the 50 newest rows).
* The list of alerts can skip or repeat alerts until the next load, for the three causes that
  `ListBreaksForCause` names. A load, or a change of filter, comes between a click on Load more
  and its answer (`torn`). An alert is raised between two pages: the offset then points at one
  that is listed already, and some are repeated, none is skipped. Or one is resolved while the
  list shows active ones: the offset points behind one that was never listed, and some are
  skipped, none is repeated. TLC finds the property violated if any of the three is left out.
  No document promises more. An Unpair whose page was left fails without a word, or takes the
  user to the list of sensors.
* `README.md:104` calls the dashboard a static page with mock data; the code asks
  home-api and the gateway. The dashboard has no tests.

## 4. Fairness

`MonitorIngest`: weak fairness of every step of the loop, of the start of a pod
and of the coordinator handing out an unowned partition; strong fairness of
`Persist`, since an attempt that fails is made again (`persistEventWithRetry` has
no limit) and the database is assumed to let one through in the end. Nothing is
assumed of the collector, of moves or of lost acknowledgements. `EventuallyStored`
is conditional on there being no record that the database always refuses: such a
record is retried for ever, by design of the loop.

`RoomAlerts`: the evaluator runs its statements (weak fairness) and begins every
rule again and again (strong fairness of `NextRule` per rule, since a cycle goes
through all of them); a hold duration elapses; transactions end; deadlocks are
broken. A statement fails at most `MaxFailures` times.

`AlertHold`: pods are started and cycles go on (`scheduleNext` in a `finally`), weak
fairness of each. `FollowsReading` says what the alert comes to once the file and the
reading do not change any more.

`Heartbeats`: while nothing fails (`calm`), the processes work (weak fairness of `Work`),
the collector connects (HiveMQ reconnects by itself), and time goes on. `Tick` waits
then until what is on its way has arrived: an interval of ten seconds is longer than
that takes. When something does fail, nothing is assumed of either.

`Pairing`: threads and coroutines that can run do, and boards in pairing mode keep
advertising (weak fairness of `BeginProbe`, `EndProbe` and `Hear`). Deadlines, users and
failures owe nothing: `HeardGetsListed` is about a window that is long enough for the
board to be heard again.

`Dashboard`: a request is answered or fails in the end, which is said of the oldest load
of a page (weak fairness; any other may come before it), and the timer of the mounted
page goes on. `Devices`: every call goes on (weak fairness of each slot); strong fairness
of `PollCandidates`, because the browser's timer needs no slot, which is a bound of the
model: a timer that finds all slots taken asks again when one is free. Users owe
nothing. `ScanSettles`, `SensorCatchesUp` and `AlertsCatchUp` say what a page comes to that
is left alone for good, or keeps coming back to. `HomeOverview` and `RoomHistory` have
safety only.

## 5. Proofs

`MonitorIngestProofs`, for any numbers of members, partitions, rooms, records and
faults. Assumptions: `MembersAssumption`, `BoundsAssumption`, `FetchAssumption` of
`MonitorIngest`; some theorems in addition assume `PartialFetchErrors = FALSE`, and
say so.

The invariants one wants are not inductive. That what is behind the committed
offset is stored says nothing of the records between there and the fetch
position, on which the next commit will rest. `IInv` adds where they are: what
every member has `done` is settled (stored, undecodable or dropped), what an
owner has fetched is settled or still pending in its batch, a record whose commit
is due is settled, and positions stay inside the log. It is preserved although
two members may work on one partition, because each one's `done` is settled on
its own account, and a committed offset that moves back only points at records
that are settled.

| Theorem | Says |
| :-- | :-- |
| `TypeCorrect` | `[]TypeOK` |
| `NothingElseLostHolds` | `[]NothingElseLost`, from `IInv` |
| `HistoryKeptHolds` | no step changes or removes a row (no run of its own: `LedgerSpec` allows no such step either) |
| `CommittedOnlyAfterInsertHolds` | `[]CommittedOnlyAfterInsert`, if no poll drops records |
| `StoredInOrderHolds` | `[]StoredInOrder`, likewise, from `IInv` and the order of the rows |
| `ImplementsLedger` | `Spec => LedgerSpec`, likewise; it needs besides that a transaction is open only while its record is in hand |

`AlertHoldProofs`, for any evaluators, files, values, durations and times, from
`FilesAssumption`, `RuleAssumption` and `TimeAssumption`. `IInv` follows a start time
through a cycle: `lapsed` lies behind the newest reading and the clock, hence behind
the time and the snapshot of every cycle that begins; unless another evaluator saves
in between, a start that is found in the row, or computed from the snapshot, is no
earlier than the last lapse, and `now >= start + delay` carries that to the alert.

| Theorem | Says |
| :-- | :-- |
| `TypeCorrect`, `InvHolds` | `[]TypeOK`, `[]IInv` |
| `EarlyOnlyWhenOvertakenHolds` | an alert is early only when a cycle was overtaken |
| `NoEarlyAlertHolds` | a sole evaluator is never early: there `overtaken` and `tainted` stay false |

`PairingProofs`, for any threads, boards and number of scans, from `ScansAssumption`.
`AdmitInv` follows a candidate through a request: what is picked is a name its board
tells; only a board that is no beacon is asked over GATT; past the GATT write it was told;
past the firewall it is let through, under the address that was read or that stood in for it.
`StartInv` says that while no two requests race, at most one thread is in `start_scan`,
the future is cancelled before it is cleared and cleared before the next scan is
submitted.

| Theorem | Says |
| :-- | :-- |
| `TypeCorrect` | `[]TypeOK` |
| `AdmittedNotListedHolds`, `AdmittedCanPublishOrMacUnreadHolds` | from `AdmitInv` |
| `SupersededScansCancelledHolds` | from `StartInv` |

`RoomAlertsProofs`, for any sensors, rooms, replicas and numbers of requests and
failures, from `NamesAssumption`, `CombinatorAssumption` and `BoundsAssumption`.
`NothingElseLeft` needs one more fact to be inductive, `DeletionReaches`: a deletion in
progress resolves whatever is set in its room, but for what is a stray already. The rest
is that a step which takes a snapshot away from a room resolves, holds locked, or notes as
a stray what was set there.

`HeartbeatsProofs`, for any timeout and any bounds of the queues, from `TimeoutAssumption`.
`OnlineIsFresh` speaks of the row, which is the last link of a chain: `Ordered` says of each
link (what the collector holds unconfirmed, what Kafka keeps, what the table has) that no
valid record there is younger than the last heartbeat heard, and time ages all of them
alike. `CommitsOnlyStored` compares two offsets; `AcknowledgedIsDone` says what lies between
them: whatever was acknowledged is stored, or was rejected for good.

`DashboardProofs`, for any rooms, sensors, filters, alerts and numbers of loads, is about the
`Spec` of `Dashboard`: each page has an invariant that its mounting establishes and its own
steps preserve, and a step of the router is a mounting of all pages or a step of some that
leaves the others alone (`RouterSteps`). That there is a room and a filter at all follows from
`Init` (`SomeExist`).

* `RoomInv`, from `NullAssumption`. That the page shows what is selected does not follow from
  itself: generations in flight are distinct and none is above the newest, the newest load
  asks about the room and, in its second round, about the sensor that are selected now, and
  what is shown is older than the newest load while that one is in flight.
  `RoomAsksOneQuestion` uses the same invariant: since generations are distinct, the newest
  load is one load, so that the choice in `Standing` has one value, and each step maps to one of
  `RoomPage` or to none; a mounting maps to `Open`. `NoLoadAssumption` says that `Null` is
  neither a load nor a question, which a reader of the refinement mapping would take for granted.
* `AlertsInv`. Unless `torn`, the list is of one filter, and `RepeatsNone` or `SkipsNone` hold of
  it unless an alert was `raised` or `resolved` between its pages. Neither "no alert twice" nor
  "none left out" is inductive: what the next page brings depends on how many alerts of the
  table stand before the last of the list: no more than the list has before it as long as none was
  raised (`RepeatsNone`), and no fewer as long as none was resolved (`SkipsNone`). That the table has something at the offset that the list has reached if it has
  something older at all (`PlaceExists`) follows from counting. A version of the
  table stays what it was when the log grows (`MatchingStays`). Besides, at most one Load
  more waits (`OneMore`), its offset is the length of the list and its version is not older,
  unless a load has replaced the list since (`MoreContinues`).
* `DrawerInv`, from `NullAssumption` and `AlertsAssumption`: at most one request is waited for,
  and it is about the alert that is selected (`OneWaits`).

The same module proves the four properties of `RoomHistory`, of its `HistorySpec`, from
`NoRowAssumption`, `ValuesAssumption`, `TicksAssumption` and `LimitsAssumption` (a page of the
history is not shorter than one of the newest readings: 200 or 100 rows against 50 in the code).
`ReadingsInv` says that the readings are finite in number and that home-api numbers each with an
id of its own. The rest is about what is made of them.

* The pages. Of finitely many rows, ordered by time and then by id, each has a place of its own
  (`Place`), so that the first so many places are all filled and hold the newest rows
  (`HoldsNewest`). That the places are all filled follows from counting.
* The chart. `FoldExists` and `FoldUnique` say that a fold over a finite set, by any choice of
  the element that comes last, is defined and is one function: this is what lets the
  definitions of the community modules be used, which choose it. From there `SumAdds` has the sum of
  a set grow by the value of any one element, and `ChartIsFold` carries `BucketsOf` (each
  bucket has the sum, the number and the last time of the rows of its second) from one prefix of
  the page to the next. The library's induction theorems take an operator that no prover here
  can instantiate; each of these arguments is by a least counterexample instead (`FirstPlace`,
  from the well-foundedness of `<`).
* The range. A reading of a page is in the page of fewer rows too, no further behind
  (`PlaceOfFewer`): so the value now is in the history, and alone in its second it is a point.

`DevicesProofs`, for any boards, rooms, sensors and numbers of calls, is about the `Spec` of
`Devices`, by the same split into mountings and steps.

* `SensorsInv`, from `NullAssumption`. `AcceptRegisters` is about the end of a sequence of
  requests whose first, "pair", is left out if the sensor is in the list on the page. That
  list may be old: `Covers` says of the one on the page, and of every answer on its way to
  it, that what it names is registered, or was unpaired since it was read.
* `SetupInv`, from `NullAssumption` and `SetupAssumption`. `DisabledHasHandler` is inductive
  with the types: a handler that overwrites an id is itself under way, and the one that
  clears it leaves nothing disabled. `LastChoiceWins` rests on `OneMove` (without
  interference, at most one move of the sensor is under way, and the control is disabled
  meanwhile) and `OnItsWay` (what was chosen is where the sensor is, or where that move takes
  it).

`HomeOverviewProofs`, for any rooms, readings in `Int` and alerts, from `RoomListAssumption`
and `SamplesAssumption`: there is no value between the thresholds of bands, labels and
advice, the label's band is never better than the worst band of the reading, whatever alerts
there are, and the home is not called comfortable over bad air. The score is a division of a
sum of penalties over the rooms, rounded and clamped. A sum has no induction here; it is
written as a count of metrics in each band (`TotalPenalty`). When one metric moves to a
worse band, the counts of "this band or worse" do not fall, and neither does the total,
which is a sum of these counts with weights (`TotalByRank`); rounding
(`QuotientIsMonotone`) and clamping keep the order.

| Theorem | Says |
| :-- | :-- |
| `RoomAlertsTypes`, `RoomAlertsNothingElseLeft` | `[]TypeOK`, `[]NothingElseLeft`, from `LeftInv` |
| `HeartbeatsTypes`, `OnlineMeansFresh`, `CommitsPassOnlyStored` | types; `[]OnlineIsFresh`, `CommitsOnlyStored`, from `HeartbeatsInv` |
| `RoomShowsSelection`, `RoomLoadingEnds`, `RoomNeverOlder` | the page at rest shows its selection, loading ends, answers are stored in order; from `RoomInv` |
| `AlertsBreakForCause` | `[]ListBreaksForCause`, from `AlertsInv` |
| `DrawerShows` | `[]DrawerShowsSelected`, from `DrawerInv` |
| `HistoryNowIsNewest`, `HistoryActivityShowsNewest` | `[]NowIsNewest`, `[]ActivityShowsNewest`, from `ReadingsInv` |
| `HistoryChartAverages`, `HistoryRangeCoversNow` | `[]ChartAveragesEachSecond`, `[]RangeCoversNow`, from `ReadingsInv` and what the folds come to |
| `RoomAsksOneQuestion` | `Spec => OneQuestion`: the page of a room implements `RoomPage`, from `RoomInv` |
| `AcceptedIsRegistered` | `[]AcceptRegisters`, from `SensorsInv` |
| `SetupTypes`, `SetupDisabledHasHandler`, `SetupLastChoiceWins` | types; `[]DisabledHasHandler`; `[]LastChoiceWins`, from `SetupInv` |
| `HomeTypes`, `HomeBadAirIsTold`, `HomeTellsOfBadAir` | types; bad air is told on the card, and by the home |
| `HomeWorseAirNeverLooksBetter`, `HomeWorseAirNeverScoresBetter` | worse air improves neither the card nor the score |

Only model-checked: liveness (`EventuallyStored`, `FollowsSensor`, `FollowsReading`,
`HeardGetsListed`, `ComesOnline`, `SensorCatchesUp`, `AlertsCatchUp`, `ScanSettles`), which is
out of the prover's reach, as is `ENABLED`. Every invariant and every action property of the
passing runs is a theorem. `NeverOlder` and `HistoryKept` are proved and have no run of their
own: the refinements that are checked in their place leave no such step.

## 6. Plan

Done: `MonitorIngest`, `IngestLedger`, `RoomAlerts`, `AlertHold`, `Pairing`, `Heartbeats` and the
dashboard, with the proofs of section 5. What could follow, in this order:

1. `Readiness` and `PairPool`: readiness flags; `pair`, which takes a second connection
   while it holds one, against an atomic registry.
2. `RoomEdits`: patches of a room that overlap each other and its deletion.
3. `RuleValidation` and `RuleEvaluation`: which rule files are valid; threshold, boolean and
   composite conditions as pure operators against reference definitions.
4. An abstract specification of a hold, as a run of matching readings, and a proof that
   `AlertHold` implements it for a sole evaluator.

## 7. Not modelled

* The collector's way with readings and events: `Produce` of `MonitorIngest` is what it puts
  into Kafka. Its dead letters go to a topic that nothing reads. The start page takes any
  answer about the gateway (`LoadGateway`).
* Readiness handlers: flags that only the orchestrator reads.
* home-api's history: read-only queries; `NewestFirst` of `RoomHistory` is what a page holds.
* home-api's connection pool, renames and edits of rooms.
* The dashboard's drawing and wording: icons, charts, formats of times and values, the
  badge with the number of alerts.
* Metrics, logging, HTTP parsing, the firewall script, Flyway migrations, Helm charts and
  shell scripts: no state that the rest depends on while the system runs, or
  configuration only.
