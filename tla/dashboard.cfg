SPECIFICATION FairSpec
CONSTANTS
  kitchen = kitchen
  Rooms = {kitchen, hall}
  Sensors = {s1, s2}
  Null = Null
  MaxGeneration = 4
  MaxLoads = 3
  MaxSensorLoads = 2
  MaxUnpairs = 1
  Filters <- MCFilters
  MaxAlertLoads = 2
  MaxChanges = 3
  Alerts = {a1, a2}
  MaxDetailCalls = 3
INVARIANTS ShowsSelection LoadingEnds ListBreaksForCause DrawerShowsSelected
PROPERTIES OneQuestion SensorCatchesUp AlertsCatchUp
