SPECIFICATION HistorySpec
CONSTANTS
  Rooms = {kitchen}
  Sensors = {s1, s2}
  Null = Null
  Values = {1, 3}
  Ticks = {0, 1, 2}
  RecentLimit = 2
  HistoryLimit = 2
  MaxReadings = 3
INVARIANTS NowIsNewest ChartAveragesEachSecond RangeCoversNow ActivityShowsNewest
