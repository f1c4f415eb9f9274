SPECIFICATION Spec
CONSTANTS
  Members = {m1}
  Partitions = {p1, p2}
  Rooms = {kitchen, unassigned}
  Nobody = Nobody
  MaxRecords = 2
  MaxFaults = 1
  PartialFetchErrors = TRUE
SYMMETRY Interchangeable
INVARIANTS NothingElseLost
