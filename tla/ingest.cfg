SPECIFICATION FairSpec
CONSTANTS
  Members = {m1, m2}
  Partitions = {p1}
  Rooms = {kitchen, unassigned}
  Nobody = Nobody
  MaxRecords = 2
  MaxFaults = 3
  PartialFetchErrors = FALSE
INVARIANTS TypeOK CommittedOnlyAfterInsert StoredInOrder
PROPERTIES LedgerSpec EventuallyStored
