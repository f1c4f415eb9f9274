SPECIFICATION FairSpec
CONSTANTS
  Threads = {q1, q2}
  Boards = {"board", "beacon"}
  Beacons = {"beacon"}
  AdvertId <- MCAdvertId
  GattId <- MCGattId
  MaxScans = 2
INVARIANTS TypeOK AdmittedNotListed AdmittedCanPublishOrMacUnread SupersededScansCancelled
PROPERTY HeardGetsListed
CHECK_DEADLOCK FALSE

