SPECIFICATION FairSpec
CONSTANTS
  Timeout = 2
  OtherPayloads = {"blank", "refused"}
  MaxMqtt = 1
  MaxUnacked = 1
  MaxLog = 3
INVARIANTS TypeOK OnlineIsFresh
PROPERTIES CommitsOnlyStored ComesOnline
