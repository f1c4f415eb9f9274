SPECIFICATION Spec
CONSTANTS
  kitchen = kitchen
  hall = hall
  Null = Null
  RoomList <- MCRoomList
  Samples <- MCSamples
  AlertKinds <- MCAlertKinds
  MaxAlerts = 2
INVARIANTS BadAirIsTold HomeTellsBadAir
PROPERTIES WorseAirNeverLooksBetter WorseAirNeverScoresBetter
