SPECIFICATION FairSpec
CONSTANTS
  Sensors = {s1}
  Rooms = {kitchen, hall}
  Replicas = {e1}
  Nowhere = Nowhere
  Unpaired = Unpaired
  WholeRoom = WholeRoom
  Combinator = "ALL"
  MaxRequests = 2
  MaxFailures = 1
INVARIANTS TypeOK NothingElseLeft
PROPERTIES FollowsSensor
