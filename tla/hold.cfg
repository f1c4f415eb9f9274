SPECIFICATION FairSpec
CONSTANTS
  Evaluators = {e1}
  Values = {"calm", "warm", "hot"}
  NoValue = "none"
  Files = {"strict", "lax", "off", "broken"}
  Valid = {"strict", "lax", "off"}
  Enabled = {"strict", "lax"}
  Visiting = {"strict", "lax"}
  Matching <- MCMatching
  Delay <- MCDelay
  MaxAge = 2
  MaxSkew = 1
  MaxTime = 3
  MaxFailures = 1
PROPERTIES NoEarlyAlert FollowsReading
