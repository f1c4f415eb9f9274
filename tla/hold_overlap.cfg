SPECIFICATION Spec
CONSTANTS
  Evaluators = {e1, e2}
  Values = {"warm", "hot"}
  NoValue = "none"
  Files = {"strict", "lax"}
  Valid = {"strict", "lax"}
  Enabled = {"strict", "lax"}
  Visiting = {"strict", "lax"}
  Matching <- MCMatching
  Delay <- MCDelay
  MaxAge = 2
  MaxSkew = 1
  MaxTime = 2
  MaxFailures = 0
PROPERTY EarlyOnlyWhenOvertaken
SYMMETRY Symmetry
