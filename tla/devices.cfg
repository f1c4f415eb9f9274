SPECIFICATION FairSpec
CONSTANTS
  Rooms = {kitchen}
  Sensors = {s1, s2}
  Null = Null
  Boards = {s1}
  Slots = {c1, c2}
  SetupSlots = {c1, c2}
INVARIANTS AcceptRegisters DisabledHasHandler LastChoiceWins
PROPERTY ScanSettles
