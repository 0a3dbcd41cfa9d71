CONSTANTS
  Endpoints = {"a", "b"}
  Connectable = {"a", "b"}
  Colors <- TwoColors
  Texts = {"connected", "dropped"}
  MaxQueue = 2
  MaxLate = 1
  MaxRestarts = 0
SPECIFICATION Spec
PROPERTIES UsesSession BoxGetsActive
CHECK_DEADLOCK FALSE
