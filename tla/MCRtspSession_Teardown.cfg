CONSTANTS
  NumSlots = 1
  PlayMax = 2
  Workers = {w1}
  Dialogue <- AllSendAnything
  Transports <- AllTcp
  Events = {"drop"}
  ClearIsQuick = FALSE
SPECIFICATION Spec
INVARIANT NobodyHangs
CHECK_DEADLOCK FALSE
