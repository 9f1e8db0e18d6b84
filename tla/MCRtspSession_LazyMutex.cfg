CONSTANTS
  NumSlots = 2
  PlayMax = 1
  Workers = {w1, w2}
  Dialogue <- AllSetUpOnce
  Transports <- AllTcp
  Events = {"drop"}
  ClearIsQuick = FALSE
SPECIFICATION Spec
INVARIANT PlayersWithinMax
CHECK_DEADLOCK FALSE
