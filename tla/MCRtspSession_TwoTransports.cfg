CONSTANTS
  NumSlots = 1
  PlayMax = 2
  Workers = {w1, w2}
  Dialogue <- AllDisconnect
  Transports <- TcpThenUdp
  Events = {"drop"}
  ClearIsQuick = TRUE
SPECIFICATION Spec
INVARIANT WorkerOwnsSlot
CHECK_DEADLOCK FALSE
