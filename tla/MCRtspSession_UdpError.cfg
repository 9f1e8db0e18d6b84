CONSTANTS
  NumSlots = 1
  PlayMax = 2
  Workers = {w1}
  Dialogue <- AllSetUpOnce
  Transports <- AllUdp
  Events = {"drop", "udpfail"}
  ClearIsQuick = TRUE
SPECIFICATION FairSpec
PROPERTY ErrorEndsConnection
CHECK_DEADLOCK FALSE
