CONSTANTS
  NumSlots = 3
  PlayMax = 1
  Workers = {w1}
  Dialogue <- OneAmongSetups
  Transports <- AllUdp
  Events = {"udpfail"}
  ClearIsQuick = TRUE
SPECIFICATION Spec
INVARIANTS UdpOwnsSlot PlayersBounded MutexComesBack
CHECK_DEADLOCK FALSE
