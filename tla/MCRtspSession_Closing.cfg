CONSTANTS
  NumSlots = 2
  PlayMax = 2
  Workers = {w1}
  Dialogue <- AllSetUpOnce
  Transports <- TcpBesideUdp
  Events = {"drop", "tcpfail"}
  ClearIsQuick = TRUE
SPECIFICATION FairSpec
INVARIANTS UdpOwnsSlot NobodyHangs RtpSessionLives QueryHasSender WaiterIsHeard
PROPERTY ClosingFreesSlot
CHECK_DEADLOCK FALSE
