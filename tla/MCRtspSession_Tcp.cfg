CONSTANTS
  NumSlots = 1
  PlayMax = 2
  Workers = {w1, w2}
  Dialogue <- AllSendAnything
  Transports <- AnyTcp
  Events = {"badrequest", "drop", "tcpfail", "kick"}
  ClearIsQuick = FALSE
SPECIFICATION Spec
INVARIANTS TypeOK WorkerOwnsSlot OneWorkerPerSlot PutHasQueue
CHECK_DEADLOCK FALSE
