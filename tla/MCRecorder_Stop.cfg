CONSTANTS
  Capacity = 3
  GroupLength = 2
  DefaultFrames = 1
  UserFrames = 1
  MaxWakes = 1
  MaxFrames = 1
  Commands = {"on", "off", "format"}
  Faults = {"write"}
SPECIFICATION FairSpec
PROPERTIES GroupFifoSpec StopEndsFile RestartOpensFile
