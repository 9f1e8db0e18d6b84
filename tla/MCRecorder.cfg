CONSTANTS
  Capacity = 3
  GroupLength = 2
  DefaultFrames = 1
  UserFrames = 1
  MaxWakes = 1
  MaxFrames = 1
  Commands = {"on", "off", "format"}
  Faults = {"full", "open", "write", "mount", "out"}
SPECIFICATION Spec
INVARIANTS
  TypeOK
  ReaderHasFrame
  LossEndsAtKey
  NoGapInFile
  FullFileTakesNoKey
  FileIsAttended
  RestsBetweenFrames
