CONSTANTS
  Capacity = 3
  GroupLength = 2
  DefaultFrames = 2
  UserFrames = 1
  MaxWakes = 1
  MaxFrames = 2
  Commands = {"on"}
  Faults = {}
SPECIFICATION Spec
INVARIANTS
  FilesRunFullTime
