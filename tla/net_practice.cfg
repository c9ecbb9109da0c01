SPECIFICATION Spec
CONSTANTS
  Boats = {b1}
  Assignable = 1
  JoinSlots = 1
  FrameSize = 1
  RevertAfter = 1
  RevertTables = 2
  UnparkFixes = 2
  Modes = {FALSE, TRUE}
PROPERTY ParksOnTheGrid
