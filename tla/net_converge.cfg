SPECIFICATION FairSpec
CONSTANTS
  Boats = {b1, b2}
  Assignable = 1
  JoinSlots = 1
  FrameSize = 1
  RevertAfter = 1
  RevertTables = 2
  UnparkFixes = 1
  Modes = {FALSE}
PROPERTIES FollowersConverge SquattersLeave
