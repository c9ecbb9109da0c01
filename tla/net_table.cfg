SPECIFICATION Spec
CONSTANTS
  Boats = {b1, b2}
  Assignable = 2
  JoinSlots = 1
  FrameSize = 1
  RevertAfter = 0
  RevertTables = 1
  UnparkFixes = 2
  Modes = {FALSE, TRUE}
SYMMETRY Symmetry
INVARIANTS TablesAreCurrent OwnSlotOnlyWhenAssigned
PROPERTY MovesToOwnedSlot
