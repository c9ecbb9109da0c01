SPECIFICATION Spec
CONSTANTS
  Boats = {b1, b2}
  SlotCount = 2
  JoinSlots = 1
  UnparkFixes = 2
  ParkDwell = 1
  Stale = 1
  ActiveFrames = 0
  ActiveWindow = 1
  GridOnly = TRUE
  RacingTtl = 1
  ZoneTtl = 1
  Hold = 1
  Fixes <- AllFixes
SYMMETRY Symmetry
INVARIANTS ParkedClaimsNothing OneClaim UniqueSlots
PROPERTIES ImplementsAssignment NoRacerShutOut
