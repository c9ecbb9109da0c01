SPECIFICATION FairSpec
CONSTANTS
  Boats = {b1, b2}
  SlotCount = 5
  JoinSlots = 0
  UnparkFixes = 1
  ParkDwell = 0
  Stale = 1
  ActiveFrames = 2
  ActiveWindow = 1
  GridOnly = TRUE
  RacingTtl = 1
  ZoneTtl = 0
  Hold = 1
  Fixes <- RaceFixes
INVARIANTS OwnersAreRacing Spread
PROPERTIES SlotsNeverMove SilentOwnersFreed
