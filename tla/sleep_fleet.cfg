SPECIFICATION FairSpec
CONSTANTS
  Rovers = {r1}
  Cycles = {1, 4}
  DefaultCycle = 4
  Listen = 3
  Margin = 2
  SleepRepeats = 2
  Grace = 1
  Transit = 1
  SlotPeriod = 1
  MaxQueue = 2
  MaxCommands = 3
  MaxRestarts = 1
INVARIANT TypeOK
PROPERTIES WakeReachesAll WokenStaysAwake BeliefRecovers
