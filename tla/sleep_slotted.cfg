SPECIFICATION Spec
CONSTANTS
  Rovers = {r1}
  Cycles = {1, 2}
  DefaultCycle = 1
  Listen = 3
  Margin = 2
  SleepRepeats = 2
  Grace = 1
  Transit = 0
  SlotPeriod = 4
  MaxQueue = 2
  MaxCommands = 2
  MaxRestarts = 0
PROPERTY WakeReachesAll
