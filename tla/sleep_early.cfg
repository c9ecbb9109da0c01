SPECIFICATION Spec
CONSTANTS
  Rovers = {r1}
  Cycles = {1}
  DefaultCycle = 1
  Listen = 3
  Margin = 2
  SleepRepeats = 2
  Grace = 1
  Transit = 1
  SlotPeriod = 1
  MaxQueue = 2
  MaxCommands = 2
  MaxRestarts = 0
PROPERTY StopsWhenAnswered
