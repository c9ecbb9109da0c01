SPECIFICATION OtherFairSpec
CONSTANTS
  e1 = e1
  e2 = e2
  e3 = e3
  Queues = 2
  Events = {e1, e2, e3}
  QueueOf <- QueueOfThree
  MaxInFlight = 2
  MaxBackoff = 2
  MaxAttempts = 1
  MaxCrashes = 1
INVARIANTS BackendNotFlooded DuplicatesOnlyAfterLoss
PROPERTIES OnlyTornSavesLose OtherQueueDelivered
