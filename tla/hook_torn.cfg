SPECIFICATION Spec
CONSTANTS
  e1 = e1
  e2 = e2
  e3 = e3
  Queues = 2
  Events = {e1, e2}
  QueueOf <- QueueOfTwo
  MaxInFlight = 1
  MaxBackoff = 1
  MaxAttempts = 1
  MaxCrashes = 1
INVARIANT NothingLost
