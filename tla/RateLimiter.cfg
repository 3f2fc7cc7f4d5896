SPECIFICATION Spec
CONSTANTS
  MaxU64 = 15
  Amount = {1, 2, 5}
  Capacity = {0, 3, 8}
  Rate = {0, 1, 3}
  NoLimiter = noLimiter
  NotGiven = notGiven
  MaxTime = 4
  MaxReceived = 6
INVARIANTS TypeOK WindowBound
PROPERTIES RateNotRetroactive OverflowNeedsReset
