CONSTANTS
  Subscribers = {s1, s2}
  Threads = {t1}
  QueueMax = 2
  MaxSubs = 2
  MaxBytes = 5
  MaxEvents = 3
  MaxStops = 2
  SizeOf <- MCSizeOf
SPECIFICATION FairSpec
INVARIANTS BudgetCoversQueues InPublishOrder NothingBehindStop
PROPERTIES DropsAreCounted StopReleasesEverySubscriber
CHECK_DEADLOCK FALSE
