SPECIFICATION FairSpec
CONSTANTS MaxRetry = 1  QueueLen = 2
INVARIANTS TypeOK WakeIsOwed FreshResult FreshNeverAborts OffLeavesNoHandler
PROPERTIES CallReturns CycleEnds
