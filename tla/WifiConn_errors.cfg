SPECIFICATION Spec
CONSTANTS MaxRetry = 1  QueueLen = 2
INVARIANTS ErrorsAreReturned
