SPECIFICATION FairSpec
CONSTANTS
  maxRetries = 3
  maxDelay = 60
  RetryAfters <- MCRetryAfters
INVARIANTS
  TypeOK
  NoEarlyRetry
PROPERTIES
  ImplementsCall
  EveryCallReturns
