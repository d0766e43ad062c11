SPECIFICATION Spec
CONSTANTS
  maxRetries = 3
  maxDelay = 60
  RetryAfters <- MCRetryAfters
INVARIANTS
  RetriesCarryParameters
