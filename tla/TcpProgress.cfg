SPECIFICATION Spec
CONSTANTS
  MaxRequests = 3
  MaxWaiting = 2
  MaxConnects = 3
  ChunksPerMessage = 2
  Environment = {"oneway", "accept", "slow", "refuse", "spurious"}
INVARIANTS IdleWaiterIsDrained
PROPERTIES TimedAttemptEnds QueueIsFlushed LoneCallCompletes
\* The bounds end every behaviour: all requests issued and settled.
CHECK_DEADLOCK FALSE
