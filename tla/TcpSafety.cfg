SPECIFICATION Spec
CONSTANTS
  MaxRequests = 4
  MaxWaiting = 2
  MaxConnects = 2
  ChunksPerMessage = 2
  Environment = {"oneway", "accept", "slow", "immediate", "unreachable", "refuse", "reset", "eof", "spurious"}
INVARIANTS TypeOK DescriptorIsServed RunningTimerIsKnown FifoLossless
PROPERTIES ImplementsContract
\* The bounds end every behaviour: all requests issued and settled.
CHECK_DEADLOCK FALSE
