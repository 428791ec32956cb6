SPECIFICATION Spec
CONSTANTS
  MaxRequests = 3
  MaxWaiting = 2
  MaxConnects = 2
  ChunksPerMessage = 1
  Environment = {}
PROPERTIES EveryCallCompletes
\* The bounds end every behaviour: all requests issued and settled.
CHECK_DEADLOCK FALSE
