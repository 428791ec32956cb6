SPECIFICATION Spec
CONSTANTS
  MaxRequests = 2
  MaxWaiting = 1
  MaxConnects = 1
  ChunksPerMessage = 1
  Environment = {"eof"}
PROPERTIES ClosedEndsCalls
\* The bounds end every behaviour: all requests issued and settled.
CHECK_DEADLOCK FALSE
