SPECIFICATION Spec
CONSTANTS
  MaxRequests = 2
  MaxWaiting = 2
  MaxConnects = 1
  Environment = {}
PROPERTIES EveryCallCompletes
CHECK_DEADLOCK FALSE
