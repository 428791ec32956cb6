\* The pool and the queues are bounded, so behaviours end.
SPECIFICATION Spec
CONSTANTS
  Clients = {uuid1}
  Listening = {}
  NamedByAddress = {}
  MaxPool = 4
  MaxQueued = 1
INVARIANTS PassedReferenceIsReachable
CHECK_DEADLOCK FALSE
