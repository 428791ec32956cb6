\* The pool and the queues are bounded, so behaviours end.
SPECIFICATION Spec
CONSTANTS
  Clients = {uuid1, uuid2, named, address}
  Listening = {named, address}
  NamedByAddress = {address}
  MaxPool = 3
  MaxQueued = 2
INVARIANTS TypeOK CallBackReachesOwner NameIsUnique FirstSocketIsBidirectional
CHECK_DEADLOCK FALSE
