SPECIFICATION Spec
CONSTANTS
  Count <- MixedCount
  Start <- MixedStart
  receiveBufferSize = 13
INVARIANTS TypeOK InBounds PacketIsMessage NothingDeliverableLeft WasteOnlyBeforeShortTail
PROPERTIES AllDelivered
\* The stream ends.
CHECK_DEADLOCK FALSE
