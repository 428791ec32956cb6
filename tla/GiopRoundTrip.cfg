CONSTANTS
    Minors = {0, 1, 2}
    Orders = {"little", "big"}
    KeyLengths = {0, 1, 4}
    OperationLengths = {1, 2, 3, 4}
    HostLengths = {1, 2}
    Arguments <- MCArguments
SPECIFICATION Spec
INVARIANTS
    TypeOK
    FrameMatchesHeader
    RoundTrip
    ReadsInside
    EncapsulationHolds
\* A message that has been read is at its end.
CHECK_DEADLOCK FALSE
