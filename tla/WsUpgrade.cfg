SPECIFICATION Spec
CONSTANTS
  MaxRequests = 4
  MaxWaiting = 2
  MaxConnects = 2
  Environment = {"oneway", "slow", "immediate", "unreachable", "refuse", "reset", "block"}
INVARIANTS TypeOK UpgradeBeforeFrames NothingLost
PROPERTIES ImplementsContract LoneCallCompletes
\* The bounds end every behaviour, and so do exceptions that leave the loop.
CHECK_DEADLOCK FALSE
