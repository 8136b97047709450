SPECIFICATION Spec
CONSTANTS
  UsizeCount = 16
  OpenReqs = 1
  MaxSn = 1
  MaxPush = 0
  MaxDials = 2
  MaxInFlight = 1
INVARIANT TrySeqCountsAttempts
