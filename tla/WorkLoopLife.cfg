SPECIFICATION FairSpec
CONSTANTS
  Interval = 2
  Timeout = 3
  Delay = 1
  MaxWire = 1
  MaxWakes = 1
INVARIANTS
  NothingLost
  LiveNotTimedOut
PROPERTIES DeadNoticed TextsHandled
