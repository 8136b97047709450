SPECIFICATION FairSpec
CONSTANTS
  UsizeCount = 16
  OpenReqs = 1
  MaxSn = 2
  MaxPush = 1
  MaxDials = 2
  MaxInFlight = 1
PROPERTIES
  KeepsLinkPromise
  EveryRequestLeaves
  EventuallyAcked
