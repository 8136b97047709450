SPECIFICATION OpenedSpec
CONSTANTS
  UsizeCount = 16
  OpenReqs = 1
  MaxSn = 3
  MaxPush = 1
  MaxDials = 1
  MaxInFlight = 1
INVARIANTS
  TableExact
  CalledOnce
  FirstAnswersFindTaker
