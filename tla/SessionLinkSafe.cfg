SPECIFICATION Spec
CONSTANTS
  UsizeCount = 16
  OpenReqs = 1
  MaxSn = 3
  MaxPush = 2
  MaxDials = 2
  MaxInFlight = 1
INVARIANTS
  TypeOK
  SendIndexInRange
  Accounted
  InOrderAtMostOnce
  PendingHeartbeatCurrent
  AckedMeansReceived
  AckNotForgotten
  LastSuccessAccepted
  TrySeqFresh
