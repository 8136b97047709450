SPECIFICATION FairSpec
CONSTANTS
  Callers = {c1}
  Leavers = {l1, l2}
  ForceLeavers = {l1}
  NoLeaver = none
INVARIANTS
  TypeOK
  NoLostWakeup
  ShutdownSeen
  GracefulNeverCuts
PROPERTIES
  KeepsPromise
  EveryOpTaken
  ForcedLeaveReturns
  FinishEnds
