SPECIFICATION Spec
CONSTANTS
  Callers = {}
  Leavers = {l1}
  ForceLeavers = {}
  NoLeaver = none
INVARIANT LeaveUnblocks
