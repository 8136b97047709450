CONSTANTS
  Ops <- MCOps
  Pushes <- MCPushes
  Configs <- MCConfigs
  Rtp <- MCRtp
  Encode <- JsonEncode
  Decode <- JsonDecode
  MaxAsks = 1
  BufSize = 8
  Total = 24
  Ends = {1, 4, 7, 11, 13, 14, 18, 20, 21, 24}
  Items <- MCItems
INIT MCInit
NEXT MCNext
INVARIANTS Understood ToldTrue OutputFaithful NothingHeldBack PlacesAttached
CHECK_DEADLOCK FALSE
