SPECIFICATION Spec
CONSTANTS
  None = None
  Nodes <- NodesDef
  Sink = 1
  LinkCost <- LinkCostDef
  Costs = {1, 2}
  FirstCost = 1
  FrameSize = 4
  FreshLinks <- FreshLinksDef
  SettledLinks <- SettledLinksDef
  MaxChanges = 2
  MaxInFlight = 1
  MaxPrunes = 2
  MaxJobs = 2
  MaxToClient = 1
INVARIANTS
  LinksMutual
  NothingIsHeldBack
  CopyAgrees
  SinkCatchesUp
CHECK_DEADLOCK FALSE
