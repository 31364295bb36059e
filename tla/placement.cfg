SPECIFICATION Spec
CONSTANTS
  Nodes = {1, 2, 3}
  NLayers = 6
  Cap <- Caps
  Costs <- LiveCosts
  Rams <- LiveRams
  Phones = {2}
  MinLayers = 2
  MinNodes = 2
  Frames = 4
  Util = 80
  HeadMs = 5
  HopMs = 9
  FetchS = 5
  LoadS = 1
  MaxCandidates = 12
INVARIANT PlansAreTilings
INVARIANT FeasibleIsPlanned
INVARIANT NearlyBalanced
INVARIANT BrokenIsReplaced
INVARIANT ComesToRest
