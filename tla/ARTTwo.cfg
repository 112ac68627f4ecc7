SPECIFICATION Spec
CONSTANTS
  Cubes <- MCPath
  f1 = f1
  f2 = f2
  Flows = {f1, f2}
  Reads = {}
  Root <- MCRoots
  FlowOp <- MCFlowBoth
  NextLink <- MCNextLink
  ParentLink <- MCNextLink
  neighborCubeID <- MCneighborCubeID
  PeerLink <- MCPeerLink
  OperandCubes <- MCEnds
  Bufs = {b1}
  numMultStages = 2
  LinkCap = 1
  CrossCap = 2
  VaultCap = 1
  MaxLines = 1
  MaxUpdates = 1
  NoFlow = NoFlow
  NoBuf = NoBuf
INVARIANTS AssertsHold EntriesSound
PROPERTIES IsReduction
