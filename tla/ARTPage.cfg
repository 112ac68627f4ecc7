SPECIFICATION Spec
CONSTANTS
  Cubes <- MCPair
  f1 = f1
  f2 = f2
  Flows = {f1}
  Reads = {}
  Root <- MCRoot
  FlowOp <- MCFlowMac
  NextLink <- MCNextLink
  ParentLink <- MCNextLink
  neighborCubeID <- MCneighborCubeID
  PeerLink <- MCPeerLink
  OperandCubes <- MCPair
  Bufs = {b1, b2}
  numMultStages = 1
  LinkCap = 1
  CrossCap = 2
  VaultCap = 1
  MaxLines = 2
  MaxUpdates = 3
  NoFlow = NoFlow
  NoBuf = NoBuf
SYMMETRY MCSymmetry
INVARIANTS BuffersSound GatherExact
