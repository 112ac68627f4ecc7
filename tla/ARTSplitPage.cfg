SPECIFICATION Spec
CONSTANTS
  Cubes <- MCCubes
  f1 = f1
  f2 = f2
  Flows = {f1}
  Reads = {}
  Root <- MCRoot
  FlowOp <- MCFlowMac
  NextLink <- MCNextLink
  ParentLink <- MCNextLink
  neighborCubeID <- MCneighborCubeID
  PeerLink <- MCPeerLink
  OperandCubes <- MCFar
  Bufs = {b1}
  numMultStages = 2
  LinkCap = 1
  CrossCap = 2
  VaultCap = 1
  MaxLines = 2
  MaxUpdates = 2
  NoFlow = NoFlow
  NoBuf = NoBuf
INVARIANT OperandAtHome
