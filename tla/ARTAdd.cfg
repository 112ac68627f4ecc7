SPECIFICATION Spec
CONSTANTS
  Cubes <- MCCubes
  f1 = f1
  f2 = f2
  Flows = {f1}
  Reads = {r1}
  Root <- MCRoot
  FlowOp <- MCFlowAdd
  NextLink <- MCNextLink
  ParentLink <- MCNextLink
  neighborCubeID <- MCneighborCubeID
  PeerLink <- MCPeerLink
  OperandCubes <- MCCubes
  Bufs = {b1}
  numMultStages = 2
  LinkCap = 1
  CrossCap = 2
  VaultCap = 1
  MaxLines = 1
  MaxUpdates = 2
  NoFlow = NoFlow
  NoBuf = NoBuf
INVARIANTS TypeOK CountsBalance TreeEdges ReadInFlight
PROPERTIES NoLateUpdate
