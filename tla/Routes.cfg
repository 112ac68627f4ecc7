SPECIFICATION Spec
CONSTANTS
  Networks <- MCNetworks
INVARIANTS ParentIsSender NeighbourIsDirect LinksArePaired Minimal
