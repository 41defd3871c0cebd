SPECIFICATION Spec
CONSTANTS
  router_n = 3
  initcost <- Triangle
  Shortest <- TriangleShortest
  Updates <- OneUpdate
  Doomed = {}
  MayMiss = {}
  MaxInFlight = 1
INVARIANTS NeighborCostIsLinkCost
