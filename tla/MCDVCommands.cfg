SPECIFICATION Spec
CONSTANTS
  router_n = 3
  initcost <- Line
  Shortest <- LineShortest
  Updates <- TwoUpdates
  Doomed = {3}
  MayMiss <- OneMiss
  MaxInFlight = 1
INVARIANTS NeverBelowShortest RoutesAreBest
