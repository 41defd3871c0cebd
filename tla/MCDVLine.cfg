SPECIFICATION FairSpec
CONSTANTS
  router_n = 3
  initcost <- Line
  Shortest <- LineShortest
  Updates = {}
  Doomed = {3}
  MayMiss = {}
  MaxInFlight = 2
PROPERTIES Converges CountingEnds
