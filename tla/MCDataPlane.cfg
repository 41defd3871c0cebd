SPECIFICATION FairSpec
CONSTANTS
  Router = {1, 2, 3}
  NoRoute = 0
  Tables <- Rows
  Transfers <- Meeting
  Capacity = 1
  UINT8 = 4
  UINT16 = 65536
  SeqNums = 2
  Unset <- Counted
  Doomed = {3}
INVARIANTS TypeOK FilesInOrder StatsMatchFile PenultimateBeforeLast FailuresSpread
PROPERTIES TrafficEnds
CHECK_DEADLOCK FALSE
