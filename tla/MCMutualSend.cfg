SPECIFICATION FairSpec
CONSTANTS
  Router = {1, 2}
  NoRoute = 0
  Tables <- Direct
  Transfers <- Mutual
  Capacity = 1
  UINT8 = 256
  UINT16 = 65536
  SeqNums = 10240
  Unset <- FromZero
  Doomed = {}
PROPERTIES SendReturns
CHECK_DEADLOCK FALSE
