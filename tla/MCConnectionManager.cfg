SPECIFICATION FairSpec
CONSTANTS
  n1 = n1
  n2 = n2
  c1 = c1
  Neighbor = {n1}
  Self = self
  Controller = {c1}
  Peers = {n1, n2}
  LastFd = 8
  MaxUnread = 2
INVARIANTS IInv NothingBlocks
PROPERTIES CrashedWasSilent SilentIsNoticed HandledInTurn
CHECK_DEADLOCK FALSE
