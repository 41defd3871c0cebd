SPECIFICATION FairSpec
CONSTANTS
  nsimmax = 5
  MaxInFlight = 3
  CorruptKinds = {"payload"}
  Garbage = {0, 999999}
INVARIANTS IInv BufferAhead NoReplyBeforeDelivery
PROPERTIES ImplementsReliableTransfer TransitEnds
CHECK_DEADLOCK FALSE
