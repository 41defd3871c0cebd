SPECIFICATION FairSpec
CONSTANTS
  nsimmax = 4
  winsize = 2
  MaxInFlight = 3
  CorruptKinds = {"seqnum"}
INVARIANTS IInv WindowsAgree ConfirmedWasReceived TimerStandsForBase
PROPERTIES ImplementsReliableTransfer SentIsConfirmed
CHECK_DEADLOCK FALSE
