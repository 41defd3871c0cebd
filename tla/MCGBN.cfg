SPECIFICATION FairSpec
CONSTANTS
  nsimmax = 4
  winsize = 2
  MaxInFlight = 3
  CorruptKinds = {"acknum"}
INVARIANTS IInv WindowsAgree TimerGuardsWindow
PROPERTIES WindowNeverMovesBack ImplementsReliableTransfer SentIsConfirmed
CHECK_DEADLOCK FALSE
