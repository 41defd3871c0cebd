SPECIFICATION TimedSpec
CONSTANTS
  nsimmax = 4
  winsize = 2
  MaxInFlight = 1000
  CorruptKinds = {}
  increment = 15
  Delays = {1, 10}
  Gaps = {1, 20}
INVARIANTS EventsInOrder TimerMatchesBase
PROPERTIES ImplementsSR
CHECK_DEADLOCK FALSE
