SPECIFICATION TimedSpec
CONSTANTS
  nsimmax = 3
  winsize = 2
  MaxInFlight = 1000
  CorruptKinds = {}
  increment = 15
  Delays = {1, 10}
  Gaps = {1, 20}
INVARIANTS TimerInFuture
CHECK_DEADLOCK FALSE
