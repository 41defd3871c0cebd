SPECIFICATION Spec
CONSTANTS
  Clients = {a, b, c}
  NoIP = NoIP
  Garbage = Garbage
  nslots = 2
  MaxRecv = 2
  MaxTyped = 6
SYMMETRY Hosts
INVARIANTS IInv NamedSenderSent EntriesAreOpen BlockedOnce
PROPERTIES BlockStands
CHECK_DEADLOCK FALSE
