CONSTANTS
  c1 = c1
  c2 = c2
  Conns <- MCConns
  FdLimit = 4
  MaxSignals = 2

SPECIFICATION Spec
PROPERTY StopsWhenSignalled
CHECK_DEADLOCK FALSE
