CONSTANTS
  Workers = {1, 2}
  Requests <- MCRequests
  BankSize = 4
  RegCount = 8
  Exclusive = FALSE

SPECIFICATION Spec
INVARIANT CellsAsAddressed
