CONSTANTS
  Workers = {1, 2}
  Requests <- MCRequests
  BankSize = 4
  RegCount = 8
  Exclusive = TRUE

SPECIFICATION Spec
INVARIANTS
  TypeOK
  CellsAsAddressed
  StaysInFunction
