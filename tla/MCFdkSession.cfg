CONSTANTS
  k1 = k1
  k2 = k2
  Conns <- MCConns
  Calls <- MCCalls
  Words <- MCWords
  MaxCalls <- MCMaxCalls

SPECIFICATION Spec
INVARIANTS
  Lockstep
PROPERTIES
  ImplementsRpc
  CallReturns
CHECK_DEADLOCK FALSE
