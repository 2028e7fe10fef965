CONSTANTS
  HdrLen = 2
  BufLen = 4
  Lengths = {1, 2, 3, 4, 5}
  MaxPackets = 3
  Capacity = 3

SPECIFICATION Spec
INVARIANTS
  FramingNeverSlips
  EndIsBetweenPackets
PROPERTIES
  ImplementsChannel
  BegunIsReceived
CHECK_DEADLOCK FALSE
