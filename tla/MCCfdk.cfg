CONSTANTS
  DevCounts = {0, 1, 2, 3, 5, 6}
  MaxDevs = 5
  RecPerPage = 2
  LineBytes = 2
  Lines = 2
  IoSpace = 12
  MemSpace = 16
  DiskBound = 8

SPECIFICATION CfdkSpec
INVARIANTS
  TypeOK
  CursorsInRange
  ScreenIsCurrent
  WritesShownOrTyped
  TerminalIsGivenBack
  
PROPERTY EditKeepsItsPlace
