CONSTANTS
  DevCounts = {0, 3}
  MaxDevs = 5
  RecPerPage = 2
  LineBytes = 2
  Lines = 2
  IoSpace = 12
  MemSpace = 16
  DiskBound = 8

SPECIFICATION CfdkSpec
INVARIANT EditStartsFromTheByte
