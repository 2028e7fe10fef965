SPECIFICATION Spec
CONSTANTS
  Runs = {1, 2}
  OptionLists <- MCOptionLists
  Bits = {0}
  Width = 2
  MemSize = 2
  Words <- MCWords
INVARIANTS TypeOK ReportsAreTrue
PROPERTY OnlyOverlappedUpdatesAreLost
