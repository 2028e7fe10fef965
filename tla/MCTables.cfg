SPECIFICATION TablesSpec
CONSTANTS
  AddressSpace <- MCSpace
  NoName = "unknown"
  MaxDigits = 3
  PageSize = 4
  WordSpace = 64
  PciInputs <- MCPciInputs
  E820Inputs <- MCE820Inputs
  NameInputs <- MCNameInputs
  HexInputs <- MCHexInputs
  PairInputs <- MCPairInputs
  RangeInputs <- MCRangeInputs
INVARIANTS ListedDevicesAreReached MapCoversEntries  ArgumentsAreNumbers MappingHoldsRange
CHECK_DEADLOCK FALSE
