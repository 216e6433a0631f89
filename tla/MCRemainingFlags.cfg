SPECIFICATION StatelessSpec
CONSTANTS
  MaxU64 = 150
  MaxU128 <- MCMaxU128
  Rates <- MCRates
  Decimals <- MCDecimals
  a1 = a1
  a2 = a2
  M = M
  Entries <- MCEntries
  Trees <- MCTrees
  Indexes = {0, 1, 2, 3, 4, 5, 6, 7}
  MaxLevels = 2
  SecurityToken = SecurityToken
  p1 = p1
  p2 = p2
  other = other
  Configured <- MCConfigured
  Addable <- MCObserver
  MaxRemaining = 3
  Cells = {0, 1, 2, 3, 4}
  Discriminants = {0, 1, 2, 3}
  MaxPrograms = 3
  MaxNodes = 2
  MaxVerifyLen = 3
  Values <- MCValues
  MaxEdits = 2
  ShortMessage = 9
INVARIANT RemainingAsGiven
CHECK_DEADLOCK FALSE
