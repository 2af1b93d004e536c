CONSTANTS
  Files <- StoreFiles
  Typos <- AllTypos
SPECIFICATION Spec
INVARIANT EveryParseEnds
CHECK_DEADLOCK FALSE
