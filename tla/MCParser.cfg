CONSTANTS
  Files <- AllFiles
  Typos <- AllTypos
SPECIFICATION Spec
INVARIANTS ReadsAsWritten TreeIsLossless NothingIsLost NamesCanBeRead EveryParseEnds
CHECK_DEADLOCK FALSE
