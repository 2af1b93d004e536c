SPECIFICATION Spec
CONSTANTS
    Names = {"x"}
    PublicRelvars = {"R"}
    PrivateRelvars = {"P"}
    Returns = {"Integer"}
    Literals = {"Integer"}
    Excluded = {"BareReplace"}
    MaxStmts = 3
    MaxBlocks = 1
    MaxSize = 4
INVARIANTS
    ReadsAreAssigned
    PublicAccessIsBracketed
    TransactionsAreReplayable
    TypesMeanValues
    WarningsAreTrue
    RefusalsAreReal
CHECK_DEADLOCK FALSE
