SPECIFICATION Spec
CONSTANTS
    Names = {"n1", "n2"}
    Paths = {"p1", "p2"}
    PathOf <- TwoPaths
    Rows <- ThreeRows
    PlanIds = {1, 2, 3, 4}
    Plan <- WritePlans
    NoPlan = 0
    NoAnswer = NoAnswer
    Meaning <- WriteMeaning
    Effect <- WriteEffect
    Clash <- SameKey
    BindCeiling = 2
    InsertBudget = 1
    MaxDepth = 2
INVARIANTS
    ConnectionsFollowDepth
    NoSelfInflictedAbort
PROPERTIES
    ImplementsFlatTx
    OneOutcome
