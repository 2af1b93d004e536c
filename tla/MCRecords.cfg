CONSTANTS
    Canonical <- MCCanonical
    Base = 4
    Vars = {1, 2, 3}
    Literals <- MCLiterals
    Fetches <- MCFetches
    Projects <- MCProjects
    Renames <- MCRenames
    Wraps <- MCWraps
    Unwraps <- MCUnwraps
    Groups <- MCGroups
    Ungroups <- MCUngroups
    Extends <- MCExtends
    Wheres <- MCWheres
    Orders <- MCOrders
    Nestings <- MCNestings
    Constants <- MCConstants
    SealedCells = TRUE
    MaxCalls = 4
SPECIFICATION MCSpec
INVARIANTS CountsAreExact NoDuplicates EqualityIsSetEquality
PROPERTIES ImplementsValues ClosureEnds
CHECK_DEADLOCK FALSE
