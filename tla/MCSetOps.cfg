SPECIFICATION Spec
CONSTANTS
    Target = "R"
    Primary <- MCPrimary
    Keys <- MCKeys
    Schema <- MCSchema
    Temp <- MCTemp
    Relvars = {"R", "S", "P", "L"}
    Exprs <- MCExprs
    Height <- MCHeight
    Trees <- MCTrees
    TreeHeight <- MCTreeHeight
    Statements <- NestedRightSetOps
    Databases <- SmallDatabases
INVARIANT ReadsMeanTheirExpression
