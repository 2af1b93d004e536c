SPECIFICATION Spec
CONSTANTS
    Names = {"n1"}
    Paths = {"p1"}
    PathOf <- OnePath
    Rows <- TwoRows
    PlanIds = {1, 2, 3, 4, 5, 6}
    Plan <- ReadPlans
    NoPlan = 0
    NoAnswer = NoAnswer
    Meaning <- ReadMeaning
    Effect <- ReadEffect
    Clash <- SameKey
    BindCeiling = 2
    InsertBudget = 1
    MaxDepth = 2
INVARIANTS
    TypeOK
    TempsHoldThisReadsRows
    BindsWithinCeiling
PROPERTIES
    QueriesAnswerFromView
    CallsReturn
