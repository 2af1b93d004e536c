\* Programs of up to four statements over two names: every statement, nested twice.
CONSTANTS
    Names = {1, 2}
    MaxStmts = 4
    MaxDead = 3
    MaxNesting = 2
    Rounds = 2
    Statements = {"let", "var", "assign", "store", "write", "return", "tx", "if", "loop", "call"}
    Excluded = {"ParamEscapes", "TupleEscapes", "TupleAliased", "SourceReassigned",
                "SourceEndsFirst", "LocalStored", "ParamAliased", "RelvarAliased",
                "PendingInBlock", "DeferredInLoop", "ReturnPastTuple", "SharedOnReturn",
                "TupleArgument", "TupleReassigned"}
SPECIFICATION Spec
INVARIANTS NamesAreLive ReleasesAreDominated NoLeak NamesAreBoundHere
\* A program ends.
CHECK_DEADLOCK FALSE
