SPECIFICATION Spec
CONSTANTS
    Constants <- MCConstants
    BoxThreshold = 4
    Arities = {1, 2}
    RuntimeCalls <- MCRuntimeCalls
    Excluded <- Shapes
    MaxValues = 4
    MaxCalls = 2
    MaxEffects = 1
INVARIANTS
    BothCompile
    RegistersMeanValues
    CallsAreAsked
CHECK_DEADLOCK FALSE
