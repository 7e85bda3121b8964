CONSTANTS
    Insn = {1, 2, 3}
    MaxDepth = 2
    AfterAnywhere = FALSE
    ReuseFreeInsn = TRUE
    MaxNesting = 1
    NonInsn = {3}

SPECIFICATION Spec

INVARIANT ChainsWellLinked
INVARIANT FreeInsnsDetached
INVARIANT FinishedInsnsUnused
PROPERTY AbsSpec
