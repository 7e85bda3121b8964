CONSTANTS
    Insn = {1, 2, 3, 4}
    MaxDepth = 2
    AfterAnywhere = TRUE
    ReuseFreeInsn = TRUE
    MaxNesting = 1
    NonInsn = {}

SPECIFICATION Spec

PROPERTY AbsSpec
