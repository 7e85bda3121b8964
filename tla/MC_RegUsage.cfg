CONSTANTS
    FirstPseudo = 2
    Headroom = 1
    InitPointers = {0, 1}
    StackAlign = 8
    Aligns = {4}
    MaxRegNo = 4
    MaxInsns = 3
    ShapePairs <- MCShapePairs
    PointerRegs = {3}

SPECIFICATION Spec

INVARIANT TypeOK
INVARIANT PseudoTablesSound
INVARIANT UsageCountsExact
PROPERTY LifeDeletesUnneededInsns
PROPERTY LifeCountsExact
INVARIANT LowpartIsLowBits
INVARIANT HighpartIsHighWord
INVARIANT ComplexPartsByAddress
INVARIANT SubwordsTileOperand
INVARIANT LowpartRecognised
