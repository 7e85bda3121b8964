CONSTANTS
    Syms <- MCSyms
    MaxLen = 5

SPECIFICATION Spec

INVARIANT TypeOK
INVARIANT TagsWithinCount
INVARIANT PartitionAgrees
