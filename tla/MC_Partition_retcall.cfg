CONSTANTS
    Syms <- MCSymsRetCall
    MaxLen = 5

SPECIFICATION Spec

INVARIANT TagsWithinCount
