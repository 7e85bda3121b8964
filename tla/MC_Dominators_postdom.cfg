CONSTANTS
    NBlocks = 4
    WordBits = 32
    Entry = Entry
    Exit = Exit
    Ends <- MCEnds

SPECIFICATION Spec


INVARIANT PostDomCorrect

