SPECIFICATION Spec

INVARIANT SecondRoundCopiesNothing
