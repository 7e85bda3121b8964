CONSTANTS
    NBlocks = 4
    Shapes <- MCShapes
    RestartThreshold = 0

SPECIFICATION Spec

INVARIANT TypeOK
INVARIANT MarkedIsReachable
INVARIANT NoLabelAbort
INVARIANT LiveReachableInCfg
