CONSTANTS
    Reg <- MCReg
    NoReg = NoReg
    Fixed = {}
    CallClobbered = {"rv"}
    CallUsed = {"sp"}
    ExitLive = {"sp"}
    NBlocks = 3
    Bodies <- MCBodies
    Ends <- MCEnds

SPECIFICATION Spec

INVARIANT TypeOK
INVARIANT FixpointSound
INVARIANT FinalPassCovered
PROPERTY Termination
