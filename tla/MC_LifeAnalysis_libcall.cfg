CONSTANTS
    Reg <- MCReg
    NoReg = NoReg
    Fixed = {}
    CallClobbered = {"rv"}
    CallUsed = {"sp"}
    ExitLive = {"sp"}
    NBlocks = 3
    Bodies <- MCBodiesLib
    Ends <- MCEnds

SPECIFICATION Spec

INVARIANT FixpointSound
