SPECIFICATION Spec
CONSTANTS
    NumKernels = 3
    Warps <- MC_Warps
    NumInsts = 2
    IsMem <- MC_IsMem
    CHANNEL_SIZE = 3
    Limits <- MC_Limits
    MaxSwitches = 2
INVARIANTS
    LimitsHaveNoEffect
