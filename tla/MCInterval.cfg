SPECIFICATION ToolsSpec
CONSTANTS
    t1 = t1
    t2 = t2
    none = none
    NoThread = none
    Threads <- MC_Threads
    Program <- MC_Program
    Insns <- MC_Insns
    Parts = {1}
    MaxVisits = 2
    Intervals <- MC_NotTheFirst
    NumKernels = 3
    Warps <- MC_Warps
    NumInsts = 2
    IsMem <- MC_IsMem
    CHANNEL_SIZE = 3
    Limits = {0, 1, 2}
    MaxSwitches = 2
    Addresses = {1, 2}
    Sizes = {1, 2}
    Data = {0, 1}
    MaxAllocs = 3
    MaxLaunches = 2
INVARIANTS
    CountsExact
