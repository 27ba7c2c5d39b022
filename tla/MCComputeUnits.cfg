SPECIFICATION Spec
CONSTANTS
    subcores = 2
    kinds <- MCkinds
    width <- MCwidth
    Warps <- MCWarps
    NumBlocks = 3
    BlockOf <- MCBlockOf
    Programs <- MCPrograms
    Delays = {1, 3}
    MaxCycles = 250
INVARIANTS
    UnitThroughput
PROPERTIES
    EveryWarpIssues
