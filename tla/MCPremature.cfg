SPECIFICATION Spec
CONSTANTS
    Warps <- MC_Warps
    NumBlocks = 3
    BlockOf <- MC_BlockOf
    Program <- MC_Program
    Sectors <- MC_Sectors
    Banks <- MC_Banks
    m_assoc = 1
    m_num_entries = 2
    m_max_merged = 2
    m_max_blocks = 2
    Subcores <- MC_Subcores
    l1_hit_latency = 2
    alu_latency = 1
INVARIANTS
    CompleteIsReleased
