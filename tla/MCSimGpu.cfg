SPECIFICATION SimSpec
CONSTANTS
    Places <- MC_Places
    Pcs <- MC_Pcs
    IsMem <- MC_IsMem
    DestRegs <- MC_DestRegs
    SrcRegs <- MC_SrcRegs
    IsBarrier <- MC_IsBarrier
    AddressLists <- MC_AddressLists
    MaxLength = 4
    MaxRuns = 3
    l1_cache_line_size = 4
    SECTOR_SIZE = 2
    Kernels <- MC_Kernels
    sm_num = 2
    num_warp_schedulers_per_SM = 2
    shared_mem_size = 12
    warp_size = 2
    max_active_blocks_per_SM = 4
    max_active_threads_per_SM = 12
    register_allocation_size = 4
    max_registers_per_block = 16
    max_registers_per_SM = 32
    smem_allocation_size = 4
INVARIANTS
    AddressesMatch
    DependenciesSuffice
    ResourcesFit
    EachBlockOnce
PROPERTIES
    KernelEnds
