SPECIFICATION ChannelSpec
CONSTANTS
    n_sub = 2
    NumSends <- MC_NumSends
    CL = 2
    l2_miss_latency = 1
    L2_dram_max = 2
    dram_L2_max = 1
    mrqq_max = 2
    returnq_max = 1
    NULL = NULL
INVARIANTS
    NeverAsserts
PROPERTIES
    ExactLatency
    ImplementsChannels
    EveryFetchReturns
