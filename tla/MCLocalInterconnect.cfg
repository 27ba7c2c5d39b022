SPECIFICATION Spec
CONSTANTS
    n_shader = 2
    n_mem = 2
    in_buffer_limit = 1
    out_buffer_limit = 2
    m_n_channel = 1
    sm_num = 2
    r0 = r0
    r1 = r1
    r2 = r2
    wt = wt
    Fetches <- MC_Fetches
    SmOf <- MC_SmOf
    MemOf <- MC_MemOf
    access <- MC_access
    WriteThrough <- MC_WriteThrough
INVARIANTS
    OutputsNeverBlock
    OnePlace
    LineAtOneSlice
PROPERTIES
    FirstIsServed
    RoundTrip
