SPECIFICATION Spec
CONSTANTS
    Fetches <- MC_Fetches
    KindOf <- MC_KindOf
    SectorOf <- MC_SectorOf
    TlbHit <- MC_TlbHit
    Tags <- MC_Tags
    Masks <- MC_Masks
    m_assoc = 2
    m_num_entries = 1
    m_max_merged = 2
    l2_hit_latency = 1
    tlb_miss_latency = 3
    NoTag = NoTag
INVARIANTS
    TypeOK
    OnePlace
    MshrInFlight
    UniqueTags
    HitsInOrder
    CopiesEndHere
PROPERTIES
    EveryFetchAnswered
