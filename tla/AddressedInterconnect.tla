------------------------ MODULE AddressedInterconnect ------------------------
(***************************************************************************)
(* LocalInterconnect with the L2 slice of every fetch decoded from the     *)
(* address of its access, as m_miss_queue_cycle does with                  *)
(* get_mem_sub_partition_id before it pushes a fetch (cache.cpp:339).      *)
(***************************************************************************)
EXTENDS LocalInterconnect, AddressDecode

CONSTANT access  \* the address of the access that makes each fetch

(* mem_fetch::mem_fetch, of the line and the sector that read_mem gives.   *)
SectorOf(f) == m_sector_address(cache_line_addr(access[f]), sector_mask(access[f]))

(* The slices of the channels are all the memory nodes there are: the      *)
(* decoding is given mem_num / 2 as the number of channels, and the number *)
(* of SMs as the first node that is a slice.                               *)
ASSUME AddressedAssumption ==
    /\ access \in [Fetches -> Nat]
    /\ sm_num = n_shader
    /\ n_mem = PARTITION_PER_CHANNEL * m_n_channel
    /\ MemOf = [f \in Fetches |-> get_mem_sub_partition_id(SectorOf(f))]

(* All that is under way for one line is at one L2 slice, wherever its     *)
(* fetches come from: the slices have MSHRs, tags and copies of their own  *)
(* and never look at each other's, so a line in two of them would be       *)
(* fetched twice and a store to one would be lost on the other.            *)
LineAtOneSlice ==
    \A m, n \in Mems : \A f \in held[m], g \in held[n] :
       block_addr(SectorOf(f)) = block_addr(SectorOf(g)) => m = n
=============================================================================
