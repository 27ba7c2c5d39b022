----------------------------- MODULE AddressDecode -----------------------------
(***************************************************************************)
(* Where a sector belongs: the L2 slice that serves it                     *)
(* (mem_fetch::get_mem_sub_partition_id, swift-sim/mem_fetch.cpp), its     *)
(* line, its MSHR entry and the set of its line in a cache (cache_config,  *)
(* cache.h and cache.cpp).  The code masks and shifts 64-bit numbers; here *)
(* an address is a natural number, a shift is a division and a mask of the *)
(* low bits a remainder.  Addresses are below 2^64 and no sum overflows.   *)
(***************************************************************************)
EXTENDS Integers, FiniteSets

CONSTANTS
    m_n_channel,  \* DRAM channels, mem_num / 2 at the call (cache.cpp:339)
    sm_num        \* SMs; the nodes of the slices come after theirs

ASSUME DecodeAssumption == m_n_channel \in Nat \ {0} /\ sm_num \in Nat

SECTOR_SIZE == 32
m_line_size == 128
PARTITION_PER_CHANNEL == 2
Chunk == 1024  \* 1 << ADDR_CHIP_S: addresses change the channel every chunk

(* read_mem, coalescing: the line an access touches, and the sector in it. *)
cache_line_addr(access) == (access \div m_line_size) * m_line_size
sector_mask(access) == (access - cache_line_addr(access)) \div SECTOR_SIZE

(* The sector of a mem_fetch: m_address is that of its line.               *)
m_sector_address(m_address, sector) == m_address + sector * SECTOR_SIZE

(* Chunks are dealt to the channels in turn.                               *)
chip(addr) == (addr \div Chunk) % m_n_channel

(* The address within the channel.                                         *)
rest_of_addr(addr) == ((addr \div Chunk) \div m_n_channel) * Chunk + (addr % Chunk)

\* Faulty variant of bk: the mask is 0x7040, the half of a line.
bkOfHalves(addr) ==
    LET rest == rest_of_addr(addr)
    IN  ((rest \div 64) % 2) + 2 * ((rest \div 4096) % 8)

(* addrdec_packbits with the mask 0x7080: bit 7, then bits 12 to 14.       *)
bk(addr) ==
    LET rest == rest_of_addr(addr)
    IN  ((rest \div 128) % 2) + 2 * ((rest \div 4096) % 8)

get_mem_sub_partition_id(addr) ==
    chip(addr) * PARTITION_PER_CHANNEL + (bk(addr) % PARTITION_PER_CHANNEL) + sm_num

(* tag and block_addr are the same function.                               *)
block_addr(addr) == addr - (addr % m_line_size)

(* m_atom_size is SECTOR_SIZE, for both caches are built with the first    *)
(* argument true.                                                          *)
mshr_addr(addr) == addr - (addr % SECTOR_SIZE)

(* set_index with HASH_IPOLY_FUNCTION, for 64 sets: bit k of the index is  *)
(* flipped by the parity of the bits taps[k + 1] of the higher bits.       *)
m_n_sets == 64
higher_bits(addr) == addr \div (m_line_size * m_n_sets)
index(addr) == (addr \div m_line_size) % m_n_sets

taps == <<{0, 5, 6, 10, 12, 15, 16, 17, 18},
          {0, 1, 5, 7, 10, 11, 12, 13, 15},
          {1, 2, 6, 8, 11, 12, 13, 14, 16},
          {2, 3, 7, 9, 12, 13, 14, 15, 17},
          {3, 4, 8, 10, 13, 14, 15, 16, 18},
          {4, 5, 9, 11, 14, 15, 16, 17}>>

Flips(high, k) == Cardinality({i \in taps[k + 1] : (high \div 2 ^ i) % 2 = 1})

(* Bit k of the new index, of which power is the value.                    *)
new_index(addr, k, power) == (Flips(higher_bits(addr), k) + (index(addr) \div power)) % 2

set_index(addr) ==
    new_index(addr, 0, 1) + 2 * new_index(addr, 1, 2) + 4 * new_index(addr, 2, 4)
    + 8 * new_index(addr, 3, 8) + 16 * new_index(addr, 4, 16) + 32 * new_index(addr, 5, 32)

(* set_index with LINEAR_SET_FUNCTION: hash_function.                      *)
linear_set_index(addr, sets) == (addr \div m_line_size) % sets
=============================================================================
