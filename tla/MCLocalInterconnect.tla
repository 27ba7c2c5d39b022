------------------------- MODULE MCLocalInterconnect -------------------------
(***************************************************************************)
(* AddressedInterconnect with two SMs and two L2 slices, which are those   *)
(* of one DRAM channel.  SM 0 has two fetches and SM 1 a fetch for one     *)
(* line, so that they contend for its slice and SM 1 can fall behind; SM 1 *)
(* also has a write-through copy for the next line, which the other slice  *)
(* has.                                                                    *)
(***************************************************************************)
EXTENDS AddressedInterconnect

CONSTANTS r0, r1, r2, wt

MC_Fetches == {r0, r1, r2, wt}
MC_SmOf == [f \in MC_Fetches |-> IF f \in {r0, r1} THEN 0 ELSE 1]
MC_WriteThrough == {wt}

(* The accesses are to sectors 0, 1 and 3 of a line and to the next line.  *)
MC_access ==
    [f \in MC_Fetches |->
        5 * Chunk + CASE f = r0 -> 4 [] f = r1 -> 40 [] f = r2 -> 100 [] f = wt -> 136]
MC_MemOf == [f \in MC_Fetches |-> get_mem_sub_partition_id(SectorOf(f))]
=============================================================================
