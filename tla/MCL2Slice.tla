------------------------------ MODULE MCL2Slice ------------------------------
(***************************************************************************)
(* L2Slice with a set of two ways and three lines.  Two reads of sector a0 *)
(* merge and a third finds the MSHR entry full; a read of b0 finds the     *)
(* table full.  A store writes the other sector of a's line (a sector miss *)
(* with or without an idle way) and one sector a0 itself (hit or miss); a  *)
(* copy writes c0, which evicts or allocates.                              *)
(***************************************************************************)
EXTENDS L2Slice

a0 == <<"a", 0>>
a1 == <<"a", 1>>
b0 == <<"b", 0>>
c0 == <<"c", 0>>

MC_SectorOf == << a0, a0, a0, b0, a1, a0, c0 >>
MC_KindOf == << "read", "read", "read", "read", "write", "write", "copy" >>
MC_Fetches == 1 .. 7
MC_TlbHit == {5}
MC_Tags == {"a", "b", "c"}
MC_Masks == {0, 1}
=============================================================================
