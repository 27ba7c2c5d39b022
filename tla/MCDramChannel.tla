---------------------------- MODULE MCDramChannel ----------------------------
(***************************************************************************)
(* DramChannel with two slices that send three fetches each: as many as    *)
(* are needed to keep mrqq, rwq and returnq busy at the same time, and one *)
(* more than a slice's queue holds.                                        *)
(***************************************************************************)
EXTENDS DramChannel

MC_NumSends == [p \in Slices |-> 3]
=============================================================================
