------------------------------- MODULE MCTracer -------------------------------
(***************************************************************************)
(* Tracer with three launches of two warps of two instructions, of which   *)
(* the second accesses memory, a channel that fills up within a kernel and *)
(* every setting of the options.                                           *)
(***************************************************************************)
EXTENDS Tracer

MC_Warps == {1, 2}
MC_IsMem(i) == i = 2
MC_Limits == {0, 1, 2}
=============================================================================
