----------------------------- MODULE MCLaunchTools -----------------------------
(***************************************************************************)
(* LaunchTools on small applications.                                      *)
(*                                                                         *)
(* BbvCount has an application of two threads.  The function a is launched *)
(* by both, with different grids, so that an array is allocated on its     *)
(* first load and again, in another size, in the entry callback.  Tracer   *)
(* has that of MCTracer: three launches of two warps of two instructions,  *)
(* of which the second accesses memory, a channel that fills up within a   *)
(* kernel and every setting of the options.                                *)
(***************************************************************************)
EXTENDS LaunchTools, TLC

CONSTANTS t1, t2, none

MC_Threads == {t1, t2}
MC_Program ==
    t1 :> <<[kernel |-> "a", blocks |-> 1, threads |-> 64],
            [kernel |-> "b", blocks |-> 2, threads |-> 32]>>
    @@ t2 :> <<[kernel |-> "a", blocks |-> 2, threads |-> 32]>>
MC_Insns == [a |-> <<2, 3>>, b |-> <<1>>]
(* KERNEL_BEGIN and KERNEL_END.                                            *)
MC_Intervals == {<<0, 100>>, <<0, 2>>, <<1, 100>>}
MC_Everything == {<<0, 100>>}
MC_NotTheFirst == {<<1, 100>>}

MC_Warps == {1, 2}
MC_IsMem(i) == i = 2
=============================================================================
