-------------------------------- MODULE SimGpu --------------------------------
(***************************************************************************)
(* sim_gpu of swift-sim/main.cpp, for one kernel: the files of its trace   *)
(* are split and read (TraceFiles), then its blocks are run                *)
(* (BlockScheduler).  The two halves share no state but the trace, of      *)
(* which the second is to know only which blocks have instructions, and    *)
(* takes every possibility; so a behaviour follows one half, while the     *)
(* other rests.                                                            *)
(***************************************************************************)
EXTENDS TraceFiles, BlockScheduler

VARIABLE half   \* the half that is followed, "read" or "cycle"

all_vars == <<half, reader_vars, vars>>

(* The other half at rest: nothing traced, or nothing spawned.             *)
ReaderRests ==
    /\ sass = << >>
    /\ stage = "stopped" /\ at = 1
    /\ exist = {} /\ block_mem = [b \in FileBlocks |-> << >>]
    /\ runs = 0 /\ torn = FALSE

SchedulerRests ==
    /\ info = CHOOSE k \in Kernels : TRUE
    /\ phase = "spawn" /\ spawning = 0 /\ index = 0
    /\ sm = 0 /\ sm_active = FALSE
    /\ block_pointer = 0
    /\ block_vec = [s \in SMs |-> {}]
    /\ with_warps = {}
    /\ dispatched = << >>

SimInit ==
    \/ half = "read" /\ ReaderInit /\ SchedulerRests
    \/ half = "cycle" /\ ReaderRests /\ Init

Read == half = "read" /\ ReaderNext /\ UNCHANGED <<half, vars>>

(* The simulator is not started again.                                     *)
ReadEnough ==
    /\ half = "read" /\ stage = "stopped" /\ runs = MaxRuns
    /\ UNCHANGED all_vars

InScheduler(A) == half = "cycle" /\ A /\ UNCHANGED <<half, reader_vars>>

Cycle == InScheduler(Next)

SimNext == Read \/ ReadEnough \/ Cycle

(* BlockScheduler's fairness; the reader may be killed and never started   *)
(* again.                                                                  *)
SimFairness ==
    /\ WF_all_vars(Cycle)
    /\ SF_all_vars(InScheduler(\E retired \in SUBSET Blocks \ {{}} : Schedule(retired)))

SimSpec == SimInit /\ [][SimNext]_all_vars /\ SimFairness

(* The kernel ends, with every block handed out and finished, unless not   *)
(* even one block fits on an SM: then the loop of gpu_cycle never ends.    *)
KernelEnds == half = "cycle" => EveryBlockRuns
=============================================================================
