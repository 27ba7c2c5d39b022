---------------------------- MODULE BlockScheduler ----------------------------
(***************************************************************************)
(* How the thread blocks of a kernel are spread over the SMs: the          *)
(* occupancy limits, first_spawn_block, the loop of gpu_cycle and, of each *)
(* SM's cycle, what concerns its blocks (swift-sim/gpu.cpp, gpu.h).        *)
(*                                                                         *)
(* What the warps of a block do is LoadStore: here, a block that has warps *)
(* loses the last of them in some cycle of its SM.  The limits are         *)
(* computed in floats; the quotients of the numbers that occur are exact   *)
(* enough that rounding them is integer division.                          *)
(***************************************************************************)
EXTENDS Integers, FiniteSets, Sequences

CONSTANTS
    Kernels,   \* the kernels: records of m_grid_size, m_block_size,
               \*   m_num_registers and m_shared_mem_bytes
    sm_num, num_warp_schedulers_per_SM, shared_mem_size,       \* gpu_config
    warp_size, max_active_blocks_per_SM, max_active_threads_per_SM,
    register_allocation_size, max_registers_per_block, max_registers_per_SM,
    smem_allocation_size                                  \* compute_capability

ASSUME SchedulerAssumption ==
    /\ sm_num \in Nat \ {0} /\ num_warp_schedulers_per_SM \in Nat \ {0}
    /\ shared_mem_size \in Nat /\ warp_size \in Nat \ {0}
    /\ max_active_blocks_per_SM \in Nat /\ max_active_threads_per_SM \in Nat
    /\ register_allocation_size \in Nat \ {0}
    /\ max_registers_per_block \in Nat \ {0} /\ max_registers_per_SM \in Nat
    /\ smem_allocation_size \in Nat \ {0}
    /\ \A k \in Kernels : /\ k.m_grid_size \in Nat \ {0} /\ k.m_block_size \in Nat \ {0}
                          /\ k.m_num_registers \in Nat /\ k.m_shared_mem_bytes \in Nat

VARIABLES
    info,           \* m_kernel_info
    phase,          \* "spawn", "blocks", "schedule" or "done"
    spawning,       \* first_spawn_block: the block it is at
    index,          \* first_spawn_block: the SM it is at
    sm,             \* gpu_cycle: the SM whose cycle it is
    sm_active,      \* gpu_cycle: an SM of this cycle is still active
    block_pointer,  \* the next block to hand out
    block_vec,      \* block_vec[s]: the blocks of SM s
    with_warps,     \* blocks whose warp_vec is not empty
    dispatched      \* <<block, SM>> in the order they were handed out (history)

vars == <<info, phase, spawning, index, sm, sm_active, block_pointer, block_vec, with_warps,
          dispatched>>

SMs == 0 .. sm_num - 1
Blocks == 0 .. info.m_grid_size - 1

AtMost(a, b) == IF a <= b THEN a ELSE b

(* gpu.cpp's own ceil and floor: to a multiple of s.                       *)
ceil(x, s) == s * ((x + s - 1) \div s)
floor(x, s) == s * (x \div s)

warps_per_block == ceil(info.m_block_size, warp_size) \div warp_size
regs_per_warp == ceil(info.m_num_registers * warp_size, register_allocation_size)
smem_per_block == ceil(info.m_shared_mem_bytes, smem_allocation_size)

max_block_limit_by_regs ==
    IF info.m_num_registers = 0 THEN max_active_blocks_per_SM
    ELSE LET allocated_warps ==
                 floor(max_registers_per_block \div regs_per_warp, num_warp_schedulers_per_SM)
         IN  (allocated_warps \div warps_per_block)
                 * (max_registers_per_SM \div max_registers_per_block)

max_block_limit_by_smem ==
    IF info.m_shared_mem_bytes = 0 THEN max_active_blocks_per_SM
    ELSE shared_mem_size \div smem_per_block

\* Faulty variant of max_block_limit_by_warps: the threads of a block are not
\* rounded up to warps.
LimitByThreads ==
    AtMost(max_active_blocks_per_SM, max_active_threads_per_SM \div info.m_block_size)

max_block_limit_by_warps ==
    AtMost(max_active_blocks_per_SM,
           (max_active_threads_per_SM \div warp_size) \div warps_per_block)

max_block_per_sm ==
    AtMost(AtMost(max_block_limit_by_smem, max_block_limit_by_regs), max_block_limit_by_warps)

----
Init ==
    /\ info \in Kernels
    /\ phase = "spawn" /\ spawning = 0 /\ index = 0
    /\ sm = 0 /\ sm_active = FALSE
    /\ block_pointer = 0
    /\ block_vec = [s \in SMs |-> {}]
    /\ with_warps \in SUBSET Blocks
    /\ dispatched = << >>

active_sms == AtMost(info.m_grid_size, sm_num)

\* Faulty variant of Take: block_pointer does not count the blocks that
\* first_spawn_block hands out.
TakeUncounted == UNCHANGED block_pointer

Take == block_pointer' = block_pointer + 1

(* first_spawn_block, one turn of its loop.                                *)
SpawnBlock ==
    /\ phase = "spawn" /\ spawning \in Blocks
    /\ IF Cardinality(block_vec[index]) < max_block_per_sm
       THEN /\ block_vec' = [block_vec EXCEPT ![index] = @ \union {spawning}]
            /\ dispatched' = Append(dispatched, <<spawning, index>>)
            /\ Take
            /\ index' = (index + 1) % active_sms
       ELSE UNCHANGED <<block_vec, dispatched, block_pointer, index>>
    /\ spawning' = spawning + 1
    /\ UNCHANGED <<info, phase, sm, sm_active, with_warps>>

Spawned ==
    /\ phase = "spawn" /\ spawning \notin Blocks
    /\ phase' = "blocks"
    /\ UNCHANGED <<info, spawning, index, sm, sm_active, block_pointer, block_vec, with_warps,
                   dispatched>>

\* Faulty variant of Active: the blocks that have not been handed out are
\* forgotten.
ActiveByBlocks(alive) == block_vec[sm] \cap alive # {}

(* streaming_multiprocessor::sm_active, when the blocks of alive have warps. *)
Active(alive) == block_vec[sm] \cap alive # {} \/ block_pointer < info.m_grid_size

(* del_inactive_block, and the loop of sm_cycle that takes new blocks.     *)
ReplaceBlocks ==
    LET kept == block_vec[sm] \cap with_warps
        room == AtMost(max_block_per_sm - Cardinality(kept), info.m_grid_size - block_pointer)
        taken == block_pointer .. block_pointer + room - 1
    IN  /\ phase = "blocks" /\ Active(with_warps)
        /\ block_vec' = [block_vec EXCEPT ![sm] = kept \union taken]
        /\ dispatched' = dispatched \o [i \in 1 .. room |-> <<block_pointer + i - 1, sm>>]
        /\ block_pointer' = block_pointer + room
        /\ phase' = "schedule"
        /\ UNCHANGED <<info, spawning, index, sm, sm_active, with_warps>>

(* sm_cycle returns at once.                                               *)
Inactive ==
    /\ phase = "blocks" /\ ~Active(with_warps)
    /\ phase' = "schedule"
    /\ UNCHANGED <<info, spawning, index, sm, sm_active, block_pointer, block_vec, with_warps,
                   dispatched>>

(* schedule_warps_in_subcores retires the last warps of some blocks; then  *)
(* gpu_cycle looks whether the SM is active and goes on.                   *)
Schedule(retired) ==
    /\ phase = "schedule"
    /\ retired \subseteq block_vec[sm] \cap with_warps
    /\ with_warps' = with_warps \ retired
    /\ UNCHANGED <<info, spawning, index, block_pointer, block_vec, dispatched>>
    /\ LET active == sm_active \/ Active(with_warps \ retired)
       IN  IF sm = sm_num - 1
           THEN /\ phase' = IF active THEN "blocks" ELSE "done"
                /\ sm' = 0 /\ sm_active' = FALSE
           ELSE phase' = "blocks" /\ sm' = sm + 1 /\ sm_active' = active

Done ==
    /\ phase = "done"
    /\ UNCHANGED vars

Next ==
    \/ SpawnBlock \/ Spawned \/ ReplaceBlocks \/ Inactive
    \/ \E retired \in SUBSET Blocks : Schedule(retired)
    \/ Done

(* The loop goes on, and as long as blocks are resident one is finished in *)
(* the end: LoadStore!EveryWarpRetires.                                    *)
Fairness ==
    /\ WF_vars(Next)
    /\ SF_vars(\E retired \in SUBSET Blocks \ {{}} : Schedule(retired))

Spec == Init /\ [][Next]_vars /\ Fairness

----
(* The blocks of an SM fit on it: their number, their warps, registers and *)
(* shared memory, each rounded up to what the hardware allocates, stay     *)
(* within its limits, although the four limits are computed apart and      *)
(* blocks come and go.                                                     *)
ResourcesFit ==
    \A s \in SMs :
        LET n == Cardinality(block_vec[s])
        IN  /\ n <= max_active_blocks_per_SM
            /\ n * warps_per_block * warp_size <= max_active_threads_per_SM
            /\ n * warps_per_block * regs_per_warp <= max_registers_per_SM
            /\ n * smem_per_block <= shared_mem_size

(* The blocks are handed out once each, in their order, by SMs that share  *)
(* one pointer; no two SMs hold the same one, and none is dropped while it *)
(* has warps.                                                              *)
EachBlockOnce ==
    /\ Len(dispatched) = block_pointer
    /\ \A i \in 1 .. Len(dispatched) :
          LET b == dispatched[i][1]
          IN  /\ b = i - 1
              /\ b \in with_warps => b \in block_vec[dispatched[i][2]]
    /\ \A s, t \in SMs : s # t => block_vec[s] \cap block_vec[t] = {}

(* The kernel ends, with every block handed out and finished, unless not   *)
(* even one block fits on an SM: then the loop never ends.                 *)
EveryBlockRuns ==
    max_block_per_sm > 0 =>
        <>(phase = "done" /\ with_warps = {} /\ block_pointer = info.m_grid_size)
=============================================================================
