------------------------------- MODULE MCSimGpu -------------------------------
(***************************************************************************)
(* SimGpu.  Traces: every one of up to four instructions by two warps of   *)
(* block 0 and one of block 1, over a load, an arithmetic instruction,     *)
(* EXIT, and a BAR whose first operand is a register; the simulator runs   *)
(* three times.  Blocks: two SMs of six warps and four blocks; the kernels *)
(* are limited by their warps (with a last warp that is not full), by      *)
(* shared memory, by registers and by the number of blocks, one has fewer  *)
(* blocks than there are SMs, and one does not fit at all.                 *)
(***************************************************************************)
EXTENDS SimGpu

MC_Places == {<<0, 0>>, <<0, 1>>, <<1, 0>>}
MC_Pcs == {"LD", "ADD", "EXIT", "BAR"}
MC_IsMem(pc) == pc = "LD"
MC_DestRegs(pc) == CASE pc \in {"LD", "BAR"} -> {"R1"} [] pc = "ADD" -> {"R2"} [] OTHER -> {}
MC_SrcRegs(pc) == CASE pc = "LD" -> {"R2"} [] pc = "ADD" -> {"R1"} [] OTHER -> {}
MC_IsBarrier(pc) == pc \in {"EXIT", "BAR"}

(* Addresses in both sectors of one line and in the next line; an          *)
(* instruction whose threads are all masked off names none.                *)
MC_AddressLists == {<< >>, << 3, 4, 1 >>}

Kernel(grid, size, regs, smem) ==
    [m_grid_size |-> grid, m_block_size |-> size, m_num_registers |-> regs,
     m_shared_mem_bytes |-> smem]

MC_Kernels ==
    { Kernel(5, 5, 1, 0), Kernel(4, 3, 2, 5), Kernel(5, 3, 4, 0), Kernel(7, 3, 0, 0),
      Kernel(5, 1, 0, 3), Kernel(1, 2, 1, 1), Kernel(2, 2, 5, 0) }
=============================================================================
