# TLA+ models of Swift-GPUSim

Swift-GPUSim is a trace-driven GPU simulator and the tool that makes its traces. A tracing tool
(an NVBit library, `src/tracer_nvbit_allsass/tracer_tool`) runs inside a CUDA application and
writes, for every kernel, the instructions its warps execute and the addresses they access. The
simulator (`src/swift-sim`) reads these files and replays them, cycle by cycle, on a model of a
GPU: streaming multiprocessors (SMs) with an L1 cache, a network on chip, L2 slices and DRAM
channels. The result is a number of cycles; nobody can tell from it that a fetch was lost in a
queue or an instruction released too early, unless the simulator hangs or exits. That is what
these models are about.

Contents: [parts](#the-system) · [hard behaviours](#what-is-hard-here) · [modules](#the-modules) ·
[runs](#the-runs) · [fairness](#fairness) · [proofs](#the-proofs) · [findings](#findings) ·
[limits](#what-is-not-modelled) · [plan](#plan)

## The system

| part | source | state | operations |
|---|---|---|---|
| tracing tool, host | `tracer_tool.cu` | control flags (`active_region`, `first_call`, `skip_flag`, `recv_thread_receiving`), the open `.sass` and `.mem` files, the host half of the channel | `nvbit_at_init`, `nvbit_at_ctx_init/term`, the callback around every CUDA call, the receiving thread |
| tracing tool, device | `inject_funcs.cu` | the device half of the channel | `instrument_inst` pushes one record per executed instruction; `flush_channel` |
| trace reader | `trace_reader.cpp`, `main.cpp` | one `.mem` file per thread block | `gen_block_mem_trace` splits a file, `read_sass` reads the instructions |
| kernel, blocks, warps | `kernel.cpp`, `kernel.h` | instructions of each warp and their dependencies, completion times, counters of fetches and units | `init_blocks`, `read_mem`, `get_inst_dependency`, the warp's counters |
| block scheduler | `gpu.cpp` | `block_pointer`, the blocks of every SM | `process_kernel`, `first_spawn_block`, `gpu_cycle`, `inst_schedule` |
| SM memory path | `gpu.cpp`, `gpu.h`, `cache.cpp` | resident blocks and warps, LDS units, the queues between SM and L1, lines and MSHRs of the L1 | `sm_cycle` and the handlers it calls in a fixed order |
| crossbar router | `crossbar.cpp` | an input and an output buffer per node, the rotation | `Push`, `Pop`, `Has_Buffer_In/Out`, `Advance` |
| local interconnect | `crossbar.cpp` | two routers, for requests and replies | `Push`, `Pop`, `HasBuffer`, `Advance` |
| L2 slice | `cache.cpp` | lines, MSHRs, five queues | `l2_cache_cycle`, `cache_access` |
| DRAM channel | `cache.cpp`, `dram.cpp`, `delayqueue.h` | latency queue, `mrqq`, `rwq`, `returnq`, a queue to each slice | `dram_cycle`, `dram_t::push/cycle/return_queue_*`, `fifo_pipeline::push/pop` |
| address decoding | `mem_fetch.cpp`, `cache.h`, `kernel.cpp` | none | line and sector of an access, slice and channel of a sector, tag, MSHR address and set of a line |
| compute units | `gpu.cpp`, `gpu.h` | `ready_time` of each unit and the instruction an LDS unit holds | `load_all_subcore_units`, `schedule_warps_in_subcores`, `issue_inst`, `LdStInst::process*`, `unit_cycle` |
| basic-block-vector tools | `bbv_count.cu`, `bbv_count_tb.cu` | a mutex, the managed array `bbv`, `kbb_map` | the callbacks of a launch, the first load of a function, `count_instrs` on the device |
| checkpoint tool | `checkpoint.cu` | `tracking_map`, counters | the callbacks of allocations, frees and launches |
| configuration, statistics, scripts, occupancy tool | several | – | – |

How they interact. One thread simulates one kernel. `gpu_cycle` calls, in this order, the memory
partitions (each: its DRAM channel, then its L2 slices), `Advance` of the two routers, and the
SMs. So there is no concurrency inside the simulator in the sense of threads; the components
interact through queues, and what makes it hard is that an answer arrives in a cycle and in an
order that none of them controls. The tracing tool, on the other hand, is concurrent: the
application's thread, the device and the receiving thread share flags, a channel and files.
The tracing tool and the simulator communicate through the files only. The counting and checkpoint
tools are NVBit libraries of their own beside the tracer; their callbacks run in the threads of the
application, around its calls of the driver, while the device runs on.

```
 application -> callback -\                                  block scheduler
 device      -> channel ---> .sass/.mem files -> blocks,      |  hands out blocks
 receiving thread --------/     (split, read, joined)  warps  v
                                                             SM  (issue, LDS units, L1)
                                                              |  ^
                                             request network  v  |  reply network
                                                            L2 slices
                                                              v  ^
                                                          DRAM channels
```

### What makes each part correct

- *Tracing tool*: the files of a kernel hold its records, all of them, each once and in order per
  warp, and nothing of another kernel; the kernels traced are those the options ask for; a launch
  always returns.
- *Trace files*: each memory instruction gets the addresses it had, though they are joined
  again from two files and one of them was split; the dependencies order what must be ordered.
- *Block scheduler*: what is resident on an SM fits on it, every block runs once, the loop ends.
- *SM memory path*: the counters say what is outstanding, an answer always finds its warp, a
  merged read is always answered, a retired warp has nothing left, and every warp retires.
- *Network*: FIFO per pair of nodes, nothing lost, copied or misrouted, nobody starves.
- *L2 slice*: each fetch is answered once (or deleted, if it is a copy), one way per line.
- *DRAM channel*: an answer goes to the slice that asked, the latency is exact, the asserts hold.
- *Address decoding*: the sectors of a line belong to one slice, two addresses of a channel differ,
  and a set function separates the lines that differ above the index.
- *Compute units*: a unit is given no more work than there is time, whatever the subcores do, and
  no warp waits for one for ever.
- *Counting and checkpoint tools*: the array a kernel adds to is alive and large enough, the reports
  count what ran in the launches asked for, and a checkpoint holds what was live when the kernel ended.

## What is hard here

`PROJECT.json` lists the hazards at their lines, with the properties that watch them. In short:

- Two counters per warp and one per instruction go up where a fetch is made and down in three other
  places; the program calls `exit(1)` or hangs when they disagree with what is in flight.
- Reads merge in two MSHR tables with different rules: the L1 sends one request for all, the L2
  sends one for each and ignores the later answers.
- Stores that hit in the L1 send a copy to the L2 that must die there; others must come back.
- A refused access is tried again from the front of its queue and must not be duplicated.
- Buffers whose limits nobody asks for (`LocalInterconnect::Push` by the L2, `fifo_pipeline::push`,
  the return queue) rely on the order of the calls in a cycle.
- The end of a kernel's trace is a handshake among three parties through one flag.
- The splitting of the trace may be killed half-way, also between the creation of a file and the writing of
  its first line, and the next run looks at one file only.
- `ready_time` grows by the occupancy of an instruction and is not set from the clock, kinds with few
  lanes share one unit across the subcores, and a load holds its unit until its last fetch.
- The array of the counting tools is freed in one callback and made again in one of two others; the
  mutex around a launch is taken in one call and released in another.
- The checkpoint tool tells entry from exit by the parity of a counter, and addresses are used again.

## The modules

| module | models | state, and what it is in the code |
|---|---|---|
| `XbarRouter` | `xbar_router` | `in_buffers`, `out_buffers`, `next_node_id`; actions for a push, a pop and `Advance` in any order, which is any use of the class |
| `PairChannels` | (abstract) | one FIFO channel per pair of nodes: what a router and a DRAM channel promise |
| `LocalInterconnect` | `LocalInterconnect` in the order of `gpu_cycle` | two instances `Req`, `Rep` of `XbarRouter`; `held` is what the L2 and the DRAM have; `turn` is how far `gpu_cycle` has come |
| `AddressedInterconnect` | the same with `get_mem_sub_partition_id` | `access`, the address of each fetch's access, gives the slice it is sent to |
| `LoadStore` | one SM from issue to retirement | `block_vec`, `warp_vec`, `completions`, `pending_*`, `units`, `m_sm_to_l1`, `l1_to_sm`, `lines`, `m_mshrs`, `m_miss_queue`; `below` is everything under the L1 |
| `L2Slice` | `l2_data_cache` | `m_l1_to_l2`, `lines`, `m_mshrs`, the three queues of `l2_to_sms`; `dram` is the channel below |
| `DramChannel` | a channel and its queues to the slices | `L2_dram`, `latency`, `mrqq`, `rwq`, `returnq`, `dram_L2` |
| `BlockScheduler` | occupancy and the blocks of all SMs | `block_pointer`, `block_vec`, `with_warps`, and `dispatched` (history) |
| `TraceFiles` | from files to instructions | `sass`, `exist` and `block_mem` (the files of the blocks), `at` (how far the split has come), `stage`, `torn` (history) |
| `SimGpu` | `sim_gpu`, which reads the files and then runs the blocks | `half`, the half that is followed, and the variables of `TraceFiles` and `BlockScheduler` |
| `AddressDecode` | `get_mem_sub_partition_id`, `cache_config`, coalescing | no state: operators on addresses, named as in the code |
| `ComputeUnits` | the units of an SM and the issue to them | `ready_time`, `m_inst`, `completions`, `warp_vec`, `fetches` (what has left a unit), `work` (history) |
| `BbvCount` | both counting tools | their globals by name; `heap` is the managed memory, `running` and `reading` the warps, `executed` and `ran` history |
| `Checkpoint` | the checkpoint tool | `tracking_map` and counters by name; `app`, `memory`, `running` are the application and the device, `wanted` history |
| `LaunchTools` | one of these libraries at a time: a counting tool, the tracer or the checkpoint tool | `loaded_tool` and the variables of all three; the others rest |
| `Subsequences` | (helper) the elements of a sequence at some positions, in their order | no state; `SelectSeq` without recursion, so that it can be reasoned about |
| `Tracer` | the tracing tool | its control variables by name; `channel_dev`, `doorbell`, `recv_buffer` are the channel; `sassFile`, `memFile`, `statsFile` the files |

A handler of the code is one action, with everything it does. A function that is called once a
cycle and does several things one after another, such as `sm_cycle`, is cut into the handlers it
calls, and a variable (`phase` or `turn`) keeps them in their order; there is no other
interleaving in the simulator and none in its models. `MC*` modules give the constants small
values. Definitions marked *Faulty variant* are no part of the models: they are mistakes the code
could contain, and `PROJECT.json` says which property each would break.

How the modules rest on each other. `LocalInterconnect` composes two `XbarRouter`s with a
reduced L2; `AddressedInterconnect` composes it with `AddressDecode`, which gives the slice of each fetch. `LaunchTools` loads one of the
counting tools, the tracer or the checkpoint tool into an application. `SimGpu` puts `TraceFiles` and `BlockScheduler`
into one program; they share no state, so a behaviour follows one of them. The other modules are composed by assumption and guarantee, each showing what the
next assumes of its environment:

| module | assumes | shown by |
|---|---|---|
| `LoadStore` | a fetch sent down that the SM counts is answered, in any order; copies are not | `LocalInterconnect!RoundTrip`, `L2Slice!EveryFetchAnswered`, `L2Slice!CopiesEndHere` |
| `LocalInterconnect` | an L2 slice answers what it holds | `L2Slice!EveryFetchAnswered` |
| `L2Slice` | the DRAM answers what it is sent, in order, and no assert of its queues fails | `DramChannel!ImplementsChannels`, `EveryFetchReturns`, `NeverAsserts`, as long as a slice has no more than 999999 fetches for it |
| `DramChannel` | a slice sends finitely many fetches | the traces are finite, and each fetch is sent once (`L2Slice!OnePlace`) |
| `BlockScheduler` | a resident block loses its warps in the end | `LoadStore!EveryWarpRetires` |
| `LoadStore`, programs | instructions with their dependencies | `TraceFiles` |
| `LoadStore` | a compute unit is ready again in the end | `ComputeUnits!EveryWarpIssues` |
| `ComputeUnits` | a fetch is answered | `LocalInterconnect!RoundTrip` |
| `L2Slice` | all fetches of a line come to one slice | `AddressedInterconnect!LineAtOneSlice` |
| `TraceFiles` | complete `.sass` and `.mem` files | `Tracer!FilesComplete` |

### Abstractions

- *Times* are kept relative to the current cycle, as the number of cycles left, because the
  code only compares them with `current_cycle`; so a model has finitely many states
  although it may run for ever. `INT_MAX` stays: it is the completion time of what is in flight.
- *Addresses* are sectors `<<line, bank>>` or `<<tag, mask>>` in the caches, and natural numbers in
  `AddressDecode`, where a shift is a division and a mask of low bits a remainder. The run
  `interconnect` takes its fetches from real addresses and computes their slices.
- *Replacement* takes any line. The code takes the least recently used; nothing checked
  here depends on which.
- *Records of the trace* are kernel, warp and number; the text of a line is left out. Registers and
  opcode are functions of the pc.
- *Compute units* are always ready in `LoadStore`, where instructions other than memory instructions
  take `alu_latency` cycles: `ready_time` can only delay an issue. `ComputeUnits` has the units in full
  and, in turn, all blocks resident and answers after one of a few delays.
- *Counting tools*: launches are two-dimensional and of whole warps, which the tools take for granted;
  a warp is one or several parts with one active thread each. The *n*-th launch is the *n*-th that ends; the
  option `KERNEL_BEGIN` counts launches, and as one is between its callbacks at a time, the two agree. A cell outside the live array reads
  as -1 and a write to it is lost, so that a wrong index shows.
- *Checkpoint tool*: one application thread, because the parity of the counter needs it. A file is what
  has been written to its stream. The tool closes none (`checkpoint.cu:270`), so the end of a file may be on the disk
  only when the application exits.
- *Below the L1*, `LoadStore` answers any fetch in any later cycle, more freely than the
  network does. *Below the L2*, `L2Slice` has a FIFO of any delay.
- The *caches* are one set each in `LoadStore` and `L2Slice`. Sets share only the MSHRs and queues.
- The *occupancy limits* are computed in floats by the code and in integers by `BlockScheduler`. The
  quotients of numbers of this size are rounded to the same integers.

## The runs

All of them explore every reachable state. Each property has a mutant of the code in
`PROJECT.json` that breaks it.

| run | instance | states | what it shows |
|---|---|---|---|
| `xbar` | 4 nodes, limits 1, two nodes that ask for a buffer and one that does not | 18900 | `AdvanceIsTheLoop`: the arbitration, which the model states as who wins, moves the packets that the loop of `RR_Advance` moves. `ImplementsChannels`: FIFO per pair of nodes, nothing lost. `RightPort`: a packet waits at its own port |
| `interconnect` | 2 SMs, 2 slices, 4 fetches of real addresses, 3 of them for one line | 5512 | `OutputsNeverBlock`, `OnePlace`, `LineAtOneSlice` (the fetches of a line meet in one slice), `FirstIsServed`, `RoundTrip` |
| `loadstore` | 5 warps, 3 blocks, 2 resident, 3 sectors | 120604 | the counters are exact (`PendingIsOutstanding`), the `exit(1)` paths are not taken (`NeverExits`), one primary per MSHR entry (`OnePrimary`), a retired warp has nothing left (`RetiredIsFinished`), an atomic completes with its last sector (`AtomicCompletesLast`), `MshrWithinLimits`, `Residency`, `EveryWarpRetires` |
| `l2` | 1 set of 2 ways, 3 lines, 7 fetches | 243281 | `OnePlace`, `MshrInFlight`, `UniqueTags`, `HitsInOrder`, `CopiesEndHere`, `EveryFetchAnswered` |
| `dram` | 2 slices, 3 fetches each, queues to the DRAM of 2, `CL` 2 | 14370 | `NeverAsserts`, `ExactLatency`, `ImplementsChannels` (FIFO per slice), `EveryFetchReturns` |
| `simgpu` | every trace of up to 4 instructions of 3 warps, 3 runs of the simulator, killed anywhere; 2 SMs, 7 kernels | 2540809 | `AddressesMatch`, `DependenciesSuffice`, `ResourcesFit`, `EachBlockOnce`, `KernelEnds` |
| `units` | 2 subcores, 3 kinds of units, 36 kernels of 4 warps in 3 blocks | 275858 | `UnitThroughput`: adding to a `ready_time` in the past lets a unit catch up, never gain; `EveryWarpIssues` |
| `tools` | 2 threads, 3 launches of 2 functions, warps of 2 parts; 3 allocations of 2 sizes at 2 addresses, 2 launches; 3 launches of 2 warps of 2 instructions, every setting of the tracer's options | 1594965 | `ArrayIsLive`, `CountsByDefault`, `FilesComplete`, `RegionHonoured`, `SnapshotExact`; `EveryLaunchReturns`, under fairness: neither the full channel nor the handshake with the receiving thread holds a traced launch for ever; the deadlock check: nor does a launch of the other tools hang |
| `premature`, `limits`, `interval`, `lostcounts` | as `loadstore`, `tools` (the tracer alone in `limits`, no divergence in `interval`) | – | the four [findings](#findings) |

Type invariants are proved for all the modules, as a part of their inductive invariants. `RequestsWithinLimit` of the interconnect is proved and not run.

Deadlock is checked everywhere. Where a program ends in its model (`Terminated`, `Done`, `Ended`,
`ReadEnough`, `Aborted`), a final step says so.

### Bounds, and why they are enough

- `xbar`: limits of 1 make every full buffer happen with two packets. `Backlog` 2 bounds what
  a node that does not ask may queue, and lets one overtake another if the code allowed it.
  Three senders for two receivers are the least with which the rotation passes over a node.
- `interconnect`: `in_buffer_limit` is 1 (512 in the code), so that `HasBuffer` refuses. Three fetches
  for a slice from two SMs contend for it.
- `loadstore`: five warps are chosen so that a load merges, meets a full MSHR entry and a full
  table, stores hit and miss, an atomic spans two banks, one line evicts another, a third block
  waits for a place, and a store waits for a bank another unit holds.
- `l2`: two ways and three lines force an eviction; one entry of two merges meets both limits.
  The two latencies differ, which is what `HitsInOrder` is about.
- `dram`: three fetches of each slice keep every stage of the channel busy at once. `CL` 2 makes `rwq`
  hold a request and padding at the same time. `L2_dram_max` is 2 (999999 in the code), fewer than a slice has
  fetches, so that the assert of a slice's queue fails in some behaviours.
- `simgpu`, blocks: the kernels are limited by warps, registers, shared memory and the number of blocks in
  turn. One has fewer blocks than there are SMs, one a last warp that is not full, one does not fit.
- `tools`, tracer: the channel holds 3 records, less than a kernel makes, so that the device waits.
  `MaxSwitches` 2 bounds the calls of `cuProfilerStart` and `cuProfilerStop`, which come in any order.
- `simgpu`, traces: `MaxLength` 4 lets a warp visit a pc more than once around another warp's visits, which
  `pc_index` must tell apart. `MaxRuns` 3: two runs that may be killed, one of them over
  the files of the other, and one that finds what they left. A BAR writes a register.
- `units`: the double lanes are fewer than the subcores, so the subcores share a unit; four LDS lanes
  each make an LDS instruction last eight cycles. Two loads of two sectors each contend for one bank.
  `MaxCycles` 250 is beyond the end of the longest kernel, which ends by itself (`EveryWarpIssues`).
- `tools`, counting: `a` is launched by both threads with grids that need arrays of different sizes, so that an
  array is made by a first load, by a second launch, and after another function's. `MaxVisits` 2
  basic blocks per launch let two parts of a warp collide on one count. The intervals are everything, the first
  two launches, and all but the first. The checkpoint application
  has fewer addresses than allocations, so that an address is used again.

Counters never need a bound of their own, because times are relative and fetches are finite.

## Fairness

Every fairness condition is one the code's scheduling gives.

- *The simulator's loop* (`WF` of the cycle's steps in `LocalInterconnect`, `LoadStore`, `DramChannel`,
  `L2Slice`, `BlockScheduler`): `gpu_cycle` is one thread that loops while an SM is active. An SM is active as long
  as it has counted a fetch that is not answered (`LoadStore!PendingIsOutstanding`), which is the condition `Active`
  of `LocalInterconnect` and `L2Slice`: the cycle is fair only while there is such a fetch. Write-through copies are
  not counted, so the simulator may stop with some still under way, and `RoundTrip` and `EveryFetchAnswered`
  promise nothing about them. What is in a `DramChannel` is under way for a counted fetch, since copies never
  get there (`L2Slice!CopiesEndHere`).
- *`LoadStore`: `SF` of `MissQueueSend` and of some reply*: the network takes the head of the miss queue
  again and again (the rotation serves everybody, `FirstIsServed`), and answers (`RoundTrip`). It
  asks only for *some* reply, not for each; as a kernel makes finitely many fetches this suffices.
- *`LocalInterconnect`: `SF` per counted fetch an L2 slice holds*: the slice's turn comes every cycle, and
  the fetch is answered in one of them (`L2Slice!EveryFetchAnswered`).
- *`L2Slice`: `SF` of `DramReturn`*: `DramChannel!EveryFetchReturns`.
- *`BlockScheduler`: `SF` of a cycle that finishes a block*: `LoadStore!EveryWarpRetires`.
- *`Tracer`, alone or in `LaunchTools`: `WF` of the callback, the device and the receiving thread*: the first spins with
  `pthread_yield`, the third polls, and the device runs what was launched. The application is
  not fair: it may stop making calls.
- *`ComputeUnits`: `WF` of the cycle*: `gpu_cycle` again; an answer comes in the cycle that was chosen.
- *`BbvCount`, `Checkpoint`* have none: that no launch hangs is left to the deadlock check, for the
  driver and the application promise no progress in the repository.
- *`TraceFiles`* has none and no liveness property. In `SimGpu` only the half of `BlockScheduler` is fair.

`EveryFetchReturns` is worth a remark. `dram_cycle` always looks at slice 1 first, because it never
updates `last_issued_partition`; slice 0 gets the DRAM only while slice 1 has nothing. With an
endless stream from slice 1, slice 0 would starve. The property holds because a kernel's fetches
are finite, and `NumSends` is part of the model for that reason.

## The proofs

TLC checks the instances above. TLAPS proves the following for *all* values of the constants that
satisfy the named assumptions (`RouterAssumption`, `InterconnectAssumption`,
`AddressedAssumption`, `LoadStoreAssumption`, `SliceAssumption`, `DramAssumption`,
`SchedulerAssumption`, `DecodeAssumption`, `UnitsAssumption`, `BbvAssumption`, `TracerAssumption`,
`TraceAssumption`). These assumptions
say that sizes are positive, that the functions among the constants have their domains, that the padding
`NULL` is no request, and the like. Three say more. `LoadStoreAssumption`: programs are finite, an instruction
depends on earlier ones only (`DependenciesCorrect` shows that those of the code do), and its sectors differ
(`AddressesCorrect` shows that coalescing sees to it); the latencies of the L1
and the ALU are positive. `SliceAssumption`: the two latencies of the L2 are positive and differ.
`AddressedAssumption`: there are two slices for each channel, as `get_mem_sub_partition_id` takes for granted
when it is given `mem_num / 2`.

Two facts one might expect among the assumptions are not there, because the code does not guarantee them.
`DramAssumption` does not bound the fetches of a slice: `L2_dram_queue_push` never asks for room (`cache.h:566`) and
the limit of 999999 is none on what a kernel makes, so its assert may fail, and `NeverAsserts` says when. A BAR may
write a register: the tracer takes a register that is the first operand for one that is written
(`tracer_tool.cu:182`), `get_inst_dependency` records the write before it looks up what a BAR waits for
(`kernel.cpp:43-50`), and the BAR waits for itself; `DependenciesSuffice` says that this is the only instruction that does.

| theorem | says |
|---|---|
| `XbarRouterProofs!RouterCorrect` | types, `RightPort`, and the limits of a router, in any environment |
| `XbarRouterProofs!ChannelsCorrect`, `LoopCorrect` | `ImplementsChannels`: a router is a FIFO channel for each pair of nodes; `AdvanceIsTheLoop`: the arbitration is what the loop of `RR_Advance` computes, for any number of nodes |
| `LocalInterconnectProofs!TypesCorrect`, `RequestsCorrect`, `OutputsCorrect`, `RotationCorrect`, `OnePlaceCorrect` | type correctness, `RequestsWithinLimit`, `OutputsNeverBlock`, `FirstIsServed`, `OnePlace` |
| `LocalInterconnectProofs!LinesMeet` | `LineAtOneSlice`: decoding and routing together |
| `LoadStoreProofs!TypesCorrect`, `ResidencyCorrect`, `MshrCorrect` | type correctness, `Residency`, `MshrWithinLimits` |
| `LoadStoreProofs!NeverExitsCorrect`, `PendingCorrect`, `OnePrimaryCorrect`, `RetiredCorrect`, `AtomicCorrect` | `NeverExits`, `PendingIsOutstanding`, `OnePrimary`, `RetiredIsFinished`, `AtomicCompletesLast` |
| `MemoryPartitionProofs!TypesCorrect`, `OnePlaceCorrect`, `MshrCorrect`, `TagsCorrect`, `OrderCorrect`, `CopiesCorrect` | of the L2: type correctness, `OnePlace`, `MshrInFlight`, `UniqueTags`, `HitsInOrder`, `CopiesEndHere` |
| `MemoryPartitionProofs!ChannelTypesCorrect`, `NoAssertion`, `NoBacklogEver`, `LatencyExact`, `ChannelCorrect` | of the DRAM channel: type correctness, `NeverAsserts` (no assert of `rwq` ever fails, one of a slice's queue only beyond `L2_dram_max` fetches), its back-pressure is dead code, `ExactLatency`, and `ImplementsChannels`: it is a FIFO channel for each pair of slices |
| `KernelProofs!OccupancyCorrect`, `DispatchCorrect` | `ResourcesFit`, `EachBlockOnce` |
| `KernelProofs!AddressesCorrect`, `DependenciesCorrect` | `AddressesMatch`, `DependenciesSuffice`, for any program and trace |
| `LocalInterconnectProofs!SliceInRange`, `LineInOneSlice`, `ChannelAddressUnique`, `SectorOfAccess`, `SetsSeparateLines` | an address goes to a slice that exists, a line to one slice; channel and address within it are unique; the sector of an access is its MSHR address; two lines of a set differ above the index |
| `ComputeUnitsProofs!ThroughputCorrect` | type correctness, `UnitThroughput` |
| `NvbitToolsProofs!LaunchesApart`, `ArrayCorrect`, `CountsCorrect` | one launch at a time is between its callbacks; `ArrayIsLive`, `CountsByDefault` (not the full claim `CountsExact`, which [findings](#findings) 3 and 4 refute) |
| `NvbitToolsProofs!FilesCorrect`, `RegionCorrect`, `SnapshotCorrect` | `FilesComplete`, `RegionHonoured` of the tracer, `SnapshotExact` of the checkpoint tool |

The arguments:

- *Router.* `Inv == TypeOK /\ RightPort /\ WithinLimits`. The limits talk of lengths, so they need
  types; types of the arbitration need that the granted node has a head. A grant goes to an output
  with a free place, and one input at most is granted per output, which is the lemma about `Granted`.
- *Router as channels.* A channel holds what is selected of two queues, `in_buffers` of the source and
  `out_buffers` of the sink. What is selected i-th is the element whose position has rank i, so a queue that
  grows at its end selects more at its end, and one that loses its head loses the first of what is selected or
  nothing (`AtAppend`, `AtTail` of `SubsequencesProofs`). With `OwnPackets` (a node's input holds packets
  of that node only) a `Push` is a `Send`, a `Pop` a `Receive`, and `RR_Advance` is hidden: what leaves the
  one queue joins the other.
- *The loop.* `LoopAdvance` is recursive; that such a function exists is shown by extending it one step at a time,
  as a least number without one would contradict the step. `LoopInv(i)` then says that after i iterations exactly
  the granted nodes among the first i have moved, and `FirstGranted` that the first node looked at which asks for an
  output gets it, which is how `Granted` states the arbitration.
- *Interconnect.* The lemmas of the router are used through the two instances. `OutputsNeverBlock` is
  not inductive: a second packet could come on top of one that is still there. `ReqOut` and `RepOut` say
  *in which turns* the output buffer of a node is empty: between its `Pop` and the next `Advance`.
  So at each `Advance` all output buffers are empty. Then no grant is refused for want of
  room, which also gives `FirstIsServed`. `OnePlace` counts copies; its invariant `Placed` says in sets
  what the counts mean: no payload is twice in a router (`Apart`), and what the two routers and each slice
  hold is disjoint. For one router this is proved once: `Push` of a payload it does not hold adds that payload,
  `Pop` takes one away, and `RR_Advance` moves payloads, since an output has one winner and a node wins
  one output. `LineAtOneSlice` needs `Addressed`: a request carries the slice of its fetch, `RightPort`
  brings it to that slice, and so what a slice holds is its own; `LineInOneSlice` does the rest.
- *LoadStore.* `TypeOK` is inductive only together with `Residency`. A block that was
  handed out before must not be handed out again, and a warp that is not retired must belong to
  a resident or a waiting block, or else `Schedule` would not find it. `MshrWithinLimits`
  then follows action by action; only `LoadMiss` and `Fill` touch the table.
  The other invariants are about the counters, and are inductive only all together (`FetchInv`).
  `NeverExits` needs to know that the warp of an answer is resident, so that some counter is above zero, so
  that it counts what is outstanding. The counters are exact because each fetch is at one place
  (`Located`: in the queue of a bank, a hit on its way back, in the miss queue, below, or merged in an
  MSHR entry behind a primary that is on its way), because what is in flight is waited for by an instruction
  that is not complete (`Waits`), because units emit the sectors of an instruction in order (`Progress`,
  `UnitsHold`), and because an instruction that is complete was issued (`AllIssued`). A retired warp has all
  counters at zero, so nothing of it is left anywhere, and `AtomicCompletesLast` is the case of one instruction.
- *L2 slice.* `SliceInv` has four parts. `PlacesOK` puts each fetch in exactly one of seven places (not
  sent, arrived, at the DRAM, in one of two queues, answered, deleted) and nowhere twice. `MshrOK` is
  `MshrInFlight`: it holds because a read enters the table and the DRAM's queue at once, and the first
  to come back empties its entry. `LinesOK` adds to `UniqueTags` that a line all of whose sectors are
  invalid has no tag: otherwise a fill could find a tag that a probe overlooks. `HitsOK` bounds what each
  queue holds by its own latency, and says that nothing is due between the second part of a cycle
  and the next; an answer that is pushed at the end then never precedes a later one.
- *DRAM.* `NeverAsserts` needs `Pipelines`: `rwq` always has exactly `CL` places, so `pop` in a
  cycle makes the one place that `push` fills. That in turn needs that `mrqq` and
  `returnq` hold one request at most, and `Received` (a slice takes its answer in the cycle in which it
  gets it), else the return queue could back up. A slice's queue holds no more than the slice has sent, which is
  all that can be said of its assert. `ExactLatency` follows: a request moves one place a cycle.
  `ChannelCorrect` adds that the channel from slice s to slice o is the answers of that pair in the queue to o,
  `returnq`, `rwq`, `mrqq` and `latency`, and then the queue from s, one after another, the padding left out. A cycle
  moves the head of some of these queues to the end of the next, which regroups a concatenation and leaves it the
  same (`CycleIsHidden`); `OwnFetches` and the `l2_id` given at the issue make the pairs (s, s) the only ones in use.
- *Blocks.* `ResourcesFit` is `Room` (the blocks of an SM are within the limit computed once) plus
  arithmetic: each of the four limits is a quotient, and `n <= x \div y` gives `n * y <= x`
  (`WarpLimit`, `RegisterLimit`, `SmemLimit`). `EachBlockOnce` needs `NoneSkipped`, about the loop of
  `first_spawn_block`: when it meets a full SM it goes on counting blocks without handing them out,
  which is harmless only because from then on it does not leave that SM.
- *Trace files.* `ReaderInv` says what the files hold unless a split was cut off: nothing, or the lines split so
  far, or all of them, perhaps followed by others (`Untorn`); torn or not, a line never stands earlier
  among its own kind in a block's file than in the `.mem` file (`FromTrace`), because while a run splits the
  file holds at least as many lines of a kind as that run has passed (`Counted`). An index counts earlier lines of the same block, warp
  and pc; leaving other lines out does not change it (`IndexKept`, applied to the `.mem` file and to a block's
  file in turn), lines after it do not either, and a later line of the same kind has a higher one (`IndexGrows`), so
  exactly one line is found. For the dependencies, `dependency_map` is the last writer (`MapIsLastWriter`); if it is
  not the writer asked about, it comes after it and writes the same register, and so waits for it in turn.
- *Addresses.* Everything follows from `x = (x \div n) * n + x % n`. A line lies in one chunk, and within
  it the bit that chooses the slice is bit 7, the lowest above the line. The hashed index flips each bit of
  the plain index by something that depends on the higher bits only, so for lines that agree there it
  permutes the sets.
- *Units.* `UnitThroughput` is not inductive: it must say what a unit owes. The invariant is
  `work <= ready_time` for a unit that holds no load, with `ready_time <= cycles + Longest`, and
  `work <= Elapsed` (the cycles gone by) for one that does: a load is given in a ready cycle, and then works one cycle
  for each fetch, in cycles of which no two are the same.
- *Counting tools.* The invariant joins the mutex (`OneLaunch`) with what each callback leaves: after the
  entry there is no array, if the function is new, or one of the right size; after the first load
  there is one, and `tot`, `basic_blocks` and `bbv` belong to the launch that has the mutex until its exit.
  `CountsByDefault` follows because no two places of a grid share a cell (`r * B + b` is injective for `b < B`): a
  cell counts what was executed there but for what a part of a warp has read and not yet written back. With one part
  per warp a cell has one reader, and with `atomicAdd` none. The reports go with the launches by number.
- *Tracer.* What the device pushed is, in order, what is in the file, in the receiving buffer, in the one
  that was announced and in the channel's (`FilesComplete` by concatenation), followed by the end mark
  while it is sent. The invariant says how far the handshake has come for each place of the callback, and that between
  launches all of these are empty. `RegionHonoured` relates `active_region` to the limits and
  the profiler's calls, between launches and during one.
- *Checkpoint tool.* The parity of the counter tells where a call is; allocations have serial numbers, the map
  is one allocation or free behind the application, and the files one kernel.

### Only model-checked

Liveness under fairness: `RoundTrip`, `EveryWarpRetires`, `EveryFetchReturns`, `EveryFetchAnswered`,
`KernelEnds`, `EveryWarpIssues`, `EveryLaunchReturns`. The prover has no rules for `ENABLED`, which `WF` and
`SF` are defined with. Every invariant, action property and implementation of `PairChannels` that a run checks
is also proved. The library's induction theorems cannot be used, since they take a predicate as
a parameter; instead, a set of numbers that is not empty has a least one (`LeastOfNats`), and
`RecursionExists` gives the function a recursive definition speaks of.

## Findings

1. **A load can be complete with sectors still to come** (`premature`, `gpu.cpp:277`).
   `decrease_pending_request` returns "true if all request release" (`kernel.h:187`), and
   `write_back` and the reply path then mark the instruction complete. But the count holds only the
   fetches `unit_cycle` has emitted so far, one a cycle. A load whose first sector merges
   into an MSHR entry that is answered at once brings it to zero, and
   instructions that depend on the load may issue early. The simulated time is then too short. The warp does not
   retire early: `RetiredIsFinished` holds, because `pending_inst` still counts the unit.
2. **Limits take effect with `ACTIVE_FROM_START=0`** (`limits`, `tracer_tool.cu:289`). The help text
   (`tracer_tool.cu:98-99`) says they have no effect then, but `&&` binds tighter than `||`, and with
   `DYNAMIC_KERNEL_LIMIT_START=1` the first kernel is traced before `cuProfilerStart`. Line 342 does not look
   at the option either: with `TERMINATE_UPON_LIMIT` it ends the application past `DYNAMIC_KERNEL_LIMIT_END`.
3. **`KERNEL_BEGIN` and `KERNEL_END` select all launches or none** (`interval`, `bbv_count.cu:295`). The help text
   (`bbv_count.cu:152-157`) calls them the beginning and end of "the kernel launch interval where to apply
   instrumentation". But `kernel_id`, which is compared with them, stays 0: its increment (line 348) is inside a
   comment, and `bbv_count_tb.cu` has none. With `KERNEL_BEGIN=1` every report is zero.
4. **Diverged warps lose counts in `bbv_count`** (`lostcounts`, `bbv_count.cu:104`). "Only the first active thread
   will perform the atomic" (line 101), but the addition is a plain `+=`, which parts of one warp do to the same
   count at the same time; `bbv_count_tb` uses `atomicAdd`.

More observations, which no run is about, because nothing in the repository says otherwise or the outcome
is undefined: the thread array in `main.cpp:13` has six places; two application threads that launch kernels at once
share the tracer's files (`tracer_tool.cu:376`); a write to an L2 line that probes `SECTOR_MISS` is put into an invalid
line under another tag (`cache.cpp:446`, as `WriteAllocate` has it), which costs hits only; a BAR that names a
register first waits for itself; `checkpoint.cu:270` opens files and never closes them.

A run that is killed while it splits a trace leaves files that the next run takes to be complete, or
appends to: then lines are missing or come twice. It is enough that it is killed after the file of block 0 was
created and before its first line is in it (`trace_reader.cpp:25-29`). Memory instructions then have no
addresses. The repository says nothing about such a run, so this is no finding. `AddressesMatch` gives every memory
instruction its own addresses only if no split was cut off in this way, which the history variable `torn`
tells apart; this includes kills before or after the split, and a trace that is split twice because
block 0 accesses no memory. For all runs it says that no instruction finds the addresses of another warp or of a
later visit to its pc.

## What is not modelled

| part | why |
|---|---|
| row and column commands of the DRAM banks (`dram.cpp`, 85-302) | never called: `dram_t::cycle` passes what a bank is given straight on to `rwq` |
| `dram_model_cycle` | selected by `simple_dram_model`, which is 0 and which nothing changes (the line of `gpu.config` is not read) |
| `read_all_block_sass` | nothing calls it |
| `base_stride_compress`, `base_delta_compress` | pure functions whose results are never written |
| configuration reader, statistics, scripts | I/O and formatting |
| the thread array of `main.cpp` | the threads share no simulator state; one kernel is modelled |
| `occupancy_calc` | a toggle of one flag; with one thread there is nothing to check, with several it is a data race in front of the mutex (`occupancy_calc.cu:120`) |
| the access counters of the caches (`cache.cpp:208`) | statistics: a refused read counts again at each try, and no state depends on it |
| a fill that sets a MODIFIED sector to VALID (`cache.cpp:195`) | nothing tells the two apart: lines are never written back |

The models also leave out a second CUDA context and a second application thread of the tracer and of
the checkpoint tool, and atomics without addresses or without a memory line (`gpu.cpp:690`), which
dereference a null pointer or never complete.

## Plan

Done, in this order, the core of the simulator first: `XbarRouter`, `LocalInterconnect`, `LoadStore`,
`L2Slice`, `DramChannel`, `Tracer`, `TraceFiles`, `BlockScheduler`, `AddressDecode`, `ComputeUnits`, `BbvCount`,
`Checkpoint`, `LaunchTools`, `SimGpu`; proofs of every safety property and of both implementations of `PairChannels`.

To come:

1. *Modules*: the parts under [What is not modelled](#what-is-not-modelled) are dead code, undefined
   behaviour or plain I/O, so none of them is planned. If the simulator's units and memory path ever
   influence each other in more than time, `LoadStore` and `ComputeUnits` should become one module.
2. *Proofs*: the composition, step by step: that `LoadStore` may assume of the network what `LocalInterconnect`
   guarantees, and this of the slices what `L2Slice` does (the table in [The modules](#the-modules)); and the
   safety half of the liveness arguments, bounds that decrease in every cycle in which nothing else happens.
