-------------------------------- MODULE Tracer --------------------------------
(***************************************************************************)
(* The tracing tool that writes the simulator's inputs                     *)
(* (tracer_nvbit_allsass/tracer_tool/tracer_tool.cu, inject_funcs.cu):     *)
(* the application's thread, in the callback that surrounds every CUDA     *)
(* call; the warps of the kernel it has launched, which push a record for  *)
(* every instruction; and the receiving thread, which writes the records   *)
(* to the files of the current kernel.  They share the control variables   *)
(* and the two halves of the channel.                                      *)
(*                                                                         *)
(* The channel, the driver and the application are external: the calls the *)
(* tool makes on them fix what is modelled of them.  A record is the       *)
(* kernel, the warp and the number of its instruction; kernelslist, which  *)
(* nothing reads, and total_dynamic_instr_counter, which counts the same   *)
(* as the reported one because an inactive kernel runs uninstrumented, are *)
(* left out.                                                               *)
(***************************************************************************)
EXTENDS Integers, Sequences, FiniteSets, Functions

CONSTANTS
    NumKernels,    \* the launches of the application
    Warps,         \* the warps of every kernel
    NumInsts,      \* instructions of a warp
    IsMem(_),      \* whether the i-th instruction of a warp accesses memory
    CHANNEL_SIZE,  \* records the device's half of the channel holds
    Limits,        \* the values DYNAMIC_KERNEL_LIMIT_START and _END can have
    MaxSwitches    \* bound: calls of cuProfilerStart and cuProfilerStop

TracerAssumption ==
    /\ NumKernels \in Nat /\ NumInsts \in Nat /\ MaxSwitches \in Nat
    /\ IsFiniteSet(Warps)
    /\ CHANNEL_SIZE \in Nat \ {0}
    /\ Limits \subseteq Nat /\ 0 \in Limits

VARIABLES
    options,          \* the environment variables read by nvbit_at_init
    app,              \* where the application's thread is
    switches,         \* calls of cuProfilerStart and cuProfilerStop so far
    profiling,        \* whether the last of them was cuProfilerStart
    first_call, active_region, stop_report, kernelid,
    recv_thread_receiving, recv_thread_started,
    receiver,         \* whether the receiving thread runs
    recv_buffer,      \* what the receiving thread has not processed yet
    channel_dev,      \* records in the device's half of the channel
    doorbell,         \* records handed over to the host
    next,             \* next[w]: the instruction warp w of the kernel is at
    reported, old_reported,  \* reported_dynamic_instr_counter and the last one
    open,             \* the kernel whose files are open, or 0
    sassFile, memFile,   \* sassFile[k], memFile[k]: the records in them
    statsFile,        \* statsFile[k]: reported instructions, or -1
    launched          \* launched[k]: how kernel k was launched (history)

control_vars == <<first_call, active_region, stop_report, kernelid>>
thread_vars == <<recv_thread_receiving, recv_thread_started, receiver, recv_buffer>>
channel_vars == <<channel_dev, doorbell, next, reported>>
file_vars == <<open, sassFile, memFile, statsFile, old_reported>>
app_vars == <<options, app, switches, profiling, launched>>
vars == <<app_vars, control_vars, thread_vars, channel_vars, file_vars>>

Kernels == 1 .. NumKernels
Records == [kernel : Kernels, warp : Warps, index : 1 .. NumInsts]

(* The record with cta_id_x = -1 that flush_channel pushes.                *)
KernelEnd == [kernel |-> 0]

(* NoFile: a record is written when no file is open, through a pointer to  *)
(* one that has been closed.                                               *)
NoFile == -1

Options ==
    [active_from_start : BOOLEAN, limit_start : Limits, limit_end : Limits, terminate : BOOLEAN]

(* nvbit_at_init.                                                          *)
Init ==
    /\ options \in Options
    /\ app = "no context" /\ switches = 0 /\ profiling = FALSE
    /\ first_call = TRUE /\ active_region = options.active_from_start
    /\ stop_report = FALSE /\ kernelid = 1
    /\ recv_thread_receiving = FALSE /\ recv_thread_started = FALSE
    /\ receiver = FALSE /\ recv_buffer = << >>
    /\ channel_dev = << >> /\ doorbell = << >>
    /\ next = [w \in Warps |-> NumInsts + 1]
    /\ reported = 0 /\ old_reported = 0
    /\ open = 0
    /\ sassFile = [k \in Kernels |-> << >>] /\ memFile = [k \in Kernels |-> << >>]
    /\ statsFile = [k \in Kernels |-> -1]
    /\ launched = << >>

----
(* The application's thread: nvbit_at_cuda_event and the context events.   *)

(* The region after the code of the first call.                            *)
RegionAtFirstCall ==
    IF ~first_call THEN active_region
    ELSE IF options.limit_start = 1 \/ (options.active_from_start /\ options.limit_start = 0)
         THEN TRUE
    ELSE IF options.active_from_start THEN FALSE
    ELSE active_region

(* nvbit_at_ctx_init.                                                      *)
CtxInit ==
    /\ app = "no context"
    /\ app' = "idle"
    /\ recv_thread_started' = TRUE /\ receiver' = TRUE
    /\ UNCHANGED <<options, switches, profiling, launched, control_vars,
                   recv_thread_receiving, recv_buffer, channel_vars, file_vars>>

(* cuProfilerStart (on) and cuProfilerStop, on exit, in any order.         *)
ProfilerSwitch(on) ==
    /\ app = "idle"
    /\ switches < MaxSwitches
    /\ switches' = switches + 1
    /\ profiling' = on
    /\ first_call' = FALSE
    /\ active_region' = IF options.active_from_start THEN RegionAtFirstCall ELSE on
    /\ UNCHANGED <<options, app, launched, stop_report, kernelid, thread_vars, channel_vars,
                   file_vars>>

(* Any other call, among them cuMemcpyHtoD: only the first one matters.    *)
OtherCall ==
    /\ app = "idle"
    /\ first_call
    /\ first_call' = FALSE
    /\ active_region' = RegionAtFirstCall
    /\ UNCHANGED <<app_vars, stop_report, kernelid, thread_vars, channel_vars, file_vars>>

RegionAtLaunch ==
    \/ (options.active_from_start /\ options.limit_start # 0 /\ kernelid = options.limit_start)
    \/ RegionAtFirstCall

PastLimit == options.terminate /\ options.limit_end # 0 /\ kernelid > options.limit_end

(* exit(0) with TERMINATE_UPON_LIMIT.                                      *)
Terminate ==
    /\ app = "idle" /\ kernelid \in Kernels
    /\ PastLimit
    /\ app' = "exit"
    /\ receiver' = FALSE
    /\ first_call' = FALSE /\ active_region' = RegionAtLaunch
    /\ UNCHANGED <<options, switches, profiling, launched, stop_report, kernelid,
                   recv_thread_receiving, recv_thread_started, recv_buffer, channel_vars, file_vars>>

(* cuLaunchKernel, on entry; then the kernel starts, instrumented or not.  *)
LaunchEntry ==
    /\ app = "idle" /\ kernelid \in Kernels
    /\ ~PastLimit
    /\ app' = "kernel"
    /\ first_call' = FALSE
    /\ active_region' = RegionAtLaunch
    /\ stop_report' = ~active_region'
    /\ open' = IF stop_report' THEN open ELSE kernelid
    /\ next' = [w \in Warps |-> IF stop_report' THEN NumInsts + 1 ELSE 1]
    /\ launched' = Append(launched, [traced |-> ~stop_report', profiled |-> profiling])
    /\ kernelid' = kernelid + 1
    /\ recv_thread_receiving' = TRUE
    /\ UNCHANGED <<options, switches, profiling, recv_thread_started, receiver, recv_buffer,
                   channel_dev, doorbell, reported, sassFile, memFile, statsFile, old_reported>>

KernelDone == \A w \in Warps : next[w] > NumInsts

(* On exit: cudaDeviceSynchronize, and flush_channel is launched.  Its own *)
(* callbacks return at once (skip_flag).                                   *)
LaunchFlush ==
    /\ app = "kernel"
    /\ KernelDone
    /\ app' = "flush"
    /\ UNCHANGED <<options, switches, profiling, launched, control_vars, thread_vars,
                   channel_vars, file_vars>>

\* Faulty variant of Received: the flush kernel has ended, that is enough.
ReceivedAnyway == TRUE

(* The loop on recv_thread_receiving ends.                                 *)
Received == ~recv_thread_receiving

\* Faulty variant of RegionEnds: one kernel late.
RegionEndsLate ==
    options.active_from_start /\ options.limit_end # 0 /\ kernelid > options.limit_end + 1

RegionEnds ==
    options.active_from_start /\ options.limit_end # 0 /\ kernelid > options.limit_end

ReportedByKernel == reported - old_reported

(* The rest of the exit: the line of stats.csv is completed and the files  *)
(* are closed.                                                             *)
LaunchExit ==
    /\ app = "wait"
    /\ Received
    /\ app' = "idle"
    /\ statsFile' = [statsFile EXCEPT ![kernelid - 1] = ReportedByKernel]
    /\ old_reported' = reported
    /\ open' = IF stop_report THEN open ELSE 0
    /\ active_region' = (active_region /\ ~RegionEnds)
    /\ UNCHANGED <<options, switches, profiling, launched, first_call, stop_report, kernelid,
                   thread_vars, channel_vars, sassFile, memFile>>

(* nvbit_at_ctx_term: the receiving thread is told to end, then joined.    *)
CtxTerm ==
    /\ app = "idle"
    /\ app' = "join"
    /\ recv_thread_started' = FALSE
    /\ UNCHANGED <<options, switches, profiling, launched, control_vars, recv_thread_receiving,
                   receiver, recv_buffer, channel_vars, file_vars>>

CtxJoin ==
    /\ app = "join"
    /\ ~receiver
    /\ app' = "no context"
    /\ UNCHANGED <<options, switches, profiling, launched, control_vars, thread_vars,
                   channel_vars, file_vars>>

----
(* The device.  A push that fills the buffer, and flush_channel, hand it   *)
(* over to the host and wait until it has been read (external: NVBit's     *)
(* ChannelDev).                                                            *)

(* instrument_inst, the first active lane of warp w.                       *)
Push(w) ==
    /\ app = "kernel" /\ next[w] <= NumInsts
    /\ doorbell = << >> /\ Len(channel_dev) < CHANNEL_SIZE
    /\ channel_dev' = Append(channel_dev, [kernel |-> kernelid - 1, warp |-> w, index |-> next[w]])
    /\ next' = [next EXCEPT ![w] = @ + 1]
    /\ reported' = reported + 1
    /\ UNCHANGED <<app_vars, control_vars, thread_vars, doorbell, file_vars>>

HandOver ==
    /\ Len(channel_dev) = CHANNEL_SIZE
    /\ doorbell = << >>
    /\ doorbell' = channel_dev
    /\ channel_dev' = << >>
    /\ UNCHANGED <<app_vars, control_vars, thread_vars, next, reported, file_vars>>

(* flush_channel: the end of the kernel follows all of its records.        *)
flush_channel ==
    /\ app = "flush"
    /\ doorbell = << >> /\ Len(channel_dev) < CHANNEL_SIZE
    /\ doorbell' = Append(channel_dev, KernelEnd)
    /\ channel_dev' = << >>
    /\ app' = "flushed"
    /\ UNCHANGED <<options, switches, profiling, launched, control_vars, thread_vars, next,
                   reported, file_vars>>

(* The second cudaDeviceSynchronize returns.                               *)
FlushDone ==
    /\ app = "flushed"
    /\ doorbell = << >>
    /\ app' = "wait"
    /\ UNCHANGED <<options, switches, profiling, launched, control_vars, thread_vars,
                   channel_vars, file_vars>>

----
(* recv_thread_fun.                                                        *)

Receive ==
    /\ receiver /\ recv_thread_started /\ recv_buffer = << >>
    /\ recv_thread_receiving
    /\ doorbell # << >>
    /\ recv_buffer' = doorbell
    /\ doorbell' = << >>
    /\ UNCHANGED <<app_vars, control_vars, recv_thread_receiving, recv_thread_started, receiver,
                   channel_dev, next, reported, file_vars>>

(* Append one record to the files that are open.                           *)
Written(record) ==
    IF open \notin Kernels
    THEN open' = NoFile /\ UNCHANGED <<sassFile, memFile>>
    ELSE /\ sassFile' = [sassFile EXCEPT ![open] = Append(@, record)]
         /\ memFile' = IF IsMem(record.index)
                       THEN [memFile EXCEPT ![open] = Append(@, record)] ELSE memFile
         /\ UNCHANGED open

\* Faulty variant of EndOfKernel: the end of a kernel leaves the flag set.
EndOfKernelUnseen == recv_buffer' = << >> /\ UNCHANGED recv_thread_receiving

EndOfKernel == recv_buffer' = << >> /\ recv_thread_receiving' = FALSE

(* One record of the buffer; the end of the kernel makes the thread drop   *)
(* what is left of it.                                                     *)
Process ==
    /\ receiver /\ recv_buffer # << >>
    /\ LET record == Head(recv_buffer)
       IN  IF record = KernelEnd
           THEN /\ EndOfKernel
                /\ UNCHANGED <<open, sassFile, memFile>>
           ELSE /\ recv_buffer' = Tail(recv_buffer)
                /\ Written(record)
                /\ UNCHANGED recv_thread_receiving
    /\ UNCHANGED <<app_vars, control_vars, recv_thread_started, receiver, channel_vars,
                   statsFile, old_reported>>

ReceiverEnds ==
    /\ receiver /\ ~recv_thread_started /\ recv_buffer = << >>
    /\ receiver' = FALSE
    /\ UNCHANGED <<app_vars, control_vars, recv_thread_receiving, recv_thread_started,
                   recv_buffer, channel_vars, file_vars>>

----
(* The process has ended, or there is nothing left for it to do.           *)
Ended ==
    /\ app \in {"exit", "no context"}
    /\ UNCHANGED vars

Application ==
    \/ CtxInit \/ (\E on \in BOOLEAN : ProfilerSwitch(on)) \/ OtherCall
    \/ Terminate \/ LaunchEntry \/ CtxTerm

Callback == LaunchFlush \/ FlushDone \/ LaunchExit \/ CtxJoin
Device == (\E w \in Warps : Push(w)) \/ HandOver \/ flush_channel
Receiver == Receive \/ Process \/ ReceiverEnds

Next == Application \/ Callback \/ Device \/ Receiver \/ Ended

(* The callback spins with pthread_yield, the receiving thread polls and   *)
(* the device runs what it was given; what the application does next is    *)
(* its own affair.                                                         *)
Fairness == WF_vars(Callback) /\ WF_vars(Device) /\ WF_vars(Receiver)

Spec == Init /\ [][Next]_vars /\ Fairness

----
(* A file holds the given records, each once and those of a warp in the    *)
(* order of its instructions.                                              *)
InOrder(file) ==
    \A i, j \in 1 .. Len(file) :
        i < j /\ file[i].warp = file[j].warp => file[i].index < file[j].index

Holds(file, records) == InOrder(file) /\ Range(file) = records

RecordsOf(k) == {r \in Records : r.kernel = k}

(* When the files of a kernel have been closed they hold every instruction *)
(* of every warp of that kernel once, in the warp's order, and nothing of  *)
(* another kernel; stats.csv agrees.  No record is written to files that   *)
(* are closed, or reaches those of the next kernel, however the warps, the *)
(* channel and the receiving thread interleave.                            *)
FilesComplete ==
    /\ open # NoFile
    /\ \A k \in 1 .. Len(launched) :
          statsFile[k] # -1 =>
              IF launched[k].traced
              THEN /\ Holds(sassFile[k], RecordsOf(k))
                   /\ Holds(memFile[k], {r \in RecordsOf(k) : IsMem(r.index)})
                   /\ statsFile[k] = Len(sassFile[k])
              ELSE sassFile[k] = << >> /\ memFile[k] = << >> /\ statsFile[k] = 0

(* The region of interest: with ACTIVE_FROM_START exactly the kernels from *)
(* the start to the end limit are traced (the code assumes that the start  *)
(* is not past the end), otherwise those between the profiler calls; the   *)
(* start limit 1 is the case LimitsHaveNoEffect is about.                  *)
RegionHonoured ==
    \A k \in 1 .. Len(launched) :
        IF options.active_from_start
        THEN options.limit_end = 0 \/ options.limit_start <= options.limit_end =>
                 (launched[k].traced <=> /\ options.limit_start <= k
                                         /\ options.limit_end = 0 \/ k <= options.limit_end)
        ELSE options.limit_start # 1 => (launched[k].traced <=> launched[k].profiled)

(* Every launch returns to the application: neither a full channel nor the *)
(* wait for the receiving thread lasts for ever, and the receiving thread  *)
(* can always be joined.                                                   *)
EveryLaunchReturns == []<>(app \in {"idle", "no context", "exit"})

(* What the help text of ACTIVE_FROM_START says (tracer_tool.cu:97-99):    *)
(* "If set to 0, DYNAMIC_KERNEL_LIMIT options have no effect", tracing     *)
(* waits for cuProfilerStart and cuProfilerStop.                           *)
LimitsHaveNoEffect ==
    ~options.active_from_start =>
        \A k \in 1 .. Len(launched) : launched[k].traced => launched[k].profiled
=============================================================================
