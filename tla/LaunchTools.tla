----------------------------- MODULE LaunchTools -----------------------------
(***************************************************************************)
(* The programs that NVBit can load into an application, one at a time:    *)
(* BbvCount, both of its programs, Tracer and Checkpoint.  They have       *)
(* nothing in common but the callbacks around the application's calls in   *)
(* which they work.                                                        *)
(***************************************************************************)
EXTENDS BbvCount

CONSTANTS
    NumKernels, Warps, NumInsts, IsMem(_), CHANNEL_SIZE, Limits, MaxSwitches,  \* of Tracer
    Addresses, Sizes, Data, MaxAllocs, MaxLaunches                             \* of Checkpoint

VARIABLES
    loaded_tool,  \* the tool that is loaded into the application
    options, app, switches, profiling, first_call, active_region, stop_report, kernelid,
    recv_thread_receiving, recv_thread_started, receiver, recv_buffer, channel_dev, doorbell,
    next, reported, old_reported, open, sassFile, memFile, statsFile, launched,
    app_call, memory, allocs, launches, device_runs, callback_tracker, alloc_count,
    kernel_id, tracking_map, files, wanted

T == INSTANCE Tracer

ASSUME ToolsAssumption == T!TracerAssumption

C == INSTANCE Checkpoint WITH app <- app_call, launched <- launches, running <- device_runs

tracer_vars == <<options, app, switches, profiling, first_call, active_region, stop_report,
                 kernelid, recv_thread_receiving, recv_thread_started, receiver, recv_buffer,
                 channel_dev, doorbell, next, reported, old_reported, open, sassFile, memFile,
                 statsFile, launched>>
checkpoint_vars == <<app_call, memory, allocs, launches, device_runs, callback_tracker,
                     alloc_count, kernel_id, tracking_map, files, wanted>>
all_vars == <<vars, tracer_vars, checkpoint_vars, loaded_tool>>

(* What a tool that is not loaded has been given makes no difference.      *)
ToolsInit ==
    /\ Init /\ T!Init /\ C!Init
    /\ loaded_tool \in {"bbv", "tracer", "checkpoint"}
    /\ loaded_tool # "bbv" => /\ tool = "bbv_count"
                              /\ interval = CHOOSE i \in Intervals : TRUE
    /\ loaded_tool # "tracer" => options = CHOOSE o \in T!Options : TRUE

InBbv(A) ==
    loaded_tool = "bbv" /\ A /\ UNCHANGED <<tracer_vars, checkpoint_vars, loaded_tool>>
InTracer(A) == loaded_tool = "tracer" /\ A /\ UNCHANGED <<vars, checkpoint_vars, loaded_tool>>
InCheckpoint(A) == loaded_tool = "checkpoint" /\ A /\ UNCHANGED <<vars, tracer_vars, loaded_tool>>

ToolsNext == InBbv(Next) \/ InTracer(T!Next) \/ InCheckpoint(C!Next)

(* That of Tracer, while it is loaded.                                     *)
ToolsFairness ==
    /\ WF_all_vars(InTracer(T!Callback))
    /\ WF_all_vars(InTracer(T!Device))
    /\ WF_all_vars(InTracer(T!Receiver))

ToolsSpec == ToolsInit /\ [][ToolsNext]_all_vars /\ ToolsFairness

----
(* The properties of Tracer and of Checkpoint, where they are stated.      *)

(* A kernel that is traced is traced completely: see Tracer.               *)
FilesComplete == T!FilesComplete

(* The kernels of the region the user asked for are those that are traced: *)
(* see Tracer.                                                             *)
RegionHonoured == T!RegionHonoured

(* Every launch returns to the application: see Tracer.                    *)
EveryLaunchReturns == T!EveryLaunchReturns

(* A snapshot holds what its kernel left: see Checkpoint.                  *)
SnapshotExact == C!SnapshotExact
=============================================================================
