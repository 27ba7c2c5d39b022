------------------------------ MODULE Checkpoint ------------------------------
(***************************************************************************)
(* The tool that saves the memory of the device after every kernel         *)
(* (tracer_nvbit_allsass/others/silicon_checkpoint_tool/checkpoint): it    *)
(* keeps a map of the live allocations from the callbacks around           *)
(* cuMemAlloc and cuMemFree, and at the exit of a launch copies each of    *)
(* them into a file named for the kernel and the allocation.               *)
(*                                                                         *)
(* The driver and the application are external.  The callback does not     *)
(* look at is_exit for allocations and frees: it takes every second one    *)
(* for the exit.  That is right only if allocations and frees of different *)
(* threads do not overlap, so the application has one thread here; the     *)
(* mutex of the launches, which one thread never waits for, is left out    *)
(* with it.  Allocations succeed.  The instruction counter is not          *)
(* reported, and what the callbacks print is left out.                     *)
(*                                                                         *)
(* A file here is what has been written to its stream.  The tool closes    *)
(* none of them, so the end of a file may reach the disk only when the     *)
(* application exits.                                                      *)
(***************************************************************************)
EXTENDS Integers, Sequences, FiniteSets

CONSTANTS
    Addresses,  \* the addresses the driver can give an allocation
    Sizes,      \* the sizes of allocations
    Data,       \* what an allocation can contain
    MaxAllocs,  \* bound: allocations of the application
    MaxLaunches \* bound: launches of the application

VARIABLES
    app,          \* the call the application is in, and how far it is
    memory,       \* memory[a]: the allocation at address a, with fields size,
                  \*   data and serial, how many were made before it
    allocs,       \* allocations made
    launched,     \* launches made
    running,      \* whether the device runs a kernel
    callback_tracker, \* its remainder by 2, the only part of it that is used
    alloc_count, kernel_id,
    tracking_map, \* tracking_map[a]: number and size
    files,        \* files[k, n]: what was written to the file of allocation
                  \*   number n after kernel k
    wanted        \* what the files should be (history)

app_vars == <<app, memory, allocs, launched, running, wanted>>
tool_vars == <<callback_tracker, alloc_count, kernel_id, tracking_map, files>>
vars == <<app_vars, tool_vars>>

Idle == [call |-> "none", at |-> "none"]
In(call, at) == app.call = call /\ app.at = at

Without(f, x) == [y \in DOMAIN f \ {x} |-> f[y]]
With(f, x, v) == [y \in DOMAIN f \union {x} |-> IF y = x THEN v ELSE f[y]]

(* f, and g where it is defined.                                           *)
Over(f, g) == [x \in DOMAIN f \union DOMAIN g |-> IF x \in DOMAIN g THEN g[x] ELSE f[x]]

Init ==
    /\ app = Idle /\ memory = << >> /\ allocs = 0 /\ launched = 0 /\ running = FALSE
    /\ callback_tracker = 0 /\ alloc_count = 0 /\ kernel_id = 0
    /\ tracking_map = << >> /\ files = << >> /\ wanted = << >>

----
(* The application and the device.                                         *)

Call(call) ==
    /\ app = Idle
    /\ call = "alloc" => allocs < MaxAllocs /\ Addresses \ DOMAIN memory # {}
    /\ call = "free" => memory # << >>
    /\ call = "launch" => launched < MaxLaunches
    /\ app' = [call |-> call, at |-> "entry"]
    /\ UNCHANGED <<memory, allocs, launched, running, wanted, tool_vars>>

(* cuMemAlloc: the driver picks an address nothing lives at.               *)
DoAlloc(a, size, data) ==
    /\ In("alloc", "driver")
    /\ a \notin DOMAIN memory
    /\ memory' = With(memory, a, [size |-> size, data |-> data, serial |-> allocs])
    /\ allocs' = allocs + 1
    /\ app' = [call |-> "alloc", at |-> "exit", address |-> a]
    /\ UNCHANGED <<launched, running, wanted, tool_vars>>

DoFree(a) ==
    /\ In("free", "driver")
    /\ a \in DOMAIN memory
    /\ memory' = Without(memory, a)
    /\ app' = [call |-> "free", at |-> "exit", address |-> a]
    /\ UNCHANGED <<allocs, launched, running, wanted, tool_vars>>

(* cuLaunchKernel returns as soon as the device has started.               *)
DoLaunch ==
    /\ In("launch", "driver")
    /\ running' = TRUE
    /\ app' = [call |-> "launch", at |-> "exit"]
    /\ UNCHANGED <<memory, allocs, launched, wanted, tool_vars>>

Store(a, data) ==
    /\ running /\ a \in DOMAIN memory
    /\ memory[a].data # data
    /\ memory' = [memory EXCEPT ![a].data = data]
    /\ UNCHANGED <<app, allocs, launched, running, wanted, tool_vars>>

KernelEnds ==
    /\ running
    /\ running' = FALSE
    /\ launched' = launched + 1
    /\ wanted' = Over(wanted,
          [f \in {<<launched, memory[a].serial>> : a \in DOMAIN memory} |->
              LET a == CHOOSE b \in DOMAIN memory : memory[b].serial = f[2]
              IN  [size |-> memory[a].size, data |-> memory[a].data]])
    /\ UNCHANGED <<app, memory, allocs, tool_vars>>

----
(* The callback.                                                           *)

(* Every second callback of an allocation or a free is taken for its exit. *)
TakenForExit == callback_tracker' = 0

Tracked == callback_tracker' = (callback_tracker + 1) % 2

\* Faulty variant of Inserted: the number is that of the live allocations.
InsertedByCount(a) ==
    /\ alloc_count' = alloc_count + 1
    /\ tracking_map' = IF a \in DOMAIN tracking_map THEN tracking_map
                       ELSE With(tracking_map, a, [number |-> Cardinality(DOMAIN tracking_map),
                                                   size |-> memory[a].size])

(* unordered_map::insert leaves an entry that is there as it is.           *)
Inserted(a) ==
    /\ alloc_count' = alloc_count + 1
    /\ tracking_map' = IF a \in DOMAIN tracking_map THEN tracking_map
                       ELSE With(tracking_map, a, [number |-> alloc_count,
                                                   size |-> memory[a].size])

(* At an entry p->dptr points to no result yet; nothing is done with it.   *)
AtAlloc ==
    /\ app.call = "alloc" /\ app.at \in {"entry", "exit"}
    /\ Tracked
    /\ IF TakenForExit THEN app.at = "exit" /\ Inserted(app.address)
                       ELSE UNCHANGED <<alloc_count, tracking_map>>
    /\ app' = IF app.at = "entry" THEN [call |-> "alloc", at |-> "driver"] ELSE Idle
    /\ UNCHANGED <<memory, allocs, launched, running, wanted, kernel_id, files>>

Erased(a) == tracking_map' = Without(tracking_map, a)

AtFree ==
    /\ app.call = "free" /\ app.at \in {"entry", "exit"}
    /\ Tracked
    /\ IF TakenForExit THEN app.at = "exit" /\ Erased(app.address)
                       ELSE UNCHANGED tracking_map
    /\ app' = IF app.at = "entry" THEN [call |-> "free", at |-> "driver"] ELSE Idle
    /\ UNCHANGED <<memory, allocs, launched, running, wanted, alloc_count, kernel_id, files>>

AtLaunchEntry ==
    /\ In("launch", "entry")
    /\ app' = [call |-> "launch", at |-> "driver"]
    /\ UNCHANGED <<memory, allocs, launched, running, wanted, tool_vars>>

(* cudaDeviceSynchronize.                                                  *)
Synchronized == ~running

(* The copy of what is at address a: recorded bytes of what lives there.   *)
CopyOf(a) == [size |-> tracking_map[a].size,
              data |-> IF a \in DOMAIN memory THEN memory[a].data ELSE "nothing"]

AtLaunchExit ==
    /\ In("launch", "exit")
    /\ Synchronized
    /\ files' = Over(files,
          [f \in {<<kernel_id, tracking_map[a].number>> : a \in DOMAIN tracking_map} |->
              CopyOf(CHOOSE a \in DOMAIN tracking_map : tracking_map[a].number = f[2])])
    /\ kernel_id' = kernel_id + 1
    /\ app' = Idle
    /\ UNCHANGED <<memory, allocs, launched, running, wanted, callback_tracker, alloc_count,
                   tracking_map>>

Ended == app = Idle /\ launched = MaxLaunches /\ UNCHANGED vars

Next ==
    \/ \E call \in {"alloc", "free", "launch"} : Call(call)
    \/ \E a \in Addresses, size \in Sizes, data \in Data : DoAlloc(a, size, data)
    \/ \E a \in Addresses : DoFree(a) \/ \E data \in Data : Store(a, data)
    \/ DoLaunch \/ KernelEnds
    \/ AtAlloc \/ AtFree \/ AtLaunchEntry \/ AtLaunchExit
    \/ Ended

Spec == Init /\ [][Next]_vars

----
(* Whenever no call is under way, the map holds exactly the live           *)
(* allocations, with their sizes, and there is a file for every kernel and *)
(* every allocation that was live when it ended, numbered in the order of  *)
(* allocation, with what it contained when the kernel ended: although the  *)
(* map is kept by parity, addresses are used again and the device runs on  *)
(* after cuLaunchKernel.                                                   *)
SnapshotExact ==
    app = Idle =>
       /\ files = wanted
       /\ tracking_map = [a \in DOMAIN memory |->
                             [number |-> memory[a].serial, size |-> memory[a].size]]
=============================================================================
