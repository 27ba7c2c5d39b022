------------------------------- MODULE BbvCount -------------------------------
(***************************************************************************)
(* The two tools that count how often the basic blocks of a kernel run     *)
(* (tracer_nvbit_allsass/others/bbv_tool): bbv_count, a row of counts for  *)
(* every warp, and bbv_count_tb, a row for every thread block.  The        *)
(* threads of the application launch kernels; the entry callback of a      *)
(* launch takes a mutex that its exit callback releases, and in between    *)
(* the warps of the kernel add to one array in managed memory.             *)
(*                                                                         *)
(* NVBit, the driver and the application are external.  NVBit calls        *)
(* nvbit_at_function_first_load between the entry callback of a function's *)
(* first launch and the launch, which is where the handler's use of        *)
(* tot_threads puts it.  Rows, basic blocks and array cells count from 0.  *)
(* Launches are two-dimensional and consist of whole warps, which the      *)
(* tools take for granted.  Predicated-off instructions go into the        *)
(* variable counter, which nothing reports, and are left out.              *)
(***************************************************************************)
EXTENDS Integers, Sequences, FiniteSets

CONSTANTS
    Threads,      \* the threads of the application
    NoThread,     \* nobody: the mutex is free
    Program,      \* Program[t]: the launches of t, records with fields
                  \*   kernel  the function
                  \*   blocks  gridDim.x * gridDim.y
                  \*   threads blockDim.x * blockDim.y
    Insns,        \* Insns[k]: the instructions in each basic block of k
    Parts,        \* the parts a warp diverges into, at most
    MaxVisits,    \* bound: basic blocks a launch executes
    Intervals     \* the values <<KERNEL_BEGIN, KERNEL_END>> can have

warp_size == 32

Launches == UNION {{Program[t][i] : i \in 1 .. Len(Program[t])} : t \in Threads}

ASSUME BbvAssumption ==
    /\ NoThread \notin Threads
    /\ \A t \in Threads : Program[t] \in Seq(Launches)
    /\ \A l \in Launches :
          /\ l.blocks \in Nat /\ l.threads \in Nat
          /\ l.threads % warp_size = 0
          /\ l.kernel \in DOMAIN Insns
    /\ \A k \in DOMAIN Insns : Insns[k] \in Seq(Nat)
    /\ IsFiniteSet(Parts)
    /\ MaxVisits \in Nat
    /\ Intervals \subseteq Nat \X Nat

VARIABLES
    tool,         \* "bbv_count" or "bbv_count_tb"
    interval,     \* ker_begin_interval and ker_end_interval
    pc,           \* pc[t]: where thread t is in its current call
    made,         \* made[t]: the launches t has returned from
    mutex,
    first, kid,
    tot,          \* tot_threads, or tot_blocks
    kbb_map, basic_blocks,
    heap,         \* the managed arrays, by address
    bbv,          \* the address of the current one, or 0
    instrumented, \* what nvbit_enable_instrumented was last told
    running,      \* the warp parts that run, <<thread, block, warp, part>>
    reading,      \* reading[p]: the count part p has read and will write
    visits,       \* visits[t]: basic blocks the launch of t has executed
    bb_log,       \* the reports, by their number
    executed,     \* executed[t][place][b]: how often the launch of t has executed
                  \*   basic block b there, if it is in the interval (history)
    ran           \* what the reports should be (history)

host_vars == <<tool, interval, pc, made, mutex>>
tool_vars == <<first, kid, tot, kbb_map, basic_blocks, bbv, instrumented>>
vars == <<host_vars, tool_vars, heap, running, reading, visits, bb_log, executed, ran>>

per_block == tool = "bbv_count_tb"

(* The basic blocks of the control flow graph of a kernel.                 *)
bbs(kernel) == Len(Insns[kernel])

(* The launch thread t is in.                                              *)
launch(t) == Program[t][made[t] + 1]

(* How many rows the arrays and the reports have.                          *)
RowsFor(n) == IF per_block THEN n ELSE n \div warp_size
rows == RowsFor(tot)

(* How many rows launch l needs: one for every block or for every warp.    *)
WarpsPerBlock(l) == (l.threads + warp_size - 1) \div warp_size
RowsOf(l) == IF per_block THEN l.blocks ELSE l.blocks * WarpsPerBlock(l)

(* What a row counts, a block or a warp, and which of them is in row r.    *)
Places(l) == IF per_block THEN 0 .. l.blocks - 1
                          ELSE (0 .. l.blocks - 1) \X (0 .. WarpsPerBlock(l) - 1)
PlaceOf(p) == IF per_block THEN p[2] ELSE <<p[2], p[3]>>
PlaceAt(l, r) == IF per_block THEN r ELSE <<r \div WarpsPerBlock(l), r % WarpsPerBlock(l)>>

Nobody == << >>  \* no part has read a count
NoBlocks == << >>

Init ==
    /\ tool \in {"bbv_count", "bbv_count_tb"}
    /\ interval \in Intervals
    /\ pc = [t \in Threads |-> "idle"] /\ made = [t \in Threads |-> 0]
    /\ mutex = NoThread
    /\ first = TRUE /\ kid = 0 /\ tot = 0
    /\ kbb_map = << >> /\ basic_blocks = 0
    /\ heap = << >> /\ bbv = 0 /\ instrumented = FALSE
    /\ running = {} /\ reading = Nobody /\ visits = [t \in Threads |-> 0]
    /\ bb_log = << >> /\ executed = [t \in Threads |-> NoBlocks] /\ ran = << >>

----
(* The managed memory.                                                     *)

Without(f, x) == [y \in DOMAIN f \ {x} |-> f[y]]
With(f, x, v) == [y \in DOMAIN f \union {x} |-> IF y = x THEN v ELSE f[y]]

(* cudaMallocManaged and the loop that clears the array; the address is    *)
(* the least that is free.                                                 *)
Address(h) == CHOOSE a \in 1 .. Cardinality(DOMAIN h) + 1 : a \notin DOMAIN h

Allocate(h, n) ==
    /\ heap' = With(h, Address(h), [i \in 0 .. n - 1 |-> 0])
    /\ bbv' = Address(h)

(* A cell that is not part of a live array holds anything, here -1, and a  *)
(* write to it is lost.                                                    *)
InArray(i) == bbv \in DOMAIN heap /\ i \in DOMAIN heap[bbv]
Cell(i) == IF InArray(i) THEN heap[bbv][i] ELSE -1
WriteCell(i, n) == heap' = IF InArray(i) THEN [heap EXCEPT ![bbv][i] = n] ELSE heap

----
(* The callbacks.                                                          *)

(* A thread of the application calls cuLaunchKernel.                       *)
Call(t) ==
    /\ pc[t] = "idle" /\ made[t] < Len(Program[t])
    /\ pc' = [pc EXCEPT ![t] = "entry"]
    /\ UNCHANGED <<tool, interval, made, mutex, tool_vars, heap, running, reading, visits,
                   bb_log, executed, ran>>

\* Faulty variant of Kept: the array of the last launch is not freed.
KeptAlways == heap

(* if (first) ... else cudaFree(bbv).                                      *)
Kept == IF first THEN heap ELSE Without(heap, bbv)

Locked(t) == mutex = NoThread /\ mutex' = t

(* kernel_id >= ker_begin_interval && kernel_id < ker_end_interval.  The   *)
(* only statement that would change kernel_id, from 0, is in a comment.    *)
InInterval == 0 >= interval[1] /\ 0 < interval[2]

(* The callback at the entry of a launch.                                  *)
Entry(t) ==
    /\ pc[t] = "entry"
    /\ Locked(t)
    /\ tot' = IF per_block THEN launch(t).blocks ELSE launch(t).blocks * launch(t).threads
    /\ first' = FALSE
    /\ bb_log' = IF first /\ ~per_block THEN << >> ELSE bb_log
    /\ instrumented' = InInterval
    /\ IF launch(t).kernel \in DOMAIN kbb_map
       THEN /\ basic_blocks' = kbb_map[launch(t).kernel]
            /\ Allocate(Kept, RowsFor(tot') * basic_blocks')
       ELSE heap' = Kept /\ UNCHANGED <<basic_blocks, bbv>>
    /\ pc' = [pc EXCEPT ![t] = "launch"]
    /\ UNCHANGED <<tool, interval, made, kid, kbb_map, running, reading, visits, executed, ran>>

\* Faulty variant of Loaded: it does not set basic_blocks.
LoadedOnly(kernel) ==
    /\ kbb_map' = With(kbb_map, kernel, bbs(kernel))
    /\ UNCHANGED basic_blocks

Loaded(kernel) ==
    /\ kbb_map' = With(kbb_map, kernel, bbs(kernel))
    /\ basic_blocks' = bbs(kernel)

(* nvbit_at_function_first_load, which also instruments every basic block. *)
FirstLoad(t) ==
    /\ pc[t] = "launch"
    /\ launch(t).kernel \notin DOMAIN kbb_map
    /\ Loaded(launch(t).kernel)
    /\ Allocate(heap, rows * basic_blocks')
    /\ UNCHANGED <<host_vars, first, kid, tot, instrumented, running, reading, visits,
                   bb_log, executed, ran>>

(* The driver starts the kernel.                                           *)
Start(t) ==
    LET l == launch(t)
    IN  /\ pc[t] = "launch"
        /\ l.kernel \in DOMAIN kbb_map
        /\ running' = running \union
              {t} \X (0 .. l.blocks - 1) \X (0 .. WarpsPerBlock(l) - 1) \X Parts
        /\ executed' = [executed EXCEPT ![t] =
              [place \in Places(l) |-> [b \in 0 .. bbs(l.kernel) - 1 |-> 0]]]
        /\ pc' = [pc EXCEPT ![t] = "exit"]
        /\ UNCHANGED <<tool, interval, made, mutex, tool_vars, heap, reading, visits,
                       bb_log, ran>>

----
(* The device: count_instrs, called before every basic block by the active *)
(* threads of a warp part.                                                 *)

(* The row of a part: global_tb or get_global_warp_id.                     *)
Row(p) == IF per_block THEN p[2] ELSE p[2] * WarpsPerBlock(launch(p[1])) + p[3]

(* Whether the launch whose kernel runs is one that the user asked for: it *)
(* is the one after those that have ended.                                 *)
Asked == Len(ran) \in interval[1] .. interval[2] - 1

Visited(p, b) ==
    /\ p \notin DOMAIN reading
    /\ visits[p[1]] < MaxVisits
    /\ visits' = [visits EXCEPT ![p[1]] = @ + 1]
    /\ executed' = [executed EXCEPT ![p[1]][PlaceOf(p)][b] = @ + IF Asked THEN 1 ELSE 0]

(* One thread is active: num_threads is 1.  A launch that is not           *)
(* instrumented runs the original code.                                    *)
VisitPlain(p, b) ==
    /\ ~instrumented
    /\ Visited(p, b)
    /\ UNCHANGED <<host_vars, tool_vars, heap, running, reading, bb_log, ran>>

(* bbv_count_tb: atomicAdd.                                                *)
AtomicAdd(p, b) ==
    LET i == Row(p) * basic_blocks + b
    IN  /\ per_block /\ instrumented
        /\ Visited(p, b)
        /\ WriteCell(i, Cell(i) + 1)
        /\ UNCHANGED <<host_vars, tool_vars, running, reading, bb_log, ran>>

(* bbv_count: bbv[...] += num_threads, a read and then a write, between    *)
(* which another part of the warp can come.                                *)
Read(p, b) ==
    LET i == Row(p) * basic_blocks + b
    IN  /\ ~per_block /\ instrumented
        /\ Visited(p, b)
        /\ reading' = With(reading, p, <<i, Cell(i)>>)
        /\ UNCHANGED <<host_vars, tool_vars, heap, running, bb_log, ran>>

Write(p) ==
    /\ p \in DOMAIN reading
    /\ WriteCell(reading[p][1], reading[p][2] + 1)
    /\ reading' = Without(reading, p)
    /\ UNCHANGED <<host_vars, tool_vars, running, visits, bb_log, executed, ran>>

Finish(p) ==
    /\ p \notin DOMAIN reading
    /\ running' = running \ {p}
    /\ UNCHANGED <<host_vars, tool_vars, heap, reading, visits, bb_log, executed, ran>>

----
(* A report: the name of the kernel, then a line for every row of counts.  *)
Report(kernel, counts) ==
    [kernel |-> kernel,
     table  |-> [r \in DOMAIN counts |-> [b \in DOMAIN counts[r] |->
                    counts[r][b] * IF per_block THEN Insns[kernel][b + 1] ELSE 1]]]

(* bbv_count appends to bb_log.txt; bbv_count_tb opens bb_log_<kid>.txt.   *)
ReportNumber == IF per_block THEN kid ELSE Cardinality(DOMAIN bb_log)

(* cudaDeviceSynchronize.                                                  *)
Synchronized == running = {}

(* The callback at the exit of a launch.                                   *)
Exit(t) ==
    LET k == launch(t).kernel
    IN  /\ pc[t] = "exit"
        /\ Synchronized
        /\ bb_log' = With(bb_log, ReportNumber,
              Report(k, [r \in 0 .. rows - 1 |-> [b \in 0 .. basic_blocks - 1 |->
                            Cell(r * basic_blocks + b)]]))
        /\ kid' = IF per_block THEN kid + 1 ELSE kid
        /\ ran' = Append(ran,
              Report(k, [r \in 0 .. RowsOf(launch(t)) - 1 |-> [b \in 0 .. bbs(k) - 1 |->
                            executed[t][PlaceAt(launch(t), r)][b]]]))
        /\ executed' = [executed EXCEPT ![t] = NoBlocks] /\ visits' = [visits EXCEPT ![t] = 0]
        /\ mutex' = NoThread
        /\ pc' = [pc EXCEPT ![t] = "idle"]
        /\ made' = [made EXCEPT ![t] = @ + 1]
        /\ UNCHANGED <<tool, interval, first, tot, kbb_map, basic_blocks, heap, bbv,
                       instrumented, running, reading>>

Callbacks(t) == Entry(t) \/ FirstLoad(t) \/ Start(t) \/ Exit(t)

Device ==
    \E p \in running :
       \/ Write(p) \/ Finish(p)
       \/ \E b \in 0 .. bbs(launch(p[1]).kernel) - 1 :
             VisitPlain(p, b) \/ AtomicAdd(p, b) \/ Read(p, b)

(* The application has made its launches.                                  *)
Ended == (\A t \in Threads : pc[t] = "idle" /\ made[t] = Len(Program[t])) /\ UNCHANGED vars

Next == (\E t \in Threads : Call(t) \/ Callbacks(t)) \/ Device \/ Ended

Spec == Init /\ [][Next]_vars

----
TypeOK ==
    /\ tool \in {"bbv_count", "bbv_count_tb"}
    /\ interval \in Intervals
    /\ pc \in [Threads -> {"idle", "entry", "launch", "exit"}]
    /\ made \in [Threads -> Nat]
    /\ mutex \in Threads \union {NoThread}
    /\ first \in BOOLEAN /\ instrumented \in BOOLEAN
    /\ kid \in Nat /\ tot \in Nat /\ basic_blocks \in Nat /\ bbv \in Nat
    /\ \A t \in Threads : pc[t] # "idle" => made[t] < Len(Program[t])

(* Only one launch at a time is between its callbacks, so that the array,  *)
(* basic_blocks and the open report belong to it: the mutex is taken by    *)
(* the entry callback and released by the exit callback, in another call.  *)
OneLaunch ==
    \A t \in Threads : pc[t] \in {"launch", "exit"} <=> mutex = t

(* There is one array at most, whoever allocated it (the entry callback or *)
(* the first load), and while a kernel runs the array is alive, is the one *)
(* bbv points to, and has a cell for every row and basic block of that     *)
(* kernel, so that no warp adds to freed memory or past the end.           *)
ArrayIsLive ==
    /\ Cardinality(DOMAIN heap) <= 1
    /\ \A t \in Threads : pc[t] = "exit" =>
          LET l == launch(t)
          IN  /\ bbv \in DOMAIN heap
              /\ basic_blocks = bbs(l.kernel)
              /\ DOMAIN heap[bbv] = 0 .. RowsOf(l) * bbs(l.kernel) - 1

(* The reports are those of the launches, in the order in which they end,  *)
(* each with a row for every warp or block and a count for every basic     *)
(* block.  If KERNEL_BEGIN has its default, the reports of the launches    *)
(* before KERNEL_END count what was executed; but bbv_count, when warps    *)
(* diverge, may count less (see CountsExact).                              *)
CountsByDefault ==
    /\ DOMAIN bb_log = 0 .. Len(ran) - 1
    /\ \A n \in 1 .. Len(ran) :
          LET report == bb_log[n - 1]
          IN  /\ report.kernel = ran[n].kernel
              /\ DOMAIN report.table = DOMAIN ran[n].table
              /\ \A r \in DOMAIN ran[n].table :
                    /\ DOMAIN report.table[r] = DOMAIN ran[n].table[r]
                    /\ interval[1] = 0 /\ n - 1 < interval[2] =>
                          \A b \in DOMAIN ran[n].table[r] :
                              IF per_block \/ Cardinality(Parts) = 1
                              THEN report.table[r][b] = ran[n].table[r][b]
                              ELSE report.table[r][b] \in 0 .. ran[n].table[r][b]

(* Every report counts each basic block as often as it was executed, in    *)
(* the launches of "the kernel launch interval where to apply              *)
(* instrumentation" (bbv_count.cu:152-157) and in no other: "only the      *)
(* first active thread will perform the atomic" (bbv_count.cu:101).        *)
CountsExact == \A n \in 1 .. Len(ran) : bb_log[n - 1].table = ran[n].table
=============================================================================
