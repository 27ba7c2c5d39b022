--------------------------- MODULE NvbitToolsProofs ---------------------------
(***************************************************************************)
(* What is proved of the programs that NVBit loads into an application:    *)
(* the counting tools, for any application, kernels and intervals (one     *)
(* launch at a time, one live array of the right size while its kernel     *)
(* runs, and reports that count what ran); the tracing tool, for any       *)
(* number of kernels, warps and instructions, any channel and any setting  *)
(* of its options (the files of a kernel are complete, and the kernels of  *)
(* the region are those traced); and the checkpoint tool, for any          *)
(* allocations and launches (the files hold what the kernels left).        *)
(*                                                                         *)
(* The first part is about BbvCount, the second about T, the tracing tool, *)
(* and the third about C, the checkpoint tool.                             *)
(***************************************************************************)
EXTENDS LaunchTools, FiniteSetTheorems, SequenceTheorems, TLAPS

(* There is one array, it has n cells and bbv points to it.                *)
Allotted(n) == DOMAIN heap = {bbv} /\ DOMAIN heap[bbv] = 0 .. n - 1

(* Nothing is loaded before the first launch.                              *)
Fresh == first => DOMAIN kbb_map = {} /\ DOMAIN heap = {}

OneArray == DOMAIN heap \subseteq {bbv}

MapExact == \A k \in DOMAIN kbb_map : kbb_map[k] = bbs(k)

TotOf(l) == IF per_block THEN l.blocks ELSE l.blocks * l.threads

(* After the entry callback: the array of a kernel that was loaded before  *)
(* is there, and the first load of another finds none.                     *)
AfterEntry(t) ==
    /\ ~first
    /\ tot = TotOf(launch(t))
    /\ IF launch(t).kernel \in DOMAIN kbb_map
       THEN basic_blocks = bbs(launch(t).kernel) /\ Allotted(rows * basic_blocks)
       ELSE DOMAIN heap = {}

WhileRunning(t) ==
    /\ tot = TotOf(launch(t))
    /\ basic_blocks = bbs(launch(t).kernel)
    /\ Allotted(RowsOf(launch(t)) * bbs(launch(t).kernel))

Arrays ==
    /\ Fresh /\ OneArray /\ MapExact
    /\ \A t \in Threads : pc[t] = "launch" => AfterEntry(t)
    /\ \A t \in Threads : pc[t] = "exit" => WhileRunning(t)

(* The inductive invariant.                                                *)
IInv == TypeOK /\ OneLaunch /\ Arrays

----
(* A warp is 32 threads: dividing the threads of a grid by 32 gives its    *)
(* warps, if its blocks consist of whole warps.                            *)
LEMMA WarpsOfGrid ==
    ASSUME NEW b \in Nat, NEW n \in Nat, n % 32 = 0
    PROVE  (b * n) \div 32 = b * ((n + 31) \div 32)
<1>1. PICK w \in Nat : n = 32 * w
  <2>1. n \div 32 \in Nat /\ n = 32 * (n \div 32)
    BY SMT
  <2>. QED BY <2>1
<1>2. (n + 31) \div 32 = w
  BY <1>1, SMT
<1>3. PICK p \in Nat : p = b * w
  BY SMT
<1>4. b * n = 32 * p
  BY <1>1, <1>3, SMT
<1>5. (32 * p) \div 32 = p
  BY SMT
<1>. QED BY <1>2, <1>3, <1>4, <1>5

(* The launch a thread is in is one of Launches.                           *)
LEMMA LaunchType ==
    ASSUME TypeOK, NEW t \in Threads, pc[t] # "idle"
    PROVE  /\ launch(t).blocks \in Nat /\ launch(t).threads \in Nat
           /\ launch(t).threads % 32 = 0
           /\ launch(t).kernel \in DOMAIN Insns
           /\ bbs(launch(t).kernel) \in Nat
<1>1. made[t] \in Nat /\ made[t] < Len(Program[t])
  BY DEF TypeOK
<1>2. Program[t] \in Seq(Launches)
  BY BbvAssumption DEF BbvAssumption
<1>. HIDE DEF Launches
<1>3. launch(t) \in Launches
  <2>1. made[t] + 1 \in 1 .. Len(Program[t])
    BY <1>1, <1>2, SMT
  <2>. QED BY <2>1, <1>2 DEF launch
<1>4. /\ launch(t).blocks \in Nat /\ launch(t).threads \in Nat
      /\ launch(t).threads % 32 = 0
      /\ launch(t).kernel \in DOMAIN Insns
  BY <1>3, BbvAssumption DEF BbvAssumption, warp_size
<1>5. Insns[launch(t).kernel] \in Seq(Nat)
  BY <1>4, BbvAssumption DEF BbvAssumption
<1>6. bbs(launch(t).kernel) \in Nat
  BY <1>5, SMT DEF bbs
<1>. QED BY <1>4, <1>6

(* tot_threads gives as many rows as the launch has warps, tot_blocks as   *)
(* many as it has blocks.                                                  *)
LEMMA RowsEnough ==
    ASSUME TypeOK, NEW t \in Threads, pc[t] # "idle"
    PROVE  RowsFor(TotOf(launch(t))) = RowsOf(launch(t))
<1>1. CASE per_block
  BY <1>1 DEF RowsFor, RowsOf, TotOf
<1>2. CASE ~per_block
  <2>1. launch(t).blocks \in Nat /\ launch(t).threads \in Nat /\ launch(t).threads % 32 = 0
    BY LaunchType
  <2>2. (launch(t).blocks * launch(t).threads) \div 32
          = launch(t).blocks * ((launch(t).threads + 31) \div 32)
    BY <2>1, WarpsOfGrid
  <2>3. WarpsPerBlock(launch(t)) = (launch(t).threads + 31) \div 32
    BY <2>1, SMT DEF WarpsPerBlock, warp_size
  <2>. QED BY <1>2, <2>2, <2>3 DEF RowsFor, RowsOf, TotOf, warp_size
<1>. QED BY <1>1, <1>2

(* An allocation with nothing else allocated leaves one array.             *)
LEMMA AllocateFirst ==
    ASSUME NEW h, DOMAIN h = {}, NEW n \in Nat, Allocate(h, n)
    PROVE  bbv' \in Nat /\ DOMAIN heap' = {bbv'} /\ DOMAIN heap'[bbv'] = 0 .. n - 1
<1>. DEFINE a == Address(h)
<1>1. Cardinality(DOMAIN h) + 1 = 1
  BY FS_EmptySet
<1>2. a = 1
  BY <1>1 DEF Address
<1>. HIDE DEF a
<1>3. bbv' = a
  BY DEF Allocate, a
<1>4. heap' = [y \in {a} |-> [i \in 0 .. n - 1 |-> 0]]
  BY DEF Allocate, With, a
<1>5. DOMAIN heap' = {a} /\ heap'[a] = [i \in 0 .. n - 1 |-> 0]
  BY <1>4
<1>. QED BY <1>2, <1>3, <1>5

(* What the device does to the host's state: nothing but the contents of   *)
(* the array.                                                              *)
LEMMA DeviceKeeps ==
    ASSUME Device
    PROVE  /\ UNCHANGED <<host_vars, tool_vars>>
           /\ DOMAIN heap' = DOMAIN heap
           /\ \A a \in DOMAIN heap : DOMAIN heap'[a] = DOMAIN heap[a]
<1>1. \A i, n : WriteCell(i, n) =>
         /\ DOMAIN heap' = DOMAIN heap
         /\ \A a \in DOMAIN heap : DOMAIN heap'[a] = DOMAIN heap[a]
  BY DEF WriteCell, InArray
<1>2. PICK p \in running :
         \/ Write(p) \/ Finish(p)
         \/ \E b \in 0 .. bbs(launch(p[1]).kernel) - 1 :
               VisitPlain(p, b) \/ AtomicAdd(p, b) \/ Read(p, b)
  BY DEF Device
<1>3. CASE Write(p)
  BY <1>1, <1>3 DEF Write
<1>4. CASE Finish(p)
  BY <1>4 DEF Finish
<1>5. ASSUME NEW b, VisitPlain(p, b)
      PROVE  /\ UNCHANGED <<host_vars, tool_vars>> /\ heap' = heap
  BY <1>5 DEF VisitPlain
<1>6. ASSUME NEW b, AtomicAdd(p, b)
      PROVE  /\ UNCHANGED <<host_vars, tool_vars>>
             /\ DOMAIN heap' = DOMAIN heap
             /\ \A a \in DOMAIN heap : DOMAIN heap'[a] = DOMAIN heap[a]
  BY <1>1, <1>6 DEF AtomicAdd
<1>7. ASSUME NEW b, Read(p, b)
      PROVE  /\ UNCHANGED <<host_vars, tool_vars>> /\ heap' = heap
  BY <1>7 DEF Read
<1>. QED BY <1>2, <1>3, <1>4, <1>5, <1>6, <1>7

----
LEMMA InitHolds == Init => IInv
<1>. SUFFICES ASSUME Init PROVE IInv
  OBVIOUS
<1>1. TypeOK
  BY DEF Init, TypeOK
<1>2. OneLaunch
  BY BbvAssumption DEF Init, OneLaunch, BbvAssumption
<1>3. Arrays
  BY DEF Init, Arrays, Fresh, OneArray, MapExact
<1>. QED BY <1>1, <1>2, <1>3 DEF IInv

(* A thread that is not in one of the two states in which the mutex is     *)
(* held is not its owner, and nobody is in them when it is free.           *)
LEMMA OneOwner ==
    ASSUME OneLaunch, NEW s \in Threads, NEW t \in Threads,
           pc[s] \in {"launch", "exit"}, pc[t] \in {"launch", "exit"}
    PROVE  s = t
BY DEF OneLaunch

(* The facts about arrays survive a step that changes only other things.   *)
LEMMA ArraysKept ==
    ASSUME Arrays, TypeOK,
           UNCHANGED <<tool, pc, made, first, tot, kbb_map, basic_blocks, bbv>>,
           DOMAIN heap' = DOMAIN heap,
           \A a \in DOMAIN heap : DOMAIN heap'[a] = DOMAIN heap[a]
    PROVE  Arrays'
<1>1. \A n : Allotted(n) => Allotted(n)'
  BY DEF Allotted
<1>2. \A t \in Threads : launch(t)' = launch(t)
  BY DEF launch
<1>3. rows' = rows
  BY DEF rows, RowsFor, per_block
<1>4. \A l : RowsOf(l)' = RowsOf(l) /\ TotOf(l)' = TotOf(l)
  BY DEF RowsOf, TotOf, WarpsPerBlock, per_block
<1>5. (Fresh /\ OneArray /\ MapExact)'
  BY DEF Arrays, Fresh, OneArray, MapExact
<1>6. ASSUME NEW t \in Threads, pc'[t] = "launch"
      PROVE  AfterEntry(t)'
  <2>1. AfterEntry(t)
    BY <1>6 DEF Arrays
  <2>. QED BY <2>1, <1>1, <1>2, <1>3, <1>4 DEF AfterEntry
<1>7. ASSUME NEW t \in Threads, pc'[t] = "exit"
      PROVE  WhileRunning(t)'
  <2>1. WhileRunning(t)
    BY <1>7 DEF Arrays
  <2>. QED BY <2>1, <1>1, <1>2, <1>4 DEF WhileRunning
<1>. QED BY <1>5, <1>6, <1>7 DEF Arrays

(* The entry callback: it gets the mutex, frees the array of the launch    *)
(* before and allocates one if the kernel is known.                        *)
LEMMA EntryStep ==
    ASSUME IInv, NEW t \in Threads, Entry(t)
    PROVE  IInv'
<1>1. TypeOK /\ OneLaunch /\ Arrays
  BY DEF IInv
<1>2. /\ pc[t] = "entry" /\ mutex = NoThread /\ mutex' = t
      /\ pc' = [pc EXCEPT ![t] = "launch"]
      /\ UNCHANGED <<tool, interval, made, kid, kbb_map>>
      /\ first' = FALSE
      /\ instrumented' \in BOOLEAN
      /\ tot' = TotOf(launch(t))
  BY DEF Entry, Locked, InInterval, TotOf
<1>3. /\ pc \in [Threads -> {"idle", "entry", "launch", "exit"}]
      /\ made \in [Threads -> Nat]
  BY <1>1 DEF TypeOK
<1>4. \A s \in Threads : pc[s] \notin {"launch", "exit"}
  BY <1>1, <1>2, BbvAssumption DEF OneLaunch, BbvAssumption
<1>5. \A s \in Threads : pc'[s] = IF s = t THEN "launch" ELSE pc[s]
  BY <1>2, <1>3
<1>6. /\ launch(t).blocks \in Nat /\ launch(t).threads \in Nat
      /\ launch(t).threads % 32 = 0
      /\ bbs(launch(t).kernel) \in Nat
  BY <1>1, <1>2, LaunchType
<1>7. tot' \in Nat
  BY <1>2, <1>6, SMT DEF TotOf
<1>8. RowsFor(tot') \in Nat
  <2>1. \A n \in Nat : n \div warp_size \in Nat
    BY SMT DEF warp_size
  <2>. QED BY <1>7, <2>1 DEF RowsFor
<1>9. DOMAIN Kept = {}
  BY <1>1 DEF Kept, Without, Arrays, Fresh, OneArray
<1>10. rows' = RowsFor(tot') /\ TotOf(launch(t))' = TotOf(launch(t)) /\ launch(t)' = launch(t)
  BY <1>2 DEF rows, RowsFor, per_block, TotOf, launch
<1>11. /\ basic_blocks' \in Nat /\ bbv' \in Nat /\ OneArray' /\ AfterEntry(t)'
  <2>1. CASE launch(t).kernel \in DOMAIN kbb_map
    <3>1. /\ basic_blocks' = kbb_map[launch(t).kernel]
          /\ Allocate(Kept, RowsFor(tot') * basic_blocks')
      BY <2>1 DEF Entry
    <3>2. basic_blocks' = bbs(launch(t).kernel)
      BY <1>1, <2>1, <3>1 DEF Arrays, MapExact
    <3>3. RowsFor(tot') * basic_blocks' \in Nat
      BY <1>6, <1>8, <3>2, SMT
    <3>4. PICK n \in Nat : n = RowsFor(tot') * basic_blocks'
      BY <3>3
    <3>5. bbv' \in Nat /\ DOMAIN heap' = {bbv'} /\ DOMAIN heap'[bbv'] = 0 .. n - 1
      BY <1>9, <3>1, <3>4, AllocateFirst
    <3>6. OneArray'
      BY <3>5 DEF OneArray
    <3>7. Allotted(rows * basic_blocks)'
      BY <1>10, <3>4, <3>5 DEF Allotted
    <3>8. AfterEntry(t)'
      BY <1>2, <1>10, <2>1, <3>2, <3>7 DEF AfterEntry, bbs
    <3>. QED BY <1>6, <3>2, <3>5, <3>6, <3>8
  <2>2. CASE launch(t).kernel \notin DOMAIN kbb_map
    <3>1. heap' = Kept /\ basic_blocks' = basic_blocks /\ bbv' = bbv
      BY <2>2 DEF Entry
    <3>2. OneArray'
      BY <1>9, <3>1 DEF OneArray
    <3>3. AfterEntry(t)'
      BY <1>2, <1>9, <1>10, <2>2, <3>1 DEF AfterEntry
    <3>. QED BY <1>1, <3>1, <3>2, <3>3 DEF TypeOK
  <2>. QED BY <2>1, <2>2
<1>12. TypeOK'
  <2>1. pc' \in [Threads -> {"idle", "entry", "launch", "exit"}]
    BY <1>2, <1>3
  <2>2. \A s \in Threads : pc'[s] # "idle" => made'[s] < Len(Program[s])
    BY <1>1, <1>2, <1>5 DEF TypeOK
  <2>. QED BY <1>1, <1>2, <1>7, <1>11, <2>1, <2>2 DEF TypeOK
<1>13. OneLaunch'
  BY <1>2, <1>4, <1>5 DEF OneLaunch
<1>14. Arrays'
  <2>1. Fresh' /\ MapExact'
    BY <1>1, <1>2 DEF Fresh, MapExact, Arrays, bbs
  <2>2. \A s \in Threads : pc'[s] = "launch" => s = t
    BY <1>4, <1>5
  <2>3. \A s \in Threads : pc'[s] # "exit"
    BY <1>4, <1>5
  <2>. QED BY <1>11, <2>1, <2>2, <2>3 DEF Arrays
<1>. QED BY <1>12, <1>13, <1>14 DEF IInv

(* The first load: the array of a kernel that was not known.               *)
LEMMA FirstLoadStep ==
    ASSUME IInv, NEW t \in Threads, FirstLoad(t)
    PROVE  IInv'
<1>1. TypeOK /\ OneLaunch /\ Arrays
  BY DEF IInv
<1>. DEFINE k == launch(t).kernel
<1>2. /\ pc[t] = "launch" /\ k \notin DOMAIN kbb_map
      /\ kbb_map' = With(kbb_map, k, bbs(k)) /\ basic_blocks' = bbs(k)
      /\ Allocate(heap, rows * basic_blocks')
      /\ UNCHANGED <<host_vars, first, kid, tot, instrumented>>
  BY DEF FirstLoad, Loaded
<1>3. ~first /\ tot = TotOf(launch(t)) /\ DOMAIN heap = {}
  BY <1>1, <1>2 DEF Arrays, AfterEntry
<1>4. bbs(k) \in Nat
  BY <1>1, <1>2, LaunchType
<1>5. rows \in Nat
  <2>1. tot \in Nat
    BY <1>1 DEF TypeOK
  <2>2. tot \div warp_size \in Nat
    BY <2>1, SMT DEF warp_size
  <2>. QED BY <2>1, <2>2 DEF rows, RowsFor
<1>6. rows * basic_blocks' \in Nat
  BY <1>2, <1>4, <1>5, SMT
<1>7. PICK n \in Nat : n = rows * basic_blocks'
  BY <1>6
<1>8. bbv' \in Nat /\ DOMAIN heap' = {bbv'} /\ DOMAIN heap'[bbv'] = 0 .. n - 1
  BY <1>2, <1>3, <1>7, AllocateFirst
<1>9. TypeOK'
  BY <1>1, <1>2, <1>4, <1>8 DEF TypeOK, host_vars
<1>10. OneLaunch'
  BY <1>1, <1>2 DEF OneLaunch, host_vars
<1>11. Arrays'
  <2>1. /\ launch(t)' = launch(t) /\ TotOf(launch(t))' = TotOf(launch(t)) /\ rows' = rows
        /\ bbs(k)' = bbs(k)
    BY <1>2 DEF launch, TotOf, rows, RowsFor, per_block, bbs, host_vars
  <2>2. Fresh' /\ OneArray'
    BY <1>2, <1>3, <1>8 DEF Fresh, OneArray
  <2>3. DOMAIN kbb_map' = DOMAIN kbb_map \union {k} /\ kbb_map'[k] = bbs(k)
    BY <1>2 DEF With
  <2>4. \A j \in DOMAIN kbb_map : kbb_map'[j] = kbb_map[j]
    BY <1>2 DEF With
  <2>5. MapExact'
    BY <1>1, <2>3, <2>4 DEF Arrays, MapExact, bbs
  <2>6. Allotted(rows * basic_blocks)'
    BY <1>7, <1>8, <2>1 DEF Allotted
  <2>7. AfterEntry(t)'
    BY <1>2, <1>3, <2>1, <2>3, <2>6 DEF AfterEntry
  <2>8. \A s \in Threads : pc'[s] \in {"launch", "exit"} => s = t
    BY <1>1, <1>2, OneOwner DEF host_vars
  <2>9. pc'[t] = "launch"
    BY <1>2 DEF host_vars
  <2>. QED BY <2>2, <2>5, <2>7, <2>8, <2>9 DEF Arrays
<1>. QED BY <1>9, <1>10, <1>11 DEF IInv

(* The kernel starts on the array that the entry callback or the first     *)
(* load left.                                                              *)
LEMMA StartStep ==
    ASSUME IInv, NEW t \in Threads, Start(t)
    PROVE  IInv'
<1>1. TypeOK /\ OneLaunch /\ Arrays
  BY DEF IInv
<1>2. /\ pc[t] = "launch" /\ launch(t).kernel \in DOMAIN kbb_map
      /\ pc' = [pc EXCEPT ![t] = "exit"]
      /\ UNCHANGED <<tool, interval, made, mutex, tool_vars, heap>>
  BY DEF Start
<1>3. pc \in [Threads -> {"idle", "entry", "launch", "exit"}]
  BY <1>1 DEF TypeOK
<1>4. \A s \in Threads : pc'[s] = IF s = t THEN "exit" ELSE pc[s]
  BY <1>2, <1>3
<1>5. TypeOK'
  <2>1. pc' \in [Threads -> {"idle", "entry", "launch", "exit"}]
    BY <1>2, <1>3
  <2>2. \A s \in Threads : pc'[s] # "idle" => made'[s] < Len(Program[s])
    BY <1>1, <1>2, <1>4 DEF TypeOK
  <2>. QED BY <1>1, <1>2, <2>1, <2>2 DEF TypeOK, tool_vars
<1>6. OneLaunch'
  BY <1>1, <1>2, <1>4 DEF OneLaunch
<1>7. Arrays'
  <2>1. AfterEntry(t)
    BY <1>1, <1>2 DEF Arrays
  <2>2. basic_blocks = bbs(launch(t).kernel) /\ Allotted(rows * basic_blocks)
        /\ tot = TotOf(launch(t))
    BY <1>2, <2>1 DEF AfterEntry
  <2>3. rows = RowsOf(launch(t))
    BY <1>1, <1>2, <2>2, RowsEnough DEF rows
  <2>4. WhileRunning(t)
    BY <2>2, <2>3 DEF WhileRunning
  <2>5. WhileRunning(t)'
    BY <1>2, <2>4 DEF WhileRunning, Allotted, launch, bbs, RowsOf, TotOf, WarpsPerBlock,
                      per_block, tool_vars
  <2>6. \A s \in Threads : pc'[s] # "launch"
    BY <1>1, <1>2, <1>4, OneOwner
  <2>7. \A s \in Threads : pc'[s] = "exit" => s = t
    BY <1>1, <1>2, <1>4, OneOwner
  <2>8. (Fresh /\ OneArray /\ MapExact)'
    BY <1>1, <1>2 DEF Arrays, Fresh, OneArray, MapExact, bbs, tool_vars
  <2>. QED BY <2>5, <2>6, <2>7, <2>8 DEF Arrays
<1>. QED BY <1>5, <1>6, <1>7 DEF IInv

(* The exit callback leaves the array to the next entry callback.          *)
LEMMA ExitStep ==
    ASSUME IInv, NEW t \in Threads, Exit(t)
    PROVE  IInv'
<1>1. TypeOK /\ OneLaunch /\ Arrays
  BY DEF IInv
<1>2. /\ pc[t] = "exit"
      /\ pc' = [pc EXCEPT ![t] = "idle"] /\ made' = [made EXCEPT ![t] = @ + 1]
      /\ mutex' = NoThread
      /\ kid' = IF per_block THEN kid + 1 ELSE kid
      /\ UNCHANGED <<tool, interval, first, tot, kbb_map, basic_blocks, heap, bbv,
                     instrumented>>
  BY DEF Exit
<1>3. /\ pc \in [Threads -> {"idle", "entry", "launch", "exit"}]
      /\ made \in [Threads -> Nat] /\ kid \in Nat
  BY <1>1 DEF TypeOK
<1>4. \A s \in Threads : /\ pc'[s] = IF s = t THEN "idle" ELSE pc[s]
                         /\ made'[s] = IF s = t THEN made[s] + 1 ELSE made[s]
  BY <1>2, <1>3
<1>5. \A s \in Threads : pc'[s] \notin {"launch", "exit"}
  BY <1>1, <1>2, <1>4, OneOwner
<1>6. TypeOK'
  <2>1. pc' \in [Threads -> {"idle", "entry", "launch", "exit"}]
    BY <1>2, <1>3
  <2>2. made' \in [Threads -> Nat] /\ kid' \in Nat
    BY <1>2, <1>3
  <2>3. \A s \in Threads : pc'[s] # "idle" => made'[s] < Len(Program[s])
    BY <1>1, <1>4 DEF TypeOK
  <2>. QED BY <1>1, <1>2, <2>1, <2>2, <2>3 DEF TypeOK
<1>7. OneLaunch'
  BY <1>2, <1>5, BbvAssumption DEF OneLaunch, BbvAssumption
<1>8. Arrays'
  BY <1>1, <1>2, <1>5 DEF Arrays, Fresh, OneArray, MapExact, bbs
<1>. QED BY <1>6, <1>7, <1>8 DEF IInv

(* A call from outside the mutex.                                          *)
LEMMA CallStep ==
    ASSUME IInv, NEW t \in Threads, Call(t)
    PROVE  IInv'
<1>1. TypeOK /\ OneLaunch /\ Arrays
  BY DEF IInv
<1>2. /\ pc[t] = "idle" /\ made[t] < Len(Program[t])
      /\ pc' = [pc EXCEPT ![t] = "entry"]
      /\ UNCHANGED <<tool, interval, made, mutex, tool_vars, heap>>
  BY DEF Call
<1>3. pc \in [Threads -> {"idle", "entry", "launch", "exit"}]
  BY <1>1 DEF TypeOK
<1>4. \A s \in Threads : pc'[s] = IF s = t THEN "entry" ELSE pc[s]
  BY <1>2, <1>3
<1>5. TypeOK'
  <2>1. pc' \in [Threads -> {"idle", "entry", "launch", "exit"}]
    BY <1>2, <1>3
  <2>2. \A s \in Threads : pc'[s] # "idle" => made'[s] < Len(Program[s])
    BY <1>1, <1>2, <1>4 DEF TypeOK
  <2>. QED BY <1>1, <1>2, <2>1, <2>2 DEF TypeOK, tool_vars
<1>6. OneLaunch'
  BY <1>1, <1>2, <1>4 DEF OneLaunch
<1>7. Arrays'
  <2>1. (Fresh /\ OneArray /\ MapExact)'
    BY <1>1, <1>2 DEF Arrays, Fresh, OneArray, MapExact, bbs, tool_vars
  <2>2. \A l : RowsOf(l)' = RowsOf(l) /\ TotOf(l)' = TotOf(l)
    BY <1>2 DEF RowsOf, TotOf, WarpsPerBlock, per_block
  <2>3. \A s \in Threads : launch(s)' = launch(s)
    BY <1>2 DEF launch
  <2>4. rows' = rows /\ \A n : Allotted(n)' <=> Allotted(n)
    BY <1>2 DEF rows, RowsFor, per_block, Allotted, tool_vars
  <2>5. ASSUME NEW s \in Threads, pc'[s] = "launch"
        PROVE  AfterEntry(s)'
    <3>1. AfterEntry(s)
      BY <1>1, <1>4, <2>5 DEF Arrays
    <3>. QED BY <1>2, <2>2, <2>3, <2>4, <3>1 DEF AfterEntry, bbs, tool_vars
  <2>6. ASSUME NEW s \in Threads, pc'[s] = "exit"
        PROVE  WhileRunning(s)'
    <3>1. WhileRunning(s)
      BY <1>1, <1>4, <2>6 DEF Arrays
    <3>. QED BY <1>2, <2>2, <2>3, <2>4, <3>1 DEF WhileRunning, bbs, tool_vars
  <2>. QED BY <2>1, <2>5, <2>6 DEF Arrays
<1>. QED BY <1>5, <1>6, <1>7 DEF IInv

(* The device changes what the array contains and nothing else.            *)
LEMMA DeviceStep ==
    ASSUME IInv, Device
    PROVE  IInv'
<1>1. TypeOK /\ OneLaunch /\ Arrays
  BY DEF IInv
<1>2. /\ UNCHANGED <<host_vars, tool_vars>>
      /\ DOMAIN heap' = DOMAIN heap
      /\ \A a \in DOMAIN heap : DOMAIN heap'[a] = DOMAIN heap[a]
  BY DeviceKeeps
<1>3. TypeOK' /\ OneLaunch'
  BY <1>1, <1>2 DEF TypeOK, OneLaunch, host_vars, tool_vars
<1>4. Arrays'
  BY <1>1, <1>2, ArraysKept DEF host_vars, tool_vars
<1>. QED BY <1>3, <1>4 DEF IInv

LEMMA StepHolds == IInv /\ [Next]_vars => IInv'
<1>. SUFFICES ASSUME IInv, [Next]_vars PROVE IInv'
  OBVIOUS
<1>1. CASE UNCHANGED vars
  <2>1. UNCHANGED <<host_vars, tool_vars, heap>>
    BY <1>1 DEF vars
  <2>2. TypeOK' /\ OneLaunch'
    BY <2>1 DEF IInv, TypeOK, OneLaunch, host_vars, tool_vars
  <2>3. Arrays'
    BY <2>1, ArraysKept DEF IInv, host_vars, tool_vars
  <2>. QED BY <2>2, <2>3 DEF IInv
<1>2. CASE Device
  BY <1>2, DeviceStep
<1>3. ASSUME NEW t \in Threads, Call(t) \/ Callbacks(t)
      PROVE  IInv'
  BY <1>3, CallStep, EntryStep, FirstLoadStep, StartStep, ExitStep DEF Callbacks
<1>. QED BY <1>1, <1>2, <1>3 DEF Next, Ended

----
(* The mutex that the entry callback takes and the exit callback releases  *)
(* keeps the launches of all threads apart (bbv_count.cu and               *)
(* bbv_count_tb.cu, nvbit_at_cuda_event): no other callback changes        *)
(* tot_threads, basic_blocks or the array between the two.                 *)
THEOREM LaunchesApart == Spec => [](TypeOK /\ OneLaunch)
<1>1. IInv => TypeOK /\ OneLaunch
  BY DEF IInv
<1>. QED BY <1>1, InitHolds, StepHolds, PTL DEF Spec

(* Whoever allocates it, the entry callback or the first load, there is    *)
(* one array, and it is alive and has a cell for every row and basic block *)
(* of the kernel that runs: count_instrs never writes outside it.          *)
THEOREM ArrayCorrect == Spec => []ArrayIsLive
<1>1. IInv => ArrayIsLive
  <2>. SUFFICES ASSUME IInv PROVE ArrayIsLive
    OBVIOUS
  <2>1. Cardinality(DOMAIN heap) <= 1
    <3>1. DOMAIN heap \subseteq {bbv}
      BY DEF IInv, Arrays, OneArray
    <3>2. IsFiniteSet({bbv}) /\ Cardinality({bbv}) = 1
      BY FS_Singleton
    <3>. QED BY <3>1, <3>2, FS_Subset
  <2>2. ASSUME NEW t \in Threads, pc[t] = "exit"
        PROVE  /\ bbv \in DOMAIN heap
               /\ basic_blocks = bbs(launch(t).kernel)
               /\ DOMAIN heap[bbv] = 0 .. RowsOf(launch(t)) * bbs(launch(t).kernel) - 1
    BY <2>2 DEF IInv, Arrays, WhileRunning, Allotted
  <2>. QED BY <2>1, <2>2 DEF ArrayIsLive
<1>. QED BY <1>1, InitHolds, StepHolds, PTL DEF Spec

----
(* What the counting tools count.                                          *)

(* The row of the counts of a place, and the number of a cell, of the      *)
(* launch that thread t is in.                                             *)
RowAt(l, place) == IF per_block THEN place ELSE place[1] * WarpsPerBlock(l) + place[2]
Blocks(t) == 0 .. bbs(launch(t).kernel) - 1
CellNo(t, place, b) == RowAt(launch(t), place) * bbs(launch(t).kernel) + b

PartsOf(t) ==
    {t} \X (0 .. launch(t).blocks - 1) \X (0 .. WarpsPerBlock(launch(t)) - 1) \X Parts

(* Whether nobody comes between a read and a write of the same count.      *)
Exact == per_block \/ Cardinality(Parts) = 1

(* A part that has read a count has read one of its place, before it was   *)
(* one of those executed.                                                  *)
Readers(t) ==
    \A p \in DOMAIN reading : \E b \in Blocks(t) : \E n \in Nat :
        reading[p] = <<CellNo(t, PlaceOf(p), b), n>>

Pending(i) == {p \in DOMAIN reading : reading[p][1] = i}

(* Cell i counts at most n, and exactly n but for what has been read and   *)
(* not been written yet.                                                   *)
CellRight(i, n) ==
    /\ heap[bbv][i] \in 0 .. n
    /\ \A p \in Pending(i) : reading[p][2] \in 0 .. n - 1
    /\ Exact => IF Pending(i) = {} THEN heap[bbv][i] = n
                ELSE heap[bbv][i] = n - 1 /\ \A p \in Pending(i) : reading[p][2] = n - 1

(* The launches, numbered from 0 as they end, of which CountsByDefault     *)
(* says what their reports count; the launch that is running is one.       *)
Within(n) == interval[1] = 0 /\ n < interval[2]
Inside == Within(Len(ran))

(* What the tool has told NVBit: the same before every launch.             *)
Told == first \/ (instrumented <=> InInterval)

Counting(t) ==
    /\ running \subseteq PartsOf(t)
    /\ executed[t] \in [Places(launch(t)) -> [Blocks(t) -> Nat]]
    /\ Inside =>
          /\ Readers(t)
          /\ \A place \in Places(launch(t)) : \A b \in Blocks(t) :
                CellRight(CellNo(t, place, b), executed[t][place][b])

(* What CountsByDefault says of the report of launch n.                    *)
ReportRight(n, report, right) ==
    /\ report.kernel = right.kernel
    /\ DOMAIN report.table = DOMAIN right.table
    /\ \A r \in DOMAIN right.table :
          /\ DOMAIN report.table[r] = DOMAIN right.table[r]
          /\ Within(n) =>
                \A b \in DOMAIN right.table[r] :
                   IF Exact THEN report.table[r][b] = right.table[r][b]
                            ELSE report.table[r][b] \in 0 .. right.table[r][b]

Reported ==
    /\ \E S : ran \in Seq(S)
    /\ DOMAIN bb_log = 0 .. Len(ran) - 1
    /\ per_block => kid = Len(ran)
    /\ first => bb_log = << >> /\ ran = << >>
    /\ \A n \in 1 .. Len(ran) : ReportRight(n - 1, bb_log[n - 1], ran[n])

Cleared == \A i \in DOMAIN heap[bbv] : heap[bbv][i] = 0

CountInv ==
    /\ DOMAIN executed = Threads
    /\ DOMAIN reading \subseteq running
    /\ per_block => DOMAIN reading = {}
    /\ (\A t \in Threads : pc[t] # "exit") => running = {}
    /\ \A t \in Threads :
          pc[t] = "launch" /\ launch(t).kernel \in DOMAIN kbb_map => Cleared
    /\ \A t \in Threads : pc[t] = "exit" => Counting(t)
    /\ Told
    /\ Reported

(* Counting from 0, row r and column b of a table of B columns is cell     *)
(* r * B + b, of no other row and column.                                  *)
LEMMA GridUnique ==
    ASSUME NEW B \in Nat, NEW r \in Nat, NEW s \in Nat,
           NEW b \in 0 .. B - 1, NEW c \in 0 .. B - 1, r * B + b = s * B + c
    PROVE  r = s /\ b = c
<1>1. ASSUME NEW x \in Nat, NEW y \in Nat, NEW u \in 0 .. B - 1, NEW v \in 0 .. B - 1,
             x * B + u = y * B + v
      PROVE  ~(x < y)
  <2>. SUFFICES ASSUME x < y PROVE FALSE
    OBVIOUS
  <2>1. PICK d \in Nat : y = x + 1 + d
    <3>1. y - x - 1 \in Nat /\ y = x + 1 + (y - x - 1)
      OBVIOUS
    <3>. QED BY <3>1
  <2>2. y * B = x * B + B + d * B
    BY <2>1, SMT
  <2>3. d * B \in Nat /\ x * B \in Nat
    BY SMT
  <2>. QED BY <1>1, <2>2, <2>3
<1>2. r = s
  BY <1>1
<1>3. r * B \in Nat
  BY SMT
<1>. QED BY <1>2, <1>3

LEMMA GridBound ==
    ASSUME NEW n \in Nat, NEW B \in Nat, NEW r \in 0 .. n - 1, NEW b \in 0 .. B - 1
    PROVE  r * B + b \in 0 .. n * B - 1
<1>1. PICK d \in Nat : n = r + 1 + d
  <2>1. n - r - 1 \in Nat /\ n = r + 1 + (n - r - 1)
    OBVIOUS
  <2>. QED BY <2>1
<1>2. n * B = r * B + B + d * B
  BY <1>1, SMT
<1>3. d * B \in Nat /\ r * B \in Nat
  BY SMT
<1>. QED BY <1>2, <1>3

LEMMA GridInverse ==
    ASSUME NEW n \in Nat, NEW W \in Nat \ {0}, NEW r \in 0 .. n * W - 1
    PROVE  /\ r \div W \in 0 .. n - 1 /\ r % W \in 0 .. W - 1
           /\ (r \div W) * W + (r % W) = r
<1>1. r \in Nat
  OBVIOUS
<1>2. r \div W \in Nat /\ r % W \in 0 .. W - 1 /\ r = W * (r \div W) + (r % W)
  BY <1>1, SMT
<1>3. PICK q \in Nat : q = r \div W
  BY <1>2
<1>4. PICK m \in 0 .. W - 1 : m = r % W
  BY <1>2
<1>5. W * q = q * W /\ q * W \in Nat
  BY SMT
<1>6. r = q * W + m
  BY <1>2, <1>3, <1>4, <1>5
<1>7. q < n
  <2>. SUFFICES ASSUME ~(q < n) PROVE FALSE
    OBVIOUS
  <2>1. PICK d \in Nat : q = n + d
    <3>1. q - n \in Nat /\ q = n + (q - n)
      OBVIOUS
    <3>. QED BY <3>1
  <2>2. q * W = n * W + d * W
    BY <2>1, SMT
  <2>3. d * W \in Nat /\ n * W \in Nat
    BY SMT
  <2>. QED BY <1>5, <1>6, <2>2, <2>3
<1>. QED BY <1>3, <1>4, <1>6, <1>7

(* The launch of a thread that is not idle, as far as the counts go.       *)
LEMMA CountTypes ==
    ASSUME TypeOK, NEW t \in Threads, pc[t] # "idle"
    PROVE  /\ launch(t).blocks \in Nat
           /\ WarpsPerBlock(launch(t)) \in Nat
           /\ bbs(launch(t).kernel) \in Nat
           /\ RowsOf(launch(t)) \in Nat
<1>1. /\ launch(t).blocks \in Nat /\ launch(t).threads \in Nat
      /\ bbs(launch(t).kernel) \in Nat
  BY LaunchType
<1>2. WarpsPerBlock(launch(t)) \in Nat
  BY <1>1, SMT DEF WarpsPerBlock, warp_size
<1>3. \A m, n \in Nat : m * n \in Nat
  BY SMT
<1>. QED BY <1>1, <1>2, <1>3 DEF RowsOf

(* Every place has a row of its own, and every row is that of a place.     *)
LEMMA RowsOfPlaces ==
    ASSUME TypeOK, NEW t \in Threads, pc[t] # "idle"
    PROVE  /\ \A place \in Places(launch(t)) :
                  RowAt(launch(t), place) \in 0 .. RowsOf(launch(t)) - 1
           /\ \A p, q \in Places(launch(t)) : RowAt(launch(t), p) = RowAt(launch(t), q) => p = q
           /\ \A r \in 0 .. RowsOf(launch(t)) - 1 :
                 /\ PlaceAt(launch(t), r) \in Places(launch(t))
                 /\ RowAt(launch(t), PlaceAt(launch(t), r)) = r
<1>1. /\ launch(t).blocks \in Nat /\ WarpsPerBlock(launch(t)) \in Nat
  BY CountTypes
<1>2. CASE per_block
  BY <1>1, <1>2 DEF Places, RowAt, PlaceAt, RowsOf
<1>3. CASE ~per_block
  <2>. DEFINE n == launch(t).blocks
              W == WarpsPerBlock(launch(t))
  <2>1. /\ Places(launch(t)) = (0 .. n - 1) \X (0 .. W - 1)
        /\ \A p : RowAt(launch(t), p) = p[1] * W + p[2]
        /\ \A r : PlaceAt(launch(t), r) = <<r \div W, r % W>>
        /\ RowsOf(launch(t)) = n * W
    BY <1>3 DEF Places, RowAt, PlaceAt, RowsOf
  <2>2. n \in Nat /\ W \in Nat
    BY <1>1
  <2>. HIDE DEF n, W
  <2>3. ASSUME NEW p \in Places(launch(t))
        PROVE  RowAt(launch(t), p) \in 0 .. RowsOf(launch(t)) - 1
    <3>1. p[1] \in 0 .. n - 1 /\ p[2] \in 0 .. W - 1
      BY <2>1
    <3>2. p[1] * W + p[2] \in 0 .. n * W - 1
      BY <2>2, <3>1, GridBound
    <3>. QED BY <2>1, <3>2
  <2>4. ASSUME NEW p \in Places(launch(t)), NEW q \in Places(launch(t)),
               RowAt(launch(t), p) = RowAt(launch(t), q)
        PROVE  p = q
    <3>1. /\ p[1] \in 0 .. n - 1 /\ p[2] \in 0 .. W - 1 /\ p = <<p[1], p[2]>>
          /\ q[1] \in 0 .. n - 1 /\ q[2] \in 0 .. W - 1 /\ q = <<q[1], q[2]>>
      BY <2>1
    <3>2. p[1] \in Nat /\ q[1] \in Nat /\ p[1] * W + p[2] = q[1] * W + q[2]
      BY <2>1, <2>4, <3>1
    <3>3. p[1] = q[1] /\ p[2] = q[2]
      BY <2>2, <3>1, <3>2, GridUnique
    <3>. QED BY <3>1, <3>3
  <2>5. ASSUME NEW r \in 0 .. RowsOf(launch(t)) - 1
        PROVE  /\ PlaceAt(launch(t), r) \in Places(launch(t))
               /\ RowAt(launch(t), PlaceAt(launch(t), r)) = r
    <3>1. r \in 0 .. n * W - 1
      BY <2>1
    <3>2. W # 0
      <4>1. n * 0 = 0
        BY <2>2, SMT
      <4>. QED BY <3>1, <4>1
    <3>3. /\ r \div W \in 0 .. n - 1 /\ r % W \in 0 .. W - 1 /\ (r \div W) * W + (r % W) = r
      BY <2>2, <3>1, <3>2, GridInverse
    <3>. QED BY <2>1, <3>3
  <2>. QED BY <2>3, <2>4, <2>5
<1>. QED BY <1>2, <1>3

(* So every place and basic block has a cell of its own in the array.      *)
LEMMA CellsOfPlaces ==
    ASSUME TypeOK, NEW t \in Threads, pc[t] # "idle",
           NEW p \in Places(launch(t)), NEW b \in Blocks(t)
    PROVE  /\ CellNo(t, p, b) \in 0 .. RowsOf(launch(t)) * bbs(launch(t).kernel) - 1
           /\ \A q \in Places(launch(t)), c \in Blocks(t) :
                 CellNo(t, p, b) = CellNo(t, q, c) => p = q /\ b = c
<1>. DEFINE B == bbs(launch(t).kernel)
            R == RowsOf(launch(t))
            At(q) == RowAt(launch(t), q)
<1>1. B \in Nat /\ R \in Nat /\ Blocks(t) = 0 .. B - 1
  BY CountTypes DEF Blocks
<1>2. \A q \in Places(launch(t)) : At(q) \in 0 .. R - 1
  BY RowsOfPlaces
<1>3. \A q \in Places(launch(t)) : At(p) = At(q) => p = q
  BY RowsOfPlaces
<1>4. \A q, c : CellNo(t, q, c) = At(q) * B + c
  BY DEF CellNo
<1>. HIDE DEF B, R, At
<1>5. At(p) * B + b \in 0 .. R * B - 1
  BY <1>1, <1>2, GridBound
<1>6. ASSUME NEW q \in Places(launch(t)), NEW c \in Blocks(t), CellNo(t, p, b) = CellNo(t, q, c)
      PROVE  p = q /\ b = c
  <2>1. At(p) \in Nat /\ At(q) \in Nat
    BY <1>1, <1>2
  <2>2. At(p) * B + b = At(q) * B + c
    BY <1>4, <1>6
  <2>3. PICK r \in Nat, s \in Nat : r = At(p) /\ s = At(q)
    BY <2>1
  <2>4. b \in 0 .. B - 1 /\ c \in 0 .. B - 1 /\ r * B + b = s * B + c
    BY <1>1, <2>2, <2>3
  <2>5. r = s /\ b = c
    BY <1>1, <2>4, GridUnique
  <2>. QED BY <1>3, <2>3, <2>5
<1>7. CellNo(t, p, b) \in 0 .. R * B - 1
  BY <1>4, <1>5
<1>. QED BY <1>6, <1>7 DEF R, B

----
(* What follows from the tool and the launches alone.                      *)
LEMMA SameLaunch ==
    ASSUME UNCHANGED <<tool, made>>
    PROVE  /\ per_block' <=> per_block
           /\ Exact' <=> Exact
           /\ \A t : /\ launch(t)' = launch(t) /\ Blocks(t)' = Blocks(t)
                     /\ PartsOf(t)' = PartsOf(t)
           /\ \A l : Places(l)' = Places(l) /\ RowsOf(l)' = RowsOf(l)
           /\ \A p : PlaceOf(p)' = PlaceOf(p)
           /\ \A t, p, b : CellNo(t, p, b)' = CellNo(t, p, b)
<1>1. per_block' <=> per_block
  BY DEF per_block
<1>2. \A t : launch(t)' = launch(t)
  BY DEF launch
<1>. QED BY <1>1, <1>2 DEF Exact, Blocks, PartsOf, Places, RowsOf, PlaceOf, CellNo, RowAt, bbs,
         WarpsPerBlock

LEMMA ReportedKept ==
    ASSUME Reported, UNCHANGED <<tool, interval, kid, bb_log, ran>>, first' => first
    PROVE  Reported'
<1>1. (per_block' <=> per_block) /\ (Exact' <=> Exact)
  BY DEF per_block, Exact
<1>2. \A n, x, y : ReportRight(n, x, y)' <=> ReportRight(n, x, y)
  BY <1>1 DEF ReportRight, Within
<1>3. \A n \in 1 .. Len(ran) : ReportRight(n - 1, bb_log[n - 1], ran[n])'
  BY <1>2 DEF Reported
<1>. QED BY <1>1, <1>3 DEF Reported

(* A part that runs belongs to the launch that has the mutex.              *)
LEMMA RunningPart ==
    ASSUME IInv, CountInv, NEW p \in running
    PROVE  /\ p[1] \in Threads /\ pc[p[1]] = "exit" /\ p \in PartsOf(p[1])
           /\ PlaceOf(p) \in Places(launch(p[1]))
           /\ WhileRunning(p[1]) /\ Counting(p[1])
           /\ Inside => instrumented /\ Asked
<1>1. PICK t \in Threads : pc[t] = "exit"
  BY DEF CountInv
<1>2. Counting(t) /\ WhileRunning(t)
  BY <1>1 DEF CountInv, IInv, Arrays
<1>3. p \in PartsOf(t)
  BY <1>2 DEF Counting
<1>4. p[1] = t /\ p[2] \in 0 .. launch(t).blocks - 1
      /\ p[3] \in 0 .. WarpsPerBlock(launch(t)) - 1
  BY <1>3 DEF PartsOf
<1>5. PlaceOf(p) \in Places(launch(t))
  BY <1>4 DEF PlaceOf, Places
<1>6. Inside => InInterval /\ Asked
  <2>1. PICK S : ran \in Seq(S)
    BY DEF CountInv, Reported
  <2>2. Len(ran) \in Nat
    BY <2>1, LenProperties
  <2>3. interval[1] \in Nat /\ interval[2] \in Nat
    BY BbvAssumption DEF BbvAssumption, IInv, TypeOK
  <2>. QED BY <2>2, <2>3 DEF Inside, Within, InInterval, Asked
<1>7. instrumented <=> InInterval
  <2>1. ~first
    BY <1>2 DEF IInv, Arrays, WhileRunning, Allotted, Fresh
  <2>. QED BY <2>1 DEF CountInv, Told
<1>. QED BY <1>1, <1>2, <1>3, <1>4, <1>5, <1>6, <1>7

(* The cell of a part is that of its place.                                *)
LEMMA CellOfPart ==
    ASSUME IInv, CountInv, NEW p \in running, NEW b \in Blocks(p[1])
    PROVE  /\ Row(p) * basic_blocks + b = CellNo(p[1], PlaceOf(p), b)
           /\ CellNo(p[1], PlaceOf(p), b)
                 \in 0 .. RowsOf(launch(p[1])) * bbs(launch(p[1]).kernel) - 1
           /\ InArray(CellNo(p[1], PlaceOf(p), b))
<1>1. /\ p[1] \in Threads /\ pc[p[1]] = "exit" /\ WhileRunning(p[1])
      /\ PlaceOf(p) \in Places(launch(p[1]))
  BY RunningPart
<1>2. TypeOK
  BY DEF IInv
<1>3. basic_blocks = bbs(launch(p[1]).kernel)
  BY <1>1 DEF WhileRunning
<1>4. Row(p) = RowAt(launch(p[1]), PlaceOf(p))
  BY DEF Row, RowAt, PlaceOf
<1>5. CellNo(p[1], PlaceOf(p), b) \in 0 .. RowsOf(launch(p[1])) * bbs(launch(p[1]).kernel) - 1
  BY <1>1, <1>2, CellsOfPlaces
<1>6. InArray(CellNo(p[1], PlaceOf(p), b))
  BY <1>1, <1>5 DEF InArray, WhileRunning, Allotted
<1>. QED BY <1>3, <1>4, <1>5, <1>6 DEF CellNo

LEMMA CellWritten ==
    ASSUME NEW i, InArray(i), NEW n, WriteCell(i, n)
    PROVE  \A j \in DOMAIN heap[bbv] : heap'[bbv][j] = IF j = i THEN n ELSE heap[bbv][j]
BY DEF InArray, WriteCell

(* What the history records of a basic block.                              *)
LEMMA VisitedCounts ==
    ASSUME IInv, CountInv, NEW p \in running, NEW b \in Blocks(p[1]), Visited(p, b)
    PROVE  /\ DOMAIN executed' = Threads
           /\ executed'[p[1]] \in [Places(launch(p[1])) -> [Blocks(p[1]) -> Nat]]
           /\ Inside =>
                 \A q \in Places(launch(p[1])), c \in Blocks(p[1]) :
                    executed'[p[1]][q][c] =
                       IF q = PlaceOf(p) /\ c = b THEN executed[p[1]][q][c] + 1
                                                  ELSE executed[p[1]][q][c]
<1>. DEFINE t == p[1]
            place == PlaceOf(p)
            places == Places(launch(t))
            blocks == Blocks(t)
            more == IF Asked THEN 1 ELSE 0
<1>1. /\ t \in Threads /\ place \in places
      /\ executed[t] \in [places -> [blocks -> Nat]]
      /\ DOMAIN executed = Threads
      /\ Inside => Asked
  BY RunningPart DEF Counting, CountInv
<1>2. executed' = [executed EXCEPT ![t][place][b] = @ + more]
  BY DEF Visited
<1>. HIDE DEF t, place, places, blocks
<1>3. b \in blocks
  BY DEF blocks, t
<1>4. executed[t][place] \in [blocks -> Nat] /\ executed[t][place][b] \in Nat
  BY <1>1, <1>3
<1>5. PICK n \in Nat : n = executed[t][place][b]
  BY <1>4
<1>6. PICK m \in {n, n + 1} : m = executed[t][place][b] + more
  BY <1>5
<1>7. executed' = [executed EXCEPT ![t] =
                     [executed[t] EXCEPT ![place] = [executed[t][place] EXCEPT ![b] = m]]]
  BY <1>2, <1>6
<1>8. m \in Nat
  OBVIOUS
<1>9. [executed[t][place] EXCEPT ![b] = m] \in [blocks -> Nat]
  BY <1>4, <1>8
<1>10. DOMAIN executed' = Threads /\ executed'[t] \in [places -> [blocks -> Nat]]
  BY <1>1, <1>7, <1>9
<1>11. ASSUME NEW q \in places, NEW c \in blocks
       PROVE  executed'[t][q][c] = IF Asked /\ q = place /\ c = b
                                   THEN executed[t][q][c] + 1 ELSE executed[t][q][c]
  <2>1. executed'[t][q][c] = IF q = place /\ c = b THEN m ELSE executed[t][q][c]
    BY <1>1, <1>4, <1>7
  <2>. QED BY <2>1, <1>5, <1>6
<1>. QED BY <1>1, <1>10, <1>11 DEF t, place, places, blocks

(* The rest of the invariant, when the device takes a step.                *)
LEMMA DeviceFrame ==
    ASSUME IInv, CountInv, NEW p \in running,
           UNCHANGED <<host_vars, tool_vars, bb_log, ran>>,
           DOMAIN executed' = Threads, running' \subseteq running,
           DOMAIN reading' \subseteq running', per_block => DOMAIN reading' = {},
           Counting(p[1])'
    PROVE  CountInv'
<1>1. UNCHANGED <<tool, interval, pc, made, kid, first, instrumented>>
  BY DEF host_vars, tool_vars
<1>2. p[1] \in Threads /\ pc[p[1]] = "exit" /\ OneLaunch
  BY RunningPart DEF IInv
<1>3. \A s \in Threads : pc'[s] # "launch" /\ (pc'[s] = "exit" => s = p[1])
  BY <1>1, <1>2, OneOwner
<1>4. \A s \in Threads : pc'[s] = "exit" => Counting(s)'
  BY <1>3
<1>5. Reported'
  BY <1>1, ReportedKept DEF CountInv
<1>6. (per_block => DOMAIN reading = {})'
  BY <1>1, SameLaunch
<1>7. pc'[p[1]] = "exit"
  BY <1>1, <1>2
<1>8. Told'
  BY <1>1 DEF CountInv, Told, InInterval
<1>. QED BY <1>2, <1>3, <1>4, <1>5, <1>6, <1>7, <1>8 DEF CountInv

(* Two parts at one place are one, if a warp has one part only.            *)
LEMMA OneReader ==
    ASSUME CountInv, Exact, ~per_block, NEW t, NEW p \in PartsOf(t), NEW q \in PartsOf(t),
           PlaceOf(p) = PlaceOf(q)
    PROVE  p = q
<1>1. \E x : Parts = {x}
  BY BbvAssumption, FS_Singleton DEF BbvAssumption, Exact
<1>2. /\ p = <<p[1], p[2], p[3], p[4]>> /\ p[1] = t /\ p[4] \in Parts
      /\ q = <<q[1], q[2], q[3], q[4]>> /\ q[1] = t /\ q[4] \in Parts
  BY DEF PartsOf
<1>3. p[2] = q[2] /\ p[3] = q[3]
  BY DEF PlaceOf
<1>4. p[4] = q[4]
  BY <1>1, <1>2
<1>. QED BY <1>2, <1>3, <1>4

(* What is left to show of a launch, when a step of the device changes the *)
(* cells.                                                                  *)
LEMMA CountingHolds ==
    ASSUME NEW t, UNCHANGED <<tool, interval, made, ran>>,
           running' \subseteq PartsOf(t),
           executed'[t] \in [Places(launch(t)) -> [Blocks(t) -> Nat]],
           Inside => \A q \in DOMAIN reading' : \E c \in Blocks(t) : \E n \in Nat :
              reading'[q] = <<CellNo(t, PlaceOf(q), c), n>>,
           Inside => \A q \in Places(launch(t)), c \in Blocks(t) : \A j, n :
              j = CellNo(t, q, c) /\ n = executed'[t][q][c] => CellRight(j, n)'
    PROVE  Counting(t)'
<1>0. Inside' <=> Inside
  BY DEF Inside, Within
<1>1. Inside => Readers(t)'
  BY SameLaunch DEF Readers
<1>2. Inside => \A q \in Places(launch(t))', c \in Blocks(t)' :
         CellRight(CellNo(t, q, c), executed[t][q][c])'
  <2>. SUFFICES ASSUME Inside, NEW q \in Places(launch(t)), NEW c \in Blocks(t)
                PROVE  CellRight(CellNo(t, q, c), executed[t][q][c])'
    BY SameLaunch
  <2>1. PICK j : j = CellNo(t, q, c)
    OBVIOUS
  <2>2. PICK n : n = executed'[t][q][c]
    OBVIOUS
  <2>3. CellRight(j, n)'
    BY <2>1, <2>2
  <2>4. j = CellNo(t, q, c)'
    BY <2>1, SameLaunch
  <2>. QED BY <2>2, <2>3, <2>4 DEF CellRight, Pending
<1>. QED BY <1>0, <1>1, <1>2, SameLaunch DEF Counting

(* A launch of whose report nothing is said, instrumented or not.          *)
LEMMA DeviceOutside ==
    ASSUME IInv, CountInv, ~Inside, NEW p \in running,
           \/ Write(p) \/ Finish(p)
           \/ \E b \in Blocks(p[1]) : VisitPlain(p, b) \/ AtomicAdd(p, b) \/ Read(p, b)
    PROVE  CountInv'
<1>. DEFINE t == p[1]
<1>1. /\ UNCHANGED <<host_vars, tool_vars, bb_log, ran>>
      /\ running' \subseteq running
  BY DEF Write, Finish, VisitPlain, AtomicAdd, Read
<1>2. UNCHANGED <<tool, interval, made, ran>>
  BY <1>1 DEF host_vars
<1>3. DOMAIN executed' = Threads /\ executed'[t] \in [Places(launch(t)) -> [Blocks(t) -> Nat]]
  <2>1. CASE Write(p) \/ Finish(p)
    BY <2>1, RunningPart DEF Write, Finish, CountInv, Counting
  <2>2. ASSUME NEW b \in Blocks(t), VisitPlain(p, b) \/ AtomicAdd(p, b) \/ Read(p, b)
        PROVE  Visited(p, b)
    BY <2>2 DEF VisitPlain, AtomicAdd, Read
  <2>. QED BY <2>1, <2>2, VisitedCounts
<1>4. DOMAIN reading' \subseteq running' /\ (per_block => DOMAIN reading' = {})
  <2>1. DOMAIN reading \subseteq running /\ (per_block => DOMAIN reading = {})
    BY DEF CountInv
  <2>2. CASE Write(p)
    <3>1. DOMAIN reading' = DOMAIN reading \ {p} /\ running' = running
      BY <2>2 DEF Write, Without
    <3>. QED BY <2>1, <3>1
  <2>3. CASE Finish(p)
    BY <2>1, <2>3 DEF Finish
  <2>4. ASSUME NEW b \in Blocks(t), VisitPlain(p, b) \/ AtomicAdd(p, b)
        PROVE  reading' = reading /\ running' = running
    BY <2>4 DEF VisitPlain, AtomicAdd
  <2>5. ASSUME NEW b \in Blocks(t), Read(p, b)
        PROVE  /\ ~per_block /\ running' = running
               /\ DOMAIN reading' = DOMAIN reading \union {p}
    BY <2>5 DEF Read, With
  <2>. QED BY <2>1, <2>2, <2>3, <2>4, <2>5
<1>5. Counting(t)'
  <2>1. running' \subseteq PartsOf(t)
    BY <1>1, RunningPart DEF Counting
  <2>. QED BY <1>2, <1>3, <2>1, CountingHolds
<1>. QED BY <1>1, <1>3, <1>4, <1>5, DeviceFrame

(* atomicAdd counts at once.                                               *)
LEMMA AtomicCounts ==
    ASSUME IInv, CountInv, Inside, NEW p \in running, NEW b \in Blocks(p[1]), AtomicAdd(p, b)
    PROVE  CountInv'
<1>. DEFINE t == p[1]
            i == CellNo(t, PlaceOf(p), b)
<1>1. /\ per_block /\ instrumented /\ Visited(p, b)
      /\ UNCHANGED <<host_vars, tool_vars, running, reading, bb_log, ran>>
  BY DEF AtomicAdd
<1>2. UNCHANGED <<tool, interval, made, bbv, ran>>
  BY <1>1 DEF host_vars, tool_vars
<1>3. /\ DOMAIN executed' = Threads
      /\ executed'[t] \in [Places(launch(t)) -> [Blocks(t) -> Nat]]
      /\ \A q \in Places(launch(t)), c \in Blocks(t) :
            executed'[t][q][c] = IF q = PlaceOf(p) /\ c = b THEN executed[t][q][c] + 1
                                                            ELSE executed[t][q][c]
  BY <1>1, VisitedCounts
<1>4. /\ t \in Threads /\ pc[t] = "exit" /\ PlaceOf(p) \in Places(launch(t))
      /\ Counting(t) /\ WhileRunning(t) /\ TypeOK
  BY RunningPart DEF IInv
<1>5. WriteCell(i, heap[bbv][i] + 1) /\ InArray(i)
  BY CellOfPart DEF AtomicAdd, Cell
<1>6. \A j \in DOMAIN heap[bbv] : heap'[bbv][j] = IF j = i THEN heap[bbv][i] + 1 ELSE heap[bbv][j]
  BY <1>5, CellWritten
<1>7. DOMAIN reading = {} /\ Exact
  BY <1>1 DEF CountInv, Exact
<1>8. \A j, n : CellRight(j, n) => heap[bbv][j] = n
  BY <1>7 DEF CellRight, Pending
<1>9. \A j, n : heap'[bbv][j] = n /\ n \in Nat => CellRight(j, n)'
  BY <1>1, <1>2, <1>7, SameLaunch DEF CellRight, Pending
<1>10. ASSUME NEW q \in Places(launch(t)), NEW c \in Blocks(t)
       PROVE  \A j, n : j = CellNo(t, q, c) /\ n = executed'[t][q][c] => CellRight(j, n)'
  <2>1. /\ CellNo(t, q, c) \in DOMAIN heap[bbv]
        /\ CellNo(t, q, c) = i => q = PlaceOf(p) /\ c = b
    BY <1>4, CellsOfPlaces DEF WhileRunning, Allotted
  <2>2. heap[bbv][CellNo(t, q, c)] = executed[t][q][c]
    BY <1>4, <1>8 DEF Counting
  <2>3. executed'[t][q][c] \in Nat
    BY <1>3
  <2>4. heap'[bbv][CellNo(t, q, c)] = executed'[t][q][c]
    BY <1>3, <1>6, <2>1, <2>2
  <2>. QED BY <1>9, <2>3, <2>4
<1>11. \A q \in DOMAIN reading' : \E c \in Blocks(t) : \E n \in Nat :
          reading'[q] = <<CellNo(t, PlaceOf(q), c), n>>
  BY <1>1, <1>7
<1>12. running' \subseteq PartsOf(t)
  BY <1>1, <1>4 DEF Counting
<1>13. Counting(t)'
  BY <1>2, <1>3, <1>10, <1>11, <1>12, CountingHolds
<1>. QED BY <1>1, <1>3, <1>13, DeviceFrame DEF CountInv

(* A part reads a count.                                                   *)
LEMMA ReadCounts ==
    ASSUME IInv, CountInv, Inside, NEW p \in running, NEW b \in Blocks(p[1]), Read(p, b)
    PROVE  CountInv'
<1>. DEFINE t == p[1]
<1>0. PICK i : i = CellNo(t, PlaceOf(p), b)
  OBVIOUS
<1>1. /\ ~per_block /\ instrumented /\ Visited(p, b)
      /\ UNCHANGED <<host_vars, tool_vars, heap, running, bb_log, ran>>
  BY DEF Read
<1>2. UNCHANGED <<tool, interval, made, bbv, ran>>
  BY <1>1 DEF host_vars, tool_vars
<1>3. /\ DOMAIN executed' = Threads
      /\ executed'[t] \in [Places(launch(t)) -> [Blocks(t) -> Nat]]
      /\ \A q \in Places(launch(t)), c \in Blocks(t) :
            executed'[t][q][c] = IF q = PlaceOf(p) /\ c = b THEN executed[t][q][c] + 1
                                                            ELSE executed[t][q][c]
  BY <1>1, VisitedCounts
<1>4. /\ t \in Threads /\ pc[t] = "exit" /\ PlaceOf(p) \in Places(launch(t))
      /\ p \in PartsOf(t)
      /\ Counting(t) /\ WhileRunning(t) /\ TypeOK
  BY RunningPart DEF IInv
<1>5. reading' = With(reading, p, <<i, heap[bbv][i]>>) /\ p \notin DOMAIN reading
  BY <1>0, CellOfPart DEF Read, Cell, Visited
<1>6. /\ DOMAIN reading' = DOMAIN reading \union {p}
      /\ reading'[p] = <<i, heap[bbv][i]>>
      /\ \A q \in DOMAIN reading : reading'[q] = reading[q]
  BY <1>5 DEF With
<1>7. \A j : Pending(j)' = IF j = i THEN Pending(j) \union {p} ELSE Pending(j)
  BY <1>5, <1>6 DEF Pending
<1>8. executed[t][PlaceOf(p)][b] \in Nat
      /\ CellRight(i, executed[t][PlaceOf(p)][b])
  BY <1>0, <1>4 DEF Counting
<1>9. Exact => Pending(i) = {}
  <2>. SUFFICES ASSUME Exact, NEW q \in Pending(i) PROVE FALSE
    OBVIOUS
  <2>1. q \in DOMAIN reading /\ reading[q][1] = i /\ q \in PartsOf(t)
    BY <1>4 DEF Pending, Counting, CountInv
  <2>2. PICK c \in Blocks(t) : reading[q][1] = CellNo(t, PlaceOf(q), c)
    BY <1>4, <2>1 DEF Counting, Readers
  <2>3. PlaceOf(q) \in Places(launch(t))
    BY <2>1, RunningPart DEF CountInv, PartsOf
  <2>4. PlaceOf(q) = PlaceOf(p)
    <3>1. CellNo(t, PlaceOf(q), c) = CellNo(t, PlaceOf(p), b)
      BY <1>0, <2>1, <2>2
    <3>2. pc[t] # "idle" /\ TypeOK /\ t \in Threads
      BY <1>4
    <3>3. \A x \in Places(launch(t)), y \in Blocks(t) :
             CellNo(t, PlaceOf(q), c) = CellNo(t, x, y) => PlaceOf(q) = x
      BY <2>3, <3>2, CellsOfPlaces
    <3>. QED BY <1>4, <3>1, <3>3
  <2>5. p = q
    BY <1>1, <1>4, <2>1, <2>4, OneReader
  <2>. QED BY <1>5, <2>1, <2>5
<1>10. ASSUME NEW q \in Places(launch(t)), NEW c \in Blocks(t), NEW j, NEW m,
              j = CellNo(t, q, c), m = executed'[t][q][c]
       PROVE  CellRight(j, m)'
  <2>1. j = i => q = PlaceOf(p) /\ c = b
    BY <1>0, <1>4, <1>10, CellsOfPlaces
  <2>2. CellRight(j, executed[t][q][c])
    BY <1>4, <1>10 DEF Counting
  <2>3. CASE j # i
    <3>1. Pending(j)' = Pending(j)
      BY <1>7, <2>3
    <3>2. \A r \in Pending(j) : reading'[r] = reading[r]
      BY <1>6 DEF Pending
    <3>3. m = executed[t][q][c]
      BY <1>0, <1>3, <1>10, <2>3
    <3>. QED BY <1>1, <1>2, <2>2, <3>1, <3>2, <3>3, SameLaunch DEF CellRight
  <2>4. CASE j = i
    <3>1. q = PlaceOf(p) /\ c = b
      BY <2>1, <2>4
    <3>2. PICK n \in Nat : n = executed[t][q][c]
      BY <1>8, <3>1
    <3>3. m = n + 1
      BY <1>3, <1>10, <3>1, <3>2
    <3>4. heap[bbv][i] \in 0 .. n /\ \A r \in Pending(i) : reading[r][2] \in 0 .. n - 1
      BY <1>8, <3>1, <3>2 DEF CellRight
    <3>5. Exact => heap[bbv][i] = n
      BY <1>8, <1>9, <3>1, <3>2 DEF CellRight
    <3>6. Pending(i)' = Pending(i) \union {p}
      BY <1>7
    <3>7. \A r \in Pending(i)' : reading'[r][2] \in 0 .. n
      <4>1. reading'[p][2] = heap[bbv][i]
        BY <1>6
      <4>2. \A r \in Pending(i) : reading'[r] = reading[r]
        BY <1>6 DEF Pending
      <4>. QED BY <3>4, <3>6, <4>1, <4>2
    <3>8. Exact => \A r \in Pending(i)' : reading'[r][2] = n
      <4>1. reading'[p][2] = heap[bbv][i]
        BY <1>6
      <4>. QED BY <1>9, <3>5, <3>6, <4>1
    <3>9. heap'[bbv'][i] = heap[bbv][i] /\ (Exact' <=> Exact)
      BY <1>1, <1>2, SameLaunch
    <3>10. CellRight(i, n + 1)'
      <4>1. heap'[bbv'][i] \in 0 .. n + 1 /\ (n + 1) - 1 = n
        BY <3>4, <3>9
      <4>2. Pending(i)' # {}
        BY <3>6
      <4>. QED BY <3>5, <3>7, <3>8, <3>9, <4>1, <4>2 DEF CellRight
    <3>. QED BY <2>4, <3>3, <3>10
  <2>. QED BY <2>3, <2>4
<1>11. \A q \in DOMAIN reading' : \E c \in Blocks(t) : \E n \in Nat :
          reading'[q] = <<CellNo(t, PlaceOf(q), c), n>>
  <2>1. heap[bbv][i] \in Nat
    BY <1>8 DEF CellRight
  <2>. QED BY <1>0, <1>4, <1>6, <2>1 DEF Counting, Readers
<1>12. Counting(t)'
  <2>1. running' \subseteq PartsOf(t)
    BY <1>1, <1>4 DEF Counting
  <2>. QED BY <1>2, <1>3, <1>10, <1>11, <2>1, CountingHolds
<1>13. DOMAIN reading' \subseteq running'
  BY <1>1, <1>6 DEF CountInv
<1>. QED BY <1>1, <1>3, <1>12, <1>13, DeviceFrame

(* A part writes the count it has read, and one more.                      *)
LEMMA WriteCounts ==
    ASSUME IInv, CountInv, Inside, NEW p \in running, Write(p)
    PROVE  CountInv'
<1>. DEFINE t == p[1]
<1>1. /\ p \in DOMAIN reading
      /\ UNCHANGED <<host_vars, tool_vars, running, executed, bb_log, ran>>
      /\ reading' = Without(reading, p)
  BY DEF Write
<1>2. UNCHANGED <<tool, interval, made, bbv, ran>>
  BY <1>1 DEF host_vars, tool_vars
<1>3. /\ t \in Threads /\ pc[t] = "exit" /\ PlaceOf(p) \in Places(launch(t))
      /\ p \in PartsOf(t)
      /\ Counting(t) /\ WhileRunning(t) /\ TypeOK
  BY RunningPart DEF IInv
<1>4. PICK b \in Blocks(t), v \in Nat : reading[p] = <<CellNo(t, PlaceOf(p), b), v>>
  BY <1>1, <1>3 DEF Counting, Readers
<1>0. PICK i : i = CellNo(t, PlaceOf(p), b)
  OBVIOUS
<1>5. WriteCell(i, v + 1) /\ InArray(i)
  <2>1. reading[p][1] = i /\ reading[p][2] = v
    BY <1>0, <1>4
  <2>2. WriteCell(reading[p][1], reading[p][2] + 1)
    BY DEF Write
  <2>3. InArray(i)
    BY <1>0, CellOfPart
  <2>. QED BY <2>1, <2>2, <2>3
<1>6. \A j \in DOMAIN heap[bbv] : heap'[bbv][j] = IF j = i THEN v + 1 ELSE heap[bbv][j]
  BY <1>5, CellWritten
<1>7. /\ DOMAIN reading' = DOMAIN reading \ {p}
      /\ \A q \in DOMAIN reading \ {p} : reading'[q] = reading[q]
  BY <1>1 DEF Without
<1>8. \A j : Pending(j)' = IF j = i THEN Pending(j) \ {p} ELSE Pending(j)
  BY <1>0, <1>1, <1>4, <1>7 DEF Pending
<1>9. p \in Pending(i) /\ ~per_block
  BY <1>0, <1>1, <1>4 DEF Pending, CountInv
<1>10. Exact => Pending(i) = {p}
  <2>. SUFFICES ASSUME Exact, NEW q \in Pending(i) PROVE q = p
    BY <1>9
  <2>1. q \in DOMAIN reading /\ reading[q][1] = i /\ q \in PartsOf(t)
    BY <1>3 DEF Pending, Counting, CountInv
  <2>2. PICK c \in Blocks(t) : reading[q][1] = CellNo(t, PlaceOf(q), c)
    BY <1>3, <2>1 DEF Counting, Readers
  <2>3. PlaceOf(q) \in Places(launch(t))
    BY <2>1, RunningPart DEF CountInv, PartsOf
  <2>4. PlaceOf(q) = PlaceOf(p)
    <3>1. CellNo(t, PlaceOf(q), c) = CellNo(t, PlaceOf(p), b)
      BY <1>0, <2>1, <2>2
    <3>2. pc[t] # "idle" /\ TypeOK /\ t \in Threads
      BY <1>3
    <3>3. \A x \in Places(launch(t)), y \in Blocks(t) :
             CellNo(t, PlaceOf(q), c) = CellNo(t, x, y) => PlaceOf(q) = x
      BY <2>3, <3>2, CellsOfPlaces
    <3>. QED BY <1>3, <3>1, <3>3
  <2>. QED BY <1>3, <1>9, <2>1, <2>4, OneReader
<1>11. ASSUME NEW q \in Places(launch(t)), NEW c \in Blocks(t), NEW j, NEW m,
              j = CellNo(t, q, c), m = executed'[t][q][c]
       PROVE  CellRight(j, m)'
  <2>1. /\ j = i => q = PlaceOf(p) /\ c = b
        /\ j \in DOMAIN heap[bbv]
    BY <1>0, <1>3, <1>11, CellsOfPlaces DEF WhileRunning, Allotted
  <2>2. m \in Nat /\ CellRight(j, m)
    BY <1>1, <1>3, <1>11 DEF Counting
  <2>3. CASE j # i
    <3>1. Pending(j)' = Pending(j)
      BY <1>8, <2>3
    <3>2. \A r \in Pending(j) : reading'[r] = reading[r]
      BY <1>0, <1>4, <1>7, <2>3 DEF Pending
    <3>3. heap'[bbv][j] = heap[bbv][j]
      BY <1>6, <2>1, <2>3
    <3>. QED BY <1>1, <1>2, <2>2, <3>1, <3>2, <3>3, SameLaunch DEF CellRight
  <2>4. CASE j = i
    <3>2. \A r \in Pending(i) : reading[r][2] \in 0 .. m - 1
      BY <2>2, <2>4 DEF CellRight
    <3>3. v \in 0 .. m - 1
      BY <1>4, <1>9, <3>2
    <3>4. Exact => v = m - 1
      BY <1>4, <1>9, <2>2, <2>4 DEF CellRight
    <3>5. heap'[bbv'][i] = v + 1 /\ (Exact' <=> Exact)
      BY <1>2, <1>6, <2>1, <2>4, SameLaunch
    <3>6. Pending(i)' = Pending(i) \ {p}
      BY <1>8
    <3>7. \A r \in Pending(i)' : reading'[r][2] \in 0 .. m - 1
      BY <1>7, <3>2, <3>6 DEF Pending
    <3>8. Exact => Pending(i)' = {}
      BY <1>10, <3>6
    <3>9. v + 1 \in 0 .. m /\ (Exact => v + 1 = m)
      BY <2>2, <3>3, <3>4
    <3>10. CellRight(i, m)'
      BY <3>5, <3>7, <3>8, <3>9 DEF CellRight
    <3>. QED BY <2>4, <3>10
  <2>. QED BY <2>3, <2>4
<1>12. \A q \in DOMAIN reading' : \E c \in Blocks(t) : \E n \in Nat :
          reading'[q] = <<CellNo(t, PlaceOf(q), c), n>>
  BY <1>3, <1>7 DEF Counting, Readers
<1>13. Counting(t)'
  <2>1. running' \subseteq PartsOf(t)
    BY <1>1, <1>3 DEF Counting
  <2>2. executed'[t] \in [Places(launch(t)) -> [Blocks(t) -> Nat]]
    BY <1>1, <1>3 DEF Counting
  <2>. QED BY <1>2, <1>11, <1>12, <2>1, <2>2, CountingHolds
<1>. QED BY <1>1, <1>7, <1>13, DeviceFrame DEF CountInv

LEMMA FinishCounts ==
    ASSUME IInv, CountInv, Inside, NEW p \in running, Finish(p)
    PROVE  CountInv'
<1>. DEFINE t == p[1]
<1>1. /\ p \notin DOMAIN reading /\ running' = running \ {p}
      /\ UNCHANGED <<host_vars, tool_vars, heap, reading, executed, bb_log, ran>>
  BY DEF Finish
<1>2. UNCHANGED <<tool, interval, made, bbv, ran>>
  BY <1>1 DEF host_vars, tool_vars
<1>3. Counting(t)
  BY RunningPart
<1>4. \A i, n : CellRight(i, n)' <=> CellRight(i, n)
  BY <1>1, <1>2, SameLaunch DEF CellRight, Pending
<1>5. \A q \in DOMAIN reading' : \E c \in Blocks(t) : \E n \in Nat :
         reading'[q] = <<CellNo(t, PlaceOf(q), c), n>>
  BY <1>1, <1>3 DEF Counting, Readers
<1>6. \A q \in Places(launch(t)), c \in Blocks(t) : \A j, n :
         j = CellNo(t, q, c) /\ n = executed'[t][q][c] => CellRight(j, n)'
  BY <1>1, <1>3, <1>4 DEF Counting
<1>7. Counting(t)'
  <2>1. running' \subseteq PartsOf(t)
    BY <1>1, <1>3 DEF Counting
  <2>2. executed'[t] \in [Places(launch(t)) -> [Blocks(t) -> Nat]]
    BY <1>1, <1>3 DEF Counting
  <2>. QED BY <1>2, <1>5, <1>6, <2>1, <2>2, CountingHolds
<1>. QED BY <1>1, <1>7, DeviceFrame DEF CountInv

----
LEMMA CountingKept ==
    ASSUME NEW t, Counting(t),
           UNCHANGED <<tool, interval, made, heap, bbv, running, reading, executed, ran>>
    PROVE  Counting(t)'
<1>1. \A i, n : CellRight(i, n)' <=> CellRight(i, n)
  BY SameLaunch DEF CellRight, Pending
<1>. QED BY <1>1, CountingHolds DEF Counting, Readers

LEMMA CountInit == Init => CountInv
<1>. SUFFICES ASSUME Init PROVE CountInv
  OBVIOUS
<1>1. /\ pc = [t \in Threads |-> "idle"] /\ executed = [t \in Threads |-> NoBlocks]
      /\ running = {} /\ reading = << >> /\ bb_log = << >> /\ ran = << >> /\ kid = 0
      /\ Told
  BY DEF Init, Nobody, Told
<1>2. DOMAIN executed = Threads /\ \A t \in Threads : pc[t] = "idle"
  BY <1>1
<1>3. DOMAIN reading = {} /\ DOMAIN bb_log = {} /\ Len(ran) = 0
  BY <1>1
<1>4. Reported
  <2>1. ran \in Seq({})
    BY <1>1
  <2>2. 0 .. Len(ran) - 1 = {} /\ 1 .. Len(ran) = {}
    BY <1>3
  <2>. QED BY <1>1, <1>3, <2>1, <2>2 DEF Reported
<1>. QED BY <1>1, <1>2, <1>3, <1>4 DEF CountInv

LEMMA CallCounts ==
    ASSUME IInv, CountInv, NEW t \in Threads, Call(t)
    PROVE  CountInv'
<1>1. /\ pc[t] = "idle" /\ pc' = [pc EXCEPT ![t] = "entry"]
      /\ UNCHANGED <<tool, interval, made, mutex, tool_vars, heap, running, reading, visits,
                     bb_log, executed, ran>>
  BY DEF Call
<1>2. UNCHANGED <<tool, made, bbv, kbb_map, kid, first, instrumented>>
  BY <1>1 DEF tool_vars
<1>3. \A s \in Threads : pc'[s] = IF s = t THEN "entry" ELSE pc[s]
  BY <1>1 DEF IInv, TypeOK
<1>4. \A s \in Threads : /\ pc'[s] = "exit" <=> pc[s] = "exit"
                         /\ pc'[s] = "launch" <=> pc[s] = "launch"
  BY <1>1, <1>3
<1>5. \A s \in Threads : pc'[s] = "exit" => Counting(s)'
  BY <1>1, <1>2, <1>4, CountingKept DEF CountInv
<1>6. Reported'
  BY <1>1, <1>2, ReportedKept DEF CountInv
<1>7. \A s \in Threads : pc'[s] = "launch" /\ launch(s)'.kernel \in DOMAIN kbb_map' => Cleared'
  BY <1>1, <1>2, <1>4, SameLaunch DEF CountInv, Cleared
<1>8. (per_block => DOMAIN reading = {})'
  BY <1>1, <1>2, SameLaunch DEF CountInv
<1>9. Told'
  BY <1>1, <1>2 DEF CountInv, Told, InInterval
<1>. QED BY <1>1, <1>4, <1>5, <1>6, <1>7, <1>8, <1>9 DEF CountInv

(* A new array is cleared.                                                 *)
LEMMA AllocateCleared ==
    ASSUME NEW h, NEW n, Allocate(h, n)
    PROVE  Cleared'
<1>1. PICK a : a = Address(h)
  OBVIOUS
<1>2. heap' = With(h, a, [i \in 0 .. n - 1 |-> 0]) /\ bbv' = a
  BY <1>1 DEF Allocate
<1>3. heap'[bbv'] = [i \in 0 .. n - 1 |-> 0]
  BY <1>2 DEF With
<1>. QED BY <1>3 DEF Cleared

(* While no kernel runs nothing is being counted.                          *)
LEMMA NothingRuns ==
    ASSUME CountInv, \A s \in Threads : pc[s] # "exit",
           UNCHANGED <<tool, made, running, reading, executed>>, Reported', Told',
           \A s \in Threads : pc'[s] # "exit",
           \A s \in Threads :
              pc'[s] = "launch" /\ launch(s).kernel \in DOMAIN kbb_map' => Cleared'
    PROVE  CountInv'
<1>1. DOMAIN executed' = Threads /\ DOMAIN reading' \subseteq running' /\ running' = {}
  BY DEF CountInv
<1>2. (per_block => DOMAIN reading = {})'
  BY SameLaunch DEF CountInv
<1>3. \A s \in Threads :
         pc'[s] = "launch" /\ launch(s)'.kernel \in DOMAIN kbb_map' => Cleared'
  BY SameLaunch
<1>. QED BY <1>1, <1>2, <1>3 DEF CountInv

LEMMA EntryCounts ==
    ASSUME IInv, CountInv, NEW t \in Threads, Entry(t)
    PROVE  CountInv'
<1>1. /\ mutex = NoThread /\ pc' = [pc EXCEPT ![t] = "launch"] /\ first' = FALSE
      /\ bb_log' = IF first /\ ~per_block THEN << >> ELSE bb_log
      /\ instrumented' = InInterval
      /\ UNCHANGED <<tool, interval, made, kid, kbb_map, running, reading, executed, ran>>
  BY DEF Entry, Locked
<1>2. \A s \in Threads : pc[s] \notin {"launch", "exit"}
  BY <1>1, BbvAssumption DEF IInv, OneLaunch, BbvAssumption
<1>3. \A s \in Threads : pc'[s] = IF s = t THEN "launch" ELSE pc[s]
  BY <1>1 DEF IInv, TypeOK
<1>4. bb_log' = bb_log
  BY <1>1 DEF CountInv, Reported
<1>5. Reported'
  BY <1>1, <1>4, ReportedKept DEF CountInv
<1>6. launch(t).kernel \in DOMAIN kbb_map => Cleared'
  BY AllocateCleared DEF Entry
<1>7. \A s \in Threads : pc'[s] = "launch" => s = t
  BY <1>2, <1>3
<1>8. \A s \in Threads : pc[s] # "exit" /\ pc'[s] # "exit"
  BY <1>2, <1>3
<1>9. \A s \in Threads : pc'[s] = "launch" /\ launch(s).kernel \in DOMAIN kbb_map' => Cleared'
  BY <1>1, <1>6, <1>7
<1>10. Told'
  BY <1>1 DEF Told, InInterval
<1>. QED BY <1>1, <1>5, <1>8, <1>9, <1>10, NothingRuns

LEMMA FirstLoadCounts ==
    ASSUME IInv, CountInv, NEW t \in Threads, FirstLoad(t)
    PROVE  CountInv'
<1>1. /\ pc[t] = "launch"
      /\ UNCHANGED <<host_vars, first, kid, tot, instrumented, running, reading, visits,
                     bb_log, executed, ran>>
  BY DEF FirstLoad
<1>2. UNCHANGED <<tool, interval, made, pc>>
  BY <1>1 DEF host_vars
<1>3. \A s \in Threads : pc[s] # "exit"
  BY <1>1, OneOwner DEF IInv
<1>4. Cleared'
  <2>1. PICK n : n = rows * basic_blocks'
    OBVIOUS
  <2>2. Allocate(heap, n)
    BY <2>1 DEF FirstLoad
  <2>. QED BY <2>2, AllocateCleared
<1>5. Reported'
  BY <1>1, <1>2, ReportedKept DEF CountInv
<1>6. Told'
  BY <1>1, <1>2 DEF CountInv, Told, InInterval
<1>. QED BY <1>1, <1>2, <1>3, <1>4, <1>5, <1>6, NothingRuns

(* A kernel starts with no counts, in the history and in the array.        *)
LEMMA StartCounts ==
    ASSUME IInv, CountInv, NEW t \in Threads, Start(t)
    PROVE  CountInv'
<1>. DEFINE l == launch(t)
            zeros == [place \in Places(l) |-> [b \in 0 .. bbs(l.kernel) - 1 |-> 0]]
<1>1. /\ pc[t] = "launch" /\ l.kernel \in DOMAIN kbb_map
      /\ running' = running \union PartsOf(t)
      /\ executed' = [executed EXCEPT ![t] = zeros]
      /\ pc' = [pc EXCEPT ![t] = "exit"]
      /\ UNCHANGED <<tool, interval, made, mutex, tool_vars, heap, reading, bb_log, ran>>
  BY DEF Start, PartsOf
<1>2. UNCHANGED <<tool, interval, made, ran, bbv, kid, first, kbb_map, instrumented>>
  BY <1>1 DEF tool_vars
<1>3. \A s \in Threads : pc[s] # "exit"
  BY <1>1, OneOwner DEF IInv
<1>4. running = {} /\ DOMAIN reading = {} /\ DOMAIN executed = Threads
  BY <1>3 DEF CountInv
<1>5. \A s \in Threads : pc'[s] = IF s = t THEN "exit" ELSE pc[s]
  BY <1>1 DEF IInv, TypeOK
<1>6. \A s \in Threads : pc'[s] # "launch" /\ (pc'[s] = "exit" => s = t)
  <2>1. \A s \in Threads : pc[s] = "launch" => s = t
    BY <1>1, OneOwner DEF IInv
  <2>. QED BY <1>3, <1>5, <2>1
<1>7. DOMAIN executed' = Threads /\ executed'[t] = zeros
  BY <1>1, <1>4
<1>8. Counting(t)'
  <2>1. running' \subseteq PartsOf(t)
    BY <1>1, <1>4
  <2>2. executed'[t] \in [Places(l) -> [Blocks(t) -> Nat]]
    BY <1>7 DEF Blocks
  <2>3. \A p \in DOMAIN reading' : FALSE
    BY <1>1, <1>4
  <2>4. Cleared
    BY <1>1 DEF CountInv
  <2>5. DOMAIN heap[bbv] = 0 .. RowsOf(l) * bbs(l.kernel) - 1
    <3>1. AfterEntry(t)
      BY <1>1 DEF IInv, Arrays
    <3>2. tot = TotOf(l) /\ basic_blocks = bbs(l.kernel) /\ Allotted(rows * basic_blocks)
      BY <1>1, <3>1 DEF AfterEntry
    <3>3. rows = RowsOf(l)
      BY <1>1, <3>2, RowsEnough DEF rows, IInv
    <3>. QED BY <3>2, <3>3 DEF Allotted
  <2>6. ASSUME NEW q \in Places(l), NEW c \in Blocks(t), NEW j, NEW n,
               j = CellNo(t, q, c), n = executed'[t][q][c]
        PROVE  CellRight(j, n)'
    <3>1. j \in DOMAIN heap[bbv]
      <4>1. TypeOK /\ pc[t] # "idle"
        BY <1>1 DEF IInv
      <4>. QED BY <2>5, <2>6, <4>1, CellsOfPlaces
    <3>2. n = 0
      BY <1>7, <2>6 DEF Blocks
    <3>3. heap'[bbv'][j] = 0
      BY <1>1, <1>2, <2>4, <3>1 DEF Cleared
    <3>4. Pending(j)' = {}
      BY <2>3 DEF Pending
    <3>. QED BY <3>2, <3>3, <3>4 DEF CellRight
  <2>. QED BY <1>2, <2>1, <2>2, <2>3, <2>6, CountingHolds
<1>9. Reported'
  BY <1>1, <1>2, ReportedKept DEF CountInv
<1>10. (per_block => DOMAIN reading = {})' /\ DOMAIN reading' \subseteq running'
  BY <1>1, <1>4
<1>11. pc'[t] = "exit"
  BY <1>5
<1>12. Told'
  BY <1>2 DEF CountInv, Told, InInterval
<1>. QED BY <1>6, <1>7, <1>8, <1>9, <1>10, <1>11, <1>12 DEF CountInv

(* The report of a launch, when all of its warps have finished.            *)
LEMMA ReportIsRight ==
    ASSUME IInv, CountInv, NEW t \in Threads, pc[t] = "exit", Synchronized,
           NEW k, k = launch(t).kernel, NEW num, num = Len(ran)
    PROVE  ReportRight(num,
              Report(k, [r \in 0 .. rows - 1 |-> [b \in 0 .. basic_blocks - 1 |->
                            Cell(r * basic_blocks + b)]]),
              Report(k, [r \in 0 .. RowsOf(launch(t)) - 1 |-> [b \in 0 .. bbs(k) - 1 |->
                            executed[t][PlaceAt(launch(t), r)][b]]]))
<1>1. WhileRunning(t) /\ Counting(t) /\ TypeOK /\ DOMAIN reading = {}
  BY DEF IInv, Arrays, CountInv, Synchronized
<1>2. PICK B \in Nat : B = basic_blocks
  BY <1>1 DEF TypeOK
<1>3. PICK R \in Nat : R = RowsOf(launch(t))
  BY <1>1, CountTypes
<1>4. rows = R /\ bbs(k) = B /\ Blocks(t) = 0 .. B - 1
  BY <1>1, <1>2, <1>3, RowsEnough DEF rows, WhileRunning, Blocks
<1>5. bbv \in DOMAIN heap /\ DOMAIN heap[bbv] = 0 .. R * B - 1
  BY <1>1, <1>3, <1>4 DEF WhileRunning, Allotted
<1>. DEFINE counts == [r \in 0 .. R - 1 |-> [b \in 0 .. B - 1 |-> Cell(r * B + b)]]
            right == [r \in 0 .. R - 1 |-> [b \in 0 .. B - 1 |->
                         executed[t][PlaceAt(launch(t), r)][b]]]
<1>0. Within(num) <=> Inside
  BY DEF Inside
<1>6. ASSUME Within(num), NEW r \in 0 .. R - 1, NEW b \in 0 .. B - 1
      PROVE  /\ right[r][b] \in Nat
             /\ counts[r][b] \in 0 .. right[r][b]
             /\ Exact => counts[r][b] = right[r][b]
  <2>1. PICK place \in Places(launch(t)) :
           place = PlaceAt(launch(t), r) /\ RowAt(launch(t), place) = r
    BY <1>1, <1>3, RowsOfPlaces
  <2>2. CellNo(t, place, b) = r * B + b
    BY <1>4, <2>1 DEF CellNo
  <2>3. PICK n \in Nat : n = executed[t][place][b]
    BY <1>1, <1>4 DEF Counting
  <2>4. PICK i : i = r * B + b
    OBVIOUS
  <2>5. CellRight(i, n)
    BY <1>0, <1>1, <1>4, <1>6, <2>2, <2>3, <2>4 DEF Counting
  <2>6. Pending(i) = {}
    BY <1>1 DEF Pending
  <2>7. heap[bbv][i] \in 0 .. n /\ (Exact => heap[bbv][i] = n)
    BY <2>5, <2>6 DEF CellRight
  <2>8. i \in 0 .. R * B - 1
    BY <2>4, GridBound
  <2>9. Cell(i) = heap[bbv][i]
    BY <1>5, <2>8 DEF Cell, InArray
  <2>10. counts[r][b] = heap[bbv][i]
    BY <2>4, <2>9
  <2>11. right[r][b] = n
    BY <2>1, <2>3
  <2>. QED BY <2>7, <2>10, <2>11
<1>7. DOMAIN counts = 0 .. R - 1 /\ DOMAIN right = 0 .. R - 1
  OBVIOUS
<1>8. \A r \in 0 .. R - 1 : DOMAIN counts[r] = 0 .. B - 1 /\ DOMAIN right[r] = 0 .. B - 1
  OBVIOUS
<1>. HIDE DEF counts, right
<1>9. ReportRight(num, Report(k, counts), Report(k, right))
  <2>. DEFINE factor(b) == IF per_block THEN Insns[k][b + 1] ELSE 1
              table(c) == [r \in DOMAIN c |-> [b \in DOMAIN c[r] |-> c[r][b] * factor(b)]]
  <2>1. /\ Report(k, counts) = [kernel |-> k, table |-> table(counts)]
        /\ Report(k, right) = [kernel |-> k, table |-> table(right)]
    BY DEF Report
  <2>2. DOMAIN table(counts) = 0 .. R - 1 /\ DOMAIN table(right) = 0 .. R - 1
    BY <1>7
  <2>3. ASSUME NEW r \in 0 .. R - 1
        PROVE  /\ DOMAIN table(counts)[r] = 0 .. B - 1 /\ DOMAIN table(right)[r] = 0 .. B - 1
               /\ \A b \in 0 .. B - 1 :
                     /\ table(counts)[r][b] = counts[r][b] * factor(b)
                     /\ table(right)[r][b] = right[r][b] * factor(b)
    BY <1>7, <1>8
  <2>4. ~Exact => \A b : factor(b) = 1
    BY DEF Exact
  <2>. HIDE DEF factor
  <2>5. PICK x : x = table(counts)
    OBVIOUS
  <2>6. PICK y : y = table(right)
    OBVIOUS
  <2>. HIDE DEF table
  <2>7. ASSUME Within(num), NEW r \in 0 .. R - 1, NEW b \in 0 .. B - 1
        PROVE  /\ Exact => x[r][b] = y[r][b]
               /\ ~Exact => x[r][b] \in 0 .. y[r][b]
    <3>1. x[r][b] = counts[r][b] * factor(b) /\ y[r][b] = right[r][b] * factor(b)
      BY <2>3, <2>5, <2>6
    <3>2. CASE Exact
      BY <1>6, <2>7, <3>1, <3>2
    <3>3. CASE ~Exact
      <4>1. x[r][b] = counts[r][b] * 1 /\ y[r][b] = right[r][b] * 1
        BY <2>4, <3>1, <3>3
      <4>2. x[r][b] = counts[r][b] /\ y[r][b] = right[r][b]
        BY <1>6, <2>7, <4>1
      <4>. QED BY <1>6, <2>7, <3>3, <4>2
    <3>. QED BY <3>2, <3>3
  <2>8. /\ Report(k, counts).kernel = k /\ Report(k, counts).table = x
        /\ Report(k, right).kernel = k /\ Report(k, right).table = y
    BY <2>1, <2>5, <2>6
  <2>9. /\ DOMAIN x = 0 .. R - 1 /\ DOMAIN y = 0 .. R - 1
        /\ \A r \in 0 .. R - 1 : DOMAIN x[r] = 0 .. B - 1 /\ DOMAIN y[r] = 0 .. B - 1
    BY <2>2, <2>3, <2>5, <2>6
  <2>. QED BY <2>7, <2>8, <2>9 DEF ReportRight
<1>. QED BY <1>2, <1>3, <1>4, <1>9 DEF counts, right

LEMMA ExitCounts ==
    ASSUME IInv, CountInv, NEW t \in Threads, Exit(t)
    PROVE  CountInv'
<1>1. PICK k : k = launch(t).kernel
  OBVIOUS
<1>2. PICK report :
         report = Report(k, [r \in 0 .. rows - 1 |-> [b \in 0 .. basic_blocks - 1 |->
                                Cell(r * basic_blocks + b)]])
  OBVIOUS
<1>3. PICK right :
         right = Report(k, [r \in 0 .. RowsOf(launch(t)) - 1 |-> [b \in 0 .. bbs(k) - 1 |->
                               executed[t][PlaceAt(launch(t), r)][b]]])
  OBVIOUS
<1>4. /\ pc[t] = "exit" /\ Synchronized
      /\ bb_log' = With(bb_log, ReportNumber, report)
      /\ kid' = IF per_block THEN kid + 1 ELSE kid
      /\ ran' = Append(ran, right)
      /\ executed' = [executed EXCEPT ![t] = NoBlocks]
      /\ pc' = [pc EXCEPT ![t] = "idle"]
      /\ UNCHANGED <<tool, interval, first, instrumented, running, reading>>
  BY <1>1, <1>2, <1>3 DEF Exit
<1>6. PICK S : ran \in Seq(S)
  BY DEF CountInv, Reported
<1>7. PICK n \in Nat : n = Len(ran)
  BY <1>6, LenProperties
<1>5. ReportRight(n, report, right)
  BY <1>1, <1>2, <1>3, <1>4, <1>7, ReportIsRight
<1>8. /\ Len(ran') = n + 1 /\ ran' \in Seq(S \union {right})
      /\ \A i \in 1 .. n : ran'[i] = ran[i]
      /\ ran'[n + 1] = right
  <2>1. ran \in Seq(S \union {right}) /\ right \in S \union {right}
    BY <1>6, ElementOfSeq, SeqDef
  <2>. QED BY <1>4, <1>7, <2>1, AppendProperties
<1>9. DOMAIN bb_log = 0 .. n - 1 /\ (per_block => kid = n)
  BY <1>7 DEF CountInv, Reported
<1>10. ReportNumber = n
  <2>1. n - 1 \in Int /\ Cardinality(0 .. n - 1) = n
    BY FS_Interval
  <2>. QED BY <1>9, <2>1 DEF ReportNumber
<1>11. /\ DOMAIN bb_log' = 0 .. n
       /\ bb_log'[n] = report
       /\ \A i \in 0 .. n - 1 : bb_log'[i] = bb_log[i]
  <2>1. bb_log' = With(bb_log, n, report)
    BY <1>4, <1>10
  <2>2. 0 .. n = (0 .. n - 1) \union {n} /\ n \notin 0 .. n - 1
    OBVIOUS
  <2>. QED BY <1>9, <2>1, <2>2 DEF With
<1>12. (Exact' <=> Exact) /\ (per_block' <=> per_block)
  BY <1>4 DEF Exact, per_block
<1>13. \A i \in 1 .. n + 1 : ReportRight(i - 1, bb_log'[i - 1], ran'[i])
  <2>1. ASSUME NEW i \in 1 .. n PROVE ReportRight(i - 1, bb_log'[i - 1], ran'[i])
    <3>1. ReportRight(i - 1, bb_log[i - 1], ran[i])
      BY <1>7 DEF CountInv, Reported
    <3>2. i - 1 \in 0 .. n - 1
      OBVIOUS
    <3>. QED BY <1>8, <1>11, <3>1, <3>2
  <2>2. ReportRight((n + 1) - 1, bb_log'[(n + 1) - 1], ran'[n + 1])
    <3>1. (n + 1) - 1 = n
      OBVIOUS
    <3>. QED BY <1>5, <1>8, <1>11, <3>1
  <2>. QED BY <2>1, <2>2
<1>14. ~first
  <2>1. WhileRunning(t) /\ Fresh
    BY <1>4 DEF IInv, Arrays
  <2>. QED BY <2>1 DEF WhileRunning, Allotted, Fresh
<1>15. Reported'
  <2>1. \A i, x, y : ReportRight(i, x, y)' <=> ReportRight(i, x, y)
    BY <1>4, <1>12 DEF ReportRight, Within
  <2>2. per_block => kid' = n + 1
    BY <1>4, <1>9
  <2>3. \A i \in 1 .. Len(ran') : ReportRight(i - 1, bb_log[i - 1], ran[i])'
    BY <1>8, <1>13, <2>1
  <2>4. DOMAIN bb_log' = 0 .. Len(ran') - 1
    BY <1>8, <1>11
  <2>. QED BY <1>4, <1>8, <1>12, <1>14, <2>2, <2>3, <2>4 DEF Reported
<1>16. \A s \in Threads : pc'[s] \notin {"launch", "exit"}
  <2>1. \A s \in Threads : pc'[s] = IF s = t THEN "idle" ELSE pc[s]
    BY <1>4 DEF IInv, TypeOK
  <2>2. \A s \in Threads : pc[s] \in {"launch", "exit"} => s = t
    BY <1>4, OneOwner DEF IInv
  <2>. QED BY <2>1, <2>2
<1>17. /\ DOMAIN executed' = Threads /\ running' = {} /\ DOMAIN reading' = {}
  BY <1>4 DEF CountInv, Synchronized
<1>18. Told'
  BY <1>4 DEF CountInv, Told, InInterval
<1>. QED BY <1>15, <1>16, <1>17, <1>18 DEF CountInv

LEMMA CountStep == IInv /\ CountInv /\ [Next]_vars => CountInv'
<1>. SUFFICES ASSUME IInv, CountInv, [Next]_vars PROVE CountInv'
  OBVIOUS
<1>1. CASE UNCHANGED vars
  <2>1. UNCHANGED <<tool, interval, pc, made, first, kid, kbb_map, heap, bbv, instrumented,
                    running, reading, executed, bb_log, ran>>
    BY <1>1 DEF vars, host_vars, tool_vars
  <2>2. \A s \in Threads : pc[s] = "exit" => Counting(s)'
    BY <2>1, CountingKept DEF CountInv
  <2>3. Reported'
    BY <2>1, ReportedKept DEF CountInv
  <2>4. Cleared' <=> Cleared
    BY <2>1 DEF Cleared
  <2>5. \A s \in Threads :
           pc'[s] = "launch" /\ launch(s)'.kernel \in DOMAIN kbb_map' => Cleared'
    BY <2>1, <2>4, SameLaunch DEF CountInv
  <2>6. (per_block => DOMAIN reading = {})'
    BY <2>1, SameLaunch DEF CountInv
  <2>7. Told'
    BY <2>1 DEF CountInv, Told, InInterval
  <2>. QED BY <2>1, <2>2, <2>3, <2>5, <2>6, <2>7 DEF CountInv
<1>2. CASE Device
  <2>1. PICK p \in running :
           \/ Write(p) \/ Finish(p)
           \/ \E b \in Blocks(p[1]) : VisitPlain(p, b) \/ AtomicAdd(p, b) \/ Read(p, b)
    BY <1>2 DEF Device, Blocks
  <2>2. Inside => ~\E b \in Blocks(p[1]) : VisitPlain(p, b)
    BY RunningPart DEF VisitPlain
  <2>3. CASE Inside
    BY <2>1, <2>2, <2>3, WriteCounts, FinishCounts, AtomicCounts, ReadCounts
  <2>4. CASE ~Inside
    BY <2>1, <2>4, DeviceOutside
  <2>. QED BY <2>3, <2>4
<1>3. ASSUME NEW t \in Threads, Call(t) \/ Callbacks(t)
      PROVE  CountInv'
  BY <1>3, CallCounts, EntryCounts, FirstLoadCounts, StartCounts, ExitCounts DEF Callbacks
<1>. QED BY <1>1, <1>2, <1>3 DEF Next, Ended

(* The reports of both counting tools are those of the launches in the     *)
(* order in which they end, with a row for every warp or block; while      *)
(* KERNEL_BEGIN is 0 and up to KERNEL_END they count what was executed,    *)
(* every basic block exactly if the addition is atomic (bbv_count_tb.cu,   *)
(* count_instrs) or no warp diverges, and never too much otherwise.  For   *)
(* any launches of any number of threads, any grids and basic blocks.      *)
(* That the other intervals, and diverging warps, are counted wrongly is   *)
(* what the violations of CountsExact show.                                *)
THEOREM CountsCorrect == Spec => []CountsByDefault
<1>1. Init => IInv /\ CountInv
  BY InitHolds, CountInit
<1>2. IInv /\ CountInv /\ [Next]_vars => (IInv /\ CountInv)'
  BY StepHolds, CountStep
<1>3. CountInv => CountsByDefault
  <2>. SUFFICES ASSUME Reported PROVE CountsByDefault
    BY DEF CountInv
  <2>1. \A n \in 1 .. Len(ran) : ReportRight(n - 1, bb_log[n - 1], ran[n])
    BY DEF Reported
  <2>. QED BY <2>1 DEF Reported, CountsByDefault, ReportRight, Within, Exact
<1>. QED BY <1>1, <1>2, <1>3, PTL DEF Spec

----
(***************************************************************************)
(* The tracing tool.                                                       *)
(***************************************************************************)

(* A launch is between its callbacks; the kernel that was launched last;   *)
(* the launches whose files are closed.                                    *)
InLaunch == app \in {"kernel", "flush", "flushed", "wait"}
current == kernelid - 1
Closed == IF InLaunch THEN Len(launched) - 1 ELSE Len(launched)

Elements == T!Records \union {T!KernelEnd}

TracerTypes ==
    /\ options \in T!Options
    /\ first_call \in BOOLEAN /\ active_region \in BOOLEAN /\ stop_report \in BOOLEAN
    /\ profiling \in BOOLEAN /\ recv_thread_receiving \in BOOLEAN
    /\ kernelid \in Nat /\ reported \in Nat /\ old_reported \in Nat /\ open \in Int
    /\ sassFile \in [T!Kernels -> Seq(T!Records)]
    /\ memFile \in [T!Kernels -> Seq(T!Records)]
    /\ statsFile \in [T!Kernels -> Int]
    /\ recv_buffer \in Seq(Elements) /\ doorbell \in Seq(Elements)
    /\ channel_dev \in Seq(Elements)
    /\ next \in [Warps -> Nat \ {0}]
    /\ launched \in Seq([traced : BOOLEAN, profiled : BOOLEAN])

(* Kernels are numbered by their launches.                                 *)
Numbered ==
    /\ kernelid = Len(launched) + 1
    /\ Len(launched) <= NumKernels
    /\ InLaunch => Len(launched) > 0

(* What FilesComplete says of kernel k.                                    *)
CompleteFiles(k) ==
    IF launched[k].traced
    THEN /\ T!Holds(sassFile[k], T!RecordsOf(k))
         /\ T!Holds(memFile[k], {r \in T!RecordsOf(k) : IsMem(r.index)})
         /\ statsFile[k] = Len(sassFile[k])
    ELSE sassFile[k] = << >> /\ memFile[k] = << >> /\ statsFile[k] = 0

(* The files of the launches that have returned, and of those to come.     *)
OtherFiles ==
    /\ \A k \in 1 .. Closed : CompleteFiles(k)
    /\ \A k \in T!Kernels : k > Closed => statsFile[k] = -1
    /\ \A k \in T!Kernels : k > Len(launched) => sassFile[k] = << >> /\ memFile[k] = << >>

ChannelEmpty == recv_buffer = << >> /\ doorbell = << >> /\ channel_dev = << >>

(* Between launches nothing is on its way and no file is open.             *)
Quiet ==
    ~InLaunch => /\ ChannelEmpty /\ ~recv_thread_receiving
                 /\ open = 0 /\ reported = old_reported

(* How far the callback is fixes what the channel can contain.             *)
Handshake ==
    InLaunch =>
       /\ open = IF stop_report THEN 0 ELSE current
       /\ launched[current].traced = ~stop_report
       /\ app # "kernel" \/ stop_report => T!KernelDone
       /\ app \in {"kernel", "flush"} => recv_thread_receiving
       /\ ~recv_thread_receiving => ChannelEmpty
       /\ app \in {"flushed", "wait"} => channel_dev = << >>
       /\ app = "wait" => doorbell = << >>

(* What the warps of the kernel have pushed, and everything on its way to  *)
(* the file of the kernel or in it, followed by the end of the kernel from *)
(* the time it is sent until it is received.                               *)
Pushed ==
    {r \in T!Records : ~stop_report /\ r.kernel = current /\ r.index < next[r.warp]}

InParts(a, b, c, d) == {a, b, c, d} \subseteq Seq(Elements)
Along(a, b, c, d) == a \o b \o c \o d

OnTheWay == Along(sassFile[current], recv_buffer, doorbell, channel_dev)
EndSent == app \in {"flushed", "wait"} /\ recv_thread_receiving
Stream(s) == IF EndSent THEN Append(s, T!KernelEnd) ELSE s

Flow ==
    InLaunch =>
       \E s \in Seq(T!Records) :
          T!Holds(s, Pushed) /\ Len(s) = reported - old_reported /\ OnTheWay = Stream(s)

MemoryRecords(file) == {r \in T!Range(file) : IsMem(r.index)}

MemoryFile == InLaunch => T!Holds(memFile[current], MemoryRecords(sassFile[current]))

(* The inductive invariant of FilesComplete.                               *)
FilesInv ==
    TracerTypes /\ Numbered /\ OtherFiles /\ Quiet /\ Handshake /\ Flow /\ MemoryFile

----
LEMMA KernelEndApart ==
    ASSUME T!TracerAssumption PROVE T!KernelEnd \notin T!Records
BY DEF T!KernelEnd, T!Records, T!Kernels, T!TracerAssumption

(* A record that is put into the device's half, or behind what is handed   *)
(* over, comes last.                                                       *)
LEMMA Pushes ==
    ASSUME NEW a, NEW b, NEW c, NEW d, InParts(a, b, c, d), NEW e \in Elements
    PROVE  /\ Along(a, b, c, Append(d, e)) = Append(Along(a, b, c, d), e)
           /\ Along(a, b, Append(d, e), << >>) = Append(Along(a, b, << >>, d), e)
<1>. DEFINE S == Elements
<1>. a \in Seq(S) /\ b \in Seq(S) /\ c \in Seq(S) /\ d \in Seq(S) /\ e \in S
  BY DEF InParts
<1>. HIDE DEF S
<1>1. << >> \in Seq(S) /\ <<e>> \in Seq(S) /\ a \o b \in Seq(S)
  BY EmptySeq, ConcatProperties
<1>2. a \o b \o c \in Seq(S)
  BY <1>1, ConcatProperties
<1>3. a \o b \o c \o d \in Seq(S) /\ a \o b \o d \in Seq(S)
  BY <1>1, <1>2, ConcatProperties
<1>4. a \o b \o c \o Append(d, e) = Append(a \o b \o c \o d, e)
  <2>. DEFINE x == a \o b \o c
  <2>1. x \in Seq(S) /\ x \o d \in Seq(S)
    BY <1>2, <1>3
  <2>. HIDE DEF x
  <2>2. x \o (d \o <<e>>) = (x \o d) \o <<e>>
    BY <1>1, <2>1, ConcatAssociative
  <2>3. Append(x \o d, e) = (x \o d) \o <<e>> /\ Append(d, e) = d \o <<e>>
    BY <2>1, AppendIsConcat
  <2>. QED BY <2>2, <2>3 DEF x
<1>5. a \o b \o Append(d, e) \o << >> = Append(a \o b \o << >> \o d, e)
  <2>1. Append(d, e) \in Seq(S) /\ Append(d, e) = d \o <<e>>
    BY AppendProperties, AppendIsConcat
  <2>2. a \o b \o Append(d, e) \in Seq(S)
    BY <1>1, <2>1, ConcatProperties
  <2>3. a \o b \o Append(d, e) \o << >> = a \o b \o Append(d, e)
    BY <2>2, ConcatEmptySeq
  <2>4. a \o b \o << >> \o d = a \o b \o d
    BY <1>1, ConcatEmptySeq
  <2>5. (a \o b) \o (d \o <<e>>) = ((a \o b) \o d) \o <<e>>
    BY <1>1, ConcatAssociative
  <2>6. Append(a \o b \o d, e) = ((a \o b) \o d) \o <<e>>
    BY <1>3, AppendIsConcat
  <2>. QED BY <2>1, <2>3, <2>4, <2>5, <2>6
<1>. QED BY <1>4, <1>5 DEF Along

(* Moving records along the channel changes nothing of what is on its way. *)
LEMMA Moves ==
    ASSUME NEW a, NEW b, NEW c, NEW d, InParts(a, b, c, d)
    PROVE  /\ Along(a, b, d, << >>) = Along(a, b, << >>, d)
           /\ Along(a, c, << >>, d) = Along(a, << >>, c, d)
           /\ b # << >> => Along(Append(a, Head(b)), Tail(b), c, d) = Along(a, b, c, d)
<1>. DEFINE S == Elements
<1>. a \in Seq(S) /\ b \in Seq(S) /\ c \in Seq(S) /\ d \in Seq(S)
  BY DEF InParts
<1>. HIDE DEF S
<1>1. << >> \in Seq(S) /\ a \o b \in Seq(S)
  BY EmptySeq, ConcatProperties
<1>2. a \o b \o c \in Seq(S)
  BY <1>1, ConcatProperties
<1>3. a \o b \o c \o d \in Seq(S) /\ a \o b \o d \in Seq(S)
  BY <1>1, <1>2, ConcatProperties
<1>5. a \o b \o d \o << >> = a \o b \o << >> \o d
  BY <1>1, <1>3, ConcatEmptySeq
<1>7. a \o c \o << >> \o d = a \o << >> \o c \o d
  <2>1. a \o << >> = a
    BY ConcatEmptySeq
  <2>2. a \o c \in Seq(S)
    BY ConcatProperties
  <2>3. a \o c \o << >> = a \o c
    BY <2>2, ConcatEmptySeq
  <2>. QED BY <2>1, <2>3
<1>8. ASSUME b # << >>
      PROVE  Append(a, Head(b)) \o Tail(b) = a \o b
  <2>1. /\ Head(b) \in S /\ Tail(b) \in Seq(S) /\ Len(Tail(b)) = Len(b) - 1
        /\ Head(b) = b[1]
        /\ \A i \in 1 .. Len(Tail(b)) : Tail(b)[i] = b[i + 1]
    BY <1>8, HeadTailProperties
  <2>2. /\ Append(a, Head(b)) \in Seq(S) /\ Len(Append(a, Head(b))) = Len(a) + 1
        /\ \A i \in 1 .. Len(a) : Append(a, Head(b))[i] = a[i]
        /\ Append(a, Head(b))[Len(a) + 1] = Head(b)
    BY <2>1, AppendProperties
  <2>3. /\ Append(a, Head(b)) \o Tail(b) \in Seq(S)
        /\ Len(Append(a, Head(b)) \o Tail(b)) = (Len(a) + 1) + Len(Tail(b))
        /\ \A i \in 1 .. (Len(a) + 1) + Len(Tail(b)) : (Append(a, Head(b)) \o Tail(b))[i] =
              IF i <= Len(a) + 1 THEN Append(a, Head(b))[i] ELSE Tail(b)[i - (Len(a) + 1)]
    BY <2>1, <2>2, ConcatProperties
  <2>4. /\ Len(a \o b) = Len(a) + Len(b)
        /\ \A i \in 1 .. Len(a) + Len(b) : (a \o b)[i] =
              IF i <= Len(a) THEN a[i] ELSE b[i - Len(a)]
    BY ConcatProperties
  <2>5. Len(a) \in Nat /\ Len(b) \in Nat \ {0}
    BY <1>8, EmptySeq, LenProperties
  <2>6. ASSUME NEW i \in 1 .. Len(Append(a, Head(b)) \o Tail(b))
        PROVE  (Append(a, Head(b)) \o Tail(b))[i] = (a \o b)[i]
    <3>1. i \in 1 .. Len(a) + Len(b) /\ i \in 1 .. (Len(a) + 1) + Len(Tail(b))
      BY <2>1, <2>3, <2>5, <2>6
    <3>2. CASE i <= Len(a)
      BY <2>2, <2>3, <2>4, <2>5, <3>1, <3>2
    <3>3. CASE i = Len(a) + 1
      <4>1. i - Len(a) = 1
        BY <2>5, <3>3
      <4>. QED BY <2>1, <2>2, <2>3, <2>4, <2>5, <3>1, <3>3, <4>1
    <3>4. CASE i > Len(a) + 1
      <4>1. i - (Len(a) + 1) \in 1 .. Len(Tail(b)) /\ (i - (Len(a) + 1)) + 1 = i - Len(a)
        BY <2>1, <2>5, <3>1, <3>4
      <4>2. Tail(b)[i - (Len(a) + 1)] = b[i - Len(a)]
        BY <2>1, <4>1
      <4>. QED BY <2>3, <2>4, <2>5, <3>1, <3>4, <4>2
    <3>. QED BY <2>5, <3>1, <3>2, <3>3, <3>4
  <2>7. Len(Append(a, Head(b)) \o Tail(b)) = Len(a \o b)
    BY <2>1, <2>3, <2>4, <2>5
  <2>. QED BY <1>1, <2>3, <2>6, <2>7, SeqEqual
<1>. QED BY <1>5, <1>7, <1>8 DEF Along

(* Holds, under the steps of the model.                                    *)
LEMMA HoldsNothing ==
    ASSUME NEW S
    PROVE  /\ T!Holds(<< >>, {})
           /\ \A f \in Seq(S) : T!Holds(f, {}) => f = << >>
<1>1. T!Holds(<< >>, {})
  BY DEF T!Holds, T!InOrder, T!Range
<1>2. ASSUME NEW f \in Seq(S), T!Range(f) = {}
      PROVE  f = << >>
  <2>1. DOMAIN f = 1 .. Len(f) /\ Len(f) \in Nat
    BY LenProperties
  <2>2. ~ \E x : x \in DOMAIN f
    BY <1>2 DEF T!Range
  <2>3. Len(f) = 0
    BY <2>1, <2>2
  <2>. QED BY <2>3, EmptySeq
<1>. QED BY <1>1, <1>2 DEF T!Holds

LEMMA RangeOfAppend ==
    ASSUME NEW S, NEW f \in Seq(S), NEW r \in S
    PROVE  T!Range(Append(f, r)) = T!Range(f) \union {r}
<1>1. /\ Append(f, r) \in Seq(S) /\ Len(Append(f, r)) = Len(f) + 1
      /\ \A i \in 1 .. Len(f) : Append(f, r)[i] = f[i]
      /\ Append(f, r)[Len(f) + 1] = r
  BY AppendProperties
<1>2. /\ Len(f) \in Nat /\ DOMAIN f = 1 .. Len(f)
      /\ DOMAIN Append(f, r) = 1 .. Len(f) + 1
  BY <1>1, LenProperties
<1>3. ASSUME NEW x \in T!Range(Append(f, r)) PROVE x \in T!Range(f) \union {r}
  <2>1. PICK i \in 1 .. Len(f) + 1 : x = Append(f, r)[i]
    BY <1>2 DEF T!Range
  <2>2. CASE i \in 1 .. Len(f)
    BY <1>1, <1>2, <2>1, <2>2 DEF T!Range
  <2>3. CASE i = Len(f) + 1
    BY <1>1, <2>1, <2>3
  <2>. QED BY <1>2, <2>2, <2>3
<1>4. ASSUME NEW x \in T!Range(f) PROVE x \in T!Range(Append(f, r))
  <2>1. PICK i \in 1 .. Len(f) : x = f[i]
    BY <1>2 DEF T!Range
  <2>2. i \in 1 .. Len(f) + 1 /\ x = Append(f, r)[i]
    BY <1>1, <1>2, <2>1
  <2>. QED BY <1>2, <2>2 DEF T!Range
<1>5. r \in T!Range(Append(f, r))
  <2>1. Len(f) + 1 \in 1 .. Len(f) + 1
    BY <1>2
  <2>. QED BY <1>1, <1>2, <2>1 DEF T!Range
<1>. QED BY <1>3, <1>4, <1>5

LEMMA HoldsMore ==
    ASSUME NEW S, NEW f \in Seq(S), NEW r \in S, NEW R,
           T!Holds(f, R), r.index \in Int, \A q \in S : q.index \in Int,
           \A q \in R : q.warp = r.warp => q.index < r.index
    PROVE  T!Holds(Append(f, r), R \union {r})
<1>1. /\ Append(f, r) \in Seq(S) /\ Len(Append(f, r)) = Len(f) + 1
      /\ \A i \in 1 .. Len(f) : Append(f, r)[i] = f[i]
      /\ Append(f, r)[Len(f) + 1] = r
  BY AppendProperties
<1>2. /\ Len(f) \in Nat /\ DOMAIN f = 1 .. Len(f)
      /\ DOMAIN Append(f, r) = 1 .. Len(f) + 1
  BY <1>1, LenProperties
<1>3. T!Range(f) = R /\ \A i \in 1 .. Len(f) : f[i] \in R
  BY <1>2 DEF T!Holds, T!Range
<1>4. ASSUME NEW i \in 1 .. Len(f) + 1, NEW j \in 1 .. Len(f) + 1, i < j,
             Append(f, r)[i].warp = Append(f, r)[j].warp
      PROVE  Append(f, r)[i].index < Append(f, r)[j].index
  <2>1. i \in 1 .. Len(f)
    BY <1>2, <1>4
  <2>2. CASE j \in 1 .. Len(f)
    BY <1>1, <1>4, <2>1, <2>2 DEF T!Holds, T!InOrder
  <2>3. CASE j = Len(f) + 1
    BY <1>1, <1>3, <1>4, <2>1, <2>3
  <2>. QED BY <1>2, <2>2, <2>3
<1>5. T!Range(Append(f, r)) = T!Range(f) \union {r}
  BY RangeOfAppend
<1>6. T!InOrder(Append(f, r))
  BY <1>1, <1>4 DEF T!InOrder
<1>. QED BY <1>3, <1>5, <1>6 DEF T!Holds

(* What a launch, a record and a file number are.                          *)
LEMMA KernelNumbers ==
    ASSUME T!TracerAssumption, TracerTypes, Numbered
    PROVE  /\ NumKernels \in Nat /\ Len(launched) \in Nat
           /\ current = Len(launched)
           /\ InLaunch => current \in T!Kernels
BY LenProperties DEF T!TracerAssumption, TracerTypes, Numbered, current, T!Kernels

LEMMA RecordFacts ==
    ASSUME T!TracerAssumption, NEW r \in T!Records
    PROVE  r.kernel \in T!Kernels /\ r.warp \in Warps /\ r.index \in 1 .. NumInsts
BY DEF T!Records

LEMMA FilesInvInit == ASSUME T!TracerAssumption, T!Init PROVE FilesInv
<1>1. << >> \in Seq(T!Records) /\ << >> \in Seq(Elements)
      /\ << >> \in Seq([traced : BOOLEAN, profiled : BOOLEAN]) /\ Len(<< >>) = 0
  BY EmptySeq
<1>2. NumKernels \in Nat /\ NumInsts \in Nat /\ Limits \subseteq Nat
  BY DEF T!TracerAssumption
<1>3. options.active_from_start \in BOOLEAN
  BY DEF T!Init, T!Options
<1>4. /\ options \in T!Options /\ profiling = FALSE
      /\ first_call = TRUE /\ active_region = options.active_from_start
      /\ stop_report = FALSE /\ kernelid = 1
      /\ recv_thread_receiving = FALSE /\ recv_buffer = << >>
      /\ channel_dev = << >> /\ doorbell = << >>
      /\ next = [w \in Warps |-> NumInsts + 1]
      /\ reported = 0 /\ old_reported = 0 /\ open = 0 /\ launched = << >>
      /\ sassFile = [k \in T!Kernels |-> << >>] /\ memFile = [k \in T!Kernels |-> << >>]
      /\ statsFile = [k \in T!Kernels |-> -1]
  BY DEF T!Init
<1>5. ~InLaunch /\ ChannelEmpty
  BY ZenonT(30) DEF T!Init, InLaunch, ChannelEmpty
<1>6. Len(launched) = 0
  BY <1>1, <1>4
<1>7. TracerTypes
  <2>1. next \in [Warps -> Nat \ {0}]
    BY <1>2, <1>4
  <2>2. statsFile \in [T!Kernels -> Int]
    BY <1>4
  <2>3. sassFile \in [T!Kernels -> Seq(T!Records)] /\ memFile \in [T!Kernels -> Seq(T!Records)]
    BY <1>1, <1>4
  <2>4. /\ first_call \in BOOLEAN /\ active_region \in BOOLEAN /\ stop_report \in BOOLEAN
        /\ profiling \in BOOLEAN /\ recv_thread_receiving \in BOOLEAN
    BY <1>3, <1>4, Zenon
  <2>5. /\ kernelid \in Nat /\ reported \in Nat /\ old_reported \in Nat /\ open \in Int
        /\ recv_buffer \in Seq(Elements) /\ doorbell \in Seq(Elements)
        /\ channel_dev \in Seq(Elements)
        /\ launched \in Seq([traced : BOOLEAN, profiled : BOOLEAN])
    BY <1>1, <1>4
  <2>. QED BY <1>4, <2>1, <2>2, <2>3, <2>4, <2>5 DEF TracerTypes
<1>8. Numbered
  BY <1>2, <1>4, <1>5, <1>6 DEF Numbered
<1>9. OtherFiles
  <2>1. Closed = 0
    BY <1>5, <1>6 DEF Closed
  <2>. QED BY <1>4, <2>1 DEF OtherFiles
<1>10. Quiet
  BY <1>4, <1>5 DEF Quiet
<1>. QED BY <1>5, <1>7, <1>8, <1>9, <1>10 DEF FilesInv, Handshake, Flow, MemoryFile

----
(* The steps that leave the stream and the files alone.                    *)
FlowVars == <<launched, sassFile, memFile, statsFile, kernelid, stop_report, reported,
              old_reported, next>>

LEMMA RestKept ==
    ASSUME UNCHANGED FlowVars, (InLaunch' <=> InLaunch)
    PROVE  /\ Numbered => Numbered'
           /\ OtherFiles => OtherFiles'
           /\ MemoryFile => MemoryFile'
           /\ Pushed' = Pushed
<1>1. Closed' = Closed /\ current' = current
  BY DEF FlowVars, Closed, current
<1>2. Numbered => Numbered'
  BY DEF FlowVars, Numbered
<1>3. \A k : CompleteFiles(k)' <=> CompleteFiles(k)
  BY DEF FlowVars, CompleteFiles
<1>4. OtherFiles => OtherFiles'
  BY <1>1, <1>3 DEF FlowVars, OtherFiles
<1>5. MemoryFile => MemoryFile'
  BY <1>1 DEF FlowVars, MemoryFile
<1>6. Pushed' = Pushed
  BY <1>1 DEF FlowVars, Pushed
<1>. QED BY <1>2, <1>4, <1>5, <1>6

LEMMA FlowKept ==
    ASSUME UNCHANGED FlowVars, (InLaunch' <=> InLaunch), Flow,
           InLaunch => OnTheWay' = OnTheWay /\ EndSent' = EndSent
    PROVE  Flow'
<1>. SUFFICES ASSUME InLaunch
              PROVE  \E s \in Seq(T!Records) :
                        /\ T!Holds(s, Pushed')
                        /\ Len(s) = reported' - old_reported'
                        /\ OnTheWay' = IF EndSent' THEN Append(s, T!KernelEnd) ELSE s
  BY DEF Flow, Stream
<1>1. PICK s \in Seq(T!Records) :
         T!Holds(s, Pushed) /\ Len(s) = reported - old_reported /\ OnTheWay = Stream(s)
  BY DEF Flow
<1>2. Pushed' = Pushed
  BY RestKept
<1>. QED BY <1>1, <1>2 DEF FlowVars, Stream

LEMMA FilesInvKept ==
    ASSUME FilesInv,
           UNCHANGED <<FlowVars, app, options, profiling, first_call, active_region,
                       recv_thread_receiving, recv_buffer, channel_dev, doorbell, open>>
    PROVE  FilesInv'
<1>1. InLaunch' <=> InLaunch
  BY DEF InLaunch
<1>2. TracerTypes'
  BY DEF FilesInv, TracerTypes, FlowVars
<1>3. current' = current /\ OnTheWay' = OnTheWay /\ EndSent' = EndSent
  BY DEF FlowVars, current, OnTheWay, EndSent
<1>4. Quiet' /\ Handshake'
  BY <1>1, <1>3 DEF FilesInv, FlowVars, Quiet, Handshake, ChannelEmpty, T!KernelDone
<1>5. Flow'
  BY <1>1, <1>3, FlowKept DEF FilesInv
<1>. QED BY <1>1, <1>2, <1>4, <1>5, RestKept DEF FilesInv

(* The application's thread outside a launch.                              *)
LEMMA OutsideStep ==
    ASSUME T!TracerAssumption, FilesInv,
           \/ T!CtxInit \/ (\E on \in BOOLEAN : T!ProfilerSwitch(on)) \/ T!OtherCall
           \/ T!Terminate \/ T!CtxTerm \/ T!CtxJoin
    PROVE  FilesInv'
<1>1. /\ ~InLaunch /\ ~InLaunch'
      /\ UNCHANGED FlowVars
      /\ UNCHANGED <<options, open, recv_buffer, doorbell, channel_dev, recv_thread_receiving>>
      /\ profiling' \in {profiling, TRUE, FALSE}
      /\ active_region' \in {active_region, profiling', T!RegionAtFirstCall, T!RegionAtLaunch}
      /\ first_call' \in {first_call, FALSE}
  BY DEF T!CtxInit, T!ProfilerSwitch, T!OtherCall, T!Terminate, T!CtxTerm, T!CtxJoin, InLaunch,
         FlowVars, T!control_vars, T!thread_vars, T!channel_vars, T!file_vars, T!app_vars
<1>2. TracerTypes /\ Quiet /\ Numbered /\ OtherFiles
  BY DEF FilesInv
<1>3. active_region' \in BOOLEAN
  BY <1>1, <1>2 DEF T!RegionAtFirstCall, T!RegionAtLaunch, TracerTypes, T!Options
<1>4. TracerTypes'
  BY <1>1, <1>2, <1>3 DEF TracerTypes, FlowVars
<1>5. Numbered' /\ OtherFiles'
  BY <1>1, <1>2, RestKept
<1>6. Quiet'
  BY <1>1, <1>2 DEF Quiet, ChannelEmpty, FlowVars
<1>. QED BY <1>1, <1>4, <1>5, <1>6 DEF FilesInv, Handshake, Flow, MemoryFile

(* The entry of a launch opens the files of its kernel.                    *)
LEMMA LaunchEntryStep ==
    ASSUME T!TracerAssumption, FilesInv, T!LaunchEntry
    PROVE  FilesInv'
<1>1. TracerTypes /\ Quiet /\ Numbered /\ OtherFiles
  BY DEF FilesInv
<1>2. /\ app = "idle" /\ kernelid \in T!Kernels
      /\ app' = "kernel" /\ first_call' = FALSE
      /\ active_region' = T!RegionAtLaunch
      /\ stop_report' = ~active_region'
      /\ open' = IF stop_report' THEN open ELSE kernelid
      /\ next' = [w \in Warps |-> IF stop_report' THEN NumInsts + 1 ELSE 1]
      /\ launched' = Append(launched, [traced |-> ~stop_report', profiled |-> profiling])
      /\ kernelid' = kernelid + 1
      /\ recv_thread_receiving' = TRUE
      /\ UNCHANGED <<options, profiling, recv_buffer, channel_dev, doorbell, reported, sassFile,
                     memFile, statsFile, old_reported>>
  BY DEF T!LaunchEntry
<1>3. ~InLaunch /\ InLaunch'
  BY <1>2 DEF InLaunch
<1>4. ChannelEmpty /\ open = 0 /\ reported = old_reported
  BY <1>1, <1>3 DEF Quiet
<1>5. active_region' \in BOOLEAN /\ stop_report' \in BOOLEAN
  BY <1>1, <1>2 DEF T!RegionAtFirstCall, T!RegionAtLaunch, TracerTypes, T!Options
<1>6. NumInsts \in Nat /\ NumKernels \in Nat
  BY DEF T!TracerAssumption
<1>7. [traced |-> ~stop_report', profiled |-> profiling] \in [traced : BOOLEAN, profiled : BOOLEAN]
  BY <1>1, <1>5 DEF TracerTypes
<1>8. /\ launched' \in Seq([traced : BOOLEAN, profiled : BOOLEAN])
      /\ Len(launched') = Len(launched) + 1
      /\ \A k \in 1 .. Len(launched) : launched'[k] = launched[k]
      /\ launched'[Len(launched) + 1].traced = ~stop_report'
  BY <1>1, <1>2, <1>7, AppendProperties DEF TracerTypes
<1>9. Len(launched) \in Nat /\ kernelid = Len(launched) + 1 /\ kernelid <= NumKernels
  BY <1>1, <1>2, <1>6, LenProperties DEF Numbered, TracerTypes, T!Kernels
<1>10. TracerTypes'
  <2>1. next' \in [Warps -> Nat \ {0}]
    BY <1>2, <1>6
  <2>2. open' \in Int /\ kernelid' \in Nat
    BY <1>1, <1>2, <1>4, <1>9
  <2>. QED BY <1>1, <1>2, <1>5, <1>8, <2>1, <2>2 DEF TracerTypes
<1>11. current' = kernelid
  BY <1>2, <1>9 DEF current
<1>12. Numbered'
  BY <1>2, <1>8, <1>9 DEF Numbered
<1>13. Closed' = Len(launched) /\ Closed = Len(launched)
  BY <1>3, <1>8, <1>9 DEF Closed
<1>14. OtherFiles'
  <2>1. \A k \in 1 .. Len(launched) : CompleteFiles(k)'
    BY <1>1, <1>2, <1>8, <1>13 DEF OtherFiles, CompleteFiles
  <2>2. \A k \in T!Kernels : k > Closed' => statsFile'[k] = -1
    BY <1>1, <1>2, <1>13 DEF OtherFiles
  <2>3. \A k \in T!Kernels : k > Len(launched') => k > Len(launched)
    BY <1>6, <1>8, <1>9 DEF T!Kernels
  <2>4. \A k \in T!Kernels : k > Len(launched') => sassFile'[k] = << >> /\ memFile'[k] = << >>
    BY <1>1, <1>2, <2>3 DEF OtherFiles
  <2>. QED BY <1>13, <2>1, <2>2, <2>4 DEF OtherFiles
<1>15. Handshake'
  <2>1. stop_report' => T!KernelDone'
    BY <1>2, <1>6 DEF T!KernelDone
  <2>. QED BY <2>1, <1>2, <1>4, <1>8, <1>9, <1>11 DEF Handshake, ChannelEmpty
<1>16. sassFile'[kernelid] = << >> /\ memFile'[kernelid] = << >>
  BY <1>1, <1>2, <1>9 DEF OtherFiles
<1>17. Pushed' = {}
  BY <1>2, <1>6 DEF Pushed, T!Records
<1>18. ~EndSent'
  BY <1>2 DEF EndSent
<1>19. OnTheWay' = << >>
  <2>1. OnTheWay' = << >> \o << >> \o << >> \o << >>
    BY <1>2, <1>4, <1>11, <1>16 DEF OnTheWay, Along, ChannelEmpty
  <2>2. << >> \in Seq({})
    BY EmptySeq
  <2>. QED BY <2>1, <2>2, ConcatEmptySeq
<1>20. Flow'
  <2>1. << >> \in Seq(T!Records) /\ Len(<< >>) = 0
    BY EmptySeq
  <2>2. reported' - old_reported' = 0
    BY <1>1, <1>2, <1>4 DEF TracerTypes
  <2>3. T!Holds(<< >>, Pushed')
    BY <1>17, HoldsNothing
  <2>. QED BY <1>18, <1>19, <2>1, <2>2, <2>3 DEF Flow, Stream
<1>21. MemoryFile'
  <2>1. MemoryRecords(<< >>) = {}
    BY DEF MemoryRecords, T!Range
  <2>2. T!Holds(<< >>, MemoryRecords(<< >>))
    BY <2>1, HoldsNothing
  <2>. QED BY <1>2, <1>11, <1>16, <2>2 DEF MemoryFile
<1>. QED BY <1>3, <1>10, <1>12, <1>14, <1>15, <1>20, <1>21 DEF FilesInv, Quiet

(* Steps of the callback and the channel that only move records.           *)
LEMMA MoveStep ==
    ASSUME T!TracerAssumption, FilesInv,
           T!LaunchFlush \/ T!HandOver \/ T!FlushDone \/ T!Receive \/ T!ReceiverEnds
    PROVE  FilesInv'
<1>1. TracerTypes /\ Numbered /\ OtherFiles /\ Quiet /\ Handshake /\ Flow /\ MemoryFile
  BY DEF FilesInv
<1>2. CASE T!LaunchFlush
  <2>1. /\ app = "kernel" /\ app' = "flush" /\ T!KernelDone
        /\ UNCHANGED <<options, profiling, launched, first_call, active_region, stop_report,
                       kernelid, recv_thread_receiving, recv_buffer, channel_dev, doorbell, next,
                       reported, open, sassFile, memFile, statsFile, old_reported>>
    BY <1>2 DEF T!LaunchFlush, T!control_vars, T!thread_vars, T!channel_vars, T!file_vars
  <2>2. InLaunch /\ InLaunch' /\ UNCHANGED FlowVars
    BY <2>1 DEF InLaunch, FlowVars
  <2>3. TracerTypes'
    BY <1>1, <2>1 DEF TracerTypes
  <2>4. Handshake'
    BY <1>1, <2>1, <2>2 DEF Handshake, current, T!KernelDone, ChannelEmpty
  <2>5. Flow'
    <3>1. OnTheWay' = OnTheWay /\ EndSent' = EndSent
      BY <2>1 DEF OnTheWay, EndSent, current
    <3>. QED BY <1>1, <2>2, <3>1, FlowKept
  <2>. QED BY <1>1, <2>2, <2>3, <2>4, <2>5, RestKept DEF FilesInv, Quiet
<1>3. CASE T!HandOver
  <2>1. /\ Len(channel_dev) = CHANNEL_SIZE /\ doorbell = << >>
        /\ doorbell' = channel_dev /\ channel_dev' = << >>
        /\ UNCHANGED <<app, options, profiling, launched, first_call, active_region, stop_report,
                       kernelid, recv_thread_receiving, recv_buffer, next,
                       reported, open, sassFile, memFile, statsFile, old_reported>>
    BY <1>3 DEF T!HandOver, T!control_vars, T!thread_vars, T!file_vars, T!app_vars
  <2>2. (InLaunch' <=> InLaunch) /\ UNCHANGED FlowVars /\ current' = current
    BY <2>1 DEF InLaunch, FlowVars, current
  <2>3. channel_dev # << >>
    BY <2>1, EmptySeq DEF T!TracerAssumption
  <2>4. InLaunch
    BY <1>1, <2>3 DEF Quiet, ChannelEmpty
  <2>5. TracerTypes'
    <3>1. << >> \in Seq(Elements)
      BY EmptySeq
    <3>. QED BY <1>1, <2>1, <3>1 DEF TracerTypes
  <2>6. Handshake'
    BY <1>1, <2>1, <2>2, <2>3, <2>4 DEF Handshake, T!KernelDone, ChannelEmpty
  <2>7. Flow'
    <3>1. current \in T!Kernels
      BY <1>1, <2>4, KernelNumbers
    <3>2. /\ sassFile[current] \in Seq(Elements) /\ recv_buffer \in Seq(Elements)
          /\ doorbell \in Seq(Elements) /\ channel_dev \in Seq(Elements)
      BY <1>1, <3>1, SeqMonotonic DEF TracerTypes, Elements
    <3>3. InParts(sassFile[current], recv_buffer, doorbell, channel_dev)
      BY <3>2 DEF InParts
    <3>4. OnTheWay' = OnTheWay
      BY <2>1, <2>2, <3>3, Moves DEF OnTheWay
    <3>5. EndSent' = EndSent
      BY <2>1 DEF EndSent
    <3>. QED BY <1>1, <2>2, <3>4, <3>5, FlowKept
  <2>. QED BY <1>1, <2>2, <2>4, <2>5, <2>6, <2>7, RestKept DEF FilesInv, Quiet
<1>4. CASE T!FlushDone
  <2>1. /\ app = "flushed" /\ app' = "wait" /\ doorbell = << >>
        /\ UNCHANGED <<options, profiling, launched, first_call, active_region, stop_report,
                       kernelid, recv_thread_receiving, recv_buffer, channel_dev, doorbell, next,
                       reported, open, sassFile, memFile, statsFile, old_reported>>
    BY <1>4 DEF T!FlushDone, T!control_vars, T!thread_vars, T!channel_vars, T!file_vars
  <2>2. InLaunch /\ InLaunch' /\ UNCHANGED FlowVars
    BY <2>1 DEF InLaunch, FlowVars
  <2>3. TracerTypes'
    BY <1>1, <2>1 DEF TracerTypes
  <2>4. Handshake'
    BY <1>1, <2>1, <2>2 DEF Handshake, current, T!KernelDone, ChannelEmpty
  <2>5. Flow'
    <3>1. OnTheWay' = OnTheWay /\ EndSent' = EndSent
      BY <2>1 DEF OnTheWay, EndSent, current
    <3>. QED BY <1>1, <2>2, <3>1, FlowKept
  <2>. QED BY <1>1, <2>2, <2>3, <2>4, <2>5, RestKept DEF FilesInv, Quiet
<1>5. CASE T!Receive
  <2>1. /\ recv_buffer = << >> /\ doorbell # << >>
        /\ recv_buffer' = doorbell /\ doorbell' = << >>
        /\ UNCHANGED <<app, options, profiling, launched, first_call, active_region, stop_report,
                       kernelid, recv_thread_receiving, channel_dev, next,
                       reported, open, sassFile, memFile, statsFile, old_reported>>
    BY <1>5 DEF T!Receive, T!control_vars, T!app_vars, T!file_vars
  <2>2. (InLaunch' <=> InLaunch) /\ UNCHANGED FlowVars /\ current' = current
    BY <2>1 DEF InLaunch, FlowVars, current
  <2>3. InLaunch
    BY <1>1, <2>1 DEF Quiet, ChannelEmpty
  <2>4. TracerTypes'
    <3>1. << >> \in Seq(Elements)
      BY EmptySeq
    <3>. QED BY <1>1, <2>1, <3>1 DEF TracerTypes
  <2>5. Handshake'
    BY <1>1, <2>1, <2>2, <2>3 DEF Handshake, T!KernelDone, ChannelEmpty
  <2>6. Flow'
    <3>1. current \in T!Kernels
      BY <1>1, <2>3, KernelNumbers
    <3>2. /\ sassFile[current] \in Seq(Elements) /\ recv_buffer \in Seq(Elements)
          /\ doorbell \in Seq(Elements) /\ channel_dev \in Seq(Elements)
      BY <1>1, <3>1, SeqMonotonic DEF TracerTypes, Elements
    <3>3. InParts(sassFile[current], recv_buffer, doorbell, channel_dev)
      BY <3>2 DEF InParts
    <3>4. OnTheWay' = OnTheWay
      BY <2>1, <2>2, <3>3, Moves DEF OnTheWay
    <3>5. EndSent' = EndSent
      BY <2>1 DEF EndSent
    <3>. QED BY <1>1, <2>2, <3>4, <3>5, FlowKept
  <2>. QED BY <1>1, <2>2, <2>3, <2>4, <2>5, <2>6, RestKept DEF FilesInv, Quiet
<1>6. CASE T!ReceiverEnds
  <2>1. UNCHANGED <<app, options, profiling, launched, first_call, active_region, stop_report,
                    kernelid, recv_thread_receiving, recv_buffer, channel_dev, doorbell, next,
                    reported, open, sassFile, memFile, statsFile, old_reported>>
    BY <1>6 DEF T!ReceiverEnds, T!control_vars, T!app_vars, T!channel_vars, T!file_vars
  <2>. QED BY <2>1, FilesInvKept DEF FlowVars
<1>. QED BY <1>2, <1>3, <1>4, <1>5, <1>6

(* A warp pushes the record of its next instruction.                       *)
LEMMA PushStep ==
    ASSUME T!TracerAssumption, FilesInv, NEW w \in Warps, T!Push(w)
    PROVE  FilesInv'
<1>1. TracerTypes /\ Numbered /\ OtherFiles /\ Quiet /\ Handshake /\ Flow /\ MemoryFile
  BY DEF FilesInv
<1>. DEFINE r == [kernel |-> kernelid - 1, warp |-> w, index |-> next[w]]
<1>2. /\ app = "kernel" /\ next[w] <= NumInsts /\ doorbell = << >>
      /\ channel_dev' = Append(channel_dev, r)
      /\ next' = [next EXCEPT ![w] = @ + 1]
      /\ reported' = reported + 1
      /\ UNCHANGED <<app, options, profiling, launched, first_call, active_region, stop_report,
                     kernelid, recv_thread_receiving, recv_buffer, doorbell,
                     open, sassFile, memFile, statsFile, old_reported>>
  BY DEF T!Push, T!control_vars, T!app_vars, T!thread_vars, T!file_vars
<1>3. InLaunch /\ InLaunch' /\ current' = current /\ current \in T!Kernels
  BY <1>1, <1>2, KernelNumbers DEF InLaunch, current
<1>4. next[w] \in Nat \ {0} /\ NumInsts \in Nat
  BY <1>1 DEF TracerTypes, T!TracerAssumption
<1>5. r \in T!Records
  BY <1>2, <1>3, <1>4 DEF T!Records, current
<1>6. r.kernel = current /\ r.warp = w /\ r.index = next[w]
  BY DEF current
<1>. HIDE DEF r
<1>7. channel_dev' \in Seq(Elements)
  BY <1>1, <1>2, <1>5, AppendProperties DEF TracerTypes, Elements
<1>8. TracerTypes'
  <2>1. next' \in [Warps -> Nat \ {0}] /\ reported' \in Nat
    BY <1>1, <1>2, <1>4 DEF TracerTypes
  <2>. QED BY <1>1, <1>2, <1>7, <2>1 DEF TracerTypes
<1>9. recv_thread_receiving
  BY <1>1, <1>2, <1>3 DEF Handshake
<1>10. ~stop_report
  BY <1>1, <1>2, <1>3, <1>4 DEF Handshake, T!KernelDone
<1>11. Handshake'
  BY <1>1, <1>2, <1>3, <1>9, <1>10 DEF Handshake
<1>12. Pushed' = Pushed \union {r}
  <2>1. ASSUME NEW q \in T!Records
        PROVE  q \in Pushed' <=> q \in Pushed \union {r}
    <3>1. q.warp \in Warps /\ q.index \in Nat
      BY RecordFacts DEF T!TracerAssumption
    <3>2. next'[q.warp] = IF q.warp = w THEN next[w] + 1 ELSE next[q.warp]
      BY <1>1, <1>2, <3>1 DEF TracerTypes
    <3>3. q = r <=> q.kernel = current /\ q.warp = w /\ q.index = next[w]
      BY <1>5, <1>6 DEF T!Records
    <3>4. q \in Pushed' <=> q.kernel = current /\ q.index < next'[q.warp]
      BY <1>2, <1>3, <1>10 DEF Pushed
    <3>5. q \in Pushed <=> q.kernel = current /\ q.index < next[q.warp]
      BY <1>10 DEF Pushed
    <3>6. CASE q.warp = w
      BY <1>4, <3>1, <3>2, <3>3, <3>4, <3>5, <3>6
    <3>7. CASE q.warp # w
      BY <3>2, <3>3, <3>4, <3>5, <3>7
    <3>. QED BY <3>6, <3>7
  <2>. QED BY <1>5, <2>1 DEF Pushed
<1>13. Flow'
  <2>1. PICK s \in Seq(T!Records) :
           T!Holds(s, Pushed) /\ Len(s) = reported - old_reported /\ OnTheWay = Stream(s)
    BY <1>1, <1>3 DEF Flow
  <2>2. ~EndSent /\ ~EndSent'
    BY <1>2 DEF EndSent
  <2>3. OnTheWay' = Append(s, r)
    <3>1. /\ sassFile[current] \in Seq(Elements) /\ recv_buffer \in Seq(Elements)
          /\ doorbell \in Seq(Elements) /\ channel_dev \in Seq(Elements) /\ r \in Elements
      BY <1>1, <1>3, <1>5, SeqMonotonic DEF TracerTypes, Elements
    <3>2. Along(sassFile[current], recv_buffer, doorbell, Append(channel_dev, r)) =
             Append(OnTheWay, r)
      BY <3>1, Pushes DEF OnTheWay, InParts
    <3>3. OnTheWay' = Append(OnTheWay, r)
      BY <1>2, <1>3, <3>2 DEF OnTheWay
    <3>. QED BY <2>1, <2>2, <3>3 DEF Stream
  <2>4. Append(s, r) \in Seq(T!Records) /\ Len(Append(s, r)) = Len(s) + 1
    BY <1>5, AppendProperties
  <2>5. T!Holds(Append(s, r), Pushed')
    <3>1. \A q \in T!Records : q.index \in Int
      BY RecordFacts
    <3>2. \A q \in Pushed : q.warp = r.warp => q.index < r.index
      BY <1>6 DEF Pushed
    <3>3. r.index \in Int
      BY <1>5, <3>1
    <3>. QED BY <1>5, <1>12, <2>1, <3>1, <3>2, <3>3, HoldsMore
  <2>6. Len(Append(s, r)) = reported' - old_reported'
    BY <1>1, <1>2, <2>1, <2>4 DEF TracerTypes
  <2>. QED BY <2>2, <2>3, <2>4, <2>5, <2>6 DEF Flow, Stream
<1>14. Numbered' /\ OtherFiles' /\ MemoryFile'
  <2>1. Closed' = Closed
    BY <1>2 DEF Closed, InLaunch
  <2>2. \A k : CompleteFiles(k)' <=> CompleteFiles(k)
    BY <1>2 DEF CompleteFiles
  <2>. QED BY <1>1, <1>2, <1>3, <2>1, <2>2 DEF Numbered, OtherFiles, MemoryFile
<1>. QED BY <1>3, <1>8, <1>11, <1>13, <1>14 DEF FilesInv, Quiet

(* flush_channel puts the end of the kernel behind all records.            *)
LEMMA FlushStep ==
    ASSUME T!TracerAssumption, FilesInv, T!flush_channel
    PROVE  FilesInv'
<1>1. TracerTypes /\ Numbered /\ OtherFiles /\ Quiet /\ Handshake /\ Flow /\ MemoryFile
  BY DEF FilesInv
<1>2. /\ app = "flush" /\ app' = "flushed" /\ doorbell = << >>
      /\ doorbell' = Append(channel_dev, T!KernelEnd) /\ channel_dev' = << >>
      /\ UNCHANGED <<options, profiling, launched, first_call, active_region, stop_report,
                     kernelid, recv_thread_receiving, recv_buffer, next, reported,
                     open, sassFile, memFile, statsFile, old_reported>>
  BY DEF T!flush_channel, T!control_vars, T!thread_vars, T!file_vars
<1>3. InLaunch /\ InLaunch' /\ UNCHANGED FlowVars /\ current' = current
  BY <1>2 DEF InLaunch, FlowVars, current
<1>4. current \in T!Kernels
  BY <1>1, <1>3, KernelNumbers
<1>5. T!KernelEnd \in Elements /\ << >> \in Seq(Elements)
  BY EmptySeq DEF Elements
<1>6. TracerTypes'
  <2>1. doorbell' \in Seq(Elements)
    BY <1>1, <1>2, <1>5, AppendProperties DEF TracerTypes
  <2>. QED BY <1>1, <1>2, <1>5, <2>1 DEF TracerTypes
<1>7. recv_thread_receiving /\ T!KernelDone
  BY <1>1, <1>2, <1>3 DEF Handshake
<1>8. Handshake'
  BY <1>1, <1>2, <1>3, <1>7 DEF Handshake, T!KernelDone
<1>9. Flow'
  <2>1. PICK s \in Seq(T!Records) :
           T!Holds(s, Pushed) /\ Len(s) = reported - old_reported /\ OnTheWay = Stream(s)
    BY <1>1, <1>3 DEF Flow
  <2>2. ~EndSent /\ EndSent'
    BY <1>2, <1>7 DEF EndSent
  <2>3. /\ sassFile[current] \in Seq(Elements) /\ recv_buffer \in Seq(Elements)
        /\ doorbell \in Seq(Elements) /\ channel_dev \in Seq(Elements)
    BY <1>1, <1>4, SeqMonotonic DEF TracerTypes, Elements
  <2>4. OnTheWay' = Append(OnTheWay, T!KernelEnd)
    <3>1. InParts(sassFile[current], recv_buffer, doorbell, channel_dev)
      BY <2>3 DEF InParts
    <3>2. Along(sassFile[current], recv_buffer, Append(channel_dev, T!KernelEnd), << >>) =
             Append(Along(sassFile[current], recv_buffer, << >>, channel_dev), T!KernelEnd)
      BY <1>5, <3>1, Pushes
    <3>. QED BY <1>2, <1>3, <3>2 DEF OnTheWay
  <2>5. Pushed' = Pushed
    BY <1>3, RestKept
  <2>. QED BY <1>2, <1>3, <2>1, <2>2, <2>4, <2>5 DEF Flow, Stream
<1>. QED BY <1>1, <1>3, <1>6, <1>8, <1>9, RestKept DEF FilesInv, Quiet

(* The receiving thread: the end of the kernel is the last record on its   *)
(* way, and every other record goes to the file of the kernel.             *)
LEMMA ProcessStep ==
    ASSUME T!TracerAssumption, FilesInv, T!Process
    PROVE  FilesInv'
<1>1. TracerTypes /\ Numbered /\ OtherFiles /\ Quiet /\ Handshake /\ Flow /\ MemoryFile
  BY DEF FilesInv
<1>. DEFINE record == Head(recv_buffer)
<1>2. /\ recv_buffer # << >>
      /\ UNCHANGED <<app, options, profiling, launched, first_call, active_region, stop_report,
                     kernelid, channel_dev, doorbell, next, reported, statsFile, old_reported>>
      /\ IF record = T!KernelEnd
         THEN /\ recv_buffer' = << >> /\ recv_thread_receiving' = FALSE
              /\ UNCHANGED <<open, sassFile, memFile>>
         ELSE /\ recv_buffer' = Tail(recv_buffer)
              /\ T!Written(record)
              /\ UNCHANGED recv_thread_receiving
  BY DEF T!Process, T!EndOfKernel, T!control_vars, T!app_vars, T!channel_vars
<1>3. InLaunch /\ (InLaunch' <=> InLaunch) /\ current' = current
  BY <1>1, <1>2 DEF InLaunch, current, Quiet, ChannelEmpty
<1>4. current \in T!Kernels /\ current = Len(launched) /\ NumKernels \in Nat
  BY <1>1, <1>3, KernelNumbers
<1>5. recv_thread_receiving
  BY <1>1, <1>2, <1>3 DEF Handshake, ChannelEmpty
<1>. DEFINE file == sassFile[current]
<1>6. /\ file \in Seq(Elements) /\ recv_buffer \in Seq(Elements)
      /\ doorbell \in Seq(Elements) /\ channel_dev \in Seq(Elements)
      /\ file \in Seq(T!Records) /\ memFile[current] \in Seq(T!Records)
  BY <1>1, <1>4, SeqMonotonic DEF TracerTypes, Elements
<1>7. PICK s \in Seq(T!Records) :
         T!Holds(s, Pushed) /\ Len(s) = reported - old_reported /\ OnTheWay = Stream(s)
  BY <1>1, <1>3 DEF Flow
<1>8. /\ Len(file) \in Nat /\ Len(recv_buffer) \in Nat \ {0} /\ Len(doorbell) \in Nat
      /\ Len(channel_dev) \in Nat /\ Len(s) \in Nat
  BY <1>2, <1>6, <1>7, LenProperties, EmptySeq
<1>9. /\ record \in Elements /\ record = recv_buffer[1]
      /\ Tail(recv_buffer) \in Seq(Elements)
  BY <1>2, <1>6, HeadTailProperties
<1>10. /\ Len(OnTheWay) = Len(file) + Len(recv_buffer) + Len(doorbell) + Len(channel_dev)
       /\ \A i \in 1 .. Len(file) : OnTheWay[i] = file[i]
       /\ OnTheWay[Len(file) + 1] = record
  <2>1. /\ file \o recv_buffer \in Seq(Elements)
        /\ Len(file \o recv_buffer) = Len(file) + Len(recv_buffer)
        /\ \A i \in 1 .. Len(file) : (file \o recv_buffer)[i] = file[i]
        /\ (file \o recv_buffer)[Len(file) + 1] = recv_buffer[1]
    <3>1. /\ file \o recv_buffer \in Seq(Elements)
          /\ Len(file \o recv_buffer) = Len(file) + Len(recv_buffer)
          /\ \A i \in 1 .. Len(file) + Len(recv_buffer) : (file \o recv_buffer)[i] =
                IF i <= Len(file) THEN file[i] ELSE recv_buffer[i - Len(file)]
      BY <1>6, ConcatProperties
    <3>2. (Len(file) + 1) - Len(file) = 1 /\ Len(file) + 1 \in 1 .. Len(file) + Len(recv_buffer)
      BY <1>8
    <3>3. (file \o recv_buffer)[Len(file) + 1] = recv_buffer[1]
      BY <1>8, <3>1, <3>2
    <3>4. \A i \in 1 .. Len(file) : (file \o recv_buffer)[i] = file[i]
      BY <1>8, <3>1
    <3>. QED BY <3>1, <3>3, <3>4
  <2>. DEFINE a == file \o recv_buffer
  <2>2. /\ a \o doorbell \in Seq(Elements)
        /\ Len(a \o doorbell) = Len(a) + Len(doorbell)
        /\ \A i \in 1 .. Len(a) : (a \o doorbell)[i] = a[i]
    <3>1. /\ a \o doorbell \in Seq(Elements)
          /\ Len(a \o doorbell) = Len(a) + Len(doorbell)
          /\ \A i \in 1 .. Len(a) + Len(doorbell) : (a \o doorbell)[i] =
                IF i <= Len(a) THEN a[i] ELSE doorbell[i - Len(a)]
      BY <1>6, <2>1, ConcatProperties
    <3>. HIDE DEF a
    <3>2. Len(a) \in Nat
      BY <1>8, <2>1 DEF a
    <3>. QED BY <1>8, <3>1, <3>2
  <2>. DEFINE b == a \o doorbell
  <2>3. /\ Len(b \o channel_dev) = Len(b) + Len(channel_dev)
        /\ \A i \in 1 .. Len(b) : (b \o channel_dev)[i] = b[i]
    <3>1. /\ Len(b \o channel_dev) = Len(b) + Len(channel_dev)
          /\ \A i \in 1 .. Len(b) + Len(channel_dev) : (b \o channel_dev)[i] =
                IF i <= Len(b) THEN b[i] ELSE channel_dev[i - Len(b)]
      BY <1>6, <2>2, ConcatProperties
    <3>2. Len(b) \in Nat
      BY <2>2, LenProperties
    <3>. HIDE DEF b
    <3>. QED BY <1>8, <3>1, <3>2
  <2>4. OnTheWay = b \o channel_dev
    BY DEF OnTheWay, Along
  <2>. HIDE DEF b, a, file, record
  <2>5. Len(a) = Len(file) + Len(recv_buffer) /\ Len(b) = Len(a) + Len(doorbell)
    BY <2>1, <2>2 DEF a, b
  <2>6. Len(OnTheWay) = Len(file) + Len(recv_buffer) + Len(doorbell) + Len(channel_dev)
    BY <1>8, <2>3, <2>4, <2>5
  <2>7. ASSUME NEW i \in 1 .. Len(a) PROVE OnTheWay[i] = a[i]
    <3>1. i \in 1 .. Len(b)
      BY <1>8, <2>5
    <3>. QED BY <2>2, <2>3, <2>4, <3>1 DEF b
  <2>8. Len(file) + 1 \in 1 .. Len(a) /\ \A i \in 1 .. Len(file) : i \in 1 .. Len(a)
    BY <1>8, <2>5
  <2>. QED BY <1>9, <2>1, <2>6, <2>7, <2>8 DEF a
<1>. HIDE DEF file, record
<1>11. CASE record = T!KernelEnd
  <2>1. EndSent
    <3>1. CASE ~EndSent
      <4>1. OnTheWay = s
        BY <1>7, <3>1 DEF Stream
      <4>2. Len(file) + 1 \in 1 .. Len(s)
        BY <1>8, <1>10, <4>1
      <4>3. s[Len(file) + 1] \in T!Records
        BY <1>7, <4>2, ElementOfSeq
      <4>. QED BY <1>10, <1>11, <4>1, <4>3, KernelEndApart
    <3>. QED BY <3>1
  <2>2. OnTheWay = Append(s, T!KernelEnd)
    BY <1>7, <2>1 DEF Stream
  <2>3. /\ Len(OnTheWay) = Len(s) + 1
        /\ \A i \in 1 .. Len(s) : OnTheWay[i] = s[i]
    <3>1. s \in Seq(Elements) /\ T!KernelEnd \in Elements
      BY <1>7, SeqMonotonic DEF Elements
    <3>. QED BY <2>2, <3>1, AppendProperties
  <2>4. Len(file) >= Len(s)
    <3>1. CASE Len(file) < Len(s)
      <4>1. Len(file) + 1 \in 1 .. Len(s)
        BY <1>8, <3>1
      <4>2. s[Len(file) + 1] \in T!Records
        BY <1>7, <4>1, ElementOfSeq
      <4>. QED BY <1>10, <1>11, <2>3, <4>1, <4>2, KernelEndApart
    <3>. QED BY <1>8, <3>1
  <2>5. Len(file) = Len(s) /\ Len(doorbell) = 0 /\ Len(channel_dev) = 0
    BY <1>8, <1>10, <2>3, <2>4
  <2>6. doorbell = << >> /\ channel_dev = << >>
    BY <1>6, <2>5, EmptySeq
  <2>7. file = s
    <3>1. \A i \in 1 .. Len(file) : file[i] = s[i]
      BY <1>10, <2>3, <2>5
    <3>. QED BY <1>6, <1>7, <2>5, <3>1, SeqEqual
  <2>8. /\ recv_buffer' = << >> /\ recv_thread_receiving' = FALSE
        /\ UNCHANGED <<open, sassFile, memFile>>
    BY <1>2, <1>11
  <2>9. UNCHANGED FlowVars
    BY <1>2, <2>8 DEF FlowVars
  <2>10. TracerTypes'
    <3>1. << >> \in Seq(Elements)
      BY EmptySeq
    <3>. QED BY <1>1, <1>2, <2>8, <3>1 DEF TracerTypes
  <2>11. Handshake'
    <3>1. app \notin {"kernel", "flush"}
      BY <2>1 DEF EndSent
    <3>. QED BY <1>1, <1>2, <1>3, <2>6, <2>8, <3>1 DEF Handshake, ChannelEmpty, T!KernelDone
  <2>12. Flow'
    <3>1. ~EndSent' /\ Pushed' = Pushed
      BY <1>3, <2>8, <2>9, RestKept DEF EndSent
    <3>2. OnTheWay' = file \o << >> \o << >> \o << >>
      BY <1>2, <1>3, <2>6, <2>8 DEF OnTheWay, Along, file
    <3>3. OnTheWay' = s
      BY <1>6, <2>7, <3>2, ConcatEmptySeq
    <3>. QED BY <1>2, <1>7, <3>1, <3>3 DEF Flow, Stream
  <2>. QED BY <1>1, <1>3, <2>9, <2>10, <2>11, <2>12, RestKept DEF FilesInv, Quiet
<1>12. CASE record # T!KernelEnd
  <2>1. record \in T!Records
    BY <1>9, <1>12 DEF Elements
  <2>2. Len(file) + 1 \in 1 .. Len(s) /\ \A i \in 1 .. Len(s) : OnTheWay[i] = s[i]
    <3>1. CASE EndSent
      <4>1. s \in Seq(Elements) /\ T!KernelEnd \in Elements
        BY <1>7, SeqMonotonic DEF Elements
      <4>2. OnTheWay = Append(s, T!KernelEnd)
        BY <1>7, <3>1 DEF Stream
      <4>3. /\ Len(OnTheWay) = Len(s) + 1
            /\ \A i \in 1 .. Len(s) : OnTheWay[i] = s[i]
            /\ OnTheWay[Len(s) + 1] = T!KernelEnd
        BY <4>1, <4>2, AppendProperties
      <4>4. Len(file) + 1 # Len(s) + 1
        BY <1>10, <1>12, <4>3
      <4>. QED BY <1>8, <1>10, <4>3, <4>4
    <3>2. CASE ~EndSent
      <4>1. OnTheWay = s
        BY <1>7, <3>2 DEF Stream
      <4>. QED BY <1>8, <1>10, <4>1
    <3>. QED BY <3>1, <3>2
  <2>3. /\ s[Len(file) + 1] = record
        /\ \A i \in 1 .. Len(file) : i \in 1 .. Len(s) /\ i < Len(file) + 1 /\ file[i] = s[i]
    BY <1>8, <1>10, <2>2
  <2>4. record \in Pushed
    <3>1. DOMAIN s = 1 .. Len(s)
      BY <1>7, LenProperties
    <3>. QED BY <1>7, <2>2, <2>3, <3>1 DEF T!Holds, T!Range
  <2>5. open = current
    BY <1>1, <1>3, <2>4 DEF Pushed, Handshake
  <2>6. /\ recv_buffer' = Tail(recv_buffer) /\ recv_thread_receiving' = recv_thread_receiving
        /\ open' = open
        /\ sassFile' = [sassFile EXCEPT ![current] = Append(@, record)]
        /\ memFile' = IF IsMem(record.index)
                      THEN [memFile EXCEPT ![current] = Append(@, record)] ELSE memFile
    BY <1>2, <1>4, <1>12, <2>5 DEF T!Written
  <2>7. /\ sassFile'[current] = Append(file, record)
        /\ memFile'[current] = IF IsMem(record.index) THEN Append(memFile[current], record)
                               ELSE memFile[current]
        /\ \A k \in T!Kernels : k # current => sassFile'[k] = sassFile[k]
                                               /\ memFile'[k] = memFile[k]
    BY <1>1, <1>4, <2>6 DEF TracerTypes, file
  <2>8. /\ Append(file, record) \in Seq(T!Records)
        /\ Append(memFile[current], record) \in Seq(T!Records)
    BY <1>6, <2>1, AppendProperties
  <2>9. TracerTypes'
    <3>1. sassFile' \in [T!Kernels -> Seq(T!Records)]
      BY <1>1, <1>4, <2>6, <2>8 DEF TracerTypes, file
    <3>2. memFile' \in [T!Kernels -> Seq(T!Records)]
      BY <1>1, <1>4, <2>6, <2>8 DEF TracerTypes
    <3>. QED BY <1>1, <1>2, <1>9, <2>6, <3>1, <3>2 DEF TracerTypes
  <2>10. Handshake'
    BY <1>1, <1>2, <1>3, <1>5, <2>6 DEF Handshake, T!KernelDone
  <2>11. Flow'
    <3>1. EndSent' = EndSent
      BY <1>2, <2>6 DEF EndSent
    <3>2. Pushed' = Pushed
      BY <1>2, <1>3 DEF Pushed
    <3>3. Along(Append(file, record), Tail(recv_buffer), doorbell, channel_dev)
             = Along(file, recv_buffer, doorbell, channel_dev)
      BY <1>2, <1>6, <1>9, Moves DEF record, InParts
    <3>4. OnTheWay' = OnTheWay
      BY <1>2, <1>3, <2>6, <2>7, <3>3 DEF OnTheWay, file
    <3>. QED BY <1>2, <1>7, <3>1, <3>2, <3>4 DEF Flow, Stream
  <2>12. OtherFiles'
    <3>1. Closed' = Closed /\ Closed = current - 1
      BY <1>2, <1>3, <1>4 DEF Closed
    <3>2. \A k \in 1 .. Closed : k \in T!Kernels /\ k # current
      BY <1>4, <3>1 DEF T!Kernels
    <3>3. \A k \in 1 .. Closed : CompleteFiles(k)'
      BY <1>1, <1>2, <2>7, <3>2 DEF OtherFiles, CompleteFiles
    <3>4. \A k \in T!Kernels : k > Len(launched) => k # current
      BY <1>4 DEF T!Kernels
    <3>. QED BY <1>1, <1>2, <2>7, <3>1, <3>3, <3>4 DEF OtherFiles
  <2>13. MemoryFile'
    <3>1. T!Range(Append(file, record)) = T!Range(file) \union {record}
      BY <1>6, <2>1, RangeOfAppend
    <3>2. T!Holds(memFile[current], MemoryRecords(file))
      BY <1>1, <1>3 DEF MemoryFile, file
    <3>3. CASE IsMem(record.index)
      <4>1. MemoryRecords(Append(file, record)) = MemoryRecords(file) \union {record}
        BY <3>1, <3>3 DEF MemoryRecords
      <4>2. ASSUME NEW q \in MemoryRecords(file), q.warp = record.warp
            PROVE  q.index < record.index
        <5>1. DOMAIN file = 1 .. Len(file)
          BY <1>6, LenProperties
        <5>2. PICK i \in 1 .. Len(file) : q = file[i]
          BY <4>2, <5>1 DEF MemoryRecords, T!Range
        <5>3. i \in 1 .. Len(s) /\ i < Len(file) + 1 /\ q = s[i]
          BY <2>3, <5>2
        <5>. QED BY <1>7, <2>2, <2>3, <4>2, <5>3 DEF T!Holds, T!InOrder
      <4>3. \A q \in T!Records : q.index \in Int
        BY RecordFacts
      <4>4. record.index \in Int
        BY <2>1, <4>3
      <4>5. T!Holds(Append(memFile[current], record), MemoryRecords(file) \union {record})
        BY <1>6, <2>1, <3>2, <4>2, <4>3, <4>4, HoldsMore
      <4>. QED BY <1>3, <2>7, <3>3, <4>1, <4>5 DEF MemoryFile
    <3>4. CASE ~IsMem(record.index)
      <4>1. MemoryRecords(Append(file, record)) = MemoryRecords(file)
        BY <3>1, <3>4 DEF MemoryRecords
      <4>. QED BY <1>3, <2>7, <3>2, <3>4, <4>1 DEF MemoryFile
    <3>. QED BY <3>3, <3>4
  <2>14. Numbered' /\ Quiet'
    BY <1>1, <1>2, <1>3 DEF Numbered, Quiet
  <2>. QED BY <2>9, <2>10, <2>11, <2>12, <2>13, <2>14 DEF FilesInv
<1>. QED BY <1>11, <1>12

(* The exit of a launch: all records have arrived, so its files are        *)
(* complete.                                                               *)
LEMMA LaunchExitStep ==
    ASSUME T!TracerAssumption, FilesInv, T!LaunchExit
    PROVE  FilesInv'
<1>1. TracerTypes /\ Numbered /\ OtherFiles /\ Quiet /\ Handshake /\ Flow /\ MemoryFile
  BY DEF FilesInv
<1>2. /\ app = "wait" /\ app' = "idle" /\ ~recv_thread_receiving
      /\ statsFile' = [statsFile EXCEPT ![current] = reported - old_reported]
      /\ old_reported' = reported
      /\ open' = IF stop_report THEN open ELSE 0
      /\ active_region' = (active_region /\ ~T!RegionEnds)
      /\ UNCHANGED <<options, profiling, launched, first_call, stop_report, kernelid,
                     recv_thread_receiving, recv_buffer, channel_dev, doorbell, next, reported,
                     sassFile, memFile>>
  BY DEF T!LaunchExit, T!Received, T!ReportedByKernel, T!thread_vars, T!channel_vars, current
<1>3. InLaunch /\ ~InLaunch' /\ current' = current
  BY <1>2 DEF InLaunch, current
<1>4. current \in T!Kernels /\ current = Len(launched) /\ NumKernels \in Nat
  BY <1>1, <1>3, KernelNumbers
<1>5. /\ ChannelEmpty /\ open = IF stop_report THEN 0 ELSE current
      /\ launched[current].traced = ~stop_report /\ T!KernelDone
  BY <1>1, <1>2, <1>3 DEF Handshake
<1>6. PICK s \in Seq(T!Records) :
         T!Holds(s, Pushed) /\ Len(s) = reported - old_reported /\ OnTheWay = Stream(s)
  BY <1>1, <1>3 DEF Flow
<1>7. sassFile[current] \in Seq(T!Records) /\ memFile[current] \in Seq(T!Records)
  BY <1>1, <1>4 DEF TracerTypes
<1>8. sassFile[current] = s
  <2>1. OnTheWay = s
    BY <1>2, <1>6 DEF Stream, EndSent
  <2>2. OnTheWay = sassFile[current] \o << >> \o << >> \o << >>
    BY <1>5 DEF OnTheWay, Along, ChannelEmpty
  <2>. QED BY <1>7, <2>1, <2>2, ConcatEmptySeq
<1>9. /\ T!Holds(sassFile[current], Pushed)
      /\ T!Holds(memFile[current], {r \in Pushed : IsMem(r.index)})
  <2>1. T!Holds(sassFile[current], Pushed) /\ T!Range(sassFile[current]) = Pushed
    BY <1>6, <1>8 DEF T!Holds
  <2>2. T!Holds(memFile[current], MemoryRecords(sassFile[current]))
    BY <1>1, <1>3 DEF MemoryFile
  <2>3. MemoryRecords(sassFile[current]) = {r \in Pushed : IsMem(r.index)}
    BY <2>1 DEF MemoryRecords
  <2>. QED BY <2>1, <2>2, <2>3
<1>10. statsFile'[current] = Len(sassFile[current])
  BY <1>1, <1>2, <1>4, <1>6, <1>8 DEF TracerTypes
<1>11. CompleteFiles(current)'
  <2>1. CASE stop_report
    <3>1. Pushed = {} /\ {r \in Pushed : IsMem(r.index)} = {}
      BY <2>1 DEF Pushed
    <3>2. sassFile[current] = << >> /\ memFile[current] = << >>
      BY <1>7, <1>9, <3>1, HoldsNothing
    <3>3. Len(sassFile[current]) = 0
      BY <3>2, EmptySeq
    <3>4. ~launched[current].traced
      BY <1>5, <2>1
    <3>. QED BY <1>2, <1>3, <1>10, <3>2, <3>3, <3>4 DEF CompleteFiles
  <2>2. CASE ~stop_report
    <3>1. ASSUME NEW r \in T!Records
          PROVE  r.index < next[r.warp]
      <4>1. r.warp \in Warps /\ r.index \in 1 .. NumInsts /\ NumInsts \in Nat
        BY RecordFacts DEF T!TracerAssumption
      <4>2. next[r.warp] > NumInsts /\ next[r.warp] \in Nat
        BY <1>1, <1>5, <4>1 DEF T!KernelDone, TracerTypes
      <4>. QED BY <4>1, <4>2
    <3>2. Pushed = T!RecordsOf(current)
      BY <2>2, <3>1 DEF Pushed, T!RecordsOf
    <3>3. launched[current].traced
      BY <1>5, <2>2
    <3>. QED BY <1>2, <1>3, <1>9, <1>10, <3>2, <3>3 DEF CompleteFiles
  <2>. QED BY <2>1, <2>2
<1>12. TracerTypes'
  <2>1. statsFile' \in [T!Kernels -> Int]
    BY <1>1, <1>2, <1>4 DEF TracerTypes
  <2>2. active_region' \in BOOLEAN
    BY <1>2
  <2>3. open' \in Int
    BY <1>1, <1>2 DEF TracerTypes
  <2>. QED BY <1>1, <1>2, <2>1, <2>2, <2>3 DEF TracerTypes
<1>13. Numbered'
  BY <1>1, <1>2, <1>3 DEF Numbered
<1>14. OtherFiles'
  <2>1. Closed' = current /\ Closed = current - 1
    BY <1>2, <1>3, <1>4 DEF Closed
  <2>2. \A k \in T!Kernels : k # current => statsFile'[k] = statsFile[k]
    BY <1>1, <1>2 DEF TracerTypes
  <2>3. ASSUME NEW k \in 1 .. current PROVE CompleteFiles(k)'
    <3>1. k \in T!Kernels
      BY <1>4, <2>3 DEF T!Kernels
    <3>2. CASE k = current
      BY <1>3, <1>11, <3>2 DEF CompleteFiles
    <3>3. CASE k # current
      <4>1. k \in 1 .. Closed
        BY <1>4, <2>1, <3>1, <3>3 DEF T!Kernels
      <4>. QED BY <1>1, <1>2, <2>2, <3>1, <3>3, <4>1 DEF OtherFiles, CompleteFiles
    <3>. QED BY <3>2, <3>3
  <2>4. ASSUME NEW k \in T!Kernels, k > current PROVE statsFile'[k] = -1
    <3>1. k # current /\ k > Closed
      BY <1>4, <2>1, <2>4 DEF T!Kernels
    <3>. QED BY <1>1, <2>2, <3>1 DEF OtherFiles
  <2>. QED BY <1>1, <1>2, <2>1, <2>3, <2>4 DEF OtherFiles
<1>15. Quiet'
  BY <1>2, <1>5 DEF Quiet, ChannelEmpty
<1>. QED BY <1>3, <1>12, <1>13, <1>14, <1>15 DEF FilesInv, Handshake, Flow, MemoryFile

LEMMA FilesStep ==
    ASSUME T!TracerAssumption, FilesInv, [T!Next]_T!vars
    PROVE  FilesInv'
<1>1. CASE T!Application
  <2>1. T!LaunchEntry \/ ~T!LaunchEntry
    OBVIOUS
  <2>. QED BY <1>1, LaunchEntryStep, OutsideStep DEF T!Application
<1>2. CASE T!Callback
  BY <1>2, MoveStep, LaunchExitStep, OutsideStep DEF T!Callback
<1>3. CASE T!Device
  BY <1>3, PushStep, MoveStep, FlushStep DEF T!Device
<1>4. CASE T!Receiver
  BY <1>4, MoveStep, ProcessStep DEF T!Receiver
<1>5. CASE T!Ended \/ UNCHANGED T!vars
  <2>1. UNCHANGED T!vars
    BY <1>5 DEF T!Ended
  <2>. QED BY <2>1, FilesInvKept
       DEF FlowVars, T!vars, T!app_vars, T!control_vars, T!thread_vars, T!channel_vars, T!file_vars
<1>. QED BY <1>1, <1>2, <1>3, <1>4, <1>5 DEF T!Next

LEMMA FilesInvAlways == T!TracerAssumption => (T!Spec => []FilesInv)
<1>. SUFFICES ASSUME T!TracerAssumption PROVE T!Spec => []FilesInv
  OBVIOUS
<1>1. T!Init => FilesInv
  BY FilesInvInit
<1>2. FilesInv /\ [T!Next]_T!vars => FilesInv'
  BY FilesStep
<1>. QED BY <1>1, <1>2, PTL DEF T!Spec

(* The files of a kernel that is traced, once they are closed, hold every  *)
(* instruction of every one of its warps once and in the warp's order, and *)
(* nothing else: the callback waits for all that is on its way before it   *)
(* closes them (LaunchFlush to LaunchExit, Process).  For every number of  *)
(* kernels, warps and instructions and every capacity of the channel.      *)
THEOREM FilesCorrect == T!TracerAssumption => (T!Spec => []FilesComplete)
<1>. SUFFICES ASSUME T!TracerAssumption PROVE T!Spec => []FilesComplete
  OBVIOUS
<1>1. FilesInv => FilesComplete
  <2>. SUFFICES ASSUME FilesInv PROVE T!FilesComplete
    BY DEF FilesComplete
  <2>1. TracerTypes /\ Numbered /\ OtherFiles /\ Quiet /\ Handshake
    BY DEF FilesInv
  <2>2. current \in Int /\ current # -1
    BY <2>1, KernelNumbers
  <2>3. open # T!NoFile
    BY <2>1, <2>2 DEF Quiet, Handshake, T!NoFile
  <2>4. ASSUME NEW k \in 1 .. Len(launched), statsFile[k] # -1
        PROVE  CompleteFiles(k)
    <3>1. NumKernels \in Nat /\ Len(launched) \in Nat
      BY <2>1, KernelNumbers
    <3>2. k \in T!Kernels
      BY <2>1, <3>1 DEF T!Kernels, Numbered
    <3>3. ~(k > Closed)
      BY <2>1, <2>4, <3>2 DEF OtherFiles
    <3>4. k \in 1 .. Closed
      BY <3>1, <3>3 DEF Closed
    <3>. QED BY <2>1, <3>4 DEF OtherFiles
  <2>. QED BY <2>3, <2>4 DEF CompleteFiles, T!FilesComplete
<1>2. T!Spec => []FilesInv
  BY FilesInvAlways
<1>. QED BY <1>1, <1>2, PTL

----
(* The region of interest.  Before the first call nothing has happened;    *)
(* from then on active_region follows the profiler, or the number of the   *)
(* launch that is under way or comes next.                                 *)
InRegion(k) ==
    options.limit_start <= k /\ (options.limit_end = 0 \/ k <= options.limit_end)

(* The start is not past the end, as the code assumes.                     *)
LimitsOrdered ==
    options.active_from_start /\ (options.limit_end = 0 \/ options.limit_start <= options.limit_end)

(* Between launches: the start was reached before the next launch, and the *)
(* end was not passed.                                                     *)
RegionEntered == options.limit_start <= 1 \/ options.limit_start < kernelid
RegionLeft == options.limit_end # 0 /\ kernelid > options.limit_end

RegionInv ==
    /\ first_call =>
          kernelid = 1 /\ active_region = options.active_from_start /\ profiling = FALSE
    /\ InLaunch => ~first_call /\ stop_report = ~active_region
    /\ ~options.active_from_start /\ options.limit_start # 1 => active_region = profiling
    /\ LimitsOrdered =>
          /\ InLaunch => (active_region <=> InRegion(current))
          /\ ~InLaunch /\ app # "exit" /\ ~first_call =>
                (active_region <=> RegionEntered /\ ~RegionLeft)
    /\ T!RegionHonoured

LEMMA RegionInvInit == ASSUME T!TracerAssumption, T!Init PROVE RegionInv
<1>1. /\ first_call = TRUE /\ active_region = options.active_from_start /\ kernelid = 1
      /\ profiling = FALSE /\ launched = << >>
  BY DEF T!Init
<1>2. ~InLaunch
  BY ZenonT(30) DEF T!Init, InLaunch
<1>3. T!RegionHonoured
  <2>1. Len(launched) = 0
    BY <1>1, EmptySeq
  <2>2. \A k : k \notin 1 .. Len(launched)
    BY <2>1
  <2>. QED BY <2>2, Zenon DEF T!RegionHonoured
<1>4. ~options.active_from_start => active_region = profiling
  <2>1. options.active_from_start \in BOOLEAN
    BY DEF T!Init, T!Options
  <2>. QED BY <1>1, <2>1
<1>. QED BY <1>1, <1>2, <1>3, <1>4, Zenon DEF RegionInv

(* What the options are.                                                   *)
LEMMA OptionTypes ==
    ASSUME T!TracerAssumption, TracerTypes
    PROVE  /\ options.active_from_start \in BOOLEAN
           /\ options.limit_start \in Nat /\ options.limit_end \in Nat
BY DEF T!TracerAssumption, TracerTypes, T!Options

LEMMA RegionStep ==
    ASSUME T!TracerAssumption, TracerTypes, Numbered, RegionInv, [T!Next]_T!vars
    PROVE  RegionInv'
<1>1. /\ options.active_from_start \in BOOLEAN
      /\ options.limit_start \in Nat /\ options.limit_end \in Nat
  BY OptionTypes
<1>2. /\ first_call \in BOOLEAN /\ active_region \in BOOLEAN /\ profiling \in BOOLEAN
      /\ kernelid \in Nat /\ current = Len(launched) /\ Len(launched) \in Nat
      /\ kernelid = Len(launched) + 1
  BY KernelNumbers DEF TracerTypes, Numbered
<1>3. ASSUME UNCHANGED <<options, launched>>
      PROVE  T!RegionHonoured'
  BY <1>3 DEF RegionInv, T!RegionHonoured
<1>4. CASE T!LaunchEntry
  <2>1. /\ app = "idle" /\ app' = "kernel" /\ first_call' = FALSE
        /\ active_region' = T!RegionAtLaunch
        /\ stop_report' = ~active_region'
        /\ launched' = Append(launched, [traced |-> ~stop_report', profiled |-> profiling])
        /\ kernelid' = kernelid + 1
        /\ UNCHANGED <<options, profiling>>
    BY <1>4 DEF T!LaunchEntry
  <2>2. ~InLaunch /\ InLaunch' /\ current' = kernelid
    BY <1>2, <2>1 DEF InLaunch, current
  <2>3. active_region' \in BOOLEAN
    BY <1>1, <1>2, <2>1 DEF T!RegionAtFirstCall, T!RegionAtLaunch
  <2>4. ~options.active_from_start /\ options.limit_start # 1 => active_region' = profiling
    BY <1>1, <1>2, <2>1 DEF RegionInv, T!RegionAtFirstCall, T!RegionAtLaunch
  <2>5. LimitsOrdered => (active_region' <=> InRegion(kernelid))
    <3>. SUFFICES ASSUME LimitsOrdered PROVE active_region' <=> InRegion(kernelid)
      OBVIOUS
    <3>1. CASE first_call
      <4>1. kernelid = 1
        BY <3>1 DEF RegionInv
      <4>. QED BY <1>1, <2>1, <3>1, <4>1
           DEF LimitsOrdered, InRegion, T!RegionAtFirstCall, T!RegionAtLaunch
    <3>2. CASE ~first_call
      <4>1. active_region <=> RegionEntered /\ ~RegionLeft
        BY <2>1, <2>2, <3>2 DEF RegionInv
      <4>. QED BY <1>1, <1>2, <2>1, <3>2, <4>1
           DEF LimitsOrdered, InRegion, T!RegionAtFirstCall, T!RegionAtLaunch, RegionEntered,
               RegionLeft
    <3>. QED BY <3>1, <3>2
  <2>6. T!RegionHonoured'
    <3>1. /\ Len(launched') = Len(launched) + 1
          /\ \A k \in 1 .. Len(launched) : launched'[k] = launched[k]
          /\ launched'[kernelid].traced <=> active_region'
          /\ launched'[kernelid].profiled = profiling
      <4>1. [traced |-> ~stop_report', profiled |-> profiling]
               \in [traced : BOOLEAN, profiled : BOOLEAN]
        BY <1>2, <2>1
      <4>2. launched \in Seq([traced : BOOLEAN, profiled : BOOLEAN])
        BY DEF TracerTypes
      <4>3. /\ Len(launched') = Len(launched) + 1
            /\ \A k \in 1 .. Len(launched) : launched'[k] = launched[k]
            /\ launched'[kernelid] = [traced |-> ~stop_report', profiled |-> profiling]
        BY <1>2, <2>1, <4>1, <4>2, AppendProperties
      <4>4. launched'[kernelid].traced = ~stop_report' /\ launched'[kernelid].profiled = profiling
        BY <4>3
      <4>5. launched'[kernelid].traced <=> active_region'
        BY <2>1, <4>4, Zenon
      <4>. QED BY <4>3, <4>4, <4>5
    <3>2. ASSUME NEW k \in 1 .. Len(launched')
          PROVE  IF options.active_from_start
                 THEN options.limit_end = 0 \/ options.limit_start <= options.limit_end =>
                         (launched'[k].traced <=> InRegion(k))
                 ELSE options.limit_start # 1 =>
                         (launched'[k].traced <=> launched'[k].profiled)
      <4>1. CASE k \in 1 .. Len(launched)
        BY <3>1, <4>1 DEF RegionInv, T!RegionHonoured, InRegion
      <4>2. CASE k = kernelid
        BY <1>1, <2>3, <2>4, <2>5, <3>1, <4>2 DEF LimitsOrdered
      <4>. QED BY <1>2, <3>1, <4>1, <4>2
    <3>. QED BY <2>1, <3>2 DEF T!RegionHonoured, InRegion
  <2>7. LimitsOrdered' <=> LimitsOrdered
    BY <2>1 DEF LimitsOrdered
  <2>8. InRegion(kernelid) <=> InRegion(current)'
    BY <2>1, <2>2 DEF InRegion
  <2>. QED BY <2>1, <2>2, <2>4, <2>5, <2>6, <2>7, <2>8 DEF RegionInv
<1>5. CASE (\E on \in BOOLEAN : T!ProfilerSwitch(on)) \/ T!OtherCall
  <2>1. /\ app = "idle" /\ app' = app /\ first_call' = FALSE
        /\ UNCHANGED <<options, launched, stop_report, kernelid>>
        /\ \/ /\ profiling' \in BOOLEAN
              /\ active_region' = IF options.active_from_start THEN T!RegionAtFirstCall
                                  ELSE profiling'
           \/ profiling' = profiling /\ active_region' = T!RegionAtFirstCall /\ first_call
    BY <1>5 DEF T!ProfilerSwitch, T!OtherCall, T!app_vars
  <2>2. ~InLaunch /\ ~InLaunch'
    BY <2>1 DEF InLaunch
  <2>3. ~options.active_from_start /\ options.limit_start # 1 => active_region' = profiling'
    BY <1>1, <1>2, <2>1 DEF RegionInv, T!RegionAtFirstCall
  <2>4. LimitsOrdered => (active_region' <=> RegionEntered /\ ~RegionLeft)
    <3>. SUFFICES ASSUME LimitsOrdered
                  PROVE  active_region' <=> RegionEntered /\ ~RegionLeft
      OBVIOUS
    <3>1. active_region' = T!RegionAtFirstCall
      BY <2>1 DEF LimitsOrdered
    <3>2. CASE first_call
      <4>1. kernelid = 1
        BY <3>2 DEF RegionInv
      <4>. QED BY <1>1, <3>1, <3>2, <4>1
           DEF LimitsOrdered, T!RegionAtFirstCall, RegionEntered, RegionLeft
    <3>3. CASE ~first_call
      BY <2>1, <2>2, <3>1, <3>3 DEF RegionInv, T!RegionAtFirstCall
    <3>. QED BY <3>2, <3>3
  <2>5. LimitsOrdered' = LimitsOrdered /\ RegionEntered' = RegionEntered /\ RegionLeft' = RegionLeft
    BY <2>1 DEF LimitsOrdered, RegionEntered, RegionLeft
  <2>. QED BY <1>3, <2>1, <2>2, <2>3, <2>4, <2>5 DEF RegionInv
<1>6. CASE T!Terminate
  <2>1. /\ app = "idle" /\ app' = "exit" /\ first_call' = FALSE
        /\ active_region' = T!RegionAtLaunch
        /\ UNCHANGED <<options, launched, profiling, stop_report, kernelid>>
    BY <1>6 DEF T!Terminate
  <2>2. ~InLaunch'
    BY <2>1 DEF InLaunch
  <2>3. ~options.active_from_start /\ options.limit_start # 1 => active_region' = profiling'
    BY <1>1, <1>2, <2>1 DEF RegionInv, T!RegionAtFirstCall, T!RegionAtLaunch
  <2>. QED BY <1>3, <2>1, <2>2, <2>3 DEF RegionInv
<1>7. CASE T!LaunchExit
  <2>1. /\ app = "wait" /\ app' = "idle"
        /\ active_region' = (active_region /\ ~T!RegionEnds)
        /\ UNCHANGED <<options, launched, profiling, first_call, stop_report, kernelid>>
    BY <1>7 DEF T!LaunchExit
  <2>2. InLaunch /\ ~InLaunch' /\ ~first_call
    BY <2>1 DEF InLaunch, RegionInv
  <2>3. ~options.active_from_start /\ options.limit_start # 1 => active_region' = profiling'
    BY <1>1, <1>2, <2>1 DEF RegionInv, T!RegionEnds
  <2>4. LimitsOrdered => (active_region' <=> RegionEntered /\ ~RegionLeft)
    <3>. SUFFICES ASSUME LimitsOrdered
                  PROVE  active_region' <=> RegionEntered /\ ~RegionLeft
      OBVIOUS
    <3>1. active_region <=> InRegion(current)
      BY <2>2 DEF RegionInv
    <3>2. current = kernelid - 1 /\ kernelid >= 2
      BY <1>2, <2>2 DEF Numbered, current
    <3>3. options.limit_start <= current <=> RegionEntered
      BY <1>1, <1>2, <3>2 DEF RegionEntered
    <3>4. ~RegionLeft => options.limit_end = 0 \/ current <= options.limit_end
      BY <1>1, <1>2, <3>2 DEF RegionLeft
    <3>5. active_region' <=> active_region /\ ~RegionLeft
      BY <2>1 DEF LimitsOrdered, T!RegionEnds, RegionLeft
    <3>. QED BY <3>1, <3>3, <3>4, <3>5 DEF InRegion
  <2>5. LimitsOrdered' = LimitsOrdered /\ RegionEntered' = RegionEntered /\ RegionLeft' = RegionLeft
    BY <2>1 DEF LimitsOrdered, RegionEntered, RegionLeft
  <2>. QED BY <1>3, <2>1, <2>2, <2>3, <2>4, <2>5 DEF RegionInv
<1>8. CASE /\ UNCHANGED <<options, launched, profiling, T!control_vars>>
           /\ InLaunch' <=> InLaunch
           /\ app' = "exit" <=> app = "exit"
  <2>1. current' = current /\ LimitsOrdered' = LimitsOrdered /\ RegionEntered' = RegionEntered
        /\ RegionLeft' = RegionLeft /\ \A k : InRegion(k)' <=> InRegion(k)
    BY <1>8 DEF current, LimitsOrdered, RegionEntered, RegionLeft, InRegion, T!control_vars
  <2>. QED BY <1>3, <1>8, <2>1 DEF RegionInv, T!control_vars
<1>9. CASE T!CtxInit \/ T!CtxTerm \/ T!CtxJoin \/ T!LaunchFlush \/ T!FlushDone \/ T!flush_channel
  BY <1>8, <1>9 DEF T!CtxInit, T!CtxTerm, T!CtxJoin, T!LaunchFlush, T!FlushDone, T!flush_channel,
     InLaunch
<1>10. CASE (\E w \in Warps : T!Push(w)) \/ T!HandOver \/ T!Receiver \/ UNCHANGED T!vars
  BY <1>8, <1>10 DEF T!Push, T!HandOver, T!Receiver, T!Receive, T!Process, T!ReceiverEnds,
     T!app_vars, T!vars, InLaunch
<1>. QED BY <1>4, <1>5, <1>6, <1>7, <1>9, <1>10
     DEF T!Next, T!Application, T!Callback, T!Device, T!Ended

(* The kernels of the region the user asked for, and only these, are       *)
(* traced: active_region and stop_report, which several callbacks set,     *)
(* follow the limits or the profiler, for any limits and any use of the    *)
(* profiler.                                                               *)
THEOREM RegionCorrect == T!TracerAssumption => (T!Spec => []RegionHonoured)
<1>. SUFFICES ASSUME T!TracerAssumption PROVE T!Spec => []RegionHonoured
  OBVIOUS
<1>1. T!Spec => []FilesInv
  BY FilesInvAlways
<1>2. T!Init => RegionInv
  BY RegionInvInit
<1>3. FilesInv /\ RegionInv /\ [T!Next]_T!vars => RegionInv'
  BY RegionStep DEF FilesInv
<1>4. RegionInv => RegionHonoured
  BY DEF RegionInv, RegionHonoured
<1>. QED BY <1>1, <1>2, <1>3, <1>4, PTL DEF T!Spec

----
(***************************************************************************)
(* The checkpoint tool.                                                    *)
(***************************************************************************)

(* The allocation or the free has been made, its exit callback is to come. *)
Made(call) == C!In(call, "exit")

(* The tracker is odd exactly while an allocation or a free is between its *)
(* two callbacks, so that every second callback is an exit.                *)
Parity ==
    callback_tracker =
       IF app_call.call \in {"alloc", "free"} /\ app_call.at \in {"driver", "exit"} THEN 1 ELSE 0

(* The live allocations, each with a number of its own.                    *)
Serials ==
    /\ allocs \in Nat
    /\ \A a \in DOMAIN memory :
          /\ memory[a] \in [size : Sizes, data : Data, serial : Nat]
          /\ memory[a].serial < allocs
    /\ \A a, b \in DOMAIN memory : memory[a].serial = memory[b].serial => a = b

(* What the map lags behind by.                                            *)
TrackedAddresses ==
    IF Made("alloc") THEN DOMAIN memory \ {app_call.address}
    ELSE IF Made("free") THEN DOMAIN memory \union {app_call.address}
    ELSE DOMAIN memory

Tracked ==
    /\ tracking_map = [a \in TrackedAddresses |-> tracking_map[a]]
    /\ \A a \in TrackedAddresses :
          a \in DOMAIN memory =>
             tracking_map[a] = [number |-> memory[a].serial, size |-> memory[a].size]
    /\ Made("alloc") => /\ app_call.address \in DOMAIN memory
                        /\ memory[app_call.address].serial = alloc_count
    /\ Made("free") => app_call.address \notin DOMAIN memory
    /\ allocs = IF Made("alloc") THEN alloc_count + 1 ELSE alloc_count

(* The files of a kernel that has ended are written at the exit of its     *)
(* launch, until when the memory stays as the kernel left it.              *)
LastKernel ==
    [f \in {<<kernel_id, memory[a].serial>> : a \in DOMAIN memory} |->
        LET a == CHOOSE b \in DOMAIN memory : memory[b].serial = f[2]
        IN  [size |-> memory[a].size, data |-> memory[a].data]]

Saved ==
    /\ kernel_id \in Nat /\ alloc_count \in Nat
    /\ device_runs \in BOOLEAN
    /\ device_runs => Made("launch")
    /\ IF Made("launch") /\ ~device_runs
       THEN launches = kernel_id + 1 /\ wanted = C!Over(files, LastKernel)
       ELSE launches = kernel_id /\ wanted = files

SnapshotInv == Parity /\ Serials /\ Tracked /\ Saved

LEMMA SnapshotInit == ASSUME C!Init PROVE SnapshotInv
<1>1. /\ app_call.call = "none" /\ app_call.at = "none"
      /\ memory = << >> /\ tracking_map = << >> /\ files = << >> /\ wanted = << >>
      /\ allocs = 0 /\ launches = 0 /\ device_runs = FALSE
      /\ callback_tracker = 0 /\ alloc_count = 0 /\ kernel_id = 0
  BY DEF C!Init, C!Idle
<1>2. ~Made("alloc") /\ ~Made("free") /\ ~Made("launch")
  BY <1>1 DEF Made, C!In
<1>3. DOMAIN memory = {} /\ TrackedAddresses = {}
  BY <1>1, <1>2 DEF TrackedAddresses
<1>4. tracking_map = [a \in {} |-> tracking_map[a]]
  BY <1>1
<1>. QED BY <1>1, <1>2, <1>3, <1>4 DEF SnapshotInv, Parity, Serials, Tracked, Saved

(* The application makes a call; the exit of a launch is still to come.    *)
LEMMA CallKeeps ==
    ASSUME SnapshotInv, NEW call, C!Call(call)
    PROVE  SnapshotInv'
<1>1. /\ app_call.call = "none" /\ app_call.at = "none"
      /\ app_call'.call = call /\ app_call'.at = "entry"
      /\ UNCHANGED <<memory, allocs, launches, device_runs, wanted, callback_tracker, alloc_count,
                     kernel_id, tracking_map, files>>
  BY DEF C!Call, C!Idle, C!tool_vars
<1>2. /\ ~Made("alloc") /\ ~Made("free") /\ ~Made("launch")
      /\ ~Made("alloc")' /\ ~Made("free")' /\ ~Made("launch")'
  BY <1>1 DEF Made, C!In
<1>3. TrackedAddresses' = TrackedAddresses /\ LastKernel' = LastKernel
  BY <1>1, <1>2 DEF TrackedAddresses, LastKernel
<1>4. Parity' /\ Serials'
  BY <1>1 DEF SnapshotInv, Parity, Serials
<1>. QED BY <1>1, <1>2, <1>3, <1>4 DEF SnapshotInv, Tracked, Saved

(* The driver allocates at an address where nothing lives.                 *)
LEMMA DoAllocKeeps ==
    ASSUME SnapshotInv, NEW a, NEW size \in Sizes, NEW data \in Data, C!DoAlloc(a, size, data)
    PROVE  SnapshotInv'
<1>. DEFINE new == [size |-> size, data |-> data, serial |-> allocs]
<1>1. /\ app_call.call = "alloc" /\ app_call.at = "driver"
      /\ a \notin DOMAIN memory
      /\ memory' = C!With(memory, a, new)
      /\ allocs' = allocs + 1
      /\ app_call' = [call |-> "alloc", at |-> "exit", address |-> a]
      /\ UNCHANGED <<launches, device_runs, wanted, callback_tracker, alloc_count, kernel_id,
                     tracking_map, files>>
  BY DEF C!DoAlloc, C!In, C!tool_vars
<1>2. /\ ~Made("alloc") /\ ~Made("free") /\ ~Made("launch")
      /\ Made("alloc")' /\ ~Made("free")' /\ ~Made("launch")' /\ app_call'.address = a
  BY <1>1 DEF Made, C!In
<1>3. Parity /\ Serials /\ Tracked /\ Saved
  BY DEF SnapshotInv
<1>4. allocs \in Nat /\ allocs = alloc_count
  BY <1>2, <1>3 DEF Serials, Tracked
<1>5. new \in [size : Sizes, data : Data, serial : Nat] /\ new.serial = allocs
  BY <1>4
<1>. HIDE DEF new
<1>6. DOMAIN memory' = DOMAIN memory \union {a} /\ memory'[a] = new
      /\ \A b \in DOMAIN memory : memory'[b] = memory[b] /\ b # a
  BY <1>1 DEF C!With
<1>7. Parity'
  BY <1>1, <1>3 DEF Parity
<1>8. Serials'
  <2>1. ASSUME NEW b \in DOMAIN memory'
        PROVE  /\ memory'[b] \in [size : Sizes, data : Data, serial : Nat]
               /\ memory'[b].serial < allocs'
               /\ b # a => memory'[b].serial < allocs /\ b \in DOMAIN memory
    <3>1. CASE b = a
      BY <1>1, <1>4, <1>5, <1>6, <3>1
    <3>2. CASE b # a
      <4>1. b \in DOMAIN memory /\ memory'[b] = memory[b]
        BY <1>6, <3>2
      <4>2. memory[b] \in [size : Sizes, data : Data, serial : Nat] /\ memory[b].serial < allocs
        BY <1>3, <4>1 DEF Serials
      <4>3. memory[b].serial \in Nat
        BY <4>2
      <4>. QED BY <1>1, <1>4, <4>1, <4>2, <4>3
    <3>. QED BY <3>1, <3>2
  <2>2. ASSUME NEW b \in DOMAIN memory', NEW c \in DOMAIN memory',
               memory'[b].serial = memory'[c].serial
        PROVE  b = c
    BY <1>3, <1>4, <1>5, <1>6, <2>1, <2>2 DEF Serials
  <2>. QED BY <1>1, <1>4, <2>1, <2>2 DEF Serials
<1>9. Tracked'
  <2>1. TrackedAddresses = DOMAIN memory /\ TrackedAddresses' = DOMAIN memory
    BY <1>1, <1>2, <1>6 DEF TrackedAddresses
  <2>. QED BY <1>1, <1>2, <1>3, <1>4, <1>5, <1>6, <2>1 DEF Tracked
<1>10. Saved'
  BY <1>1, <1>2, <1>3 DEF Saved
<1>. QED BY <1>7, <1>8, <1>9, <1>10 DEF SnapshotInv

LEMMA DoFreeKeeps ==
    ASSUME SnapshotInv, NEW a, C!DoFree(a)
    PROVE  SnapshotInv'
<1>1. /\ app_call.call = "free" /\ app_call.at = "driver"
      /\ a \in DOMAIN memory
      /\ memory' = C!Without(memory, a)
      /\ app_call' = [call |-> "free", at |-> "exit", address |-> a]
      /\ UNCHANGED <<allocs, launches, device_runs, wanted, callback_tracker, alloc_count,
                     kernel_id, tracking_map, files>>
  BY DEF C!DoFree, C!In, C!tool_vars
<1>2. /\ ~Made("alloc") /\ ~Made("free") /\ ~Made("launch")
      /\ ~Made("alloc")' /\ Made("free")' /\ ~Made("launch")' /\ app_call'.address = a
  BY <1>1 DEF Made, C!In
<1>3. Parity /\ Serials /\ Tracked /\ Saved
  BY DEF SnapshotInv
<1>4. DOMAIN memory' = DOMAIN memory \ {a} /\ \A b \in DOMAIN memory' : memory'[b] = memory[b]
  BY <1>1 DEF C!Without
<1>5. Parity' /\ Serials'
  BY <1>1, <1>3, <1>4 DEF Parity, Serials
<1>6. Tracked'
  <2>1. TrackedAddresses = DOMAIN memory /\ TrackedAddresses' = DOMAIN memory
    BY <1>1, <1>2, <1>4 DEF TrackedAddresses
  <2>. QED BY <1>1, <1>2, <1>3, <1>4, <2>1 DEF Tracked
<1>7. Saved'
  BY <1>1, <1>2, <1>3 DEF Saved
<1>. QED BY <1>5, <1>6, <1>7 DEF SnapshotInv

(* The kernel starts, writes to the memory and ends.                       *)
LEMMA DoLaunchKeeps ==
    ASSUME SnapshotInv, C!DoLaunch
    PROVE  SnapshotInv'
<1>1. /\ app_call.call = "launch" /\ app_call.at = "driver"
      /\ device_runs' = TRUE
      /\ app_call' = [call |-> "launch", at |-> "exit"]
      /\ UNCHANGED <<memory, allocs, launches, wanted, callback_tracker, alloc_count,
                     kernel_id, tracking_map, files>>
  BY DEF C!DoLaunch, C!In, C!tool_vars
<1>2. /\ ~Made("alloc") /\ ~Made("free") /\ ~Made("launch")
      /\ ~Made("alloc")' /\ ~Made("free")' /\ Made("launch")'
  BY <1>1 DEF Made, C!In
<1>3. Parity /\ Serials /\ Tracked /\ Saved
  BY DEF SnapshotInv
<1>4. TrackedAddresses' = TrackedAddresses
  BY <1>1, <1>2 DEF TrackedAddresses
<1>5. Parity' /\ Serials'
  BY <1>1, <1>3 DEF Parity, Serials
<1>6. Tracked' /\ Saved'
  BY <1>1, <1>2, <1>3, <1>4 DEF Tracked, Saved
<1>. QED BY <1>5, <1>6 DEF SnapshotInv

LEMMA StoreKeeps ==
    ASSUME SnapshotInv, NEW a, NEW data \in Data, C!Store(a, data)
    PROVE  SnapshotInv'
<1>1. /\ device_runs /\ a \in DOMAIN memory
      /\ memory' = [memory EXCEPT ![a].data = data]
      /\ UNCHANGED <<app_call, allocs, launches, device_runs, wanted, callback_tracker,
                     alloc_count, kernel_id, tracking_map, files>>
  BY DEF C!Store, C!tool_vars
<1>2. Parity /\ Serials /\ Tracked /\ Saved
  BY DEF SnapshotInv
<1>3. \A call : Made(call)' <=> Made(call)
  BY <1>1 DEF Made, C!In
<1>4. /\ DOMAIN memory' = DOMAIN memory
      /\ \A b \in DOMAIN memory : /\ memory'[b] \in [size : Sizes, data : Data, serial : Nat]
                                  /\ memory'[b].serial = memory[b].serial
                                  /\ memory'[b].size = memory[b].size
  <2>1. memory[a] \in [size : Sizes, data : Data, serial : Nat]
    BY <1>1, <1>2 DEF Serials
  <2>2. memory' = [memory EXCEPT ![a] = [memory[a] EXCEPT !.data = data]]
    BY <1>1
  <2>3. /\ [memory[a] EXCEPT !.data = data] \in [size : Sizes, data : Data, serial : Nat]
        /\ [memory[a] EXCEPT !.data = data].serial = memory[a].serial
        /\ [memory[a] EXCEPT !.data = data].size = memory[a].size
    BY <2>1
  <2>4. ASSUME NEW b \in DOMAIN memory
        PROVE  memory'[b] = IF b = a THEN [memory[a] EXCEPT !.data = data] ELSE memory[b]
    BY <2>2
  <2>5. DOMAIN memory' = DOMAIN memory
    BY <2>2
  <2>. QED BY <1>2, <2>3, <2>4, <2>5 DEF Serials
<1>5. TrackedAddresses' = TrackedAddresses
  BY <1>1, <1>3, <1>4 DEF TrackedAddresses
<1>6. Parity' /\ Serials'
  BY <1>1, <1>2, <1>4 DEF Parity, Serials
<1>7. Tracked'
  BY <1>1, <1>2, <1>3, <1>4, <1>5 DEF Tracked
<1>8. Saved'
  BY <1>1, <1>2, <1>3 DEF Saved
<1>. QED BY <1>6, <1>7, <1>8 DEF SnapshotInv

LEMMA KernelEndsKeeps ==
    ASSUME SnapshotInv, C!KernelEnds
    PROVE  SnapshotInv'
<1>1. Parity /\ Serials /\ Tracked /\ Saved
  BY DEF SnapshotInv
<1>2. /\ device_runs /\ device_runs' = FALSE /\ launches' = launches + 1
      /\ UNCHANGED <<app_call, memory, allocs, callback_tracker,
                     alloc_count, kernel_id, tracking_map, files>>
  BY DEF C!KernelEnds, C!tool_vars
<1>3. launches = kernel_id /\ wanted = files /\ Made("launch")
  BY <1>1, <1>2 DEF Saved
<1>4. wanted' = C!Over(files, LastKernel)
  BY <1>3 DEF C!KernelEnds, LastKernel
<1>5. \A call : Made(call)' <=> Made(call)
  BY <1>2 DEF Made, C!In
<1>6. TrackedAddresses' = TrackedAddresses /\ LastKernel' = LastKernel
  BY <1>2, <1>5 DEF TrackedAddresses, LastKernel
<1>7. Parity' /\ Serials' /\ Tracked'
  BY <1>1, <1>2, <1>5, <1>6 DEF Parity, Serials, Tracked
<1>8. Saved'
  BY <1>1, <1>2, <1>3, <1>4, <1>5, <1>6 DEF Saved, C!Over
<1>. QED BY <1>7, <1>8 DEF SnapshotInv

(* The callbacks.  The entry of an allocation or a free makes the tracker  *)
(* odd and does nothing else; the exit brings the map up to date.          *)
LEMMA EntryKeeps ==
    ASSUME SnapshotInv, app_call.at = "entry", C!AtAlloc \/ C!AtFree \/ C!AtLaunchEntry
    PROVE  SnapshotInv'
<1>1. Parity /\ Serials /\ Tracked /\ Saved
  BY DEF SnapshotInv
<1>2. /\ app_call'.call = app_call.call /\ app_call'.at = "driver"
      /\ UNCHANGED <<memory, allocs, launches, device_runs, wanted, alloc_count, kernel_id,
                     tracking_map, files>>
      /\ Parity'
  <2>1. CASE C!AtAlloc
    <3>1. app_call.call = "alloc" /\ callback_tracker = 0
      BY <1>1, <2>1 DEF C!AtAlloc, Parity
    <3>2. callback_tracker' = 1
      BY <2>1, <3>1 DEF C!AtAlloc, C!Tracked
    <3>3. ~C!TakenForExit /\ app_call' = [call |-> "alloc", at |-> "driver"]
      BY <2>1, <3>2 DEF C!AtAlloc, C!TakenForExit
    <3>. QED BY <2>1, <3>1, <3>2, <3>3 DEF C!AtAlloc, Parity
  <2>2. CASE C!AtFree
    <3>1. app_call.call = "free" /\ callback_tracker = 0
      BY <1>1, <2>2 DEF C!AtFree, Parity
    <3>2. callback_tracker' = 1
      BY <2>2, <3>1 DEF C!AtFree, C!Tracked
    <3>3. ~C!TakenForExit /\ app_call' = [call |-> "free", at |-> "driver"]
      BY <2>2, <3>2 DEF C!AtFree, C!TakenForExit
    <3>. QED BY <2>2, <3>1, <3>2, <3>3 DEF C!AtFree, Parity
  <2>3. CASE C!AtLaunchEntry
    BY <1>1, <2>3 DEF C!AtLaunchEntry, C!In, C!tool_vars, Parity
  <2>. QED BY <2>1, <2>2, <2>3
<1>3. \A call \in {"alloc", "free", "launch"} : ~Made(call) /\ ~Made(call)'
  BY <1>2 DEF Made, C!In
<1>4. TrackedAddresses' = TrackedAddresses
  BY <1>2, <1>3 DEF TrackedAddresses
<1>5. Serials' /\ Tracked' /\ Saved'
  BY <1>1, <1>2, <1>3, <1>4 DEF Serials, Tracked, Saved
<1>. QED BY <1>2, <1>5 DEF SnapshotInv

LEMMA AllocExitKeeps ==
    ASSUME SnapshotInv, app_call.at = "exit", C!AtAlloc
    PROVE  SnapshotInv'
<1>1. Parity /\ Serials /\ Tracked /\ Saved
  BY DEF SnapshotInv
<1>. DEFINE a == app_call.address
<1>2. app_call.call = "alloc" /\ callback_tracker = 1
  BY <1>1 DEF C!AtAlloc, Parity
<1>3. callback_tracker' = 0
  BY <1>2 DEF C!AtAlloc, C!Tracked
<1>4. /\ C!Inserted(a)
      /\ app_call' = C!Idle
      /\ UNCHANGED <<memory, allocs, launches, device_runs, wanted, kernel_id, files>>
  BY <1>3 DEF C!AtAlloc, C!TakenForExit
<1>5. /\ Made("alloc") /\ ~Made("free") /\ ~Made("launch")
      /\ ~Made("alloc")' /\ ~Made("free")' /\ ~Made("launch")'
  BY <1>2, <1>4 DEF Made, C!In, C!Idle
<1>6. /\ TrackedAddresses = DOMAIN memory \ {a} /\ TrackedAddresses' = DOMAIN memory
      /\ a \in DOMAIN memory /\ memory[a].serial = alloc_count
      /\ allocs = alloc_count + 1
      /\ tracking_map = [b \in DOMAIN memory \ {a} |-> tracking_map[b]]
  BY <1>1, <1>4, <1>5 DEF TrackedAddresses, Tracked
<1>. HIDE DEF a
<1>7. a \notin DOMAIN tracking_map /\ DOMAIN tracking_map \union {a} = DOMAIN memory
  BY <1>6
<1>8. /\ alloc_count' = alloc_count + 1
      /\ tracking_map' = C!With(tracking_map, a, [number |-> alloc_count, size |-> memory[a].size])
  BY <1>4, <1>7 DEF C!Inserted
<1>9. /\ tracking_map' = [b \in DOMAIN memory |->
                            IF b = a THEN [number |-> alloc_count, size |-> memory[a].size]
                            ELSE tracking_map[b]]
  BY <1>7, <1>8 DEF C!With
<1>10. Parity'
  BY <1>3, <1>4 DEF Parity, C!Idle
<1>11. Serials'
  BY <1>1, <1>4 DEF Serials
<1>12. Tracked'
  <2>1. tracking_map' = [b \in DOMAIN memory |-> tracking_map'[b]]
    BY <1>9
  <2>2. ASSUME NEW b \in DOMAIN memory
        PROVE  tracking_map'[b] = [number |-> memory[b].serial, size |-> memory[b].size]
    <3>1. CASE b = a
      BY <1>6, <1>9, <3>1
    <3>2. CASE b # a
      BY <1>1, <1>6, <1>9, <3>2 DEF Tracked
    <3>. QED BY <3>1, <3>2
  <2>. QED BY <1>4, <1>5, <1>6, <1>8, <2>1, <2>2 DEF Tracked
<1>13. Saved'
  BY <1>1, <1>4, <1>5, <1>8 DEF Saved
<1>. QED BY <1>10, <1>11, <1>12, <1>13 DEF SnapshotInv

LEMMA FreeExitKeeps ==
    ASSUME SnapshotInv, app_call.at = "exit", C!AtFree
    PROVE  SnapshotInv'
<1>1. Parity /\ Serials /\ Tracked /\ Saved
  BY DEF SnapshotInv
<1>. DEFINE a == app_call.address
<1>2. app_call.call = "free" /\ callback_tracker = 1
  BY <1>1 DEF C!AtFree, Parity
<1>3. callback_tracker' = 0
  BY <1>2 DEF C!AtFree, C!Tracked
<1>4. /\ C!Erased(a)
      /\ app_call' = C!Idle
      /\ UNCHANGED <<memory, allocs, launches, device_runs, wanted, alloc_count, kernel_id, files>>
  BY <1>3 DEF C!AtFree, C!TakenForExit
<1>5. /\ ~Made("alloc") /\ Made("free") /\ ~Made("launch")
      /\ ~Made("alloc")' /\ ~Made("free")' /\ ~Made("launch")'
  BY <1>2, <1>4 DEF Made, C!In, C!Idle
<1>6. /\ TrackedAddresses = DOMAIN memory \union {a} /\ TrackedAddresses' = DOMAIN memory
      /\ a \notin DOMAIN memory
      /\ tracking_map = [b \in DOMAIN memory \union {a} |-> tracking_map[b]]
  BY <1>1, <1>4, <1>5 DEF TrackedAddresses, Tracked
<1>. HIDE DEF a
<1>7. DOMAIN tracking_map \ {a} = DOMAIN memory
  BY <1>6
<1>8. tracking_map' = [b \in DOMAIN memory |-> tracking_map[b]]
  BY <1>4, <1>7 DEF C!Erased, C!Without
<1>9. Parity'
  BY <1>3, <1>4 DEF Parity, C!Idle
<1>10. Serials'
  BY <1>1, <1>4 DEF Serials
<1>11. Tracked'
  <2>1. tracking_map' = [b \in DOMAIN memory |-> tracking_map'[b]]
    BY <1>8
  <2>2. \A b \in DOMAIN memory :
           tracking_map'[b] = [number |-> memory[b].serial, size |-> memory[b].size]
    BY <1>1, <1>6, <1>8 DEF Tracked
  <2>. QED BY <1>1, <1>4, <1>5, <1>6, <2>1, <2>2 DEF Tracked
<1>12. Saved'
  BY <1>1, <1>4, <1>5 DEF Saved
<1>. QED BY <1>9, <1>10, <1>11, <1>12 DEF SnapshotInv

(* The exit of a launch waits for the device; the copies of what the map   *)
(* names are what the kernel left.                                         *)
LEMMA LaunchExitKeeps ==
    ASSUME SnapshotInv, C!AtLaunchExit
    PROVE  SnapshotInv'
<1>1. Parity /\ Serials /\ Tracked /\ Saved
  BY DEF SnapshotInv
<1>2. /\ app_call.call = "launch" /\ app_call.at = "exit" /\ ~device_runs
      /\ files' = C!Over(files,
            [f \in {<<kernel_id, tracking_map[a].number>> : a \in DOMAIN tracking_map} |->
               C!CopyOf(CHOOSE a \in DOMAIN tracking_map : tracking_map[a].number = f[2])])
      /\ kernel_id' = kernel_id + 1 /\ app_call' = C!Idle
      /\ UNCHANGED <<memory, allocs, launches, device_runs, wanted, callback_tracker, alloc_count,
                     tracking_map>>
  BY DEF C!AtLaunchExit, C!In, C!Synchronized
<1>3. /\ ~Made("alloc") /\ ~Made("free") /\ Made("launch")
      /\ ~Made("alloc")' /\ ~Made("free")' /\ ~Made("launch")'
  BY <1>2 DEF Made, C!In, C!Idle
<1>4. /\ DOMAIN tracking_map = DOMAIN memory
      /\ \A a \in DOMAIN memory :
            tracking_map[a] = [number |-> memory[a].serial, size |-> memory[a].size]
  BY <1>1, <1>3 DEF Tracked, TrackedAddresses
<1>5. launches = kernel_id + 1 /\ wanted = C!Over(files, LastKernel)
  BY <1>1, <1>2, <1>3 DEF Saved
<1>. DEFINE names == {<<kernel_id, memory[a].serial>> : a \in DOMAIN memory}
            copy(n) == C!CopyOf(CHOOSE a \in DOMAIN tracking_map : tracking_map[a].number = n)
            left(n) == LET a == CHOOSE b \in DOMAIN memory : memory[b].serial = n
                       IN  [size |-> memory[a].size, data |-> memory[a].data]
<1>6. {<<kernel_id, tracking_map[a].number>> : a \in DOMAIN tracking_map} = names
  BY <1>4
<1>7. ASSUME NEW f \in names
      PROVE  copy(f[2]) = left(f[2])
  <2>1. PICK a \in DOMAIN memory : f = <<kernel_id, memory[a].serial>>
    BY <1>7
  <2>2. f[2] = memory[a].serial
    BY <2>1
  <2>3. (CHOOSE b \in DOMAIN memory : memory[b].serial = f[2]) = a
    BY <1>1, <2>2 DEF Serials
  <2>4. (CHOOSE b \in DOMAIN tracking_map : tracking_map[b].number = f[2]) = a
    <3>1. \A b \in DOMAIN memory : tracking_map[b].number = memory[b].serial
      BY <1>4
    <3>. QED BY <1>1, <1>4, <2>2, <3>1 DEF Serials
  <2>5. C!CopyOf(a) = [size |-> memory[a].size, data |-> memory[a].data]
    BY <1>4 DEF C!CopyOf
  <2>. QED BY <2>3, <2>4, <2>5
<1>8. /\ files' = C!Over(files, [f \in names |-> copy(f[2])])
      /\ LastKernel = [f \in names |-> left(f[2])]
  BY <1>2, <1>6 DEF LastKernel
<1>9. [f \in names |-> copy(f[2])] = [f \in names |-> left(f[2])]
  <2>. HIDE DEF names, copy, left
  <2>. QED BY <1>7
<1>10. files' = wanted
  <2>. HIDE DEF names, copy, left
  <2>. QED BY <1>5, <1>8, <1>9
<1>11. Parity' /\ Serials'
  BY <1>1, <1>2 DEF Parity, Serials, C!Idle
<1>12. Tracked'
  <2>1. TrackedAddresses' = TrackedAddresses
    BY <1>2, <1>3 DEF TrackedAddresses
  <2>. QED BY <1>1, <1>2, <1>3, <2>1 DEF Tracked
<1>13. Saved'
  BY <1>1, <1>2, <1>3, <1>5, <1>10 DEF Saved
<1>. QED BY <1>11, <1>12, <1>13 DEF SnapshotInv

LEMMA SnapshotStep ==
    ASSUME SnapshotInv, [C!Next]_C!vars
    PROVE  SnapshotInv'
<1>1. CASE \E call \in {"alloc", "free", "launch"} : C!Call(call)
  BY <1>1, CallKeeps
<1>2. CASE \E a \in Addresses, size \in Sizes, data \in Data : C!DoAlloc(a, size, data)
  BY <1>2, DoAllocKeeps
<1>3. CASE \E a \in Addresses : C!DoFree(a) \/ \E data \in Data : C!Store(a, data)
  BY <1>3, DoFreeKeeps, StoreKeeps
<1>4. CASE C!DoLaunch \/ C!KernelEnds
  BY <1>4, DoLaunchKeeps, KernelEndsKeeps
<1>5. CASE C!AtAlloc \/ C!AtFree \/ C!AtLaunchEntry
  <2>1. app_call.at \in {"entry", "exit"} /\ (C!AtLaunchEntry => app_call.at = "entry")
    BY <1>5 DEF C!AtAlloc, C!AtFree, C!AtLaunchEntry, C!In
  <2>. QED BY <1>5, <2>1, EntryKeeps, AllocExitKeeps, FreeExitKeeps
<1>6. CASE C!AtLaunchExit
  BY <1>6, LaunchExitKeeps
<1>7. CASE C!Ended \/ UNCHANGED C!vars
  <2>1. UNCHANGED C!vars
    BY <1>7 DEF C!Ended
  <2>2. TrackedAddresses' = TrackedAddresses /\ LastKernel' = LastKernel
        /\ \A call : Made(call)' <=> Made(call)
    BY <2>1 DEF C!vars, C!app_vars, C!tool_vars, TrackedAddresses, LastKernel, Made, C!In
  <2>3. Parity' /\ Serials'
    BY <2>1 DEF SnapshotInv, C!vars, C!app_vars, C!tool_vars, Parity, Serials
  <2>4. Tracked' /\ Saved'
    BY <2>1, <2>2 DEF SnapshotInv, C!vars, C!app_vars, C!tool_vars, Tracked, Saved, C!Over
  <2>. QED BY <2>3, <2>4 DEF SnapshotInv
<1>. QED BY <1>1, <1>2, <1>3, <1>4, <1>5, <1>6, <1>7 DEF C!Next

(* The files of every kernel that has returned are the contents of the     *)
(* allocations that were live when it ended, and the map is right between  *)
(* calls, for any addresses, sizes, allocations and launches.              *)
THEOREM SnapshotCorrect == C!Spec => []SnapshotExact
<1>1. C!Init => SnapshotInv
  BY SnapshotInit
<1>2. SnapshotInv /\ [C!Next]_C!vars => SnapshotInv'
  BY SnapshotStep
<1>3. SnapshotInv => SnapshotExact
  <2>. SUFFICES ASSUME SnapshotInv, app_call = C!Idle
                PROVE  /\ files = wanted
                       /\ tracking_map = [a \in DOMAIN memory |->
                             [number |-> memory[a].serial, size |-> memory[a].size]]
    BY DEF SnapshotExact, C!SnapshotExact
  <2>1. ~Made("alloc") /\ ~Made("free") /\ ~Made("launch")
    BY DEF Made, C!In, C!Idle
  <2>2. files = wanted
    BY <2>1 DEF SnapshotInv, Saved
  <2>3. /\ tracking_map = [a \in DOMAIN memory |-> tracking_map[a]]
        /\ \A a \in DOMAIN memory :
              tracking_map[a] = [number |-> memory[a].serial, size |-> memory[a].size]
    BY <2>1 DEF SnapshotInv, Tracked, TrackedAddresses
  <2>4. [a \in DOMAIN memory |-> tracking_map[a]]
           = [a \in DOMAIN memory |-> [number |-> memory[a].serial, size |-> memory[a].size]]
    BY <2>3
  <2>. QED BY <2>2, <2>3, <2>4
<1>. QED BY <1>1, <1>2, <1>3, PTL DEF C!Spec
===============================================================================
