------------------------------ MODULE LoadStore ------------------------------
(***************************************************************************)
(* The memory instructions of one streaming multiprocessor (SM) of the     *)
(* simulator, from the cycle they issue to the cycle their warp retires:   *)
(* streaming_multiprocessor::sm_cycle and what it calls (swift-sim/gpu.cpp *)
(* and gpu.h), the L1 data cache with its MSHRs (cache.cpp), the warp's    *)
(* counters (kernel.h).                                                    *)
(*                                                                         *)
(* sm_cycle is one thread; it is cut into the handlers it calls, in their  *)
(* order, by the variable phase.  What lies below the L1 (the network, L2, *)
(* DRAM) answers a fetch in any later cycle and in any order, one reply a  *)
(* cycle; LocalInterconnect says why the network does.                     *)
(*                                                                         *)
(* Abstractions.  Times are kept relative to the current cycle.  The       *)
(* compute units are always ready (their ready_time only delays an issue). *)
(* A sector is <<line, bank>>; the victim of an L1 replacement is any line.*)
(* Indices start at 1.                                                     *)
(***************************************************************************)
EXTENDS Integers, Sequences, FiniteSetsExt

CONSTANTS
    Warps,        \* the warps of the kernel, by number
    NumBlocks,    \* m_grid_size; the blocks are 1 .. NumBlocks
    BlockOf,      \* BlockOf[w]: the block of warp w
    Program,      \* Program[w]: its instructions, records with fields
                  \*   kind    "ALU", "LD", "ST" or "ATOM"
                  \*   sectors m_coalesced_address, without repetition
                  \*   deps    m_dependency
    Sectors,      \* the sectors the programs name
    Banks,        \* l1_cache_n_banks of them, by number
    m_assoc,      \* lines the L1 holds
    m_num_entries,   \* MSHR entries of the L1
    m_max_merged,    \* fetches an entry can merge
    m_max_blocks,    \* blocks that are resident at a time
    Subcores,        \* the subcores, by number
    l1_hit_latency,
    alu_latency

INT_MAX == 2147483647  \* the completion time of what is still in flight

ASSUME LoadStoreAssumption ==
    /\ Warps \subseteq Nat \ {0} /\ IsFiniteSet(Warps)
    /\ NumBlocks \in Nat \ {0}
    /\ BlockOf \in [Warps -> 1 .. NumBlocks]
    /\ Banks \subseteq Nat /\ Banks # {}
    /\ Subcores \subseteq Nat /\ IsFiniteSet(Subcores)
    /\ IsFiniteSet(Sectors)
    /\ \A s \in Sectors : s[2] \in Banks
    /\ \A w \in Warps : Len(Program[w]) \in Nat
    /\ \A w \in Warps : \A c \in 1 .. Len(Program[w]) :
          LET inst == Program[w][c]
          IN  /\ inst.kind \in {"ALU", "LD", "ST", "ATOM"}
              /\ inst.sectors \in Seq(Sectors)
              /\ inst.deps \subseteq 1 .. c - 1
              /\ inst.kind = "ATOM" => inst.sectors # << >>
              /\ \A i, j \in 1 .. Len(inst.sectors) :
                    inst.sectors[i] = inst.sectors[j] => i = j
    /\ m_assoc \in Nat \ {0} /\ m_num_entries \in Nat \ {0} /\ m_max_merged \in Nat \ {0}
    /\ m_max_blocks \in Nat \ {0}
    /\ l1_hit_latency \in Nat \ {0}
    /\ alu_latency \in Nat \ {0} /\ alu_latency < INT_MAX

VARIABLES
    phase,       \* the handler sm_cycle calls next; "exit" after exit(1)
    cursor,      \* the bank (phase "l1") or block (phase "sched") it is at
    active,      \* schedule_warps_in_subcores: subcores that may still issue
    (* the kernel and the SM's blocks *)
    block_pointer,  \* how many blocks have been handed out
    block_vec,      \* the resident blocks
    warp_vec,       \* the warps that have not retired
    (* the warps *)
    completions,     \* completions[w][c]: cycles until instruction c is done
    pending_request, \* pending_request[w][c]: fetches of c not yet answered
    m_pending_mem_request_num,
    pending_inst,
    (* the memory path *)
    units,       \* units[k]: the memory instruction in subcore k's LDS unit
    m_sm_to_l1,  \* m_sm_to_l1[b]: fetches waiting for bank b of the L1
    l1_to_sm,    \* L1 hits on their way back, with the cycles still to go
    m_mshrs,     \* m_mshrs[s]: loads waiting for sector s
    valid,       \* sectors the L1 holds
    m_miss_queue,\* fetches that have to leave the SM
    below        \* fetches in the network, the L2 or the DRAM

cycle_vars == <<phase, cursor, active>>
kernel_vars == <<block_pointer, block_vec, warp_vec>>
warp_vars == <<completions, pending_request, m_pending_mem_request_num, pending_inst>>
l1_vars == <<l1_to_sm, m_mshrs, valid, m_miss_queue>>
vars == <<cycle_vars, kernel_vars, warp_vars, units, m_sm_to_l1, l1_vars, below>>

Blocks == 1 .. NumBlocks
Indices(w) == 1 .. Len(Program[w])

(* m_write_type = WRITE_THROUGH_L2 is the flag copy; is_write() the flag   *)
(* write, which process_ATOM_ATOMG sets for an atomic too.                 *)
Fetch(w, c, s, write) ==
    [warp |-> w, index |-> c, sector |-> s, write |-> write, copy |-> FALSE]

Copy(f) ==
    [warp |-> f.warp, index |-> f.index, sector |-> f.sector, write |-> f.write, copy |-> TRUE]

(* A unit that holds no instruction (m_inst == nullptr).                   *)
Idle == [warp |-> 0, index |-> 0, point |-> 0]

(* warp_point: one completion is pushed for every instruction issued.      *)
warp_point(w) == Len(completions[w]) + 1

(* first_spawn_block, for one SM.                                          *)
Init ==
    /\ phase = "idle" /\ cursor = 0 /\ active = {}
    /\ block_pointer = Min({m_max_blocks, NumBlocks})
    /\ block_vec = 1 .. block_pointer
    /\ warp_vec = Warps
    /\ completions = [w \in Warps |-> << >>]
    /\ pending_request = [w \in Warps |-> [c \in Indices(w) |-> 0]]
    /\ m_pending_mem_request_num = [w \in Warps |-> 0]
    /\ pending_inst = [w \in Warps |-> 0]
    /\ units = [k \in Subcores |-> Idle]
    /\ m_sm_to_l1 = [b \in Banks |-> << >>]
    /\ l1_to_sm = << >>
    /\ m_mshrs = [s \in Sectors |-> << >>]
    /\ valid = {}
    /\ m_miss_queue = << >>
    /\ below = {}

----
(* sm_active(), and the start of a cycle: time goes on by one.             *)
SmActive ==
    \/ \E w \in warp_vec : BlockOf[w] \in block_vec
    \/ block_pointer < NumBlocks

Sooner(left) == IF left = INT_MAX \/ left = 0 THEN left ELSE left - 1

StartCycle ==
    /\ phase = "idle"
    /\ SmActive
    /\ completions' = [w \in Warps |-> [c \in 1 .. Len(completions[w]) |-> Sooner(completions[w][c])]]
    /\ l1_to_sm' = [i \in 1 .. Len(l1_to_sm) |->
          [fetch |-> l1_to_sm[i].fetch, left |-> Sooner(l1_to_sm[i].left)]]
    /\ phase' = "write_back"
    /\ UNCHANGED <<cursor, active, kernel_vars, pending_request, m_pending_mem_request_num,
                   pending_inst, units, m_sm_to_l1, m_mshrs, valid, m_miss_queue, below>>

----
(* write_back and write_back_request_l2: a fetch has been answered.        *)

(* get_block finds the block and get_warp the warp; without the first the  *)
(* simulator exits, without the second it dereferences a null pointer.     *)
Found(w) == w \in warp_vec /\ BlockOf[w] \in block_vec

can_decrease(f) == pending_request[f.warp][f.index] > 0

\* Faulty variant of Release: an answer completes its instruction even if
\* others are outstanding.
ReleaseOnAnyAnswer(done) ==
    /\ pending_request' = [w \in Warps |-> [c \in Indices(w) |->
          pending_request[w][c] - Cardinality({f \in done : f.warp = w /\ f.index = c})]]
    /\ m_pending_mem_request_num' = [w \in Warps |->
          m_pending_mem_request_num[w] - Cardinality({f \in done : f.warp = w})]
    /\ completions' = [w \in Warps |-> [c \in 1 .. Len(completions[w]) |->
          IF \E f \in done : f.warp = w /\ f.index = c THEN 0 ELSE completions[w][c]]]

(* decrease_pending_request for every fetch of done, and what its callers  *)
(* do with the result: the instruction is complete when its count is zero. *)
Release(done) ==
    LET Answers(w, c) == Cardinality({f \in done : f.warp = w /\ f.index = c})
    IN  /\ pending_request' = [w \in Warps |-> [c \in Indices(w) |->
              pending_request[w][c] - Answers(w, c)]]
        /\ m_pending_mem_request_num' = [w \in Warps |->
              m_pending_mem_request_num[w] - Cardinality({f \in done : f.warp = w})]
        /\ completions' = [w \in Warps |-> [c \in 1 .. Len(completions[w]) |->
              IF Answers(w, c) > 0 /\ pending_request[w][c] = Answers(w, c)
              THEN 0 ELSE completions[w][c]]]

(* mf_next->m_l1_ready_time <= cycles                                      *)
HitDue == l1_to_sm # << >> /\ Head(l1_to_sm).left = 0

(* One L1 hit whose latency is over.  A fetch its warp does not wait for   *)
(* is dropped.                                                             *)
WriteBack ==
    /\ phase = "write_back"
    /\ HitDue
    /\ LET f == Head(l1_to_sm).fetch
       IN  IF ~Found(f.warp)
           THEN phase' = "exit" /\ UNCHANGED <<completions, pending_request,
                                               m_pending_mem_request_num>>
           ELSE /\ Release(IF can_decrease(f) THEN {f} ELSE {})
                /\ UNCHANGED phase
    /\ l1_to_sm' = Tail(l1_to_sm)
    /\ UNCHANGED <<cursor, active, kernel_vars, pending_inst, units, m_sm_to_l1, m_mshrs,
                   valid, m_miss_queue, below>>

WriteBackEnd ==
    /\ phase = "write_back"
    /\ ~HitDue
    /\ phase' = "reply"
    /\ UNCHANGED <<cursor, active, kernel_vars, warp_vars, units, m_sm_to_l1, l1_vars, below>>

(* tag_array_fill: the sector becomes valid; if its line is not resident   *)
(* and the cache is full, some line makes room.                            *)
LinesOf(S) == {s[1] : s \in S}

Fill(s) ==
    IF s[1] \in LinesOf(valid) \/ Cardinality(LinesOf(valid)) < m_assoc
    THEN valid' = valid \union {s}
    ELSE \E victim \in LinesOf(valid) : valid' = {t \in valid : t[1] # victim} \union {s}

\* Faulty variant of Waiting: only the oldest load is released, those merged
\* with it are forgotten.
WaitingFirst(f) ==
    IF f.write THEN {f} ELSE IF m_mshrs[f.sector] = << >> THEN {} ELSE {Head(m_mshrs[f.sector])}

(* Whom a reply releases: a write itself, a load everyone who waits for    *)
(* its sector in the MSHR.                                                 *)
Waiting(f) == IF f.write THEN {f} ELSE Range(m_mshrs[f.sector])

(* write_back_request_l2: Pop returned f.                                  *)
Reply(f) ==
    /\ phase = "reply"
    /\ f \in below /\ ~f.copy
    /\ below' = below \ {f}
    /\ IF \E g \in Waiting(f) : ~Found(g.warp) \/ ~can_decrease(g)
       THEN /\ phase' = "exit"
            /\ UNCHANGED <<completions, pending_request, m_pending_mem_request_num, m_mshrs, valid>>
       ELSE /\ phase' = "miss_queue"
            /\ Release(Waiting(f))
            /\ m_mshrs' = IF f.write THEN m_mshrs
                          ELSE [m_mshrs EXCEPT ![f.sector] = << >>]
            /\ IF f.write \/ Waiting(f) = {} THEN UNCHANGED valid ELSE Fill(f.sector)
    /\ UNCHANGED <<cursor, active, kernel_vars, pending_inst, units, m_sm_to_l1, l1_to_sm,
                   m_miss_queue>>

(* Pop returned NULL.                                                      *)
NoReply ==
    /\ phase = "reply"
    /\ phase' = "miss_queue"
    /\ UNCHANGED <<cursor, active, kernel_vars, warp_vars, units, m_sm_to_l1, l1_vars, below>>

(* The L2 deletes a write-through copy (external to the SM).               *)
L2Absorb(f) ==
    /\ phase = "idle"
    /\ f \in below /\ f.copy
    /\ below' = below \ {f}
    /\ UNCHANGED <<cycle_vars, kernel_vars, warp_vars, units, m_sm_to_l1, l1_vars>>

----
(* l1_cache_cycle: one fetch leaves the miss queue if HasBuffer, then the  *)
(* oldest fetch of every bank accesses the cache.                          *)

MissQueueSend ==
    /\ phase = "miss_queue"
    /\ m_miss_queue # << >>
    /\ below' = below \union {Head(m_miss_queue)}
    /\ m_miss_queue' = Tail(m_miss_queue)
    /\ phase' = "l1" /\ cursor' = Min(Banks)
    /\ UNCHANGED <<active, kernel_vars, warp_vars, units, m_sm_to_l1, l1_to_sm, m_mshrs, valid>>

(* The queue is empty, or the network has no buffer.                       *)
MissQueueHold ==
    /\ phase = "miss_queue"
    /\ phase' = "l1" /\ cursor' = Min(Banks)
    /\ UNCHANGED <<active, kernel_vars, warp_vars, units, m_sm_to_l1, l1_vars, below>>

Later(S, x) == {y \in S : y > x}

NextBank ==
    IF Later(Banks, cursor) = {} THEN phase' = "blocks" /\ cursor' = 0
    ELSE cursor' = Min(Later(Banks, cursor)) /\ UNCHANGED phase

\* Faulty variant of mshr_full: a sector that is already being fetched can
\* always take one more load.
MshrFullEntriesOnly(s) ==
    m_mshrs[s] = << >> /\ Cardinality({t \in Sectors : m_mshrs[t] # << >>}) >= m_num_entries

mshr_full(s) ==
    IF m_mshrs[s] # << >>
    THEN Len(m_mshrs[s]) >= m_max_merged
    ELSE Cardinality({t \in Sectors : m_mshrs[t] # << >>}) >= m_num_entries

(* A hit of either kind goes back to the SM; a write that hits also sends  *)
(* a copy down (LOCAL_WB_GLOBAL_WT, m_space always GLOBAL).                *)
HitAccess(f) ==
    /\ f.sector \in valid
    /\ l1_to_sm' = Append(l1_to_sm, [fetch |-> f, left |-> l1_hit_latency])
    /\ m_miss_queue' = IF f.write THEN Append(m_miss_queue, Copy(f))
                                  ELSE m_miss_queue
    /\ UNCHANGED m_mshrs

WriteMiss(f) ==
    /\ f.write /\ f.sector \notin valid
    /\ m_miss_queue' = Append(m_miss_queue, f)
    /\ UNCHANGED <<l1_to_sm, m_mshrs>>

\* Faulty variant of LoadMiss: a load that finds its sector in the MSHR is
\* sent down as well.
LoadMissAlwaysSends(f) ==
    /\ ~f.write /\ f.sector \notin valid /\ ~mshr_full(f.sector)
    /\ m_mshrs' = [m_mshrs EXCEPT ![f.sector] = Append(@, f)]
    /\ m_miss_queue' = Append(m_miss_queue, f)
    /\ UNCHANGED l1_to_sm

(* Only the first load of a sector is sent down, the others wait with it.  *)
LoadMiss(f) ==
    /\ ~f.write /\ f.sector \notin valid /\ ~mshr_full(f.sector)
    /\ m_mshrs' = [m_mshrs EXCEPT ![f.sector] = Append(@, f)]
    /\ m_miss_queue' = IF m_mshrs[f.sector] = << >> THEN Append(m_miss_queue, f) ELSE m_miss_queue
    /\ UNCHANGED l1_to_sm

CacheAccess ==
    /\ phase = "l1"
    /\ m_sm_to_l1[cursor] # << >>
    /\ LET f == Head(m_sm_to_l1[cursor]) IN HitAccess(f) \/ WriteMiss(f) \/ LoadMiss(f)
    /\ m_sm_to_l1' = [m_sm_to_l1 EXCEPT ![cursor] = Tail(@)]
    /\ NextBank
    /\ UNCHANGED <<active, kernel_vars, warp_vars, units, valid, below>>

(* RESERVATION_FAIL: a load that the MSHRs cannot take.                    *)
Refused(b) ==
    /\ m_sm_to_l1[b] # << >>
    /\ LET f == Head(m_sm_to_l1[b])
       IN  ~f.write /\ f.sector \notin valid /\ mshr_full(f.sector)

\* Faulty variant of NoAccess: a fetch the MSHRs cannot take is popped.
NoAccessDropping ==
    /\ phase = "l1"
    /\ m_sm_to_l1[cursor] = << >> \/ Refused(cursor)
    /\ m_sm_to_l1' = [m_sm_to_l1 EXCEPT ![cursor] = IF @ = << >> THEN @ ELSE Tail(@)]
    /\ NextBank
    /\ UNCHANGED <<active, kernel_vars, warp_vars, units, l1_vars, below>>

(* The bank has nothing to do, or its fetch is refused and stays first.    *)
NoAccess ==
    /\ phase = "l1"
    /\ m_sm_to_l1[cursor] = << >> \/ Refused(cursor)
    /\ NextBank
    /\ UNCHANGED <<active, kernel_vars, warp_vars, units, m_sm_to_l1, l1_vars, below>>

----
\* Faulty variant of DelInactiveBlock: one retired warp is enough.
DelBlockEarly ==
    /\ phase = "blocks"
    /\ block_vec' = {b \in block_vec : \A w \in Warps : BlockOf[w] = b => w \in warp_vec}
    /\ phase' = "units"
    /\ UNCHANGED <<cursor, active, block_pointer, warp_vec, warp_vars, units, m_sm_to_l1,
                   l1_vars, below>>

(* del_inactive_block: a block none of whose warps is left is dropped.     *)
DelInactiveBlock ==
    /\ phase = "blocks"
    /\ block_vec' = {b \in block_vec : \E w \in warp_vec : BlockOf[w] = b}
    /\ phase' = "units"
    /\ UNCHANGED <<cursor, active, block_pointer, warp_vec, warp_vars, units, m_sm_to_l1,
                   l1_vars, below>>

(* unit_cycle of the LDS units, in the order of the subcores: a unit emits *)
(* the next fetch of its instruction unless a unit before it had one for   *)
(* the same bank (m_queue_sm_to_l1_busy).                                  *)
Next_sector(k) == Program[units[k].warp][units[k].index].sectors[units[k].point]

Emits(k) ==
    /\ units[k] # Idle
    /\ \A j \in Subcores : j < k /\ units[j] # Idle => Next_sector(j)[2] # Next_sector(k)[2]

Emitted(k) ==
    Fetch(units[k].warp, units[k].index, Next_sector(k),
          Program[units[k].warp][units[k].index].kind = "ST")

LastOf(k) == units[k].point = Len(Program[units[k].warp][units[k].index].sectors)

UnitCycle ==
    LET emitters(w) == {k \in Subcores : Emits(k) /\ units[k].warp = w}
    IN  /\ phase = "units"
        /\ m_sm_to_l1' = [b \in Banks |->
              IF \E k \in Subcores : Emits(k) /\ Next_sector(k)[2] = b
              THEN Append(m_sm_to_l1[b],
                     Emitted(CHOOSE k \in Subcores : Emits(k) /\ Next_sector(k)[2] = b))
              ELSE m_sm_to_l1[b]]
        /\ pending_request' = [w \in Warps |-> [c \in Indices(w) |->
              pending_request[w][c] + Cardinality({k \in emitters(w) : units[k].index = c})]]
        /\ m_pending_mem_request_num' = [w \in Warps |->
              m_pending_mem_request_num[w] + Cardinality(emitters(w))]
        /\ pending_inst' = [w \in Warps |->
              pending_inst[w] - Cardinality({k \in emitters(w) : LastOf(k)})]
        /\ units' = [k \in Subcores |->
              IF ~Emits(k) THEN units[k]
              ELSE IF LastOf(k) THEN Idle
              ELSE [warp |-> units[k].warp, index |-> units[k].index,
                    point |-> units[k].point + 1]]
        /\ phase' = "refill"
        /\ UNCHANGED <<cursor, active, kernel_vars, completions, l1_vars, below>>

(* The end of sm_cycle: blocks are fetched until m_max_blocks are resident *)
(* or none is left.                                                        *)
Refill ==
    /\ phase = "refill"
    /\ block_pointer' = Min({NumBlocks, block_pointer + (m_max_blocks - Cardinality(block_vec))})
    /\ block_vec' = block_vec \union (block_pointer + 1 .. block_pointer')
    /\ phase' = "sched"
    /\ active' = Subcores
    /\ cursor' = IF block_vec' = {} THEN 0 ELSE Min(block_vec')
    /\ UNCHANGED <<warp_vec, warp_vars, units, m_sm_to_l1, l1_vars, below>>

----
(* schedule_warps_in_subcores, one block at a time.                        *)

Ready(w) ==
    /\ warp_point(w) \in Indices(w)
    /\ \A d \in Program[w][warp_point(w)].deps : completions[w][d] = 0

(* The subcores that can take w's instruction: not used in this cycle and, *)
(* for a memory instruction, with an LDS unit that holds none              *)
(* (ready_time is INT_MAX while it does).                                  *)
Takers(w) ==
    {k \in active : Program[w][warp_point(w)].kind # "ALU" => units[k] = Idle}

Issuable(w) == Ready(w) /\ Takers(w) # {}

\* Faulty variant of Done: pending_inst is not looked at, so a warp may retire
\* while its last instruction still has fetches to emit.
DoneIgnoringUnits(w) ==
    warp_point(w) > Len(Program[w]) /\ m_pending_mem_request_num[w] = 0

\* Faulty variant of Done: answers that are still due are not waited for.
DoneWhenEmitted(w) ==
    warp_point(w) > Len(Program[w]) /\ pending_inst[w] = 0

Done(w) ==
    /\ warp_point(w) > Len(Program[w])
    /\ m_pending_mem_request_num[w] = 0
    /\ pending_inst[w] = 0

(* issue_inst and LdStInst::process.                                       *)
IssueToUnit(w, k) ==
    /\ completions' = [completions EXCEPT ![w] = Append(@, INT_MAX)]
    /\ units' = [units EXCEPT ![k] = [warp |-> w, index |-> warp_point(w), point |-> 1]]
    /\ pending_inst' = [pending_inst EXCEPT ![w] = @ + 1]
    /\ UNCHANGED <<pending_request, m_pending_mem_request_num, m_sm_to_l1>>

(* The places in a sequence of n elements that the set P names, in order.  *)
InOrder(places, P) ==
    Range(places) = P /\ \A i, j \in DOMAIN places : i < j => places[i] < places[j]

Places(n) == UNION {[1 .. k -> 1 .. n] : k \in 0 .. n}

(* An atomic puts all its fetches into the bank queues at once, in order.  *)
IssueAtomic(w) ==
    LET c == warp_point(w)
        sectors == Program[w][c].sectors
    IN  /\ completions' = [completions EXCEPT ![w] = Append(@, INT_MAX)]
        /\ \E of \in [Banks -> Places(Len(sectors))] :
              /\ \A b \in Banks : InOrder(of[b], {i \in 1 .. Len(sectors) : sectors[i][2] = b})
              /\ m_sm_to_l1' = [b \in Banks |-> m_sm_to_l1[b] \o
                    [i \in 1 .. Len(of[b]) |-> Fetch(w, c, sectors[of[b][i]], TRUE)]]
        /\ pending_request' = [v \in Warps |-> [d \in Indices(v) |->
              pending_request[v][d] + IF v = w /\ d = c THEN Len(sectors) ELSE 0]]
        /\ m_pending_mem_request_num' = [m_pending_mem_request_num EXCEPT ![w] = @ + Len(sectors)]
        /\ UNCHANGED <<units, pending_inst>>

IssueTimed(w, latency) ==
    /\ completions' = [completions EXCEPT ![w] = Append(@, latency)]
    /\ UNCHANGED <<units, pending_inst, pending_request, m_pending_mem_request_num, m_sm_to_l1>>

Issue(w, k) ==
    LET inst == Program[w][warp_point(w)]
    IN  IF inst.kind = "ALU" THEN IssueTimed(w, alu_latency)
        ELSE IF inst.kind = "ATOM" THEN IssueAtomic(w)
        ELSE IF inst.sectors = << >> THEN IssueTimed(w, 1)
        ELSE IssueToUnit(w, k)

(* The rest of the loop over the blocks, when the current one is done.     *)
NextBlock(free) ==
    IF free = {} \/ Later(block_vec, cursor) = {}
    THEN phase' = "idle" /\ cursor' = 0 /\ active' = {}
    ELSE /\ cursor' = Min(Later(block_vec, cursor))
         /\ active' = free
         /\ UNCHANGED phase

(* The warps of the block, in order: those that are done retire, until one *)
(* can issue; that one does, and the block has had its turn.               *)
Schedule ==
    LET mine == {w \in warp_vec : cursor \in block_vec /\ BlockOf[w] = cursor}
        issuable == {w \in mine : Issuable(w)}
        Retire(S) == warp_vec' = warp_vec \ {w \in S : Done(w)}
    IN  /\ phase = "sched"
        /\ IF issuable = {}
           THEN /\ Retire(mine)
                /\ NextBlock(active)
                /\ UNCHANGED <<completions, units, pending_inst, pending_request,
                               m_pending_mem_request_num, m_sm_to_l1>>
           ELSE LET w == Min(issuable)
                    k == Min(Takers(w))
                IN  /\ Retire({v \in mine : v < w})
                    /\ Issue(w, k)
                    /\ NextBlock(active \ {k})
        /\ UNCHANGED <<block_pointer, block_vec, l1_vars, below>>

(* gpu_cycle leaves its loop when no SM is active; exit(1) ends it all.    *)
Terminated ==
    /\ phase = "exit" \/ (phase = "idle" /\ ~SmActive)
    /\ UNCHANGED vars

Next ==
    \/ StartCycle \/ WriteBack \/ WriteBackEnd
    \/ (\E f \in below : Reply(f) \/ L2Absorb(f))
    \/ NoReply
    \/ MissQueueSend \/ MissQueueHold
    \/ CacheAccess \/ NoAccess
    \/ DelInactiveBlock \/ UnitCycle \/ Refill \/ Schedule
    \/ Terminated

(* The SM's cycle is one thread that goes on while the SM is active.  The  *)
(* network accepts the head of the miss queue eventually, and as long as   *)
(* replies are due one comes back eventually: LocalInterconnect!RoundTrip, *)
(* weakened to some reply instead of every one, which is enough because a  *)
(* kernel makes finitely many fetches.                                     *)
Thread ==
    StartCycle \/ WriteBack \/ WriteBackEnd \/ NoReply \/ MissQueueHold \/ CacheAccess \/ NoAccess
    \/ DelInactiveBlock \/ UnitCycle \/ Refill \/ Schedule

Fairness ==
    /\ WF_vars(Thread)
    /\ SF_vars(MissQueueSend)
    /\ SF_vars(\E f \in below : Reply(f))

Spec == Init /\ [][Next]_vars /\ Fairness

----
Phases == {"idle", "write_back", "reply", "miss_queue", "l1", "blocks", "units", "refill",
           "sched", "exit"}

(* The fetches that still have to be answered: in a bank queue, on the way *)
(* back from an L1 hit, waiting in the MSHRs, or, for a write that missed, *)
(* on their way down or back.  (A load on its way is in the MSHRs too.)    *)
Outstanding ==
    LET queued == UNION {Range(m_sm_to_l1[b]) : b \in Banks}
        hits == {h.fetch : h \in Range(l1_to_sm)}
        merged == UNION {Range(m_mshrs[s]) : s \in Sectors}
        writes == {f \in Range(m_miss_queue) \union below : f.write /\ ~f.copy}
    IN  queued \union hits \union merged \union writes

OutstandingOf(w, c) == {f \in Outstanding : f.warp = w /\ f.index = c}

InUnit(w, c) == \E k \in Subcores : units[k].warp = w /\ units[k].index = c

(* A unit of a subcore holds a memory instruction some of whose sectors    *)
(* are still to be emitted.                                                *)
Busy(u) ==
    /\ u.warp \in Warps
    /\ u.index \in Indices(u.warp)
    /\ u.point \in 1 .. Len(Program[u.warp][u.index].sectors)

Fetches == [warp : Warps, index : Nat, sector : Sectors, write : BOOLEAN, copy : BOOLEAN]

(* Types.                                                                  *)
TypeOK ==
    /\ phase \in Phases
    /\ cursor \in Nat /\ (phase = "l1" => cursor \in Banks)
    /\ active \subseteq Subcores
    /\ block_pointer \in Int
    /\ block_vec \subseteq Int
    /\ warp_vec \subseteq Warps
    /\ completions \in [Warps -> Seq(Nat)]
    /\ \A w \in Warps : pending_request[w] \in [Indices(w) -> Int]
    /\ m_pending_mem_request_num \in [Warps -> Int]
    /\ pending_inst \in [Warps -> Int]
    /\ units \in [Subcores -> [warp : Nat, index : Nat, point : Nat]]
    /\ \A k \in Subcores : units[k] = Idle \/ Busy(units[k])
    /\ m_sm_to_l1 \in [Banks -> Seq(Fetches)]
    /\ l1_to_sm \in Seq([fetch : Fetches, left : Nat])
    /\ m_mshrs \in [Sectors -> Seq(Fetches)]
    /\ valid \subseteq Sectors
    /\ m_miss_queue \in Seq(Fetches)
    /\ below \subseteq Fetches

(* No answer comes for a block or a warp that is gone, or for a request    *)
(* that was not counted: the exit(1) of get_block (gpu.h:160-168), the two *)
(* of write_back_request_l2 and the null pointer of get_warp are           *)
(* unreachable.                                                            *)
NeverExits == phase # "exit"

(* The counters a warp retires by are exactly the fetches that exist: no   *)
(* fetch is counted twice, forgotten by a merge, or dropped by a           *)
(* RESERVATION_FAIL.                                                       *)
PendingIsOutstanding ==
    \A w \in Warps :
        /\ \A c \in Indices(w) : pending_request[w][c] = Cardinality(OutstandingOf(w, c))
        /\ m_pending_mem_request_num[w] = Cardinality({f \in Outstanding : f.warp = w})
        /\ pending_inst[w] = Cardinality({k \in Subcores : units[k].warp = w})

(* Loads wait in the MSHRs of a sector if and only if one load of that     *)
(* sector, the oldest of them, is below the L1: no wake-up is missed and   *)
(* no sector is fetched twice.                                             *)
OnePrimary ==
    \A s \in Sectors :
        {f \in Range(m_miss_queue) \union below : ~f.write /\ f.sector = s}
           = IF m_mshrs[s] = << >> THEN {} ELSE {Head(m_mshrs[s])}

(* The MSHR table never outgrows its entries nor an entry its merges.      *)
MshrWithinLimits ==
    /\ \A s \in Sectors : Len(m_mshrs[s]) <= m_max_merged
    /\ Cardinality({s \in Sectors : m_mshrs[s] # << >>}) <= m_num_entries

(* At most m_max_blocks blocks are resident, and every warp is: as long as *)
(* it has not retired its block is resident or has not been handed out.    *)
Residency ==
    /\ block_pointer \in 0 .. NumBlocks
    /\ block_vec \subseteq 1 .. block_pointer
    /\ Cardinality(block_vec) <= m_max_blocks
    /\ \A w \in warp_vec : BlockOf[w] \in block_vec \/ BlockOf[w] > block_pointer

(* A warp that has retired is finished: nothing of it is still to be       *)
(* emitted, under way or incomplete.                                       *)
RetiredIsFinished ==
    \A w \in Warps \ warp_vec :
        /\ Len(completions[w]) = Len(Program[w])
        /\ \A c \in Indices(w) :
               completions[w][c] # INT_MAX /\ OutstandingOf(w, c) = {} /\ ~InUnit(w, c)

(* An atomic, whose fetches are all created when it issues, is complete    *)
(* only when the last of them has been answered.                           *)
AtomicCompletesLast ==
    \A w \in Warps : \A c \in 1 .. Len(completions[w]) :
        Program[w][c].kind = "ATOM" /\ completions[w][c] # INT_MAX => OutstandingOf(w, c) = {}

(* Every warp of every block retires and the SM becomes inactive, whatever *)
(* the order in which the memory answers.                                  *)
EveryWarpRetires == <>(warp_vec = {} /\ ~SmActive)

(* What kernel.h:187 says of decrease_pending_request, "true if all        *)
(* request release": an instruction is marked complete only when all of    *)
(* its fetches have been answered.                                         *)
CompleteIsReleased ==
    \A w \in Warps : \A c \in 1 .. Len(completions[w]) :
        /\ Program[w][c].kind # "ALU"
        /\ completions[w][c] # INT_MAX
        => OutstandingOf(w, c) = {} /\ ~InUnit(w, c)
=============================================================================
