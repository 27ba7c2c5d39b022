------------------------------ MODULE TraceFiles ------------------------------
(***************************************************************************)
(* From the trace files of a kernel to the instructions its warps execute: *)
(* sim_gpu of swift-sim/main.cpp, gen_block_mem_trace and read_sass of     *)
(* trace_reader.cpp, init_blocks, read_mem and get_inst_dependency of      *)
(* kernel.cpp, get_mem_inst of kernel.h.                                   *)
(*                                                                         *)
(* The tracer writes an instruction twice: into kernel-k.sass, and with    *)
(* its addresses into kernel-k.mem if it accesses memory.  The simulator   *)
(* splits the second file into one per block: line by line it opens the    *)
(* block's file, which creates it, and appends to it.  It skips that step  *)
(* when the file of block 0 exists already; it may be killed at any point  *)
(* and started again.  What it reads then is brought together again by     *)
(* block, warp, pc and pc_index, the number of times the warp has been at  *)
(* that pc before.                                                         *)
(*                                                                         *)
(* A line is a record; registers and opcode are a function of the pc.  The *)
(* filter of gen_block_mem_trace lets every line through: it compares an   *)
(* unsigned with std::string::npos, which is wider.                        *)
(***************************************************************************)
EXTENDS Integers, Functions, Subsequences

CONSTANTS
    Places,      \* the <<block, warp>> of the kernel
    Pcs,         \* the pcs of its program
    IsMem(_),    \* is_mem of the instruction at a pc
    DestRegs(_), SrcRegs(_),  \* its registers
    IsBarrier(_),             \* whether it is EXIT or a BAR
    AddressLists,     \* the addresses a memory instruction can name
    MaxLength,        \* bound: instructions in the trace
    MaxRuns,          \* bound: runs of the simulator
    l1_cache_line_size, SECTOR_SIZE

ASSUME TraceAssumption ==
    /\ IsFiniteSet(Places) /\ \A p \in Places : p[1] \in Nat
    /\ \A pc \in Pcs : IsMem(pc) \in BOOLEAN /\ IsBarrier(pc) \in BOOLEAN
    /\ MaxLength \in Nat /\ MaxRuns \in Nat
    /\ SECTOR_SIZE \in Nat \ {0}
    /\ l1_cache_line_size \in Nat \ {0} /\ l1_cache_line_size % SECTOR_SIZE = 0
    /\ \A list \in AddressLists : list \in Seq(Nat)

VARIABLES
    sass,       \* the lines of kernel-k.sass
    stage,      \* "stopped", "generate", "open" or "loaded"
    at,         \* the line of kernel-k.mem that is split next
    exist,      \* the blocks b with a file kernel-k-block-b.mem
    block_mem,  \* block_mem[b]: its lines
    runs,       \* runs of the simulator so far
    torn        \* whether one was killed while it split the file (history)

reader_vars == <<sass, stage, at, exist, block_mem, runs, torn>>

FileBlocks == {p[1] : p \in Places} \union {0}

Lines ==
    {[block |-> p[1], warp |-> p[2], pc |-> pc, addrs |-> a] :
        p \in Places, pc \in {q \in Pcs : IsMem(q)}, a \in AddressLists}
    \union
    {[block |-> p[1], warp |-> p[2], pc |-> pc, addrs |-> << >>] :
        p \in Places, pc \in {q \in Pcs : ~IsMem(q)}}

(* The lines of kernel-k.mem, in the order of kernel-k.sass.               *)
mem == At(sass, {i \in 1 .. Len(sass) : IsMem(sass[i].pc)})

ReaderInit ==
    /\ sass \in UNION {[1 .. n -> Lines] : n \in 1 .. MaxLength}
    /\ stage = "stopped" /\ at = 1
    /\ exist = {} /\ block_mem = [b \in FileBlocks |-> << >>]
    /\ runs = 0 /\ torn = FALSE

----
(* sim_gpu: the files are there if block 0's is.                           *)
Start ==
    /\ stage = "stopped"
    /\ runs < MaxRuns
    /\ runs' = runs + 1
    /\ stage' = IF 0 \in exist THEN "loaded" ELSE "generate"
    /\ at' = 1
    /\ UNCHANGED <<sass, exist, block_mem, torn>>

\* Faulty variant of AppendLine: a line replaces what the block's file held.
AppendLineTruncating(line) == block_mem' = [block_mem EXCEPT ![line.block] = << line >>]

AppendLine(line) == block_mem' = [block_mem EXCEPT ![line.block] = Append(@, line)]

(* gen_block_mem_trace, one line: its block's file is opened ...           *)
Open ==
    /\ stage = "generate"
    /\ at <= Len(mem)
    /\ stage' = "open"
    /\ exist' = exist \union {mem[at].block}
    /\ UNCHANGED <<sass, at, block_mem, runs, torn>>

(* ... and the line is written when it is closed.                          *)
Generate ==
    /\ stage = "open"
    /\ AppendLine(mem[at])
    /\ stage' = "generate"
    /\ at' = at + 1
    /\ UNCHANGED <<sass, exist, runs, torn>>

Generated ==
    /\ stage = "generate"
    /\ at > Len(mem)
    /\ stage' = "loaded"
    /\ UNCHANGED <<sass, at, exist, block_mem, runs, torn>>

(* The next run would not split the file from the start: some of its lines *)
(* have been written and others not, or block 0's file is there without.   *)
Halfway ==
    \/ stage = "generate" /\ at \in 2 .. Len(mem)
    \/ stage = "open" /\ (at > 1 \/ mem[at].block = 0)

(* The process ends or is killed.                                          *)
Kill ==
    /\ stage # "stopped"
    /\ torn' = (torn \/ Halfway)
    /\ stage' = "stopped"
    /\ UNCHANGED <<sass, at, exist, block_mem, runs>>

ReaderNext == Start \/ Open \/ Generate \/ Generated \/ Kill

ReaderSpec == ReaderInit /\ [][ReaderNext]_reader_vars

----
(* What the simulator makes of the files.                                  *)

(* The visits to its pc before line i, as read_sass and read_mem each count *)
(* them.                                                                   *)
pc_index(lines, i) ==
    Cardinality({j \in 1 .. i - 1 : /\ lines[j].block = lines[i].block
                                    /\ lines[j].warp = lines[i].warp
                                    /\ lines[j].pc = lines[i].pc})

(* read_mem: the sectors a list of addresses touches, <<line, sector>>     *)
(* each, by their first appearance.                                        *)
SectorOf(address) ==
    << (address \div l1_cache_line_size) * l1_cache_line_size,
       (address % l1_cache_line_size) \div SECTOR_SIZE >>

Coalesced(addrs) ==
    LET sector == [i \in 1 .. Len(addrs) |-> SectorOf(addrs[i])]
    IN  At(sector, {i \in 1 .. Len(addrs) : \A j \in 1 .. i - 1 : sector[j] # sector[i]})

read_mem(b) ==
    [i \in 1 .. Len(block_mem[b]) |->
        [warp |-> block_mem[b][i].warp, pc |-> block_mem[b][i].pc,
         pc_index |-> pc_index(block_mem[b], i),
         coalesced |-> Coalesced(block_mem[b][i].addrs)]]

(* get_mem_inst for the i-th instruction of the trace: what the block's    *)
(* file has for its warp, pc and pc_index, if anything.                    *)
get_mem_inst(i) ==
    LET m_mem_inst == read_mem(sass[i].block)
        found == {k \in 1 .. Len(m_mem_inst) :
                     /\ m_mem_inst[k].warp = sass[i].warp /\ m_mem_inst[k].pc = sass[i].pc
                     /\ m_mem_inst[k].pc_index = pc_index(sass, i)}
    IN  {m_mem_inst[k] : k \in {k \in found : \A l \in found : k <= l}}

(* The instructions of a warp (init_blocks).                               *)
m_insts(p) ==
    At(sass, {i \in 1 .. Len(sass) : sass[i].block = p[1] /\ sass[i].warp = p[2]})

(* The registers an instruction names, and all that any names.             *)
Named(inst) == DestRegs(inst.pc) \union SrcRegs(inst.pc)

Regs == UNION {DestRegs(pc) \union SrcRegs(pc) : pc \in Pcs}

(* dependency_map after n instructions: the last one to write a register.  *)
dependency_map(insts) ==
    LET map[n \in 0 .. Len(insts)] ==
            IF n = 0 THEN [r \in Regs |-> 0]
            ELSE [r \in Regs |-> IF r \in DestRegs(insts[n].pc) THEN n ELSE map[n - 1][r]]
    IN  map

\* Faulty variant of m_dependency: registers that are only written are not
\* looked up.
DependencyOfSources(insts, n) ==
    LET map == dependency_map(insts)
        read == {map[n - 1][r] : r \in SrcRegs(insts[n].pc)}
        all == IF IsBarrier(insts[n].pc) THEN Range(map[n]) ELSE {}
    IN  (read \union all) \ {0}

(* get_inst_dependency: the instructions the n-th one waits for.           *)
m_dependency(insts, n) ==
    LET map == dependency_map(insts)
        named == {map[n - 1][r] : r \in Named(insts[n])}
        all == IF IsBarrier(insts[n].pc) THEN Range(map[n]) ELSE {}
    IN  (named \union all) \ {0}

----
(* What get_mem_inst gives instruction i are the sectors that instruction  *)
(* j of the same warp, at the same pc, touches.                            *)
AddressesOf(j, i, m) ==
    /\ sass[j].block = sass[i].block /\ sass[j].warp = sass[i].warp
    /\ sass[j].pc = sass[i].pc
    /\ Range(m.coalesced) = {SectorOf(a) : a \in Range(sass[j].addrs)}
    /\ IsInjective(m.coalesced)

(* Every memory instruction of every warp finds its own addresses, merged  *)
(* into the sectors they touch, and no other instruction finds any: both   *)
(* files count the visits to a pc alike, although they are split and read  *)
(* separately, also when the simulator was killed before or after it split *)
(* the file, or splits it again because block 0 accesses no memory.  A     *)
(* kill in between breaks it, since lines are missing or come twice: then  *)
(* an instruction finds none or those of an earlier visit to its pc by its *)
(* own warp, but still never those of a later one or of another warp.      *)
AddressesMatch ==
    stage = "loaded" =>
        \A i \in 1 .. Len(sass) :
            /\ ~IsMem(sass[i].pc) => get_mem_inst(i) = {}
            /\ ~torn /\ IsMem(sass[i].pc) => \E m \in get_mem_inst(i) : AddressesOf(i, i, m)
            /\ \A m \in get_mem_inst(i) : \E j \in 1 .. i : AddressesOf(j, i, m)

(* What an instruction waits for, directly or through what it waits for.   *)
Before(insts) ==
    LET before[n \in 0 .. Len(insts)] ==
            IF n = 0 THEN {}
            ELSE UNION {{d} \union before[d] : d \in m_dependency(insts, n) \cap (1 .. n - 1)}
    IN  before

(* An instruction waits, directly or through the instructions it waits     *)
(* for, for every earlier one that writes a register it reads or writes,   *)
(* and EXIT and BAR for every earlier one that writes any.  None waits for *)
(* a later one.  One waits for itself, and would never issue, exactly if   *)
(* it is a BAR that writes a register: get_inst_dependency enters a BAR's  *)
(* own registers before it collects all of the map, and the tracer takes a *)
(* register that is an instruction's first operand for one it writes.      *)
DependenciesSuffice ==
    runs = 0 =>
        \A p \in Places :
            LET insts == m_insts(p)
            IN  \A n \in 1 .. Len(insts) :
                    /\ m_dependency(insts, n) \subseteq 1 .. n
                    /\ n \in m_dependency(insts, n)
                          <=> IsBarrier(insts[n].pc) /\ DestRegs(insts[n].pc) # {}
                    /\ \A j \in 1 .. n - 1 :
                          \/ DestRegs(insts[j].pc) \cap Named(insts[n]) # {}
                          \/ IsBarrier(insts[n].pc) /\ DestRegs(insts[j].pc) # {}
                          => j \in Before(insts)[n]
=============================================================================
