----------------------------- MODULE ComputeUnits -----------------------------
(***************************************************************************)
(* The pipeline units of one SM and the issue of instructions to them:     *)
(* load_all_subcore_units, schedule_warps_in_subcores, issue_inst, the     *)
(* process functions of LdStInst and sm_unit::unit_cycle (swift-sim/gpu.cpp*)
(* and gpu.h).  LoadStore follows the fetches and has units that are       *)
(* always ready; this module follows the times of the units.               *)
(*                                                                         *)
(* Abstractions.  All blocks are resident from the start.  A fetch that has*)
(* left its unit is answered after one of Delays cycles, whatever the L1   *)
(* and the network do with it (LoadStore, LocalInterconnect).  An          *)
(* instruction is what decides its issue: its kind of unit, what process   *)
(* does with it, its latency, sectors and dependencies.  The number of     *)
(* dispatch units per warp is 1, as configured.  Indices start at 1.       *)
(***************************************************************************)
EXTENDS Integers, Sequences, FiniteSetsExt

CONSTANTS
    subcores,     \* their number
    kinds,        \* the keys of m_sm_pipeline_units, in the order of the map
    width,        \* width[kind]: its value, the lanes the SM has of a kind
    Warps,        \* the warps of the SM, by number
    NumBlocks,    \* the blocks are 1 .. NumBlocks
    BlockOf,      \* BlockOf[w]: the block of warp w
    Programs,     \* what the warps may run: functions from warps to sequences
                  \* of records with fields
                  \*   unit    one of kinds
                  \*   act     "timed", "atomic" or "access"
                  \*   latency of a timed one
                  \*   sectors of the others, each a line and a bank
                  \*   deps    m_dependency
    Delays,       \* cycles until a fetch may be answered
    MaxCycles     \* bound of the clock

INT_MAX == 2147483647

Kinds == {kinds[i] : i \in 1 .. Len(kinds)}
Subcores == 0 .. subcores - 1

ASSUME UnitsAssumption ==
    /\ subcores \in Nat \ {0}
    /\ Len(kinds) \in Nat
    /\ width \in [Kinds -> 1 .. 32 * subcores]
    /\ "LDS_units" \in Kinds => width["LDS_units"] >= subcores
    /\ Warps \subseteq Nat \ {0} /\ IsFiniteSet(Warps)
    /\ NumBlocks \in Nat \ {0} /\ BlockOf \in [Warps -> 1 .. NumBlocks]
    /\ Delays \subseteq Nat \ {0}
    /\ MaxCycles \in 0 .. INT_MAX - 1
    /\ \A p \in Programs : \A w \in Warps : Len(p[w]) \in Nat
    /\ \A p \in Programs : \A w \in Warps : \A c \in 1 .. Len(p[w]) :
          LET inst == p[w][c]
          IN  /\ inst.unit \in Kinds
              /\ inst.act \in {"timed", "atomic", "access"}
              /\ inst.act = "timed" => inst.latency \in Nat
              /\ inst.act # "timed" => inst.unit = "LDS_units" /\ inst.sectors # << >>
              /\ inst.deps \subseteq 1 .. c - 1

(* load_all_subcore_units: a kind of which there are fewer lanes than      *)
(* subcores has unit_out, the unit made for the first such kind in subcore *)
(* 0; every other kind has a unit in each subcore.                         *)
Narrow(kind) == width[kind] < subcores

unit_out == <<0, kinds[Min({i \in 1 .. Len(kinds) : Narrow(kinds[i])})]>>

unit(k, kind) == IF Narrow(kind) THEN unit_out ELSE <<k, kind>>

Units == {unit(k, kind) : k \in Subcores, kind \in Kinds}

unit_width(u) == IF Narrow(u[2]) THEN width[u[2]] ELSE width[u[2]] \div subcores

(* The cycles the 32 threads of a warp take in a unit.                     *)
occupancy(u) == 32 \div unit_width(u)

VARIABLES
    program,      \* the kernel, one of Programs
    cycles,
    phase,        \* the part of sm_cycle that is next
    cursor,       \* the block schedule_warps_in_subcores is at
    active,       \* the subcores that may still issue in this cycle
    warp_vec,     \* the warps that have not retired
    completions,  \* completions[w][c]: when instruction c of w is done
    ready_time,   \* ready_time[u]: the cycle from which u takes an instruction
    m_inst,       \* m_inst[u]: the memory instruction u emits fetches of
    fetches,      \* the fetches not yet answered
    work          \* history: the cycles of work that u has been given

sm_vars == <<program, cycles, warp_vec>>
unit_vars == <<ready_time, m_inst, work>>
vars == <<sm_vars, phase, cursor, active, completions, unit_vars, fetches>>

Blocks == 1 .. NumBlocks
Idle == [warp |-> 0, index |-> 0, point |-> 0]
Instruction(w, c) == program[w][c]

warp_point(w) == Len(completions[w]) + 1

Init ==
    /\ program \in Programs
    /\ cycles = 0 /\ phase = "idle" /\ cursor = 0 /\ active = {}
    /\ warp_vec = Warps
    /\ completions = [w \in Warps |-> << >>]
    /\ ready_time = [u \in Units |-> 0]
    /\ m_inst = [u \in Units |-> Idle]
    /\ fetches = {}
    /\ work = [u \in Units |-> 0]

----
(* A fetch of instruction c of w that is answered in cycle when.           *)
Fetch(w, c, sector, when) == [warp |-> w, index |-> c, sector |-> sector, when |-> when]

Of(S, w, c) == {f \in S : f.warp = w /\ f.index = c}

(* sm_cycle up to the units: the answers of this cycle.  An instruction is *)
(* done when none of the fetches made so far is outstanding.               *)
StartCycle ==
    LET due == {f \in fetches : f.when <= cycles + 1}
    IN  /\ phase = "idle"
        /\ warp_vec # {}
        /\ cycles < MaxCycles
        /\ cycles' = cycles + 1
        /\ fetches' = fetches \ due
        /\ completions' = [w \in Warps |-> [c \in 1 .. Len(completions[w]) |->
              IF Of(due, w, c) # {} /\ Of(fetches \ due, w, c) = {}
              THEN cycles + 1 ELSE completions[w][c]]]
        /\ phase' = "units"
        /\ UNCHANGED <<program, warp_vec, cursor, active, unit_vars>>

----
(* unit_cycle of the LDS units, in the order of the subcores: one fetch    *)
(* each, unless the bank of its sector already has one in this cycle.      *)
Holders == {u \in Units : m_inst[u] # Idle}

Held(u) == Instruction(m_inst[u].warp, m_inst[u].index)
next_sector(u) == Held(u).sectors[m_inst[u].point]

Emits(u) ==
    /\ u \in Holders
    /\ \A v \in Holders : v[1] < u[1] => next_sector(v)[2] # next_sector(u)[2]

Last(u) == m_inst[u].point = Len(Held(u).sectors)

\* Faulty variant of ReadyAgain: the unit is not released.
NeverReady(u) == ready_time[u]

(* With the last fetch the unit is free again, in this cycle.              *)
ReadyAgain(u) == cycles

(* check_unit *)
Ready(u) == ready_time[u] <= cycles

(* The end of sm_cycle begins with the subcores that have a ready unit.    *)
UnitCycle ==
    /\ phase = "units"
    /\ \E delay \in [{u \in Units : Emits(u)} -> Delays] :
          fetches' = fetches \union
             {Fetch(m_inst[u].warp, m_inst[u].index, next_sector(u), cycles + delay[u]) :
                 u \in DOMAIN delay}
    /\ m_inst' = [u \in Units |->
          IF ~Emits(u) THEN m_inst[u]
          ELSE IF Last(u) THEN Idle
          ELSE [warp |-> m_inst[u].warp, index |-> m_inst[u].index, point |-> m_inst[u].point + 1]]
    /\ ready_time' = [u \in Units |->
          IF Emits(u) /\ Last(u) THEN ReadyAgain(u) ELSE ready_time[u]]
    /\ work' = [u \in Units |-> IF Emits(u) THEN work[u] + 1 ELSE work[u]]
    /\ active' = {k \in Subcores : \E kind \in Kinds : ready_time'[unit(k, kind)] <= cycles}
    /\ phase' = "schedule" /\ cursor' = 1
    /\ UNCHANGED <<sm_vars, completions>>

----
(* schedule_warps_in_subcores *)

check_dependency(w) ==
    \A c \in Instruction(w, warp_point(w)).deps : completions[w][c] <= cycles

(* The subcores that may issue the next instruction of w.                  *)
Takers(w) == {k \in active : Ready(unit(k, Instruction(w, warp_point(w)).unit))}

Issuable(w) ==
    /\ warp_point(w) <= Len(program[w])
    /\ check_dependency(w)
    /\ Takers(w) # {}

(* Nothing to issue, no fetch outstanding and no unit at work for it.      *)
Done(w) ==
    /\ warp_point(w) > Len(program[w])
    /\ \A f \in fetches : f.warp # w
    /\ \A u \in Units : m_inst[u].warp # w

(* issue_inst gives u the next instruction of w.                           *)
Completes(w, when) == completions' = [completions EXCEPT ![w] = Append(@, when)]

\* Faulty variant of BusyUntil: the unit is busy for one cycle.
BusyOneCycle(u) == ready_time[u] + 1

BusyUntil(u) == ready_time[u] + occupancy(u)

IssueTimed(w, u) ==
    /\ Instruction(w, warp_point(w)).act = "timed"
    /\ Completes(w, cycles + Instruction(w, warp_point(w)).latency)
    /\ ready_time' = [ready_time EXCEPT ![u] = BusyUntil(u)]
    /\ work' = [work EXCEPT ![u] = @ + occupancy(u)]
    /\ UNCHANGED <<m_inst, fetches>>

(* process_ATOM_ATOMG makes all the fetches at once.                       *)
IssueAtomic(w, u) ==
    LET inst == Instruction(w, warp_point(w))
    IN  /\ inst.act = "atomic"
        /\ Completes(w, INT_MAX)
        /\ \E delay \in [1 .. Len(inst.sectors) -> Delays] :
              fetches' = fetches \union
                 {Fetch(w, warp_point(w), inst.sectors[i], cycles + delay[i]) :
                     i \in DOMAIN delay}
        /\ ready_time' = [ready_time EXCEPT ![u] = @ + 4]
        /\ work' = [work EXCEPT ![u] = @ + 4]
        /\ UNCHANGED m_inst

(* process_LDG_STG gives the unit the instruction.                         *)
IssueAccess(w, u) ==
    /\ Instruction(w, warp_point(w)).act = "access"
    /\ Completes(w, INT_MAX)
    /\ ready_time' = [ready_time EXCEPT ![u] = INT_MAX]
    /\ m_inst' = [m_inst EXCEPT ![u] = [warp |-> w, index |-> warp_point(w), point |-> 1]]
    /\ UNCHANGED <<fetches, work>>

NextBlock ==
    IF cursor < NumBlocks THEN cursor' = cursor + 1 /\ UNCHANGED phase
                          ELSE cursor' = 0 /\ phase' = "idle"

(* The warps of a block in order: those that are done retire, and the first*)
(* that can issue does so, on the first subcore that takes it, and ends the*)
(* block's turn.                                                           *)
Schedule ==
    LET here == {w \in warp_vec : BlockOf[w] = cursor}
        able == {w \in here : Issuable(w)}
    IN  /\ phase = "schedule" /\ active # {}
        /\ IF able = {}
           THEN /\ warp_vec' = warp_vec \ {w \in here : Done(w)}
                /\ UNCHANGED <<active, completions, unit_vars, fetches>>
           ELSE LET w == Min(able)
                    k == Min(Takers(w))
                    u == unit(k, Instruction(w, warp_point(w)).unit)
                IN  /\ warp_vec' = warp_vec \ {v \in here : v < w /\ Done(v)}
                    /\ active' = active \ {k}
                    /\ IssueTimed(w, u) \/ IssueAtomic(w, u) \/ IssueAccess(w, u)
        /\ NextBlock
        /\ UNCHANGED <<program, cycles>>

(* No subcore is left: the blocks that remain have no turn.                *)
ScheduleEnd ==
    /\ phase = "schedule" /\ active = {}
    /\ phase' = "idle" /\ cursor' = 0
    /\ UNCHANGED <<sm_vars, active, completions, unit_vars, fetches>>

(* sm_active() is false: the SM's clock stands still.                      *)
Ended == phase = "idle" /\ warp_vec = {} /\ UNCHANGED vars

Next == StartCycle \/ UnitCycle \/ Schedule \/ ScheduleEnd \/ Ended

Spec == Init /\ [][Next]_vars /\ WF_vars(Next)

----
TypeOK ==
    /\ program \in Programs
    /\ cycles \in 0 .. MaxCycles
    /\ phase \in {"idle", "units", "schedule"}
    /\ cursor \in 0 .. NumBlocks
    /\ active \subseteq Subcores
    /\ warp_vec \subseteq Warps
    /\ completions \in [Warps -> Seq(Nat)]
    /\ ready_time \in [Units -> Nat]
    /\ DOMAIN m_inst = Units
    /\ work \in [Units -> Nat]

(* The longest that one instruction occupies u; an atomic takes 4 cycles. *)
Longest(u) == IF occupancy(u) > 4 THEN occupancy(u) ELSE 4

(* Adding an occupancy to a ready_time that lies in the past lets a unit   *)
(* take a burst of instructions after an idle time, but it never gains: at *)
(* any time a unit has been given no more work than there were cycles, but *)
(* for the instruction it is at.  A unit the subcores share has one such   *)
(* allowance, not one for each of them, and a load that waits for its bank *)
(* gives none.                                                             *)
UnitThroughput == \A u \in Units : work[u] <= cycles + Longest(u)

(* Every warp issues all its instructions and retires: no unit, shared or  *)
(* not, stays busy for ever, and neither the order of the scan nor the one *)
(* issue a block has per cycle starves a warp.                             *)
EveryWarpIssues == <>(warp_vec = {})
=============================================================================
