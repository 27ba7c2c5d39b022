--------------------------- MODULE ComputeUnitsProofs ---------------------------
(***************************************************************************)
(* What holds of the pipeline units of an SM for any number of subcores,   *)
(* any widths and any kernel.                                              *)
(***************************************************************************)
EXTENDS ComputeUnits, FiniteSetTheorems, SequenceTheorems, TLAPS

(* The last cycle in which u can have been given work by unit_cycle.       *)
Elapsed == IF phase = "units" THEN cycles - 1 ELSE cycles

(* A unit that takes instructions has less work than its ready_time says,  *)
(* and a unit that emits fetches has had no more than one a cycle.         *)
UnitBound(u) ==
    IF m_inst[u] = Idle
    THEN work[u] <= ready_time[u] /\ ready_time[u] <= cycles + Longest(u)
    ELSE ready_time[u] = INT_MAX /\ work[u] <= Elapsed

(* A unit at work has a warp.                                              *)
HeldByWarp(u) == m_inst[u] # Idle => m_inst[u].warp # 0

(* The inductive invariant.                                                *)
IInv ==
    /\ TypeOK
    /\ phase = "units" => cycles > 0
    /\ \A u \in Units : UnitBound(u) /\ HeldByWarp(u)

----
(* The smallest element of a set of natural numbers.                       *)
LEMMA LeastOfNats ==
    ASSUME NEW S, S \subseteq Nat, S # {}
    PROVE  Min(S) \in S
<1>. DEFINE Less == {p \in Nat \X Nat : p[1] < p[2]}
<1>1. IsWellFoundedOn(Less, Nat)
  BY NatLessThanWellFounded, Zenon DEF OpToRel
<1>2. \E x \in S : \A y \in S : ~(<<y, x>> \in Less)
  <2>. HIDE DEF Less
  <2>. QED BY <1>1, WFMin
<1>3. \E x \in S : \A y \in S : x <= y
  <2>1. PICK x \in S : \A y \in S : ~(<<y, x>> \in Less)
    BY <1>2
  <2>2. ASSUME NEW y \in S PROVE x <= y
    <3>1. <<y, x>> \in Nat \X Nat /\ ~(<<y, x>>[1] < <<y, x>>[2])
      BY <2>1
    <3>2. x \in Nat /\ y \in Nat /\ ~(y < x)
      BY <3>1
    <3>. QED BY <3>2
  <2>. QED BY <2>2
<1>. QED BY <1>3 DEF Min

(* load_all_subcore_units gives every subcore a unit of every kind.        *)
LEMMA UnitType ==
    ASSUME NEW u \in Units
    PROVE  u[2] \in Kinds
<1>1. PICK k \in Subcores, kind \in Kinds : u = unit(k, kind)
  BY DEF Units
<1>2. CASE ~Narrow(kind)
  BY <1>1, <1>2 DEF unit
<1>3. CASE Narrow(kind)
  <2>. DEFINE S == {i \in 1 .. Len(kinds) : Narrow(kinds[i])}
  <2>1. S # {}
    BY <1>3 DEF Kinds
  <2>2. S \subseteq Nat
    OBVIOUS
  <2>3. Min(S) \in S
    BY <2>1, <2>2, LeastOfNats
  <2>4. u[2] = kinds[Min(S)]
    BY <1>1, <1>3 DEF unit, unit_out
  <2>. QED BY <2>3, <2>4 DEF Kinds
<1>. QED BY <1>2, <1>3

(* A unit has at least one lane, so its occupancy is a number.             *)
LEMMA OccupancyType ==
    ASSUME NEW u \in Units
    PROVE  occupancy(u) \in Nat /\ Longest(u) \in Nat
<1>1. u[2] \in Kinds
  BY UnitType
<1>2. width[u[2]] \in Nat \ {0} /\ subcores \in Nat \ {0}
  BY <1>1, UnitsAssumption DEF UnitsAssumption
<1>3. unit_width(u) \in Nat \ {0}
  <2>1. CASE Narrow(u[2])
    BY <1>2, <2>1 DEF unit_width
  <2>2. CASE ~Narrow(u[2])
    <3>1. \A x, d \in Nat \ {0} : x >= d => x \div d \in Nat \ {0}
      BY SMT
    <3>. QED BY <1>2, <2>2, <3>1 DEF unit_width, Narrow
  <2>. QED BY <2>1, <2>2
<1>4. \A d \in Nat \ {0} : 32 \div d \in Nat
  BY SMT
<1>. QED BY <1>3, <1>4 DEF occupancy, Longest

LEMMA BoundTypes ==
    /\ MaxCycles \in Nat /\ MaxCycles < INT_MAX
    /\ NumBlocks \in Nat \ {0}
    /\ Warps \subseteq Nat \ {0}
    /\ INT_MAX \in Nat
<1>1. INT_MAX \in Nat
  BY SMT DEF INT_MAX
<1>2. MaxCycles \in 0 .. INT_MAX - 1
  BY UnitsAssumption DEF UnitsAssumption
<1>3. MaxCycles \in Nat /\ MaxCycles < INT_MAX
  BY <1>1, <1>2
<1>. QED BY <1>1, <1>3, UnitsAssumption DEF UnitsAssumption

----
LEMMA InitHolds == Init => IInv
<1>. SUFFICES ASSUME Init PROVE IInv
  OBVIOUS
<1>1. TypeOK
  BY BoundTypes DEF Init, TypeOK
<1>2. ASSUME NEW u \in Units
      PROVE  UnitBound(u) /\ HeldByWarp(u)
  BY OccupancyType DEF Init, UnitBound, HeldByWarp
<1>. QED BY <1>1, <1>2 DEF IInv, Init

LEMMA StartCycleStep ==
    ASSUME IInv, StartCycle
    PROVE  IInv'
<1>1. /\ TypeOK /\ phase = "idle" /\ cycles < MaxCycles
      /\ cycles' = cycles + 1 /\ phase' = "units"
      /\ UNCHANGED <<program, warp_vec, cursor, active, unit_vars>>
  BY DEF IInv, StartCycle
<1>2. cycles \in Nat /\ cycles' \in 0 .. MaxCycles
  BY <1>1, BoundTypes DEF TypeOK
<1>3. completions' \in [Warps -> Seq(Nat)]
  <2>. DEFINE due == {f \in fetches : f.when <= cycles + 1}
              Value(w, c) == IF Of(due, w, c) # {} /\ Of(fetches \ due, w, c) = {}
                             THEN cycles + 1 ELSE completions[w][c]
  <2>1. completions' = [w \in Warps |-> [c \in 1 .. Len(completions[w]) |-> Value(w, c)]]
    BY DEF StartCycle
  <2>2. ASSUME NEW w \in Warps
        PROVE  [c \in 1 .. Len(completions[w]) |-> Value(w, c)] \in Seq(Nat)
    <3>1. completions[w] \in Seq(Nat)
      BY <1>1 DEF TypeOK
    <3>2. Len(completions[w]) \in Nat /\ \A c \in 1 .. Len(completions[w]) : completions[w][c] \in Nat
      BY <3>1, ElementOfSeq, LenProperties
    <3>3. ASSUME NEW c \in 1 .. Len(completions[w])
          PROVE  Value(w, c) \in Nat
      <4>1. cycles + 1 \in Nat /\ completions[w][c] \in Nat
        BY <1>2, <3>2
      <4>2. Value(w, c) = cycles + 1 \/ Value(w, c) = completions[w][c]
        BY Zenon
      <4>. QED BY <4>1, <4>2, Zenon
    <3>. HIDE DEF Value
    <3>4. [c \in 1 .. Len(completions[w]) |-> Value(w, c)]
            \in [1 .. Len(completions[w]) -> Nat]
      BY <3>3
    <3>. QED BY <3>2, <3>4, SeqDef
  <2>. HIDE DEF Value
  <2>. QED BY <2>1, <2>2
<1>4. TypeOK'
  BY <1>1, <1>2, <1>3 DEF TypeOK, unit_vars
<1>5. ASSUME NEW u \in Units
      PROVE  (UnitBound(u) /\ HeldByWarp(u))'
  <2>1. UnitBound(u) /\ HeldByWarp(u)
    BY DEF IInv
  <2>2. ready_time[u] \in Nat /\ work[u] \in Nat /\ Longest(u) \in Nat
    BY <1>1, OccupancyType DEF TypeOK
  <2>3. HeldByWarp(u)'
    BY <1>1, <2>1 DEF HeldByWarp, unit_vars
  <2>4. UnitBound(u)'
    BY <1>1, <1>2, <2>1, <2>2 DEF UnitBound, Elapsed, unit_vars
  <2>. QED BY <2>3, <2>4
<1>6. phase' = "units" => cycles' > 0
  BY <1>1, <1>2
<1>. QED BY <1>4, <1>5, <1>6 DEF IInv

LEMMA UnitCycleStep ==
    ASSUME IInv, UnitCycle
    PROVE  IInv'
<1>1. /\ TypeOK /\ phase = "units" /\ cycles > 0 /\ phase' = "schedule" /\ cursor' = 1
      /\ active' \subseteq Subcores
      /\ UNCHANGED <<sm_vars, completions>>
  BY DEF IInv, UnitCycle
<1>2. /\ m_inst' = [u \in Units |->
            IF ~Emits(u) THEN m_inst[u]
            ELSE IF Last(u) THEN Idle
            ELSE [warp |-> m_inst[u].warp, index |-> m_inst[u].index, point |-> m_inst[u].point + 1]]
      /\ ready_time' = [u \in Units |-> IF Emits(u) /\ Last(u) THEN cycles ELSE ready_time[u]]
      /\ work' = [u \in Units |-> IF Emits(u) THEN work[u] + 1 ELSE work[u]]
  BY DEF UnitCycle, ReadyAgain
<1>3. cycles \in Nat /\ cycles' = cycles
  BY <1>1 DEF TypeOK, sm_vars
<1>4. ASSUME NEW u \in Units
      PROVE  ready_time[u] \in Nat /\ work[u] \in Nat
  BY <1>1 DEF TypeOK
<1>5. TypeOK'
  <2>1. ready_time' \in [Units -> Nat] /\ work' \in [Units -> Nat] /\ DOMAIN m_inst' = Units
    BY <1>2, <1>3, <1>4
  <2>. QED BY <1>1, <1>3, <2>1, BoundTypes DEF TypeOK, sm_vars
<1>6. ASSUME NEW u \in Units
      PROVE  (UnitBound(u) /\ HeldByWarp(u))'
  <2>1. UnitBound(u) /\ HeldByWarp(u)
    BY DEF IInv
  <2>2. ready_time[u] \in Nat /\ work[u] \in Nat /\ Longest(u) \in Nat
    BY <1>4, OccupancyType
  <2>3. CASE ~Emits(u)
    <3>1. m_inst'[u] = m_inst[u] /\ ready_time'[u] = ready_time[u] /\ work'[u] = work[u]
      BY <1>2, <2>3
    <3>. QED BY <1>1, <1>3, <2>1, <2>2, <3>1 DEF UnitBound, HeldByWarp, Elapsed
  <2>4. CASE Emits(u)
    <3>1. m_inst[u] # Idle
      BY <2>4 DEF Emits, Holders
    <3>2. ready_time[u] = INT_MAX /\ work[u] <= cycles - 1 /\ m_inst[u].warp # 0
      BY <1>1, <2>1, <3>1 DEF UnitBound, HeldByWarp, Elapsed
    <3>3. work'[u] = work[u] + 1
      BY <1>2, <2>4
    <3>4. CASE Last(u)
      <4>1. m_inst'[u] = Idle /\ ready_time'[u] = cycles
        BY <1>2, <2>4, <3>4
      <4>. QED BY <1>3, <2>2, <3>2, <3>3, <4>1 DEF UnitBound, HeldByWarp
    <3>5. CASE ~Last(u)
      <4>1. ready_time'[u] = ready_time[u]
        BY <1>2, <3>5
      <4>2. m_inst'[u] = [warp |-> m_inst[u].warp, index |-> m_inst[u].index,
                          point |-> m_inst[u].point + 1]
        BY <1>2, <2>4, <3>5
      <4>3. m_inst'[u].warp # 0
        BY <3>2, <4>2
      <4>4. m_inst'[u] # Idle
        BY <4>3 DEF Idle
      <4>. QED BY <1>1, <1>3, <2>2, <3>2, <3>3, <4>1, <4>3, <4>4
               DEF UnitBound, HeldByWarp, Elapsed
    <3>. QED BY <3>4, <3>5
  <2>. QED BY <2>3, <2>4
<1>. QED BY <1>1, <1>5, <1>6 DEF IInv

(* An instruction that can issue has a unit that is ready, and a unit that *)
(* is ready emits no fetches.                                              *)
LEMMA TakerIsReady ==
    ASSUME IInv, NEW w \in Warps, Issuable(w)
    PROVE  LET k == Min(Takers(w))
               u == unit(k, Instruction(w, warp_point(w)).unit)
           IN  /\ k \in Subcores /\ u \in Units
               /\ ready_time[u] <= cycles /\ m_inst[u] = Idle
<1>. DEFINE k == Min(Takers(w))
            u == unit(k, Instruction(w, warp_point(w)).unit)
<1>1. TypeOK
  BY DEF IInv
<1>2. Takers(w) # {} /\ Takers(w) \subseteq active /\ active \subseteq Subcores
  BY <1>1 DEF Issuable, Takers, TypeOK
<1>3. Takers(w) \subseteq Nat
  <2>1. subcores \in Nat
    BY UnitsAssumption DEF UnitsAssumption
  <2>2. Subcores \subseteq Nat
    BY <2>1, SMT DEF Subcores
  <2>. QED BY <1>2, <2>2
<1>4. k \in Takers(w)
  BY <1>2, <1>3, LeastOfNats
<1>5. Instruction(w, warp_point(w)).unit \in Kinds
  <2>1. completions[w] \in Seq(Nat)
    BY <1>1 DEF TypeOK
  <2>2. Len(completions[w]) \in Nat
    BY <2>1, LenProperties
  <2>3. Len(program[w]) \in Nat /\ program \in Programs
    BY <1>1, UnitsAssumption DEF UnitsAssumption, TypeOK
  <2>4. warp_point(w) \in 1 .. Len(program[w])
    BY <2>2, <2>3 DEF Issuable, warp_point
  <2>. QED BY <2>3, <2>4, UnitsAssumption DEF UnitsAssumption, Instruction
<1>6. u \in Units
  BY <1>2, <1>4, <1>5 DEF Units
<1>7. ready_time[u] <= cycles
  BY <1>4 DEF Takers, Ready
<1>8. m_inst[u] = Idle
  <2>1. cycles \in Nat /\ cycles <= MaxCycles
    BY <1>1, BoundTypes DEF TypeOK
  <2>2. ready_time[u] # INT_MAX
    BY <1>7, <2>1, BoundTypes
  <2>. QED BY <1>6, <2>2 DEF IInv, UnitBound
<1>. QED BY <1>2, <1>4, <1>6, <1>7, <1>8

(* Issuing an instruction that occupies a ready unit for time cycles.      *)
LEMMA Occupies ==
    ASSUME IInv, NEW u \in Units, ready_time[u] <= cycles, m_inst[u] = Idle,
           phase = "schedule", NEW time \in Nat, time <= Longest(u),
           ready_time' = [ready_time EXCEPT ![u] = @ + time],
           work' = [work EXCEPT ![u] = @ + time],
           cycles' = cycles, m_inst' = m_inst, phase' # "units"
    PROVE  /\ ready_time' \in [Units -> Nat] /\ work' \in [Units -> Nat]
           /\ \A v \in Units : (UnitBound(v) /\ HeldByWarp(v))'
<1>1. /\ ready_time \in [Units -> Nat] /\ work \in [Units -> Nat] /\ cycles \in Nat
  BY DEF IInv, TypeOK
<1>2. ready_time' \in [Units -> Nat] /\ work' \in [Units -> Nat]
  BY <1>1
<1>3. ASSUME NEW v \in Units
      PROVE  (UnitBound(v) /\ HeldByWarp(v))'
  <2>1. UnitBound(v) /\ HeldByWarp(v)
    BY DEF IInv
  <2>2. HeldByWarp(v)'
    BY <2>1 DEF HeldByWarp
  <2>3. CASE v # u
    <3>1. ready_time'[v] = ready_time[v] /\ work'[v] = work[v]
      BY <1>1, <2>3
    <3>. QED BY <2>1, <2>2, <3>1 DEF UnitBound, Elapsed
  <2>4. CASE v = u
    <3>1. ready_time'[u] = ready_time[u] + time /\ work'[u] = work[u] + time
      BY <1>1
    <3>2. work[u] <= ready_time[u]
      BY <2>1, <2>4 DEF UnitBound
    <3>3. ready_time[u] \in Nat /\ work[u] \in Nat /\ Longest(u) \in Nat
      BY <1>1, OccupancyType
    <3>. QED BY <1>1, <2>2, <2>4, <3>1, <3>2, <3>3 DEF UnitBound
  <2>. QED BY <2>3, <2>4
<1>. QED BY <1>2, <1>3

(* What every issue does to the completions.                               *)
LEMMA CompletesType ==
    ASSUME TypeOK, NEW w \in Warps, NEW when \in Nat, Completes(w, when)
    PROVE  completions' \in [Warps -> Seq(Nat)]
<1>1. completions \in [Warps -> Seq(Nat)]
  BY DEF TypeOK
<1>2. Append(completions[w], when) \in Seq(Nat)
  BY <1>1, AppendProperties
<1>. QED BY <1>1, <1>2 DEF Completes

(* A turn of schedule_warps_in_subcores, without what it issues.           *)
LEMMA IssueStep ==
    ASSUME IInv, NEW w \in Warps, NEW u \in Units,
           u = unit(Min(Takers(w)), Instruction(w, warp_point(w)).unit),
           Issuable(w), phase = "schedule", phase' # "units", UNCHANGED <<program, cycles>>,
           IssueTimed(w, u) \/ IssueAtomic(w, u) \/ IssueAccess(w, u)
    PROVE  /\ completions' \in [Warps -> Seq(Nat)]
           /\ ready_time' \in [Units -> Nat] /\ work' \in [Units -> Nat]
           /\ DOMAIN m_inst' = Units
           /\ \A v \in Units : (UnitBound(v) /\ HeldByWarp(v))'
<1>1. TypeOK /\ ready_time[u] <= cycles /\ m_inst[u] = Idle /\ DOMAIN m_inst = Units
  BY TakerIsReady DEF IInv, TypeOK
<1>2. /\ ready_time \in [Units -> Nat] /\ work \in [Units -> Nat] /\ cycles \in Nat
  BY <1>1 DEF TypeOK
<1>3. INT_MAX \in Nat
  BY BoundTypes
<1>4. CASE IssueTimed(w, u)
  <2>1. /\ Completes(w, cycles + Instruction(w, warp_point(w)).latency)
        /\ ready_time' = [ready_time EXCEPT ![u] = @ + occupancy(u)]
        /\ work' = [work EXCEPT ![u] = @ + occupancy(u)]
        /\ m_inst' = m_inst
    BY <1>2, <1>4 DEF IssueTimed, BusyUntil
  <2>2. occupancy(u) \in Nat /\ occupancy(u) <= Longest(u)
    BY OccupancyType DEF Longest
  <2>3. Instruction(w, warp_point(w)).latency \in Nat
    <3>1. completions[w] \in Seq(Nat)
      BY <1>1 DEF TypeOK
    <3>2. Len(completions[w]) \in Nat
      BY <3>1, LenProperties
    <3>3. Len(program[w]) \in Nat /\ program \in Programs
      BY <1>1, UnitsAssumption DEF UnitsAssumption, TypeOK
    <3>4. warp_point(w) \in 1 .. Len(program[w])
      BY <3>2, <3>3 DEF Issuable, warp_point
    <3>5. Instruction(w, warp_point(w)).act = "timed"
      BY <1>4 DEF IssueTimed
    <3>. QED BY <3>3, <3>4, <3>5, UnitsAssumption DEF UnitsAssumption, Instruction
  <2>4. completions' \in [Warps -> Seq(Nat)]
    BY <1>1, <1>2, <2>1, <2>3, CompletesType
  <2>5. /\ ready_time' \in [Units -> Nat] /\ work' \in [Units -> Nat]
        /\ \A v \in Units : (UnitBound(v) /\ HeldByWarp(v))'
    <3>1. PICK time \in Nat : time = occupancy(u)
      BY <2>2
    <3>. QED BY <1>1, <2>1, <2>2, <3>1, Occupies
  <2>. QED BY <1>1, <2>1, <2>4, <2>5
<1>5. CASE IssueAtomic(w, u)
  <2>1. /\ Completes(w, INT_MAX)
        /\ ready_time' = [ready_time EXCEPT ![u] = @ + 4]
        /\ work' = [work EXCEPT ![u] = @ + 4]
        /\ m_inst' = m_inst
    BY <1>5 DEF IssueAtomic
  <2>2. 4 <= Longest(u)
    BY OccupancyType DEF Longest
  <2>3. completions' \in [Warps -> Seq(Nat)]
    BY <1>1, <1>3, <2>1, CompletesType
  <2>. QED BY <1>1, <2>1, <2>2, <2>3, Occupies
<1>6. CASE IssueAccess(w, u)
  <2>1. /\ Completes(w, INT_MAX)
        /\ ready_time' = [ready_time EXCEPT ![u] = INT_MAX]
        /\ m_inst' = [m_inst EXCEPT ![u] = [warp |-> w, index |-> warp_point(w), point |-> 1]]
        /\ work' = work
    BY <1>6 DEF IssueAccess
  <2>2. completions' \in [Warps -> Seq(Nat)]
    BY <1>1, <1>3, <2>1, CompletesType
  <2>3. ready_time' \in [Units -> Nat] /\ work' \in [Units -> Nat] /\ DOMAIN m_inst' = Units
    BY <1>1, <1>2, <1>3, <2>1
  <2>4. ASSUME NEW v \in Units
        PROVE  (UnitBound(v) /\ HeldByWarp(v))'
    <3>1. UnitBound(v) /\ HeldByWarp(v)
      BY DEF IInv
    <3>2. CASE v # u
      <4>1. ready_time'[v] = ready_time[v] /\ m_inst'[v] = m_inst[v]
        BY <1>1, <1>2, <2>1, <3>2
      <4>. QED BY <2>1, <3>1, <4>1 DEF UnitBound, HeldByWarp, Elapsed
    <3>3. CASE v = u
      <4>1. ready_time'[u] = INT_MAX
        BY <1>2, <2>1
      <4>2. m_inst'[u] = [warp |-> w, index |-> warp_point(w), point |-> 1]
        BY <1>1, <2>1
      <4>3. m_inst'[u].warp # 0
        BY <4>2, BoundTypes
      <4>4. m_inst'[u] # Idle
        BY <4>3 DEF Idle
      <4>5. work[u] <= cycles
        BY <1>1, <1>2, <3>1, <3>3 DEF UnitBound
      <4>. QED BY <2>1, <3>3, <4>1, <4>3, <4>4, <4>5 DEF UnitBound, HeldByWarp, Elapsed
    <3>. QED BY <3>2, <3>3
  <2>. QED BY <2>2, <2>3, <2>4
<1>. QED BY <1>4, <1>5, <1>6

LEMMA ScheduleStep ==
    ASSUME IInv, Schedule
    PROVE  IInv'
<1>. DEFINE here == {w \in warp_vec : BlockOf[w] = cursor}
            able == {w \in here : Issuable(w)}
            w == Min(able)
            k == Min(Takers(w))
            u == unit(k, Instruction(w, warp_point(w)).unit)
<1>1. TypeOK /\ phase = "schedule" /\ NextBlock /\ UNCHANGED <<program, cycles>>
  BY DEF IInv, Schedule
<1>2. phase' \in {"idle", "schedule"} /\ cursor' \in 0 .. NumBlocks
  BY <1>1, BoundTypes DEF NextBlock, TypeOK
<1>3. CASE able = {}
  <2>1. /\ warp_vec' \subseteq warp_vec
        /\ UNCHANGED <<active, completions, unit_vars, fetches>>
    BY <1>3 DEF Schedule
  <2>2. TypeOK'
    BY <1>1, <1>2, <2>1 DEF TypeOK, unit_vars
  <2>3. ASSUME NEW v \in Units
        PROVE  (UnitBound(v) /\ HeldByWarp(v))'
    <3>1. UnitBound(v) /\ HeldByWarp(v)
      BY DEF IInv
    <3>. QED BY <1>1, <1>2, <2>1, <3>1 DEF UnitBound, HeldByWarp, Elapsed, unit_vars
  <2>. QED BY <1>2, <2>2, <2>3 DEF IInv
<1>4. CASE able # {}
  <2>1. /\ warp_vec' \subseteq warp_vec /\ active' \subseteq active
        /\ IssueTimed(w, u) \/ IssueAtomic(w, u) \/ IssueAccess(w, u)
    BY <1>4 DEF Schedule
  <2>2. able \subseteq Warps
    BY <1>1 DEF TypeOK
  <2>3. w \in able
    <3>1. able \subseteq Nat
      BY <2>2, BoundTypes
    <3>. QED BY <1>4, <3>1, LeastOfNats
  <2>4. w \in Warps /\ Issuable(w)
    BY <2>2, <2>3
  <2>. HIDE DEF w
  <2>5. u \in Units
    BY <2>4, TakerIsReady
  <2>6. /\ completions' \in [Warps -> Seq(Nat)]
        /\ ready_time' \in [Units -> Nat] /\ work' \in [Units -> Nat]
        /\ DOMAIN m_inst' = Units
        /\ \A v \in Units : (UnitBound(v) /\ HeldByWarp(v))'
    <3>1. PICK x \in Warps : x = w
      BY <2>4
    <3>2. PICK y \in Units : y = u
      BY <2>5
    <3>3. /\ y = unit(Min(Takers(x)), Instruction(x, warp_point(x)).unit)
          /\ Issuable(x)
          /\ IssueTimed(x, y) \/ IssueAtomic(x, y) \/ IssueAccess(x, y)
      BY <2>1, <2>4, <3>1, <3>2
    <3>. QED BY <1>1, <1>2, <3>3, IssueStep
  <2>7. TypeOK'
    BY <1>1, <1>2, <2>1, <2>6 DEF TypeOK
  <2>. QED BY <1>2, <2>6, <2>7 DEF IInv
<1>. QED BY <1>3, <1>4

LEMMA StepHolds == IInv /\ [Next]_vars => IInv'
<1>. SUFFICES ASSUME IInv, [Next]_vars PROVE IInv'
  OBVIOUS
<1>1. CASE StartCycle
  BY <1>1, StartCycleStep
<1>2. CASE UnitCycle
  BY <1>2, UnitCycleStep
<1>3. CASE Schedule
  BY <1>3, ScheduleStep
<1>4. CASE ScheduleEnd
  <2>1. /\ TypeOK /\ phase = "schedule" /\ phase' = "idle" /\ cursor' = 0
        /\ UNCHANGED <<sm_vars, active, completions, unit_vars>>
    BY <1>4 DEF IInv, ScheduleEnd
  <2>2. TypeOK'
    BY <2>1, BoundTypes DEF TypeOK, sm_vars, unit_vars
  <2>3. ASSUME NEW v \in Units
        PROVE  (UnitBound(v) /\ HeldByWarp(v))'
    <3>1. UnitBound(v) /\ HeldByWarp(v)
      BY DEF IInv
    <3>. QED BY <2>1, <3>1 DEF UnitBound, HeldByWarp, Elapsed, sm_vars, unit_vars
  <2>. QED BY <2>1, <2>2, <2>3 DEF IInv
<1>5. CASE UNCHANGED vars
  <2>1. TypeOK'
    BY <1>5 DEF IInv, TypeOK, vars, sm_vars, unit_vars
  <2>2. ASSUME NEW v \in Units
        PROVE  (UnitBound(v) /\ HeldByWarp(v))'
    <3>1. UnitBound(v) /\ HeldByWarp(v)
      BY DEF IInv
    <3>. QED BY <1>5, <3>1 DEF UnitBound, HeldByWarp, Elapsed, vars, sm_vars, unit_vars
  <2>. QED BY <1>5, <2>1, <2>2 DEF IInv, vars, sm_vars
<1>. QED BY <1>1, <1>2, <1>3, <1>4, <1>5 DEF Next, Ended

----
(* Although ready_time is advanced from where it was and not from the      *)
(* current cycle (gpu.cpp:258), no unit is ever given more work than there *)
(* were cycles, but for the instruction it is at: for every kernel, every  *)
(* width and every number of subcores, shared units included.              *)
THEOREM ThroughputCorrect == Spec => [](TypeOK /\ UnitThroughput)
<1>1. IInv => TypeOK /\ UnitThroughput
  <2>. SUFFICES ASSUME IInv, NEW u \in Units
                PROVE  TypeOK /\ work[u] <= cycles + Longest(u)
    BY DEF UnitThroughput, IInv
  <2>1. TypeOK /\ UnitBound(u)
    BY DEF IInv
  <2>2. ready_time[u] \in Nat /\ work[u] \in Nat /\ Longest(u) \in Nat /\ cycles \in Nat
    BY <2>1, OccupancyType DEF TypeOK
  <2>. QED BY <2>1, <2>2 DEF UnitBound, Elapsed
<1>. QED BY <1>1, InitHolds, StepHolds, PTL DEF Spec
=============================================================================
