--------------------------- MODULE LoadStoreProofs ---------------------------
(***************************************************************************)
(* What holds of an SM's memory path for any program, any number of warps, *)
(* blocks, banks and subcores and any MSHR limits.                         *)
(***************************************************************************)
EXTENDS LoadStore, FiniteSetTheorems, SequenceTheorems, TLAPS

(* The smallest element of a set of natural numbers.                       *)
LEMMA MinOfNats ==
    ASSUME NEW S, S \subseteq Nat, S # {}
    PROVE  Min(S) \in S /\ \A y \in S : Min(S) <= y
<1> DEFINE Less == {p \in Nat \X Nat : p[1] < p[2]}
<1>1. IsWellFoundedOn(Less, Nat)
  BY NatLessThanWellFounded, Zenon DEF OpToRel
<1>2. \E x \in S : \A y \in S : ~(<<y, x>> \in Less)
  <2> HIDE DEF Less
  <2> QED
    BY <1>1, WFMin
<1>3. \E x \in S : \A y \in S : x <= y
  <2>1. PICK x \in S : \A y \in S : ~(<<y, x>> \in Less)
    BY <1>2
  <2>2. ASSUME NEW y \in S PROVE x <= y
    <3>1. <<y, x>> \in Nat \X Nat /\ ~(<<y, x>>[1] < <<y, x>>[2])
      BY <2>1
    <3>2. x \in Nat /\ y \in Nat /\ ~(y < x)
      BY <3>1
    <3> QED
      BY <3>2
  <2> QED
    BY <2>2
<1> QED
  BY <1>3 DEF Min

LEMMA MinOfTwo ==
    ASSUME NEW x \in Int, NEW y \in Int
    PROVE  Min({x, y}) = IF x <= y THEN x ELSE y
  BY DEF Min

(* A sequence has finitely many elements.                                  *)
LEMMA RangeIsFinite ==
    ASSUME NEW S, NEW s \in Seq(S)
    PROVE  IsFiniteSet(Range(s)) /\ Range(s) \subseteq S
<1>1. s \in [1 .. Len(s) -> S] /\ Len(s) \in Nat /\ DOMAIN s = 1 .. Len(s)
  BY LenProperties
<1>2. s \in [1 .. Len(s) -> Range(s)] /\ Range(s) \subseteq S
  BY <1>1 DEF Range
<1>3. s \in Surjection(1 .. Len(s), Range(s))
  BY <1>1, <1>2 DEF Surjection, Range
<1>4. IsFiniteSet(1 .. Len(s))
  BY <1>1, FS_Interval
<1> QED
  BY <1>2, <1>3, <1>4, FS_Surjection

LEMMA TailIsShorter ==
    ASSUME NEW S, NEW s \in Seq(S), s # << >>
    PROVE  /\ Head(s) \in S
           /\ Tail(s) \in Seq(S)
  BY HeadTailProperties

----
(* Types.                                                                  *)
LEMMA InitTypes == Init => TypeOK
<1> SUFFICES ASSUME Init PROVE TypeOK
  OBVIOUS
<1> USE LoadStoreAssumption
<1>1. block_pointer \in Int /\ block_vec \subseteq Int
  BY MinOfTwo DEF Init
<1>2. units \in [Subcores -> [warp : Nat, index : Nat, point : Nat]]
      /\ \A k \in Subcores : units[k] = Idle
  BY DEF Init, Idle
<1> QED
  BY <1>1, <1>2 DEF Init, TypeOK, Phases

(* The answers that release an instruction.                                *)
LEMMA ReleaseTypes ==
    ASSUME TypeOK, NEW done, IsFiniteSet(done), Release(done)
    PROVE  /\ completions' \in [Warps -> Seq(Nat)]
           /\ \A w \in Warps : pending_request'[w] \in [Indices(w) -> Int]
           /\ m_pending_mem_request_num' \in [Warps -> Int]
<1>1. \A w, c : Cardinality({f \in done : f.warp = w /\ f.index = c}) \in Int
  <2> SUFFICES ASSUME NEW w, NEW c
               PROVE  Cardinality({f \in done : f.warp = w /\ f.index = c}) \in Int
    OBVIOUS
  <2>1. {f \in done : f.warp = w /\ f.index = c} \in SUBSET done
    OBVIOUS
  <2> QED
    BY <2>1, FS_Subset, FS_CardinalityType
<1>2. \A w : Cardinality({f \in done : f.warp = w}) \in Int
  <2> SUFFICES ASSUME NEW w PROVE Cardinality({f \in done : f.warp = w}) \in Int
    OBVIOUS
  <2>1. {f \in done : f.warp = w} \in SUBSET done
    OBVIOUS
  <2> QED
    BY <2>1, FS_Subset, FS_CardinalityType
<1>3. ASSUME NEW w \in Warps PROVE pending_request'[w] \in [Indices(w) -> Int]
  <2> DEFINE Answers(c) == Cardinality({f \in done : f.warp = w /\ f.index = c})
  <2>1. pending_request'[w] = [c \in Indices(w) |-> pending_request[w][c] - Answers(c)]
    BY DEF Release
  <2>2. \A c : Answers(c) \in Int
    BY <1>1
  <2> HIDE DEF Answers
  <2> QED
    BY <2>1, <2>2 DEF TypeOK
<1>4. m_pending_mem_request_num' \in [Warps -> Int]
  <2> DEFINE Answers(w) == Cardinality({f \in done : f.warp = w})
  <2>1. m_pending_mem_request_num' = [w \in Warps |-> m_pending_mem_request_num[w] - Answers(w)]
    BY DEF Release
  <2>2. \A w : Answers(w) \in Int
    BY <1>2
  <2> HIDE DEF Answers
  <2> QED
    BY <2>1, <2>2 DEF TypeOK
<1>5. ASSUME NEW w \in Warps PROVE completions'[w] \in Seq(Nat)
  BY DEF Release, TypeOK
<1>6. completions' \in [Warps -> Seq(Nat)]
  BY <1>5 DEF Release
<1> QED
  BY <1>3, <1>4, <1>6

LEMMA StartCycleTypes == ASSUME TypeOK, StartCycle PROVE TypeOK'
<1>1. ASSUME NEW w \in Warps PROVE completions'[w] \in Seq(Nat)
  BY DEF StartCycle, TypeOK, Sooner
<1>2. completions' \in [Warps -> Seq(Nat)]
  BY <1>1 DEF StartCycle
<1>3. l1_to_sm' \in Seq([fetch : Fetches, left : Nat])
  <2>1. ASSUME NEW i \in 1 .. Len(l1_to_sm)
        PROVE  [fetch |-> l1_to_sm[i].fetch, left |-> Sooner(l1_to_sm[i].left)] \in [fetch : Fetches, left : Nat]
    <3>0. l1_to_sm \in Seq([fetch : Fetches, left : Nat])
      BY DEF TypeOK
    <3>2. l1_to_sm[i] \in [fetch : Fetches, left : Nat]
      BY <3>0, ElementOfSeq
    <3>3. l1_to_sm[i].fetch \in Fetches /\ l1_to_sm[i].left \in Nat
      BY <3>2
    <3> QED
      BY <3>3 DEF Sooner
  <2> QED
    BY <2>1 DEF StartCycle, TypeOK
<1> QED
  BY <1>2, <1>3 DEF StartCycle, TypeOK, Phases, kernel_vars

LEMMA WriteBackTypes == ASSUME TypeOK, WriteBack PROVE TypeOK'
<1>1. Head(l1_to_sm) \in [fetch : Fetches, left : Nat]
      /\ l1_to_sm' \in Seq([fetch : Fetches, left : Nat])
  BY TailIsShorter DEF WriteBack, HitDue, TypeOK
<1>2. /\ completions' \in [Warps -> Seq(Nat)]
      /\ \A w \in Warps : pending_request'[w] \in [Indices(w) -> Int]
      /\ m_pending_mem_request_num' \in [Warps -> Int]
  <2>1. CASE ~Found(Head(l1_to_sm).fetch.warp)
    BY <2>1 DEF WriteBack, TypeOK
  <2>2. CASE Found(Head(l1_to_sm).fetch.warp)
    <3> DEFINE f == Head(l1_to_sm).fetch
               done == IF can_decrease(f) THEN {f} ELSE {}
    <3>1. Release(done)
      BY <2>2 DEF WriteBack
    <3>2. IsFiniteSet(done)
      BY FS_EmptySet, FS_Singleton
    <3> QED
      BY <3>1, <3>2, ReleaseTypes
  <2> QED
    BY <2>1, <2>2
<1>3. phase' \in Phases /\ phase' # "l1"
  BY DEF WriteBack, Phases
<1> QED
  BY <1>1, <1>2, <1>3 DEF WriteBack, TypeOK, kernel_vars

LEMMA ReplyTypes == ASSUME TypeOK, NEW f \in below, Reply(f) PROVE TypeOK'
<1>1. f \in Fetches /\ f.sector \in Sectors
  BY DEF TypeOK, Fetches
<1>2. IsFiniteSet(Waiting(f))
  <2>1. m_mshrs[f.sector] \in Seq(Fetches)
    BY <1>1 DEF TypeOK
  <2> QED
    BY <2>1, RangeIsFinite, FS_Singleton DEF Waiting
<1>3. CASE \E g \in Waiting(f) : ~Found(g.warp) \/ ~can_decrease(g)
  BY <1>3 DEF Reply, TypeOK, Phases, kernel_vars
<1>4. CASE ~ \E g \in Waiting(f) : ~Found(g.warp) \/ ~can_decrease(g)
  <2>1. /\ completions' \in [Warps -> Seq(Nat)]
        /\ \A w \in Warps : pending_request'[w] \in [Indices(w) -> Int]
        /\ m_pending_mem_request_num' \in [Warps -> Int]
    BY <1>2, <1>4, ReleaseTypes DEF Reply
  <2>2. m_mshrs' \in [Sectors -> Seq(Fetches)]
    <3>1. m_mshrs' = m_mshrs \/ m_mshrs' = [m_mshrs EXCEPT ![f.sector] = << >>]
      BY <1>4 DEF Reply
    <3>2. m_mshrs \in [Sectors -> Seq(Fetches)] /\ << >> \in Seq(Fetches)
      BY DEF TypeOK
    <3> QED
      BY <3>1, <3>2
  <2>3. valid' \subseteq Sectors
    BY <1>1, <1>4 DEF Reply, Fill, TypeOK
  <2>4. phase' \in Phases /\ phase' # "l1"
    BY <1>4 DEF Reply, Phases
  <2> QED
    BY <2>1, <2>2, <2>3, <2>4 DEF Reply, TypeOK, kernel_vars
<1> QED
  BY <1>3, <1>4

LEMMA SendTypes == ASSUME TypeOK, MissQueueSend \/ MissQueueHold PROVE TypeOK'
<1>1. Min(Banks) \in Banks /\ Min(Banks) \in Nat
  BY MinOfNats, LoadStoreAssumption
<1>2. CASE MissQueueSend
  <2>1. Head(m_miss_queue) \in Fetches /\ Tail(m_miss_queue) \in Seq(Fetches)
    BY <1>2, TailIsShorter DEF MissQueueSend, TypeOK
  <2> QED
    BY <1>1, <1>2, <2>1 DEF MissQueueSend, TypeOK, Phases, kernel_vars, warp_vars
<1>3. CASE MissQueueHold
  BY <1>1, <1>3 DEF MissQueueHold, TypeOK, Phases, kernel_vars, warp_vars, l1_vars
<1> QED
  BY <1>2, <1>3

LEMMA NextBankTypes ==
    ASSUME TypeOK, NextBank, phase = "l1"
    PROVE  phase' \in Phases /\ cursor' \in Nat /\ (phase' = "l1" => cursor' \in Banks)
<1>1. CASE Later(Banks, cursor) = {}
  BY <1>1 DEF NextBank, Phases
<1>2. CASE Later(Banks, cursor) # {}
  <2>1. Later(Banks, cursor) \subseteq Banks /\ Banks \subseteq Nat
    BY LoadStoreAssumption DEF Later
  <2>2. Min(Later(Banks, cursor)) \in Banks
    BY <1>2, <2>1, MinOfNats
  <2> QED
    BY <1>2, <2>1, <2>2 DEF NextBank, Phases
<1> QED
  BY <1>1, <1>2

(* What CacheAccess does to the queues, by kind of access.                 *)
LEMMA AccessTypes ==
    ASSUME TypeOK, NEW f \in Fetches, HitAccess(f) \/ WriteMiss(f) \/ LoadMiss(f)
    PROVE  /\ l1_to_sm' \in Seq([fetch : Fetches, left : Nat])
           /\ m_mshrs' \in [Sectors -> Seq(Fetches)]
           /\ m_miss_queue' \in Seq(Fetches)
<1>1. Copy(f) \in Fetches /\ f.sector \in Sectors
  BY DEF Copy, Fetches
<1>2. CASE HitAccess(f)
  <2>1. [fetch |-> f, left |-> l1_hit_latency] \in [fetch : Fetches, left : Nat]
    BY LoadStoreAssumption
  <2> QED
    BY <1>1, <1>2, <2>1 DEF HitAccess, TypeOK
<1>3. CASE WriteMiss(f)
  BY <1>3 DEF WriteMiss, TypeOK
<1>4. CASE LoadMiss(f)
  BY <1>1, <1>4 DEF LoadMiss, TypeOK
<1> QED
  BY <1>2, <1>3, <1>4

LEMMA CacheAccessTypes == ASSUME TypeOK, CacheAccess PROVE TypeOK'
<1> DEFINE f == Head(m_sm_to_l1[cursor])
<1>1. cursor \in Banks /\ m_sm_to_l1[cursor] \in Seq(Fetches) /\ m_sm_to_l1[cursor] # << >>
  BY DEF CacheAccess, TypeOK
<1>2. f \in Fetches /\ Tail(m_sm_to_l1[cursor]) \in Seq(Fetches)
  BY <1>1, TailIsShorter
<1>3. /\ l1_to_sm' \in Seq([fetch : Fetches, left : Nat])
      /\ m_mshrs' \in [Sectors -> Seq(Fetches)]
      /\ m_miss_queue' \in Seq(Fetches)
  <2>1. HitAccess(f) \/ WriteMiss(f) \/ LoadMiss(f)
    BY DEF CacheAccess
  <2> HIDE DEF f
  <2> QED
    BY <1>2, <2>1, AccessTypes
<1>4. m_sm_to_l1' \in [Banks -> Seq(Fetches)]
  BY <1>1, <1>2 DEF CacheAccess, TypeOK
<1>5. phase' \in Phases /\ cursor' \in Nat /\ (phase' = "l1" => cursor' \in Banks)
  BY NextBankTypes DEF CacheAccess
<1> QED
  BY <1>3, <1>4, <1>5 DEF CacheAccess, TypeOK, kernel_vars, warp_vars

LEMMA NoAccessTypes == ASSUME TypeOK, NoAccess PROVE TypeOK'
<1>1. phase' \in Phases /\ cursor' \in Nat /\ (phase' = "l1" => cursor' \in Banks)
  BY NextBankTypes DEF NoAccess
<1> QED
  BY <1>1 DEF NoAccess, TypeOK, kernel_vars, warp_vars, l1_vars

(* A unit that emits holds an instruction, and the fetch it emits is one.  *)
LEMMA EmittedTypes ==
    ASSUME TypeOK, NEW k \in Subcores, Emits(k)
    PROVE  Next_sector(k) \in Sectors /\ Emitted(k) \in Fetches /\ Busy(units[k])
<1>1. Busy(units[k])
  BY DEF TypeOK, Emits
<1>2. Program[units[k].warp][units[k].index].sectors \in Seq(Sectors)
  BY <1>1, LoadStoreAssumption DEF Busy, Indices
<1>3. Next_sector(k) \in Sectors
  <2>1. units[k].point \in 1 .. Len(Program[units[k].warp][units[k].index].sectors)
    BY <1>1 DEF Busy
  <2> QED
    BY <1>2, <2>1, ElementOfSeq DEF Next_sector
<1>4. units[k].index \in Nat /\ units[k].warp \in Warps
  BY <1>1 DEF Busy, TypeOK
<1> QED
  BY <1>1, <1>3, <1>4 DEF Emitted, Fetch, Fetches

LEMMA SubcoresCount ==
    ASSUME NEW P \in SUBSET Subcores
    PROVE  Cardinality(P) \in Nat
  BY LoadStoreAssumption, FS_Subset, FS_CardinalityType

LEMMA UnitCycleTypes == ASSUME TypeOK, UnitCycle PROVE TypeOK'
<1>1. m_sm_to_l1' \in [Banks -> Seq(Fetches)]
  <2> DEFINE E(b) == {k \in Subcores : Emits(k) /\ Next_sector(k)[2] = b}
             e(b) == CHOOSE k \in Subcores : Emits(k) /\ Next_sector(k)[2] = b
  <2>1. m_sm_to_l1' = [b \in Banks |->
            IF \E k \in Subcores : Emits(k) /\ Next_sector(k)[2] = b
            THEN Append(m_sm_to_l1[b], Emitted(e(b))) ELSE m_sm_to_l1[b]]
    BY DEF UnitCycle
  <2>2. ASSUME NEW b \in Banks, \E k \in Subcores : Emits(k) /\ Next_sector(k)[2] = b
        PROVE  Emitted(e(b)) \in Fetches
    <3>1. e(b) \in Subcores /\ Emits(e(b))
      BY <2>2
    <3> HIDE DEF e
    <3> QED
      BY <3>1, EmittedTypes
  <2> HIDE DEF e
  <2>3. ASSUME NEW b \in Banks PROVE m_sm_to_l1'[b] \in Seq(Fetches)
    BY <2>1, <2>2 DEF TypeOK
  <2> QED
    BY <2>1, <2>3
<1>2. ASSUME NEW w \in Warps PROVE pending_request'[w] \in [Indices(w) -> Int]
  <2> DEFINE new(c) == Cardinality({k \in {j \in Subcores : Emits(j) /\ units[j].warp = w} :
                                        units[k].index = c})
  <2>1. pending_request'[w] = [c \in Indices(w) |-> pending_request[w][c] + new(c)]
    BY DEF UnitCycle
  <2>2. \A c : new(c) \in Nat
    BY SubcoresCount
  <2> HIDE DEF new
  <2> QED
    BY <2>1, <2>2 DEF TypeOK
<1>3. m_pending_mem_request_num' \in [Warps -> Int]
  <2> DEFINE new(w) == Cardinality({k \in Subcores : Emits(k) /\ units[k].warp = w})
  <2>1. m_pending_mem_request_num' = [w \in Warps |-> m_pending_mem_request_num[w] + new(w)]
    BY DEF UnitCycle
  <2>2. \A w : new(w) \in Nat
    BY SubcoresCount
  <2> HIDE DEF new
  <2> QED
    BY <2>1, <2>2 DEF TypeOK
<1>4. pending_inst' \in [Warps -> Int]
  <2> DEFINE last(w) == Cardinality({k \in {j \in Subcores : Emits(j) /\ units[j].warp = w} :
                                        LastOf(k)})
  <2>1. pending_inst' = [w \in Warps |-> pending_inst[w] - last(w)]
    BY DEF UnitCycle
  <2>2. \A w : last(w) \in Nat
    BY SubcoresCount
  <2> HIDE DEF last
  <2> QED
    BY <2>1, <2>2 DEF TypeOK
<1>5. ASSUME NEW k \in Subcores
      PROVE  /\ units'[k] \in [warp : Nat, index : Nat, point : Nat]
             /\ units'[k] = Idle \/ Busy(units'[k])
  <2>1. CASE ~Emits(k)
    BY <2>1 DEF UnitCycle, TypeOK
  <2>2. CASE Emits(k) /\ LastOf(k)
    BY <2>2 DEF UnitCycle, Idle
  <2>3. CASE Emits(k) /\ ~LastOf(k)
    <3>1. units'[k] = [warp |-> units[k].warp, index |-> units[k].index,
                       point |-> units[k].point + 1]
      BY <2>3 DEF UnitCycle
    <3>2. Busy(units[k]) /\ units[k] \in [warp : Nat, index : Nat, point : Nat]
      BY <2>3, EmittedTypes DEF TypeOK
    <3>3. Program[units[k].warp][units[k].index].sectors \in Seq(Sectors)
      BY <3>2, LoadStoreAssumption DEF Busy, Indices
    <3>4. units[k].point + 1 \in 1 .. Len(Program[units[k].warp][units[k].index].sectors)
      BY <2>3, <3>2, <3>3 DEF Busy, LastOf
    <3> QED
      BY <3>1, <3>2, <3>4 DEF Busy
  <2> QED
    BY <2>1, <2>2, <2>3
<1>6. units' \in [Subcores -> [warp : Nat, index : Nat, point : Nat]]
  BY <1>5 DEF UnitCycle
<1> QED
  BY <1>1, <1>2, <1>3, <1>4, <1>5, <1>6 DEF UnitCycle, TypeOK, Phases, kernel_vars, l1_vars

(* The parts of LoadStoreAssumption the steps below need.                  *)
LEMMA Sizes ==
    /\ NumBlocks \in Nat /\ m_max_blocks \in Nat
    /\ l1_hit_latency \in Nat /\ alu_latency \in Nat
  BY LoadStoreAssumption

LEMMA SectorsOf ==
    ASSUME NEW w \in Warps, NEW c \in Indices(w)
    PROVE  /\ Program[w][c].sectors \in Seq(Sectors)
           /\ Len(Program[w][c].sectors) \in Nat
<1>1. Program[w][c].sectors \in Seq(Sectors)
  BY LoadStoreAssumption DEF Indices
<1> QED
  BY <1>1, LenProperties

LEMMA ResidentBlocks ==
    ASSUME Residency
    PROVE  /\ block_vec \subseteq Nat
           /\ IsFiniteSet(block_vec)
           /\ Cardinality(block_vec) \in 0 .. m_max_blocks
           /\ block_pointer \in 0 .. NumBlocks
<1>1. block_pointer \in 0 .. NumBlocks /\ block_pointer \in Int
  BY Sizes DEF Residency
<1>2. block_vec \subseteq 1 .. block_pointer
  BY DEF Residency
<1>3. block_vec \subseteq Nat
  BY <1>1, <1>2
<1>4. IsFiniteSet(1 .. block_pointer)
  BY <1>1, FS_Interval
<1>5. IsFiniteSet(block_vec)
  BY <1>2, <1>4, FS_Subset
<1>6. Cardinality(block_vec) \in Nat
  BY <1>5, FS_CardinalityType
<1> QED
  BY <1>1, <1>3, <1>5, <1>6, Sizes DEF Residency

(* Refill hands out the next blocks, at most what m_max_blocks leaves.     *)
LEMMA RefillBlocks ==
    ASSUME Residency, Refill
    PROVE  /\ block_pointer' \in block_pointer .. NumBlocks
           /\ block_pointer' - block_pointer <= m_max_blocks - Cardinality(block_vec)
           /\ block_vec' = block_vec \union (block_pointer + 1 .. block_pointer')
<1> DEFINE more == block_pointer + (m_max_blocks - Cardinality(block_vec))
<1>1. block_pointer' = Min({NumBlocks, more})
  BY DEF Refill
<1>2. more \in Int /\ NumBlocks \in Int /\ more >= block_pointer /\ NumBlocks >= block_pointer
  BY ResidentBlocks, Sizes
<1>3. block_pointer' = IF NumBlocks <= more THEN NumBlocks ELSE more
  BY <1>1, <1>2, MinOfTwo
<1>4. block_vec' = block_vec \union (block_pointer + 1 .. block_pointer')
  BY DEF Refill
<1> QED
  BY <1>2, <1>3, <1>4, ResidentBlocks, Sizes

LEMMA RefillTypes == ASSUME TypeOK, Residency, Refill PROVE TypeOK'
<1>1. block_pointer' \in Int /\ block_vec' \subseteq Nat
  BY RefillBlocks, ResidentBlocks, Sizes
<1>2. cursor' \in Nat
  BY <1>1, MinOfNats DEF Refill
<1>3. block_vec' \subseteq Int
  BY <1>1
<1> QED
  BY <1>1, <1>2, <1>3 DEF Refill, TypeOK, Phases, warp_vars, l1_vars

LEMMA NextBlockTypes ==
    ASSUME TypeOK, Residency, phase = "sched", NEW free, free \subseteq Subcores, NextBlock(free)
    PROVE  phase' \in Phases /\ phase' # "l1" /\ cursor' \in Nat /\ active' \subseteq Subcores
<1>1. Later(block_vec, cursor) \subseteq Nat
  BY ResidentBlocks DEF Later
<1>2. Later(block_vec, cursor) # {} => Min(Later(block_vec, cursor)) \in Nat
  BY <1>1, MinOfNats
<1> QED
  BY <1>2 DEF NextBlock, Phases

(* What Issue does, by kind of instruction.                                *)
IssueTypesOK ==
    /\ completions \in [Warps -> Seq(Nat)]
    /\ units \in [Subcores -> [warp : Nat, index : Nat, point : Nat]]
    /\ \A j \in Subcores : units[j] = Idle \/ Busy(units[j])
    /\ pending_inst \in [Warps -> Int]
    /\ \A v \in Warps : pending_request[v] \in [Indices(v) -> Int]
    /\ m_pending_mem_request_num \in [Warps -> Int]
    /\ m_sm_to_l1 \in [Banks -> Seq(Fetches)]

LEMMA IssueTypes ==
    ASSUME TypeOK, NEW w \in Warps, NEW k \in Subcores, Ready(w), Issue(w, k)
    PROVE  IssueTypesOK'
<1> DEFINE c == warp_point(w)
           sectors == Program[w][c].sectors
<1>0. IssueTypesOK
  BY DEF IssueTypesOK, TypeOK
<1>1. c \in Indices(w) /\ c \in Nat
  BY DEF Ready, Indices, warp_point, TypeOK
<1>2. sectors \in Seq(Sectors) /\ Len(sectors) \in Nat
  <2> HIDE DEF c
  <2> QED
    BY <1>1, SectorsOf
<1>3. INT_MAX \in Nat
  BY DEF INT_MAX
<1>4. \A n \in Nat : [completions EXCEPT ![w] = Append(@, n)] \in [Warps -> Seq(Nat)]
  BY DEF TypeOK
<1>5. ASSUME NEW latency \in Nat, IssueTimed(w, latency) PROVE IssueTypesOK'
  BY <1>0, <1>4, <1>5 DEF IssueTimed, IssueTypesOK
<1>6. CASE IssueToUnit(w, k) /\ sectors # << >>
  <2>1. units' = [units EXCEPT ![k] = [warp |-> w, index |-> c, point |-> 1]]
    BY <1>6 DEF IssueToUnit
  <2>2. 1 \in 1 .. Len(sectors)
    BY <1>2, <1>6, EmptySeq
  <2>3. Busy([warp |-> w, index |-> c, point |-> 1])
    BY <1>1, <2>2 DEF Busy
  <2>4. [warp |-> w, index |-> c, point |-> 1] \in [warp : Nat, index : Nat, point : Nat]
    BY <1>1, LoadStoreAssumption
  <2> HIDE DEF c
  <2>5. units' \in [Subcores -> [warp : Nat, index : Nat, point : Nat]]
    BY <2>1, <2>4 DEF TypeOK
  <2>6. \A j \in Subcores : units'[j] = Idle \/ Busy(units'[j])
    BY <2>1, <2>3 DEF TypeOK
  <2>7. completions' \in [Warps -> Seq(Nat)]
    BY <1>3, <1>4, <1>6 DEF IssueToUnit
  <2> QED
    BY <1>0, <1>6, <2>5, <2>6, <2>7 DEF IssueToUnit, IssueTypesOK
<1>7. CASE IssueAtomic(w)
  <2>1. PICK of \in [Banks -> Places(Len(sectors))] :
           m_sm_to_l1' = [b \in Banks |-> m_sm_to_l1[b] \o
              [i \in 1 .. Len(of[b]) |-> Fetch(w, c, sectors[of[b][i]], TRUE)]]
    BY <1>7 DEF IssueAtomic
  <2>2. ASSUME NEW b \in Banks
        PROVE  m_sm_to_l1[b] \o [i \in 1 .. Len(of[b]) |-> Fetch(w, c, sectors[of[b][i]], TRUE)]
                  \in Seq(Fetches)
    <3> DEFINE added == [i \in 1 .. Len(of[b]) |-> Fetch(w, c, sectors[of[b][i]], TRUE)]
    <3>0. of[b] \in UNION {[1 .. n -> 1 .. Len(sectors)] : n \in 0 .. Len(sectors)}
      BY <2>1 DEF Places
    <3>1. PICK n \in 0 .. Len(sectors) : of[b] \in [1 .. n -> 1 .. Len(sectors)]
      BY <3>0
    <3>2. n \in Nat
      BY <1>2
    <3>3. Len(of[b]) = n
      BY <3>1, <3>2
    <3>4. ASSUME NEW i \in 1 .. n PROVE Fetch(w, c, sectors[of[b][i]], TRUE) \in Fetches
      <4>1. of[b][i] \in 1 .. Len(sectors)
        BY <3>1
      <4>2. sectors[of[b][i]] \in Sectors
        BY <1>2, <4>1, ElementOfSeq
      <4> QED
        BY <1>1, <4>2 DEF Fetch, Fetches
    <3>5. added \in [1 .. n -> Fetches]
      BY <3>3, <3>4
    <3>6. added \in Seq(Fetches)
      <4> HIDE DEF added
      <4> QED
        BY <3>2, <3>5, SeqDef
    <3>7. m_sm_to_l1[b] \in Seq(Fetches)
      BY DEF TypeOK
    <3> HIDE DEF added
    <3>8. m_sm_to_l1[b] \o added \in Seq(Fetches)
      BY <3>6, <3>7, ConcatProperties
    <3> QED
      BY <3>8 DEF added
  <2>3. m_sm_to_l1' \in [Banks -> Seq(Fetches)]
    BY <2>1, <2>2
  <2>4. pending_request' = [v \in Warps |-> [d \in Indices(v) |->
              pending_request[v][d] + IF v = w /\ d = c THEN Len(sectors) ELSE 0]]
    BY <1>7 DEF IssueAtomic
  <2>5. m_pending_mem_request_num' =
            [m_pending_mem_request_num EXCEPT ![w] = @ + Len(sectors)]
    BY <1>7 DEF IssueAtomic
  <2> HIDE DEF c
  <2>6. ASSUME NEW v \in Warps PROVE pending_request'[v] \in [Indices(v) -> Int]
    <3> HIDE DEF sectors
    <3> QED
      BY <1>2, <2>4 DEF TypeOK
  <2>7. m_pending_mem_request_num' \in [Warps -> Int]
    <3> HIDE DEF sectors
    <3> QED
      BY <1>2, <2>5 DEF TypeOK
  <2>8. completions' \in [Warps -> Seq(Nat)]
    BY <1>3, <1>4, <1>7 DEF IssueAtomic
  <2> QED
    BY <1>0, <1>7, <2>3, <2>6, <2>7, <2>8 DEF IssueAtomic, IssueTypesOK
<1>8. CASE IssueTimed(w, alu_latency) \/ IssueTimed(w, 1)
  BY <1>5, <1>8, Sizes
<1> QED
  BY <1>6, <1>7, <1>8 DEF Issue

LEMMA ScheduleTypes == ASSUME TypeOK, Residency, Schedule PROVE TypeOK'
<1> DEFINE mine == {w \in warp_vec : cursor \in block_vec /\ BlockOf[w] = cursor}
           issuable == {w \in mine : Issuable(w)}
<1>1. warp_vec' \subseteq warp_vec
  BY DEF Schedule
<1>2. IssueTypesOK' /\ phase' \in Phases /\ phase' # "l1" /\ cursor' \in Nat
      /\ active' \subseteq Subcores
  <2>1. CASE issuable = {}
    <3>1. NextBlock(active) /\ phase = "sched"
      BY <2>1 DEF Schedule
    <3>2. UNCHANGED <<completions, units, pending_inst, pending_request,
                      m_pending_mem_request_num, m_sm_to_l1>>
      BY <2>1 DEF Schedule
    <3>3. active \subseteq Subcores
      BY DEF TypeOK
    <3> QED
      BY <3>1, <3>2, <3>3, NextBlockTypes DEF IssueTypesOK, TypeOK
  <2>2. CASE issuable # {}
    <3> DEFINE w == Min(issuable)
               k == Min(Takers(w))
    <3>1. issuable \subseteq Warps /\ issuable \subseteq Nat
      BY LoadStoreAssumption DEF TypeOK
    <3>2. w \in issuable
      <4> HIDE DEF issuable
      <4> QED
        BY <2>2, <3>1, MinOfNats
    <3>3. w \in Warps /\ Ready(w) /\ Takers(w) # {}
      <4> HIDE DEF w
      <4> QED
        BY <3>1, <3>2 DEF Issuable
    <3>4. Takers(w) \subseteq Subcores /\ Takers(w) \subseteq Nat
      BY LoadStoreAssumption DEF Takers, TypeOK
    <3>5. k \in Subcores
      <4> HIDE DEF w
      <4> QED
        BY <3>3, <3>4, MinOfNats
    <3>6. Issue(w, k) /\ NextBlock(active \ {k}) /\ phase = "sched"
      BY <2>2 DEF Schedule
    <3> HIDE DEF w, k
    <3>7. active \ {k} \subseteq Subcores
      BY DEF TypeOK
    <3> QED
      BY <3>3, <3>5, <3>6, <3>7, IssueTypes, NextBlockTypes
  <2> QED
    BY <2>1, <2>2
<1>3. UNCHANGED <<block_pointer, block_vec, l1_vars, below>>
  BY DEF Schedule
<1> QED
  BY <1>1, <1>2, <1>3 DEF IssueTypesOK, TypeOK, l1_vars

(* The steps that only move on.                                            *)
LEMMA OtherTypes ==
    ASSUME TypeOK,
           \/ WriteBackEnd \/ NoReply \/ DelInactiveBlock \/ UNCHANGED vars
           \/ \E f \in below : L2Absorb(f)
    PROVE  TypeOK'
<1>1. CASE WriteBackEnd
  BY <1>1 DEF WriteBackEnd, TypeOK, Phases, kernel_vars, warp_vars, l1_vars
<1>2. CASE NoReply
  BY <1>2 DEF NoReply, TypeOK, Phases, kernel_vars, warp_vars, l1_vars
<1>3. CASE DelInactiveBlock
  BY <1>3 DEF DelInactiveBlock, TypeOK, Phases, warp_vars, l1_vars
<1>4. CASE \E f \in below : L2Absorb(f)
  BY <1>4 DEF L2Absorb, TypeOK, cycle_vars, kernel_vars, warp_vars, l1_vars
<1>5. CASE UNCHANGED vars
  BY <1>5 DEF vars, TypeOK, cycle_vars, kernel_vars, warp_vars, l1_vars
<1> QED
  BY <1>1, <1>2, <1>3, <1>4, <1>5

LEMMA TypeStep == TypeOK /\ Residency /\ [Next]_vars => TypeOK'
<1> SUFFICES ASSUME TypeOK, Residency, [Next]_vars PROVE TypeOK'
  OBVIOUS
<1>1. ASSUME NEW f \in below, Reply(f) PROVE TypeOK'
  BY <1>1, ReplyTypes
<1> QED
  BY <1>1, StartCycleTypes, WriteBackTypes, SendTypes, CacheAccessTypes, NoAccessTypes,
     UnitCycleTypes, RefillTypes, ScheduleTypes, OtherTypes DEF Next, Terminated

----
(* Blocks.                                                                 *)
LEMMA InitResidency == Init => Residency
<1> SUFFICES ASSUME Init PROVE Residency
  OBVIOUS
<1>1. block_pointer = IF m_max_blocks <= NumBlocks THEN m_max_blocks ELSE NumBlocks
  BY MinOfTwo, Sizes DEF Init
<1>2. block_vec = 1 .. block_pointer
  BY DEF Init
<1>3. Cardinality(block_vec) = block_pointer
  BY <1>1, <1>2, FS_Interval, Sizes
<1>4. \A w \in Warps : BlockOf[w] \in Nat \ {0}
  BY LoadStoreAssumption
<1>5. ASSUME NEW w \in warp_vec PROVE BlockOf[w] \in block_vec \/ BlockOf[w] > block_pointer
  BY <1>1, <1>2, <1>4, Sizes DEF Init
<1> QED
  BY <1>1, <1>2, <1>3, <1>5, Sizes DEF Residency

LEMMA ResidencyStep == TypeOK /\ Residency /\ [Next]_vars => Residency'
<1> SUFFICES ASSUME TypeOK, Residency, [Next]_vars PROVE Residency'
  OBVIOUS
<1>1. CASE DelInactiveBlock
  <2>1. block_vec' \subseteq block_vec /\ block_pointer' = block_pointer /\ warp_vec' = warp_vec
    BY <1>1 DEF DelInactiveBlock
  <2>2. Cardinality(block_vec') <= Cardinality(block_vec) /\ Cardinality(block_vec') \in Nat
    BY <2>1, ResidentBlocks, FS_Subset, FS_CardinalityType
  <2>3. Cardinality(block_vec') <= m_max_blocks
    BY <2>2, ResidentBlocks, Sizes
  <2>4. ASSUME NEW w \in warp_vec PROVE BlockOf[w] \in block_vec' \/ BlockOf[w] > block_pointer
    BY <1>1 DEF DelInactiveBlock, Residency
  <2> QED
    BY <2>1, <2>3, <2>4 DEF Residency
<1>2. CASE Refill
  <2>1. /\ block_pointer' \in block_pointer .. NumBlocks
        /\ block_pointer' - block_pointer <= m_max_blocks - Cardinality(block_vec)
        /\ block_vec' = block_vec \union (block_pointer + 1 .. block_pointer')
        /\ warp_vec' = warp_vec
    BY <1>2, RefillBlocks DEF Refill
  <2>2. block_pointer \in Nat /\ block_pointer' \in Nat
    BY <2>1, ResidentBlocks, Sizes
  <2>3. /\ IsFiniteSet(block_pointer + 1 .. block_pointer')
        /\ Cardinality(block_pointer + 1 .. block_pointer') = block_pointer' - block_pointer
    <3>1. block_pointer + 1 \in Int /\ block_pointer' \in Int /\ block_pointer' >= block_pointer
      BY <2>1, <2>2
    <3>2. /\ IsFiniteSet(block_pointer + 1 .. block_pointer')
          /\ Cardinality(block_pointer + 1 .. block_pointer')
               = IF block_pointer + 1 > block_pointer' THEN 0
                 ELSE block_pointer' - (block_pointer + 1) + 1
      BY <3>1, FS_Interval
    <3> QED
      BY <2>2, <3>1, <3>2
  <2>4. Cardinality(block_vec') <= Cardinality(block_vec) + (block_pointer' - block_pointer)
    <3>1. Cardinality(block_vec \intersect (block_pointer + 1 .. block_pointer')) \in Nat
      BY <2>3, FS_Subset, FS_CardinalityType
    <3>2. Cardinality(block_vec \union (block_pointer + 1 .. block_pointer'))
             = Cardinality(block_vec) + Cardinality(block_pointer + 1 .. block_pointer')
                 - Cardinality(block_vec \intersect (block_pointer + 1 .. block_pointer'))
      BY <2>3, ResidentBlocks, FS_Union
    <3>3. Cardinality(block_vec) \in Nat
      BY ResidentBlocks, Sizes
    <3> QED
      BY <2>1, <2>2, <2>3, <3>1, <3>2, <3>3
  <2>5. Cardinality(block_vec') <= m_max_blocks
    <3>1. IsFiniteSet(block_vec')
      BY <2>1, <2>3, ResidentBlocks, FS_Union
    <3> QED
      BY <2>1, <2>2, <2>4, <3>1, ResidentBlocks, Sizes, FS_CardinalityType
  <2>6. block_vec' \subseteq 1 .. block_pointer'
    BY <2>1, <2>2 DEF Residency
  <2>7. ASSUME NEW w \in warp_vec PROVE BlockOf[w] \in block_vec' \/ BlockOf[w] > block_pointer'
    <3>1. BlockOf[w] \in Nat
      BY LoadStoreAssumption DEF TypeOK
    <3> QED
      BY <2>1, <2>2, <3>1 DEF Residency
  <2>8. block_pointer' \in 0 .. NumBlocks
    BY <2>1, <2>2, Sizes
  <2> QED
    BY <2>1, <2>5, <2>6, <2>7, <2>8 DEF Residency
<1>3. CASE Schedule
  <2>1. warp_vec' \subseteq warp_vec /\ UNCHANGED <<block_pointer, block_vec>>
    BY <1>3 DEF Schedule
  <2> QED
    BY <2>1 DEF Residency
<1>4. CASE UNCHANGED <<block_pointer, block_vec, warp_vec>>
  BY <1>4 DEF Residency
<1>5. \/ DelInactiveBlock \/ Refill \/ Schedule
      \/ UNCHANGED <<block_pointer, block_vec, warp_vec>>
  BY DEF Next, StartCycle, WriteBack, WriteBackEnd, Reply, L2Absorb, NoReply, MissQueueSend,
         MissQueueHold, CacheAccess, NoAccess, UnitCycle, Terminated, vars, kernel_vars
<1> QED
  BY <1>1, <1>2, <1>3, <1>4, <1>5

----
(* MSHRs.                                                                  *)
LEMMA MshrStep == TypeOK /\ MshrWithinLimits /\ [Next]_vars => MshrWithinLimits'
<1> SUFFICES ASSUME TypeOK, MshrWithinLimits, [Next]_vars PROVE MshrWithinLimits'
  OBVIOUS
<1> DEFINE used == {s \in Sectors : m_mshrs[s] # << >>}
<1>0. /\ IsFiniteSet(Sectors) /\ m_num_entries \in Nat /\ m_max_merged \in Nat \ {0}
      /\ m_mshrs \in [Sectors -> Seq(Fetches)]
  BY LoadStoreAssumption DEF TypeOK
<1>1. IsFiniteSet(used) /\ Cardinality(used) \in Nat /\ Cardinality(used) <= m_num_entries
  BY <1>0, FS_Subset, FS_CardinalityType DEF MshrWithinLimits
<1>2. ASSUME NEW s \in Sectors, m_mshrs' = [m_mshrs EXCEPT ![s] = << >>]
      PROVE  MshrWithinLimits'
  <2>1. {t \in Sectors : m_mshrs'[t] # << >>} \subseteq used
    BY <1>0, <1>2
  <2>2. Cardinality({t \in Sectors : m_mshrs'[t] # << >>}) \in Nat
        /\ Cardinality({t \in Sectors : m_mshrs'[t] # << >>}) <= Cardinality(used)
    <3> HIDE DEF used
    <3> QED
      BY <1>1, <2>1, FS_Subset, FS_CardinalityType
  <2>3. Cardinality({t \in Sectors : m_mshrs'[t] # << >>}) <= m_num_entries
    <3> HIDE DEF used
    <3> QED
      BY <1>0, <1>1, <2>2
  <2>4. ASSUME NEW t \in Sectors PROVE Len(m_mshrs'[t]) <= m_max_merged
    BY <1>0, <1>2 DEF MshrWithinLimits
  <2> QED
    BY <2>3, <2>4 DEF MshrWithinLimits
<1>3. ASSUME NEW f \in Fetches, ~mshr_full(f.sector),
             m_mshrs' = [m_mshrs EXCEPT ![f.sector] = Append(@, f)]
      PROVE  MshrWithinLimits'
  <2>1. f.sector \in Sectors /\ m_mshrs[f.sector] \in Seq(Fetches)
    BY <1>0 DEF Fetches
  <2>2. ASSUME NEW t \in Sectors PROVE Len(m_mshrs'[t]) <= m_max_merged
    <3>1. CASE t = f.sector /\ m_mshrs[t] = << >>
      BY <1>0, <1>3, <2>1, <3>1
    <3>2. CASE t = f.sector /\ m_mshrs[t] # << >>
      <4>1. ~(Len(m_mshrs[t]) >= m_max_merged)
        BY <1>3, <3>2 DEF mshr_full
      <4>2. Len(m_mshrs'[t]) = Len(m_mshrs[t]) + 1 /\ Len(m_mshrs[t]) \in Nat
        BY <1>0, <1>3, <2>1, <3>2
      <4> QED
        BY <1>0, <4>1, <4>2
    <3>3. CASE t # f.sector
      BY <1>0, <1>3, <3>3 DEF MshrWithinLimits
    <3> QED
      BY <3>1, <3>2, <3>3
  <2>3. {t \in Sectors : m_mshrs'[t] # << >>} = used \union {f.sector}
    <3>1. ASSUME NEW t \in Sectors
          PROVE  m_mshrs'[t] # << >> <=> (m_mshrs[t] # << >> \/ t = f.sector)
      <4>1. CASE t = f.sector
        <5>1. m_mshrs'[t] = Append(m_mshrs[t], f)
          BY <1>0, <1>3, <4>1
        <5> QED
          BY <1>3, <2>1, <4>1, <5>1, AppendProperties
      <4>2. CASE t # f.sector
        BY <1>0, <1>3, <4>2
      <4> QED
        BY <4>1, <4>2
    <3> QED
      BY <2>1, <3>1
  <2>4. Cardinality(used \union {f.sector})
           = IF f.sector \in used THEN Cardinality(used) ELSE Cardinality(used) + 1
    <3> HIDE DEF used
    <3> QED
      BY <1>1, FS_AddElement
  <2>5. f.sector \notin used => ~(Cardinality(used) >= m_num_entries)
    BY <1>3, <2>1 DEF mshr_full
  <2>6. Cardinality({t \in Sectors : m_mshrs'[t] # << >>}) <= m_num_entries
    <3>1. Cardinality(used \union {f.sector}) <= m_num_entries
      <4> HIDE DEF used
      <4> QED
        BY <1>0, <1>1, <2>4, <2>5
    <3> QED
      BY <2>3, <3>1
  <2> QED
    BY <2>2, <2>6 DEF MshrWithinLimits
<1>4. CASE UNCHANGED m_mshrs
  BY <1>4 DEF MshrWithinLimits
<1>5. ASSUME NEW f \in below, Reply(f) PROVE MshrWithinLimits'
  <2>1. f.sector \in Sectors
    BY DEF TypeOK, Fetches
  <2>2. UNCHANGED m_mshrs \/ m_mshrs' = [m_mshrs EXCEPT ![f.sector] = << >>]
    BY <1>5 DEF Reply
  <2> QED
    BY <1>2, <1>4, <2>1, <2>2
<1>6. ASSUME CacheAccess PROVE MshrWithinLimits'
  <2> DEFINE f == Head(m_sm_to_l1[cursor])
  <2>1. f \in Fetches
    BY <1>6, TailIsShorter DEF CacheAccess, TypeOK
  <2>2. HitAccess(f) \/ WriteMiss(f) \/ LoadMiss(f)
    BY <1>6 DEF CacheAccess
  <2> HIDE DEF f
  <2>3. CASE HitAccess(f) \/ WriteMiss(f)
    BY <1>4, <2>3 DEF HitAccess, WriteMiss
  <2>4. CASE LoadMiss(f)
    BY <1>3, <2>1, <2>4 DEF LoadMiss
  <2> QED
    BY <2>2, <2>3, <2>4
<1>7. \/ \E f \in below : Reply(f)
      \/ CacheAccess
      \/ UNCHANGED m_mshrs
  BY DEF Next, StartCycle, WriteBack, WriteBackEnd, L2Absorb, NoReply, MissQueueSend,
         MissQueueHold, NoAccess, DelInactiveBlock, UnitCycle, Refill, Schedule, Terminated,
         vars, l1_vars
<1> QED
  BY <1>4, <1>5, <1>6, <1>7

----
Inv == TypeOK /\ Residency /\ MshrWithinLimits

LEMMA InitMshr == Init => MshrWithinLimits
<1> SUFFICES ASSUME Init PROVE MshrWithinLimits
  OBVIOUS
<1>1. \A s \in Sectors : m_mshrs[s] = << >>
  BY DEF Init
<1>2. {s \in Sectors : m_mshrs[s] # << >>} = {}
  BY <1>1
<1>3. Len(<< >>) = 0
  OBVIOUS
<1>4. Cardinality({s \in Sectors : m_mshrs[s] # << >>}) = 0
  BY <1>2, FS_EmptySet
<1>5. 0 <= m_num_entries /\ 0 <= m_max_merged
  BY LoadStoreAssumption
<1> QED
  BY <1>1, <1>3, <1>4, <1>5 DEF MshrWithinLimits

LEMMA Invariance == Spec => []Inv
<1>1. Init => Inv
  BY InitTypes, InitResidency, InitMshr DEF Inv
<1>2. Inv /\ [Next]_vars => Inv'
  BY TypeStep, ResidencyStep, MshrStep DEF Inv
<1> QED
  BY <1>1, <1>2, PTL DEF Spec

(* The types, for any program and any sizes.                               *)
THEOREM TypesCorrect == Spec => []TypeOK
  BY Invariance, PTL DEF Inv

(* At most m_max_blocks blocks are resident, and no block leaves before    *)
(* all its warps have retired (gpu.cpp:374-384 and 152-160).               *)
THEOREM ResidencyCorrect == Spec => []Residency
  BY Invariance, PTL DEF Inv

(* mshr_full, asked before every add, keeps the MSHR table within its      *)
(* entries and its merges (cache.cpp:52-66).                               *)
THEOREM MshrCorrect == Spec => []MshrWithinLimits
  BY Invariance, PTL DEF Inv

----
(***************************************************************************)
(* The fetches.  Every fetch that is still to be answered is in one place, *)
(* once, and the counters of the warps say how many there are.  From this  *)
(* follows that no answer finds its warp gone, so that the invariant holds *)
(* together or not at all: FetchInv below is all of it.                    *)
(***************************************************************************)

(* The places: the bank queues, the hits on their way back, the MSHRs, the *)
(* miss queue, below the L1.  A write-through copy is awaited by no one.   *)
Queued == UNION {Range(m_sm_to_l1[bk]) : bk \in Banks}
Hits == {h.fetch : h \in Range(l1_to_sm)}
Merged == UNION {Range(m_mshrs[s]) : s \in Sectors}
Sent == {f \in Range(m_miss_queue) : ~f.copy}
Down == {f \in below : ~f.copy}

(* No fetch but a copy comes twice in a sequence.                          *)
Once(s) == \A i, j \in 1 .. Len(s) : s[i] = s[j] /\ ~s[i].copy => i = j

FetchesOf(q) == [i \in 1 .. Len(q) |-> q[i].fetch]

(* A fetch is in one place and once in it; only a load that was sent down  *)
(* is in the MSHRs too.                                                    *)
OnceEach ==
    /\ \A bk \in Banks : Once(m_sm_to_l1[bk])
    /\ Once(FetchesOf(l1_to_sm))
    /\ \A s \in Sectors : Once(m_mshrs[s])
    /\ Once(m_miss_queue)
    /\ Queued \intersect (Hits \union Merged \union Sent \union Down) = {}
    /\ Hits \intersect (Merged \union Sent \union Down) = {}
    /\ Sent \intersect Down = {}

(* It is in the place its sector and its kind belong to.                   *)
Placed ==
    /\ \A bk \in Banks : \A f \in Range(m_sm_to_l1[bk]) : f.sector[2] = bk /\ ~f.copy
    /\ \A f \in Hits : ~f.copy
    /\ \A s \in Sectors : \A f \in Range(m_mshrs[s]) : f.sector = s /\ ~f.write /\ ~f.copy
    /\ \A f \in Range(m_miss_queue) \union below : f.copy => f.write

Located == OnceEach /\ Placed /\ OnePrimary

(* A fetch stands for a sector its instruction has emitted already.        *)
Issued(f) ==
    /\ f.index \in 1 .. Len(completions[f.warp])
    /\ f.index \in Indices(f.warp)
    /\ \E i \in 1 .. Len(Program[f.warp][f.index].sectors) :
          /\ f.sector = Program[f.warp][f.index].sectors[i]
          /\ \A k \in Subcores :
                units[k].warp = f.warp /\ units[k].index = f.index => i < units[k].point

AllIssued == \A f \in Outstanding : Issued(f)

(* The units hold different instructions, loads and stores that issued.    *)
UnitsHold ==
    /\ \A k \in Subcores : units[k] # Idle =>
          /\ units[k].index <= Len(completions[units[k].warp])
          /\ Program[units[k].warp][units[k].index].kind \in {"LD", "ST"}
    /\ \A j, k \in Subcores : j # k /\ units[j] # Idle =>
          units[j].warp # units[k].warp \/ units[j].index # units[k].index

(* The fetches of S that belong to a warp, and to one of its instructions. *)
OfWarp(S, w) == {f \in S : f.warp = w}

OfInst(S, w, n) == {f \in S : f.warp = w /\ f.index = n}

(* A warp starts after its block is handed out, and nothing of it is left  *)
(* when it retires.                                                        *)
Progress ==
    \A w \in Warps :
       /\ Len(completions[w]) <= Len(Program[w])
       /\ BlockOf[w] > block_pointer => completions[w] = << >>
       /\ w \notin warp_vec =>
             /\ Len(completions[w]) = Len(Program[w])
             /\ OfWarp(Outstanding, w) = {}
             /\ \A k \in Subcores : units[k].warp # w

(* What is in flight is waited for; an atomic that is complete is not.     *)
Waits ==
    \A w \in Warps : \A i \in 1 .. Len(completions[w]) :
       /\ completions[w][i] <= INT_MAX
       /\ completions[w][i] = INT_MAX => InUnit(w, i) \/ OfInst(Outstanding, w, i) # {}
       /\ completions[w][i] # INT_MAX /\ Program[w][i].kind = "ATOM"
             => OfInst(Outstanding, w, i) = {}

(* The two halves of PendingIsOutstanding.                                 *)
FetchCounts ==
    \A w \in Warps :
        /\ \A n \in Indices(w) : pending_request[w][n] = Cardinality(OfInst(Outstanding, w, n))
        /\ m_pending_mem_request_num[w] = Cardinality(OfWarp(Outstanding, w))

UnitCounts ==
    \A w \in Warps : pending_inst[w] = Cardinality({k \in Subcores : units[k].warp = w})

FetchParts ==
    /\ Located /\ AllIssued /\ UnitsHold /\ Progress /\ Waits
    /\ FetchCounts /\ UnitCounts /\ IsFiniteSet(Outstanding) /\ NeverExits

FetchInv == TypeOK /\ Residency /\ FetchParts

----
(* Sequences without repetition.                                           *)
LEMMA AppendRange ==
    ASSUME NEW S, NEW s \in Seq(S), NEW x \in S
    PROVE  /\ Append(s, x) \in Seq(S)
           /\ Range(Append(s, x)) = Range(s) \union {x}
           /\ Once(s) /\ (x.copy \/ x \notin Range(s)) => Once(Append(s, x))
<1>1. /\ Len(s) \in Nat /\ DOMAIN s = 1 .. Len(s)
      /\ Append(s, x) \in Seq(S) /\ Len(Append(s, x)) = Len(s) + 1
      /\ \A i \in 1 .. Len(s) : Append(s, x)[i] = s[i]
      /\ Append(s, x)[Len(s) + 1] = x
      /\ DOMAIN Append(s, x) = 1 .. Len(s) + 1
  BY AppendProperties, LenProperties
<1>2. 1 .. Len(s) + 1 = (1 .. Len(s)) \union {Len(s) + 1}
  BY <1>1
<1>3. Range(Append(s, x)) = Range(s) \union {x}
  <2>1. ASSUME NEW y PROVE y \in Range(Append(s, x)) <=> y \in Range(s) \/ y = x
    <3>1. y \in Range(Append(s, x)) <=> \E i \in 1 .. Len(s) + 1 : Append(s, x)[i] = y
      BY <1>1 DEF Range
    <3>2. y \in Range(s) <=> \E i \in 1 .. Len(s) : s[i] = y
      BY <1>1 DEF Range
    <3> QED
      BY <1>1, <1>2, <3>1, <3>2
  <2> QED
    BY <2>1
<1>4. Once(s) /\ (x.copy \/ x \notin Range(s)) => Once(Append(s, x))
  BY <1>1 DEF Once, Range
<1> QED
  BY <1>1, <1>3, <1>4

LEMMA TailRange ==
    ASSUME NEW S, NEW s \in Seq(S), s # << >>
    PROVE  /\ Head(s) \in Range(s) /\ Head(s) \in S /\ Tail(s) \in Seq(S)
           /\ Range(s) = Range(Tail(s)) \union {Head(s)}
           /\ Once(s) => Once(Tail(s))
           /\ Once(s) /\ ~Head(s).copy => Range(Tail(s)) = Range(s) \ {Head(s)}
<1>1. /\ Len(s) \in Nat /\ Len(s) >= 1 /\ DOMAIN s = 1 .. Len(s) /\ Head(s) = s[1]
      /\ Head(s) \in S
      /\ Tail(s) \in Seq(S) /\ Len(Tail(s)) = Len(s) - 1
      /\ \A i \in 1 .. Len(s) - 1 : Tail(s)[i] = s[i + 1]
      /\ DOMAIN Tail(s) = 1 .. Len(s) - 1
  BY HeadTailProperties, LenProperties, EmptySeq
<1>2. ASSUME NEW y PROVE y \in Range(Tail(s)) <=> \E j \in 2 .. Len(s) : s[j] = y
  <2>1. ASSUME NEW i \in 1 .. Len(s) - 1, Tail(s)[i] = y PROVE \E j \in 2 .. Len(s) : s[j] = y
    BY <1>1, <2>1, i + 1 \in 2 .. Len(s)
  <2>2. ASSUME NEW j \in 2 .. Len(s), s[j] = y PROVE \E i \in 1 .. Len(s) - 1 : Tail(s)[i] = y
    BY <1>1, <2>2, j - 1 \in 1 .. Len(s) - 1, (j - 1) + 1 = j
  <2> QED
    BY <1>1, <2>1, <2>2 DEF Range
<1>3. \A y : y \in Range(s) <=> (y = s[1] \/ \E j \in 2 .. Len(s) : s[j] = y)
  BY <1>1 DEF Range
<1>4. Once(s) => Once(Tail(s))
  BY <1>1 DEF Once
<1>5. Once(s) /\ ~s[1].copy => ~\E j \in 2 .. Len(s) : s[j] = s[1]
  BY <1>1 DEF Once
<1> QED
  BY <1>1, <1>2, <1>3, <1>4, <1>5

LEMMA HeadOfAppend ==
    ASSUME NEW S, NEW q \in Seq(S), NEW x \in S
    PROVE  Append(q, x) # << >> /\ Head(Append(q, x)) = IF q = << >> THEN x ELSE Head(q)
<1>1. /\ Append(q, x) \in Seq(S) /\ Len(Append(q, x)) = Len(q) + 1 /\ Len(q) \in Nat
      /\ Append(q, x)[Len(q) + 1] = x
      /\ \A i \in 1 .. Len(q) : Append(q, x)[i] = q[i]
  BY AppendProperties, LenProperties
<1>2. Append(q, x) # << >> /\ Head(Append(q, x)) = Append(q, x)[1]
  BY <1>1
<1>3. q = << >> => Len(q) = 0
  OBVIOUS
<1>4. q # << >> => Len(q) >= 1 /\ Head(q) = q[1]
  BY <1>1, EmptySeq
<1> QED
  BY <1>1, <1>2, <1>3, <1>4

LEMMA ConcatRange ==
    ASSUME NEW S, NEW s \in Seq(S), NEW t \in Seq(S)
    PROVE  /\ s \o t \in Seq(S)
           /\ Range(s \o t) = Range(s) \union Range(t)
           /\ Once(s) /\ Once(t) /\ Range(s) \intersect Range(t) = {} => Once(s \o t)
<1>1. /\ Len(s) \in Nat /\ DOMAIN s = 1 .. Len(s) /\ Len(t) \in Nat /\ DOMAIN t = 1 .. Len(t)
      /\ s \o t \in Seq(S) /\ Len(s \o t) = Len(s) + Len(t)
      /\ DOMAIN (s \o t) = 1 .. Len(s) + Len(t)
      /\ \A i \in 1 .. Len(s) + Len(t) : (s \o t)[i] = IF i <= Len(s) THEN s[i] ELSE t[i - Len(s)]
  BY ConcatProperties, LenProperties
<1>2. ASSUME NEW y PROVE y \in Range(s \o t) <=> y \in Range(s) \/ y \in Range(t)
  <2>1. y \in Range(s \o t) <=> \E i \in 1 .. Len(s) + Len(t) : (s \o t)[i] = y
    BY <1>1 DEF Range
  <2>2. y \in Range(s) <=> \E i \in 1 .. Len(s) : s[i] = y
    BY <1>1 DEF Range
  <2>3. y \in Range(t) <=> \E i \in 1 .. Len(t) : t[i] = y
    BY <1>1 DEF Range
  <2>4. ASSUME NEW i \in 1 .. Len(t), t[i] = y PROVE \E j \in 1 .. Len(s) + Len(t) : (s \o t)[j] = y
    BY <1>1, <2>4, Len(s) + i \in 1 .. Len(s) + Len(t), (Len(s) + i) - Len(s) = i
  <2>5. ASSUME NEW i \in 1 .. Len(s), s[i] = y PROVE \E j \in 1 .. Len(s) + Len(t) : (s \o t)[j] = y
    BY <1>1, <2>5
  <2>6. ASSUME NEW j \in 1 .. Len(s) + Len(t), (s \o t)[j] = y
        PROVE  (\E i \in 1 .. Len(s) : s[i] = y) \/ (\E i \in 1 .. Len(t) : t[i] = y)
    BY <1>1, <2>6
  <2> QED
    BY <2>1, <2>2, <2>3, <2>4, <2>5, <2>6
<1>3. ASSUME Once(s), Once(t), Range(s) \intersect Range(t) = {} PROVE Once(s \o t)
  <2>1. \A i \in 1 .. Len(s) : s[i] \in Range(s)
    BY <1>1 DEF Range
  <2>2. \A i \in 1 .. Len(t) : t[i] \in Range(t)
    BY <1>1 DEF Range
  <2> SUFFICES ASSUME NEW i \in 1 .. Len(s) + Len(t), NEW j \in 1 .. Len(s) + Len(t),
                      (s \o t)[i] = (s \o t)[j], ~(s \o t)[i].copy
               PROVE  i = j
    BY <1>1 DEF Once
  <2>3. CASE i <= Len(s) /\ j <= Len(s)
    BY <1>1, <1>3, <2>3 DEF Once
  <2>4. CASE i > Len(s) /\ j > Len(s)
    <3>1. i - Len(s) \in 1 .. Len(t) /\ j - Len(s) \in 1 .. Len(t)
      BY <1>1, <2>4
    <3>2. t[i - Len(s)] = t[j - Len(s)] /\ ~t[i - Len(s)].copy
      BY <1>1, <2>4
    <3>3. i - Len(s) = j - Len(s)
      BY <1>3, <3>1, <3>2 DEF Once
    <3> QED
      BY <1>1, <3>3
  <2>5. ASSUME NEW m \in 1 .. Len(s), NEW n \in 1 .. Len(s) + Len(t), n > Len(s)
        PROVE  (s \o t)[m] # (s \o t)[n]
    <3>1. n - Len(s) \in 1 .. Len(t)
      BY <1>1, <2>5
    <3>2. (s \o t)[m] = s[m] /\ (s \o t)[n] = t[n - Len(s)]
      BY <1>1, <2>5
    <3> QED
      BY <1>3, <2>1, <2>2, <3>1, <3>2
  <2> QED
    BY <1>1, <2>3, <2>4, <2>5
<1> QED
  BY <1>1, <1>2, <1>3

(* The fetches of the hits, as a sequence.                                 *)
Hit == [fetch : Fetches, left : Nat]

LEMMA HitFetches ==
    ASSUME NEW q \in Seq(Hit)
    PROVE  /\ FetchesOf(q) \in Seq(Fetches)
           /\ {h.fetch : h \in Range(q)} = Range(FetchesOf(q))
           /\ q # << >> => /\ FetchesOf(q) # << >>
                           /\ FetchesOf(Tail(q)) = Tail(FetchesOf(q))
                           /\ Head(q).fetch = Head(FetchesOf(q))
           /\ \A h \in Hit : FetchesOf(Append(q, h)) = Append(FetchesOf(q), h.fetch)
<1>1. Len(q) \in Nat /\ DOMAIN q = 1 .. Len(q) /\ \A i \in 1 .. Len(q) : q[i] \in Hit
  BY LenProperties, ElementOfSeq
<1>2. \A i \in 1 .. Len(q) : q[i].fetch \in Fetches
  BY <1>1 DEF Hit
<1>3. FetchesOf(q) \in Seq(Fetches) /\ Len(FetchesOf(q)) = Len(q)
      /\ \A i \in 1 .. Len(q) : FetchesOf(q)[i] = q[i].fetch
  BY <1>1, <1>2 DEF FetchesOf
<1>4. {h.fetch : h \in Range(q)} = Range(FetchesOf(q))
  BY <1>1 DEF Range, FetchesOf
<1>5. ASSUME q # << >>
      PROVE  /\ FetchesOf(q) # << >>
             /\ FetchesOf(Tail(q)) = Tail(FetchesOf(q))
             /\ Head(q).fetch = Head(FetchesOf(q))
  <2>1. /\ Len(q) >= 1 /\ Head(q) = q[1] /\ Tail(q) \in Seq(Hit)
        /\ Len(Tail(q)) = Len(q) - 1
        /\ \A i \in 1 .. Len(q) - 1 : Tail(q)[i] = q[i + 1]
    BY <1>1, <1>5, HeadTailProperties, EmptySeq
  <2>2. FetchesOf(q) # << >>
    BY <1>1, <1>3, <2>1
  <2>3. /\ Head(FetchesOf(q)) = q[1].fetch
        /\ Tail(FetchesOf(q)) \in Seq(Fetches)
        /\ Len(Tail(FetchesOf(q))) = Len(q) - 1
        /\ \A i \in 1 .. Len(q) - 1 : Tail(FetchesOf(q))[i] = q[i + 1].fetch
    BY <1>1, <1>3, <2>1, <2>2, HeadTailProperties
  <2>4. Tail(FetchesOf(q)) = [i \in 1 .. Len(q) - 1 |-> Tail(FetchesOf(q))[i]]
    BY <2>3, LenProperties
  <2>5. FetchesOf(Tail(q)) = [i \in 1 .. Len(q) - 1 |-> q[i + 1].fetch]
    BY <2>1 DEF FetchesOf
  <2> QED
    BY <2>1, <2>2, <2>3, <2>4, <2>5
<1>6. ASSUME NEW h \in Hit PROVE FetchesOf(Append(q, h)) = Append(FetchesOf(q), h.fetch)
  <2>1. /\ Len(Append(q, h)) = Len(q) + 1
        /\ \A i \in 1 .. Len(q) : Append(q, h)[i] = q[i]
        /\ Append(q, h)[Len(q) + 1] = h
    BY AppendProperties
  <2>2. h.fetch \in Fetches
    BY DEF Hit
  <2>3. /\ Append(FetchesOf(q), h.fetch) \in Seq(Fetches)
        /\ Len(Append(FetchesOf(q), h.fetch)) = Len(q) + 1
        /\ \A i \in 1 .. Len(q) : Append(FetchesOf(q), h.fetch)[i] = q[i].fetch
        /\ Append(FetchesOf(q), h.fetch)[Len(q) + 1] = h.fetch
    BY <1>3, <2>2, AppendProperties
  <2>4. Append(FetchesOf(q), h.fetch)
          = [i \in 1 .. Len(q) + 1 |-> Append(FetchesOf(q), h.fetch)[i]]
    BY <2>3, LenProperties
  <2>5. \A i \in 1 .. Len(q) + 1 : Append(q, h)[i].fetch = Append(FetchesOf(q), h.fetch)[i]
    BY <1>1, <2>1, <2>3
  <2> QED
    BY <2>1, <2>4, <2>5 DEF FetchesOf
<1> QED
  BY <1>3, <1>4, <1>5, <1>6

----
(* What every step does to the places of the fetches.                      *)

(* Outstanding by places, in this state and in the next.                   *)
LEMMA OutstandingPlaces ==
    /\ Outstanding = Queued \union Hits \union Merged \union {f \in Sent \union Down : f.write}
    /\ Outstanding' = Queued' \union Hits' \union Merged'
                         \union {f \in Sent' \union Down' : f.write}
  BY DEF Outstanding, Queued, Hits, Merged, Sent, Down

(* A load on its way is in the MSHRs too, so that all places count.        *)
LEMMA AllCount == ASSUME TypeOK, Located PROVE Sent \union Down \subseteq Outstanding
<1>1. ASSUME NEW f \in Sent \union Down, ~f.write PROVE f \in Merged
  <2>1. f \in Range(m_miss_queue) \union below
    BY DEF Sent, Down
  <2>2. f.sector \in Sectors
    <3>1. f \in Fetches
      BY <2>1, RangeIsFinite DEF TypeOK
    <3> QED
      BY <3>1 DEF Fetches
  <2>3. m_mshrs[f.sector] # << >> /\ f = Head(m_mshrs[f.sector])
    BY <1>1, <2>1, <2>2 DEF Located, OnePrimary
  <2>4. f \in Range(m_mshrs[f.sector])
    BY <2>2, <2>3, TailRange DEF TypeOK
  <2> QED
    BY <2>2, <2>4 DEF Merged
<1>2. ASSUME NEW f \in Sent \union Down PROVE f \in Outstanding
  BY <1>1, OutstandingPlaces
<1> QED
  BY <1>2

(* Steps that move no fetch; a copy may leave.                             *)
LEMMA SamePlaces ==
    ASSUME TypeOK, TypeOK', Located, UNCHANGED <<m_sm_to_l1, m_mshrs, m_miss_queue>>,
           FetchesOf(l1_to_sm') = FetchesOf(l1_to_sm),
           below' \subseteq below, Down' = Down
    PROVE  Located' /\ Outstanding' = Outstanding
<1>1. Hits' = Hits
  BY HitFetches DEF Hits, TypeOK, Hit
<1>2. Queued' = Queued /\ Merged' = Merged /\ Sent' = Sent
  BY DEF Queued, Merged, Sent
<1>3. OnceEach'
  BY <1>1, <1>2 DEF Located, OnceEach
<1>4. Placed'
  BY <1>1, <1>2 DEF Located, Placed
<1>5. ASSUME NEW s \in Sectors
      PROVE  {f \in Range(m_miss_queue) \union below : ~f.write /\ f.sector = s}'
               = {f \in Range(m_miss_queue) \union below : ~f.write /\ f.sector = s}
  BY <1>2 DEF Down, Located, Placed
<1>6. OnePrimary'
  BY <1>5 DEF Located, OnePrimary
<1>7. Located'
  BY <1>3, <1>4, <1>6 DEF Located
<1> QED
  BY <1>1, <1>2, <1>7, OutstandingPlaces

(* StartCycle only lowers the times of the hits.                           *)
LEMMA StartCyclePlaces ==
    ASSUME TypeOK, TypeOK', Located, StartCycle
    PROVE  Located' /\ Outstanding' = Outstanding
<1>1. /\ l1_to_sm' = [i \in 1 .. Len(l1_to_sm) |->
                        [fetch |-> l1_to_sm[i].fetch, left |-> Sooner(l1_to_sm[i].left)]]
      /\ Len(l1_to_sm) \in Nat
  BY DEF StartCycle, TypeOK
<1>2. Len(l1_to_sm') = Len(l1_to_sm)
  BY <1>1
<1>3. FetchesOf(l1_to_sm') = FetchesOf(l1_to_sm)
  BY <1>1, <1>2 DEF FetchesOf
<1> QED
  BY <1>3, SamePlaces DEF StartCycle, Down

LEMMA AbsorbPlaces ==
    ASSUME TypeOK, TypeOK', Located, NEW f \in below, L2Absorb(f)
    PROVE  Located' /\ Outstanding' = Outstanding
  BY SamePlaces DEF L2Absorb, l1_vars, Down

(* The oldest hit is taken out.                                            *)
LEMMA WriteBackPlaces ==
    ASSUME TypeOK, TypeOK', Located, WriteBack
    PROVE  /\ Located'
           /\ Head(l1_to_sm).fetch \in Outstanding
           /\ Outstanding' = Outstanding \ {Head(l1_to_sm).fetch}
<1> DEFINE f == Head(l1_to_sm).fetch
<1>1. l1_to_sm \in Seq(Hit) /\ l1_to_sm # << >> /\ l1_to_sm' = Tail(l1_to_sm)
  BY DEF WriteBack, HitDue, TypeOK, Hit
<1>2. UNCHANGED <<m_sm_to_l1, m_mshrs, m_miss_queue, below>>
  BY DEF WriteBack
<1>3. /\ FetchesOf(l1_to_sm) \in Seq(Fetches) /\ FetchesOf(l1_to_sm) # << >>
      /\ Hits = Range(FetchesOf(l1_to_sm)) /\ f = Head(FetchesOf(l1_to_sm))
      /\ FetchesOf(l1_to_sm') = Tail(FetchesOf(l1_to_sm))
      /\ Hits' = Range(FetchesOf(l1_to_sm'))
  BY <1>1, HitFetches, HeadTailProperties DEF Hits
<1>4. f \in Hits /\ ~f.copy
  BY <1>3, TailRange DEF Located, Placed
<1>5. Hits' = Hits \ {f} /\ Once(FetchesOf(l1_to_sm'))
  BY <1>3, <1>4, TailRange DEF Located, OnceEach
<1>6. Queued' = Queued /\ Merged' = Merged /\ Sent' = Sent /\ Down' = Down
  BY <1>2 DEF Queued, Merged, Sent, Down
<1>7. OnceEach' /\ Placed' /\ OnePrimary'
  BY <1>2, <1>5, <1>6 DEF Located, OnceEach, Placed, OnePrimary
<1>8. Located'
  BY <1>7 DEF Located
<1> QED
  BY <1>4, <1>5, <1>6, <1>8, OutstandingPlaces DEF Located, OnceEach

(* An answered write is taken out, or a load with all that wait for it.    *)
LEMMA ReplyWritePlaces ==
    ASSUME TypeOK, TypeOK', Located, NEW f \in below, Reply(f), f.write, phase' # "exit"
    PROVE  Located' /\ Waiting(f) \subseteq Outstanding /\ Outstanding' = Outstanding \ Waiting(f)
<1>1. /\ UNCHANGED <<m_sm_to_l1, m_mshrs, m_miss_queue, l1_to_sm>>
      /\ below' = below \ {f} /\ Waiting(f) = {f} /\ ~f.copy
  BY DEF Reply, Waiting
<1>2. /\ Queued' = Queued /\ Merged' = Merged /\ Sent' = Sent /\ Hits' = Hits
      /\ Down' = Down \ {f} /\ f \in Down
  BY <1>1 DEF Queued, Merged, Sent, Down, Hits
<1>3. OnceEach' /\ Placed'
  BY <1>1, <1>2 DEF Located, OnceEach, Placed
<1>4. OnePrimary'
  BY <1>1 DEF Located, OnePrimary
<1>5. f \notin Queued \union Hits \union Merged \union Sent
  BY <1>2 DEF Located, OnceEach, Placed, Merged
<1>6. f \in Outstanding
  BY <1>2, AllCount
<1>7. Outstanding' = Outstanding \ {f}
  BY <1>2, <1>5, OutstandingPlaces
<1> QED
  BY <1>1, <1>3, <1>4, <1>6, <1>7 DEF Located

LEMMA ReplyReadPlaces ==
    ASSUME TypeOK, TypeOK', Located, NEW f \in below, Reply(f), ~f.write, phase' # "exit"
    PROVE  Located' /\ Waiting(f) \subseteq Outstanding /\ Outstanding' = Outstanding \ Waiting(f)
<1>0. f \in Fetches /\ f.sector \in Sectors
  BY DEF TypeOK, Fetches
<1>1. /\ UNCHANGED <<m_sm_to_l1, m_miss_queue, l1_to_sm>>
      /\ m_mshrs' = [m_mshrs EXCEPT ![f.sector] = << >>]
      /\ below' = below \ {f} /\ Waiting(f) = Range(m_mshrs[f.sector]) /\ ~f.copy
  BY DEF Reply, Waiting
<1>2. /\ m_mshrs'[f.sector] = << >>
      /\ \A s \in Sectors : s # f.sector => m_mshrs'[s] = m_mshrs[s]
  BY <1>0, <1>1 DEF TypeOK
<1>3. /\ Queued' = Queued /\ Sent' = Sent /\ Hits' = Hits
      /\ Down' = Down \ {f} /\ f \in Down
  BY <1>1 DEF Queued, Sent, Down, Hits
<1>4. Range(<< >>) = {} /\ Once(<< >>)
  BY DEF Range, Once
<1>5. Merged' = Merged \ Waiting(f) /\ Waiting(f) \subseteq Merged
  <2>1. \A g \in Waiting(f) : g.sector = f.sector
    BY <1>0, <1>1 DEF Located, Placed
  <2>2. \A s \in Sectors : s # f.sector => Range(m_mshrs[s]) \intersect Waiting(f) = {}
    BY <2>1 DEF Located, Placed
  <2> QED
    BY <1>0, <1>1, <1>2, <1>4, <2>2 DEF Merged
<1>6. OnceEach'
  BY <1>1, <1>2, <1>3, <1>4, <1>5 DEF Located, OnceEach
<1>7. Placed'
  BY <1>1, <1>2, <1>3, <1>4 DEF Located, Placed
<1>8. ASSUME NEW s \in Sectors
      PROVE  {g \in Range(m_miss_queue') \union below' : ~g.write /\ g.sector = s}
               = IF m_mshrs'[s] = << >> THEN {} ELSE {Head(m_mshrs'[s])}
  <2>1. CASE s # f.sector
    BY <1>1, <1>2, <2>1 DEF Located, OnePrimary
  <2>2. CASE s = f.sector
    <3>1. {g \in Range(m_miss_queue) \union below : ~g.write /\ g.sector = s} \subseteq {f}
      BY <1>0, <2>2 DEF Located, OnePrimary
    <3>2. f \notin Range(m_miss_queue)
      BY <1>1, <1>3 DEF Located, OnceEach, Sent
    <3> QED
      BY <1>1, <1>2, <2>2, <3>1, <3>2
  <2> QED
    BY <2>1, <2>2
<1>9. OnePrimary'
  BY <1>8 DEF OnePrimary
<1>10. \A g \in Waiting(f) : ~g.write
  BY <1>0, <1>1 DEF Located, Placed
<1>11. Waiting(f) \intersect (Queued \union Hits) = {}
  BY <1>5 DEF Located, OnceEach
<1>12. Outstanding' = Outstanding \ Waiting(f)
  <2>1. Waiting(f) \intersect {g \in Sent \union Down : g.write} = {}
    BY <1>10
  <2>2. {g \in Sent' \union Down' : g.write} = {g \in Sent \union Down : g.write}
    BY <1>3
  <2> QED
    BY <1>3, <1>5, <1>11, <2>1, <2>2, OutstandingPlaces
<1> QED
  BY <1>5, <1>6, <1>7, <1>9, <1>12, OutstandingPlaces DEF Located

(* The head of the miss queue goes down.                                   *)
LEMMA SendPlaces ==
    ASSUME TypeOK, TypeOK', Located, MissQueueSend
    PROVE  Located' /\ Outstanding' = Outstanding
<1> DEFINE f == Head(m_miss_queue)
<1>1. /\ UNCHANGED <<m_sm_to_l1, m_mshrs, l1_to_sm>>
      /\ m_miss_queue # << >> /\ m_miss_queue \in Seq(Fetches)
      /\ m_miss_queue' = Tail(m_miss_queue) /\ below' = below \union {f}
  BY DEF MissQueueSend, TypeOK
<1>2. /\ Queued' = Queued /\ Merged' = Merged /\ Hits' = Hits
  BY <1>1 DEF Queued, Merged, Hits
<1>3. /\ f \in Range(m_miss_queue) /\ Once(m_miss_queue')
      /\ Range(m_miss_queue) = Range(m_miss_queue') \union {f}
      /\ ~f.copy => Range(m_miss_queue') = Range(m_miss_queue) \ {f}
  BY <1>1, TailRange DEF Located, OnceEach
<1>4. Sent' \union Down' = Sent \union Down
  BY <1>1, <1>3 DEF Sent, Down
<1>5. Sent' \intersect Down' = {}
  <2>1. CASE f.copy
    BY <1>1, <1>3, <2>1 DEF Located, OnceEach, Sent, Down
  <2>2. CASE ~f.copy
    BY <1>1, <1>3, <2>2 DEF Located, OnceEach, Sent, Down
  <2> QED
    BY <2>1, <2>2
<1>6. OnceEach'
  BY <1>1, <1>2, <1>3, <1>4, <1>5 DEF Located, OnceEach
<1>7. Range(m_miss_queue') \union below' = Range(m_miss_queue) \union below
  BY <1>1, <1>3
<1>8. Placed' /\ OnePrimary'
  BY <1>1, <1>2, <1>7 DEF Located, Placed, OnePrimary
<1> QED
  BY <1>2, <1>4, <1>6, <1>8, OutstandingPlaces DEF Located

(* A fetch is taken out of its bank's queue.                               *)
LEMMA Dequeued ==
    ASSUME TypeOK, TypeOK', Located, CacheAccess
    PROVE  LET f == Head(m_sm_to_l1[cursor])
           IN  /\ cursor \in Banks /\ f \in Fetches /\ f \in Queued /\ ~f.copy
               /\ f \in Range(m_sm_to_l1[cursor])
               /\ f \notin Hits \union Merged \union Sent \union Down
               /\ Queued' = Queued \ {f}
               /\ \A bk \in Banks : /\ Range(m_sm_to_l1'[bk]) \subseteq Range(m_sm_to_l1[bk])
                                    /\ Once(m_sm_to_l1'[bk])
<1> DEFINE f == Head(m_sm_to_l1[cursor])
<1>1. /\ cursor \in Banks /\ m_sm_to_l1[cursor] # << >> /\ m_sm_to_l1[cursor] \in Seq(Fetches)
      /\ m_sm_to_l1'[cursor] = Tail(m_sm_to_l1[cursor])
      /\ \A bk \in Banks : bk # cursor => m_sm_to_l1'[bk] = m_sm_to_l1[bk]
  BY DEF CacheAccess, TypeOK
<1>2. f \in Range(m_sm_to_l1[cursor]) /\ f \in Fetches
  BY <1>1, TailRange
<1>3. f \in Queued /\ ~f.copy /\ f.sector[2] = cursor
  BY <1>1, <1>2 DEF Queued, Located, Placed
<1>4. Range(m_sm_to_l1'[cursor]) = Range(m_sm_to_l1[cursor]) \ {f} /\ Once(m_sm_to_l1'[cursor])
  BY <1>1, <1>3, TailRange DEF Located, OnceEach
<1>5. \A bk \in Banks : bk # cursor => f \notin Range(m_sm_to_l1[bk])
  BY <1>3 DEF Located, Placed
<1>6. Queued' = Queued \ {f}
  BY <1>1, <1>4, <1>5 DEF Queued
<1>7. \A bk \in Banks : /\ Range(m_sm_to_l1'[bk]) \subseteq Range(m_sm_to_l1[bk])
                        /\ Once(m_sm_to_l1'[bk])
  BY <1>1, <1>4 DEF Located, OnceEach
<1>8. f \notin Hits \union Merged \union Sent \union Down
  BY <1>3 DEF Located, OnceEach
<1> HIDE DEF f
<1> QED
  BY <1>1, <1>2, <1>3, <1>6, <1>7, <1>8 DEF f

LEMMA HitPlaces ==
    ASSUME TypeOK, TypeOK', Located, CacheAccess, HitAccess(Head(m_sm_to_l1[cursor]))
    PROVE  Located' /\ Outstanding' = Outstanding
<1> DEFINE f == Head(m_sm_to_l1[cursor])
<1>1. /\ f \in Fetches /\ f \in Queued /\ ~f.copy
      /\ f \notin Hits \union Merged \union Sent \union Down
      /\ Queued' = Queued \ {f}
      /\ \A bk \in Banks : /\ Range(m_sm_to_l1'[bk]) \subseteq Range(m_sm_to_l1[bk])
                           /\ Once(m_sm_to_l1'[bk])
  BY Dequeued
<1>2. /\ l1_to_sm' = Append(l1_to_sm, [fetch |-> f, left |-> l1_hit_latency])
      /\ l1_to_sm \in Seq(Hit) /\ [fetch |-> f, left |-> l1_hit_latency] \in Hit
      /\ m_mshrs' = m_mshrs /\ below' = below
  BY <1>1, LoadStoreAssumption DEF CacheAccess, HitAccess, TypeOK, Hit
<1> HIDE DEF f
<1>3. Hits' = Hits \union {f} /\ Once(FetchesOf(l1_to_sm'))
  <2>1. /\ FetchesOf(l1_to_sm) \in Seq(Fetches)
        /\ FetchesOf(l1_to_sm') = Append(FetchesOf(l1_to_sm), f)
        /\ Hits = Range(FetchesOf(l1_to_sm))
    BY <1>2, HitFetches DEF Hits
  <2>2. Hits' = Range(FetchesOf(l1_to_sm'))
    <3>1. l1_to_sm' \in Seq(Hit)
      BY DEF TypeOK, Hit
    <3> QED
      BY <3>1, HitFetches DEF Hits
  <2> QED
    BY <1>1, <2>1, <2>2, AppendRange DEF Located, OnceEach
<1>4. /\ m_miss_queue' \in {m_miss_queue, Append(m_miss_queue, Copy(f))}
      /\ m_miss_queue' # m_miss_queue => f.write
  BY DEF HitAccess, f
<1>5. Copy(f) \in Fetches /\ Copy(f).copy /\ Copy(f).write = f.write
  BY <1>1 DEF Copy, Fetches
<1>6. /\ Range(m_miss_queue') \in {Range(m_miss_queue), Range(m_miss_queue) \union {Copy(f)}}
      /\ Once(m_miss_queue')
      /\ Range(m_miss_queue') # Range(m_miss_queue) => f.write
  <2>1. m_miss_queue \in Seq(Fetches) /\ Once(m_miss_queue)
    BY DEF TypeOK, Located, OnceEach
  <2> QED
    <3>1. CASE m_miss_queue' = m_miss_queue
      BY <2>1, <3>1
    <3>2. CASE m_miss_queue' = Append(m_miss_queue, Copy(f)) /\ m_miss_queue' # m_miss_queue
      <4>1. Range(m_miss_queue') = Range(m_miss_queue) \union {Copy(f)} /\ Once(m_miss_queue')
        BY <1>5, <2>1, <3>2, AppendRange
      <4> QED
        BY <1>4, <3>2, <4>1
    <3> QED
      BY <1>4, <3>1, <3>2
<1>7. Merged' = Merged /\ Down' = Down /\ Sent' = Sent
  BY <1>2, <1>5, <1>6 DEF Merged, Down, Sent
<1>8. OnceEach'
  BY <1>1, <1>2, <1>3, <1>6, <1>7 DEF Located, OnceEach
<1>9. Placed'
  <2>1. \A g \in Range(m_miss_queue') \union below' : g.copy => g.write
    BY <1>2, <1>5, <1>6 DEF Located, Placed
  <2> QED
    BY <1>1, <1>2, <1>3, <2>1 DEF Located, Placed
<1>10. ASSUME NEW s \in Sectors
       PROVE  {g \in Range(m_miss_queue') \union below' : ~g.write /\ g.sector = s}
               = {g \in Range(m_miss_queue) \union below : ~g.write /\ g.sector = s}
  BY <1>2, <1>5, <1>6
<1>11. OnePrimary'
  BY <1>2, <1>10 DEF Located, OnePrimary
<1> QED
  BY <1>1, <1>3, <1>7, <1>8, <1>9, <1>11, OutstandingPlaces DEF Located

LEMMA WriteMissPlaces ==
    ASSUME TypeOK, TypeOK', Located, CacheAccess, WriteMiss(Head(m_sm_to_l1[cursor]))
    PROVE  Located' /\ Outstanding' = Outstanding
<1> DEFINE f == Head(m_sm_to_l1[cursor])
<1>1. /\ f \in Fetches /\ f \in Queued /\ ~f.copy
      /\ f \notin Hits \union Merged \union Sent \union Down
      /\ Queued' = Queued \ {f}
      /\ \A bk \in Banks : /\ Range(m_sm_to_l1'[bk]) \subseteq Range(m_sm_to_l1[bk])
                           /\ Once(m_sm_to_l1'[bk])
  BY Dequeued
<1>2. /\ l1_to_sm' = l1_to_sm /\ m_mshrs' = m_mshrs /\ below' = below
      /\ f.write /\ m_miss_queue' = Append(m_miss_queue, f)
  BY DEF CacheAccess, WriteMiss
<1> HIDE DEF f
<1>3. Range(m_miss_queue') = Range(m_miss_queue) \union {f} /\ Once(m_miss_queue')
  <2>1. m_miss_queue \in Seq(Fetches) /\ Once(m_miss_queue) /\ f \notin Range(m_miss_queue)
    BY <1>1 DEF TypeOK, Located, OnceEach, Sent
  <2> QED
    BY <1>1, <1>2, <2>1, AppendRange
<1>4. /\ Hits' = Hits /\ Merged' = Merged /\ Down' = Down /\ Sent' = Sent \union {f}
  BY <1>1, <1>2, <1>3 DEF Hits, Merged, Down, Sent
<1>5. OnceEach'
  BY <1>1, <1>2, <1>3, <1>4 DEF Located, OnceEach
<1>6. Placed'
  BY <1>1, <1>2, <1>3, <1>4 DEF Located, Placed
<1>7. ASSUME NEW s \in Sectors
      PROVE  {g \in Range(m_miss_queue') \union below' : ~g.write /\ g.sector = s}
               = {g \in Range(m_miss_queue) \union below : ~g.write /\ g.sector = s}
  BY <1>2, <1>3
<1>8. OnePrimary'
  BY <1>2, <1>7 DEF Located, OnePrimary
<1>9. {g \in Sent' \union Down' : g.write} = {g \in Sent \union Down : g.write} \union {f}
  BY <1>2, <1>4
<1> QED
  BY <1>1, <1>4, <1>5, <1>6, <1>8, <1>9, OutstandingPlaces DEF Located

LEMMA LoadMissPlaces ==
    ASSUME TypeOK, TypeOK', Located, CacheAccess, LoadMiss(Head(m_sm_to_l1[cursor]))
    PROVE  Located' /\ Outstanding' = Outstanding
<1> DEFINE f == Head(m_sm_to_l1[cursor])
           s == f.sector
<1>1. /\ f \in Fetches /\ f \in Queued /\ ~f.copy
      /\ f \notin Hits \union Merged \union Sent \union Down
      /\ Queued' = Queued \ {f}
      /\ \A bk \in Banks : /\ Range(m_sm_to_l1'[bk]) \subseteq Range(m_sm_to_l1[bk])
                           /\ Once(m_sm_to_l1'[bk])
  BY Dequeued
<1>2. s \in Sectors
  BY <1>1 DEF Fetches
<1>3. /\ l1_to_sm' = l1_to_sm /\ below' = below /\ ~f.write
      /\ m_mshrs' = [m_mshrs EXCEPT ![s] = Append(@, f)]
      /\ m_miss_queue' = IF m_mshrs[s] = << >> THEN Append(m_miss_queue, f) ELSE m_miss_queue
  BY DEF CacheAccess, LoadMiss
<1> HIDE DEF f
<1>4. /\ m_mshrs[s] \in Seq(Fetches) /\ Once(m_mshrs[s]) /\ f \notin Range(m_mshrs[s])
      /\ m_mshrs'[s] = Append(m_mshrs[s], f)
      /\ \A t \in Sectors : t # s => m_mshrs'[t] = m_mshrs[t]
  BY <1>1, <1>2, <1>3 DEF TypeOK, Located, OnceEach, Merged
<1>5. Range(m_mshrs'[s]) = Range(m_mshrs[s]) \union {f} /\ Once(m_mshrs'[s])
  BY <1>1, <1>4, AppendRange
<1>6. Merged' = Merged \union {f}
  <2>1. \A t \in Sectors : Range(m_mshrs'[t]) = Range(m_mshrs[t]) \union (IF t = s THEN {f} ELSE {})
    BY <1>4, <1>5
  <2>2. ASSUME NEW g PROVE g \in Merged' <=> g \in Merged \/ g = f
    <3>1. g \in Merged' <=> \E t \in Sectors : g \in Range(m_mshrs'[t])
      BY DEF Merged
    <3>2. g \in Merged <=> \E t \in Sectors : g \in Range(m_mshrs[t])
      BY DEF Merged
    <3> QED
      BY <1>2, <2>1, <3>1, <3>2
  <2> QED
    BY <2>2
<1>7. /\ Range(m_miss_queue') = Range(m_miss_queue) \union (IF m_mshrs[s] = << >> THEN {f} ELSE {})
      /\ Once(m_miss_queue')
  <2>1. m_miss_queue \in Seq(Fetches) /\ Once(m_miss_queue) /\ f \notin Range(m_miss_queue)
    BY <1>1 DEF TypeOK, Located, OnceEach, Sent
  <2> QED
    BY <1>1, <1>3, <2>1, AppendRange
<1>8. /\ Hits' = Hits /\ Down' = Down
      /\ Sent' = Sent \union (IF m_mshrs[s] = << >> THEN {f} ELSE {})
  BY <1>1, <1>3, <1>7 DEF Hits, Down, Sent
<1>9. OnceEach'
  <2>1. \A t \in Sectors : Once(m_mshrs'[t])
    BY <1>4, <1>5 DEF Located, OnceEach
  <2>2. \A bk \in Banks : Once(m_sm_to_l1'[bk])
    BY <1>1
  <2>3. Once(FetchesOf(l1_to_sm'))
    BY <1>3 DEF Located, OnceEach
  <2>4. Sent' \subseteq Sent \union {f}
    BY <1>8
  <2>5. Queued' \intersect (Hits' \union Merged' \union Sent' \union Down') = {}
    BY <1>1, <1>6, <1>8, <2>4 DEF Located, OnceEach
  <2>6. Hits' \intersect (Merged' \union Sent' \union Down') = {} /\ Sent' \intersect Down' = {}
    BY <1>1, <1>6, <1>8, <2>4 DEF Located, OnceEach
  <2> QED
    BY <1>7, <2>1, <2>2, <2>3, <2>5, <2>6 DEF OnceEach
<1>10. Placed'
  <2>1. \A t \in Sectors : \A g \in Range(m_mshrs'[t]) : g.sector = t /\ ~g.write /\ ~g.copy
    BY <1>1, <1>3, <1>4, <1>5 DEF Located, Placed
  <2>2. \A g \in Range(m_miss_queue') \union below' : g.copy => g.write
    BY <1>1, <1>3, <1>7 DEF Located, Placed
  <2> QED
    BY <1>1, <1>8, <2>1, <2>2 DEF Located, Placed
<1>11. ASSUME NEW t \in Sectors
       PROVE  {g \in Range(m_miss_queue') \union below' : ~g.write /\ g.sector = t}
                = IF m_mshrs'[t] = << >> THEN {} ELSE {Head(m_mshrs'[t])}
  <2> DEFINE before == {g \in Range(m_miss_queue) \union below : ~g.write /\ g.sector = t}
  <2>1. before = IF m_mshrs[t] = << >> THEN {} ELSE {Head(m_mshrs[t])}
    BY DEF Located, OnePrimary
  <2>2. CASE t # s
    BY <1>3, <1>4, <1>7, <2>1, <2>2
  <2>3. CASE t = s
    <3>1. m_mshrs'[s] # << >> /\ Head(m_mshrs'[s]) = IF m_mshrs[s] = << >> THEN f ELSE Head(m_mshrs[s])
      BY <1>1, <1>4, HeadOfAppend
    <3>2. {g \in Range(m_miss_queue') \union below' : ~g.write /\ g.sector = t}
            = before \union (IF m_mshrs[s] = << >> THEN {f} ELSE {})
      BY <1>3, <1>7, <2>3
    <3> QED
      BY <2>1, <2>3, <3>1, <3>2
  <2> QED
    BY <2>2, <2>3
<1>12. OnePrimary'
  BY <1>11 DEF OnePrimary
<1>13. {g \in Sent' \union Down' : g.write} = {g \in Sent \union Down : g.write}
  BY <1>3, <1>8
<1> QED
  BY <1>1, <1>6, <1>8, <1>9, <1>10, <1>12, <1>13, OutstandingPlaces DEF Located

(* The instructions of a program name each sector once.                    *)
LEMMA SectorsDiffer ==
    ASSUME NEW w \in Warps, NEW i \in Indices(w),
           NEW m \in 1 .. Len(Program[w][i].sectors), NEW n \in 1 .. Len(Program[w][i].sectors),
           Program[w][i].sectors[m] = Program[w][i].sectors[n]
    PROVE  m = n
  BY LoadStoreAssumption DEF Indices

(* What a unit emits is new.                                               *)
LEMMA EmittedIsNew ==
    ASSUME TypeOK, AllIssued, NEW k \in Subcores, Emits(k)
    PROVE  /\ Emitted(k) \in Fetches /\ ~Emitted(k).copy
           /\ Emitted(k).sector = Next_sector(k) /\ Next_sector(k)[2] \in Banks
           /\ Emitted(k) \notin Outstanding
<1>1. Next_sector(k) \in Sectors /\ Emitted(k) \in Fetches /\ Busy(units[k])
  BY EmittedTypes
<1>2. /\ Emitted(k).warp = units[k].warp /\ Emitted(k).index = units[k].index
      /\ Emitted(k).sector = Next_sector(k) /\ ~Emitted(k).copy
  BY DEF Emitted, Fetch
<1>3. ASSUME Emitted(k) \in Outstanding PROVE FALSE
  <2>1. PICK i \in 1 .. Len(Program[units[k].warp][units[k].index].sectors) :
          /\ Next_sector(k) = Program[units[k].warp][units[k].index].sectors[i]
          /\ i < units[k].point
    BY <1>2, <1>3 DEF AllIssued, Issued
  <2>2. i = units[k].point
    BY <1>1, <2>1, SectorsDiffer DEF Busy, Next_sector
  <2> QED
    BY <1>1, <2>1, <2>2 DEF Busy
<1>4. Next_sector(k)[2] \in Banks
  BY <1>1, LoadStoreAssumption
<1> QED
  BY <1>1, <1>2, <1>3, <1>4

LEMMA OneEmitterPerBank ==
    ASSUME NEW j \in Subcores, NEW k \in Subcores, Emits(j), Emits(k),
           Next_sector(j)[2] = Next_sector(k)[2]
    PROVE  j = k
<1>1. j \in Nat /\ k \in Nat
  BY LoadStoreAssumption
<1>2. ~(j < k) /\ ~(k < j)
  BY DEF Emits
<1> QED
  BY <1>1, <1>2

NewFetches == {Emitted(k) : k \in {j \in Subcores : Emits(j)}}

LEMMA UnitCyclePlaces ==
    ASSUME TypeOK, TypeOK', Located, AllIssued, UnitCycle
    PROVE  /\ Located' /\ NewFetches \intersect Outstanding = {}
           /\ Outstanding' = Outstanding \union NewFetches
<1>1. ASSUME NEW bk \in Banks
      PROVE  \/ /\ m_sm_to_l1'[bk] = m_sm_to_l1[bk]
                /\ \A k \in Subcores : Emits(k) => Next_sector(k)[2] # bk
             \/ \E k \in Subcores : /\ Emits(k) /\ Next_sector(k)[2] = bk
                                    /\ \A j \in Subcores : Emits(j) /\ Next_sector(j)[2] = bk => j = k
                                    /\ m_sm_to_l1'[bk] = Append(m_sm_to_l1[bk], Emitted(k))
  <2>1. CASE \E k \in Subcores : Emits(k) /\ Next_sector(k)[2] = bk
    <3> DEFINE k == CHOOSE k \in Subcores : Emits(k) /\ Next_sector(k)[2] = bk
    <3>1. k \in Subcores /\ Emits(k) /\ Next_sector(k)[2] = bk
      BY <2>1
    <3>2. m_sm_to_l1'[bk] = Append(m_sm_to_l1[bk], Emitted(k))
      BY <2>1 DEF UnitCycle
    <3> HIDE DEF k
    <3>3. \A j \in Subcores : Emits(j) /\ Next_sector(j)[2] = bk => j = k
      BY <3>1, OneEmitterPerBank
    <3> QED
      BY <3>1, <3>2, <3>3
  <2>2. CASE ~\E k \in Subcores : Emits(k) /\ Next_sector(k)[2] = bk
    BY <2>2 DEF UnitCycle
  <2> QED
    BY <2>1, <2>2
<1>2. ASSUME NEW bk \in Banks
      PROVE  /\ Range(m_sm_to_l1'[bk])
                  = Range(m_sm_to_l1[bk]) \union {f \in NewFetches : f.sector[2] = bk}
             /\ Once(m_sm_to_l1'[bk])
  <2>1. m_sm_to_l1[bk] \in Seq(Fetches) /\ Once(m_sm_to_l1[bk])
        /\ Range(m_sm_to_l1[bk]) \subseteq Outstanding
    BY OutstandingPlaces DEF TypeOK, Located, OnceEach, Queued
  <2>2. CASE /\ m_sm_to_l1'[bk] = m_sm_to_l1[bk]
             /\ \A k \in Subcores : Emits(k) => Next_sector(k)[2] # bk
    <3>1. {f \in NewFetches : f.sector[2] = bk} = {}
      BY <2>2, EmittedIsNew DEF NewFetches
    <3> QED
      BY <2>1, <2>2, <3>1
  <2>3. ASSUME NEW k \in Subcores, Emits(k), Next_sector(k)[2] = bk,
               \A j \in Subcores : Emits(j) /\ Next_sector(j)[2] = bk => j = k,
               m_sm_to_l1'[bk] = Append(m_sm_to_l1[bk], Emitted(k))
        PROVE  /\ Range(m_sm_to_l1'[bk])
                    = Range(m_sm_to_l1[bk]) \union {f \in NewFetches : f.sector[2] = bk}
               /\ Once(m_sm_to_l1'[bk])
    <3>1. {f \in NewFetches : f.sector[2] = bk} = {Emitted(k)}
      BY <2>3, EmittedIsNew DEF NewFetches
    <3>2. Emitted(k) \in Fetches /\ Emitted(k) \notin Range(m_sm_to_l1[bk])
      BY <2>1, <2>3, EmittedIsNew
    <3> QED
      BY <2>1, <2>3, <3>1, <3>2, AppendRange
  <2> QED
    BY <1>1, <2>2, <2>3
<1>3. UNCHANGED <<l1_to_sm, m_mshrs, m_miss_queue, below>>
  BY DEF UnitCycle, l1_vars
<1>4. Hits' = Hits /\ Merged' = Merged /\ Sent' = Sent /\ Down' = Down
  BY <1>3 DEF Hits, Merged, Sent, Down
<1>5. \A f \in NewFetches : f \notin Outstanding /\ ~f.copy /\ f.sector[2] \in Banks
  BY EmittedIsNew DEF NewFetches
<1>6. Queued' = Queued \union NewFetches
  <2>1. ASSUME NEW f PROVE f \in Queued' <=> f \in Queued \/ f \in NewFetches
    <3>1. f \in Queued' <=> \E bk \in Banks : f \in Range(m_sm_to_l1'[bk])
      BY DEF Queued
    <3>2. f \in Queued <=> \E bk \in Banks : f \in Range(m_sm_to_l1[bk])
      BY DEF Queued
    <3> QED
      BY <1>2, <1>5, <3>1, <3>2
  <2> QED
    BY <2>1
<1>7. Hits \union Merged \union Sent \union Down \subseteq Outstanding
  BY AllCount, OutstandingPlaces
<1>8. OnceEach'
  <2>1. NewFetches \intersect (Hits \union Merged \union Sent \union Down) = {}
    BY <1>5, <1>7
  <2> QED
    BY <1>2, <1>3, <1>4, <1>6, <2>1 DEF Located, OnceEach
<1>9. Placed'
  <2>1. \A bk \in Banks : \A f \in Range(m_sm_to_l1'[bk]) : f.sector[2] = bk /\ ~f.copy
    BY <1>2, <1>5 DEF Located, Placed
  <2> QED
    BY <1>3, <1>4, <2>1 DEF Located, Placed
<1>10. OnePrimary'
  BY <1>3 DEF Located, OnePrimary
<1>11. Outstanding' = Outstanding \union NewFetches
  BY <1>4, <1>6, OutstandingPlaces
<1> QED
  BY <1>5, <1>8, <1>9, <1>10, <1>11 DEF Located

(* The fetches of an atomic for the sectors at the given places, in order, *)
(* and for those at the places in P.                                       *)
FetchesAt(w, n, sectors, places) ==
    [i \in 1 .. Len(places) |-> Fetch(w, n, sectors[places[i]], TRUE)]

FetchesOn(w, n, sectors, P) == {Fetch(w, n, sectors[i], TRUE) : i \in P}

LEMMA ChosenFetches ==
    ASSUME NEW w \in Warps, NEW n \in Nat, NEW sectors \in Seq(Sectors),
           \A i, j \in 1 .. Len(sectors) : sectors[i] = sectors[j] => i = j,
           NEW places \in Places(Len(sectors)), NEW P, InOrder(places, P)
    PROVE  /\ FetchesAt(w, n, sectors, places) \in Seq(Fetches)
           /\ Once(FetchesAt(w, n, sectors, places))
           /\ Range(FetchesAt(w, n, sectors, places)) = FetchesOn(w, n, sectors, P)
<1> DEFINE added == FetchesAt(w, n, sectors, places)
<1>0. Len(sectors) \in Nat
  BY LenProperties
<1>1. PICK m \in 0 .. Len(sectors) : places \in [1 .. m -> 1 .. Len(sectors)]
  BY DEF Places
<1>2. m \in Nat /\ Len(places) = m /\ DOMAIN places = 1 .. m
  BY <1>0, <1>1
<1>3. ASSUME NEW i \in 1 .. m PROVE Fetch(w, n, sectors[places[i]], TRUE) \in Fetches
  <2>1. places[i] \in 1 .. Len(sectors)
    BY <1>1
  <2>2. sectors[places[i]] \in Sectors
    BY <2>1, ElementOfSeq
  <2> QED
    BY <2>2 DEF Fetch, Fetches
<1>4. added \in [1 .. m -> Fetches]
  BY <1>2, <1>3 DEF FetchesAt
<1>5. added \in Seq(Fetches) /\ Len(added) = m /\ DOMAIN added = 1 .. m
  <2> HIDE DEF added
  <2> QED
    BY <1>2, <1>4, SeqDef
<1>6. \A i \in 1 .. m : added[i] = Fetch(w, n, sectors[places[i]], TRUE)
  BY <1>2 DEF FetchesAt
<1> HIDE DEF added
<1>7. P = {places[i] : i \in 1 .. m}
  BY <1>2 DEF InOrder, Range
<1>8. Range(added) = FetchesOn(w, n, sectors, P)
  <2>1. Range(added) = {added[i] : i \in 1 .. m}
    BY <1>5 DEF Range
  <2>2. ASSUME NEW y
        PROVE  y \in Range(added) <=> \E i \in P : y = Fetch(w, n, sectors[i], TRUE)
    <3>1. y \in Range(added) <=> \E i \in 1 .. m : y = Fetch(w, n, sectors[places[i]], TRUE)
      BY <1>6, <2>1
    <3>2. \A j : j \in P <=> \E i \in 1 .. m : j = places[i]
      BY <1>7
    <3> QED
      BY <3>1, <3>2
  <2> QED
    BY <2>2 DEF FetchesOn
<1>9. Once(added)
  <2> SUFFICES ASSUME NEW i \in 1 .. m, NEW j \in 1 .. m, added[i] = added[j]
               PROVE  i = j
    BY <1>5 DEF Once
  <2>1. sectors[places[i]] = sectors[places[j]]
    <3>1. \A x : Fetch(w, n, x, TRUE).sector = x
      BY DEF Fetch
    <3>2. added[i] = Fetch(w, n, sectors[places[i]], TRUE)
      BY <1>6
    <3>3. added[j] = Fetch(w, n, sectors[places[j]], TRUE)
      BY <1>6
    <3> QED
      BY <3>1, <3>2, <3>3
  <2>2. places[i] \in 1 .. Len(sectors) /\ places[j] \in 1 .. Len(sectors)
    BY <1>1
  <2>3. places[i] = places[j]
    BY <2>1, <2>2
  <2>4. ~(i < j) /\ ~(j < i)
    BY <1>0, <1>2, <2>2, <2>3 DEF InOrder
  <2> QED
    BY <1>2, <2>4
<1> QED
  BY <1>5, <1>8, <1>9 DEF added

(* The fetches an atomic makes at once.                                    *)
AtomicFetches(w) ==
    FetchesOn(w, warp_point(w), Program[w][warp_point(w)].sectors,
              1 .. Len(Program[w][warp_point(w)].sectors))

LEMMA AtomicIsNew ==
    ASSUME TypeOK, AllIssued, NEW w \in Warps, warp_point(w) \in Indices(w)
    PROVE  AtomicFetches(w) \intersect Outstanding = {}
<1>1. completions[w] \in Seq(Nat) /\ Len(completions[w]) \in Nat
  BY LenProperties DEF TypeOK
<1> SUFFICES ASSUME NEW f \in AtomicFetches(w), f \in Outstanding PROVE FALSE
  OBVIOUS
<1>2. f.warp = w /\ f.index = Len(completions[w]) + 1
  BY DEF AtomicFetches, FetchesOn, Fetch, warp_point
<1>3. f.index \in 1 .. Len(completions[w])
  BY <1>2 DEF AllIssued, Issued
<1> QED
  BY <1>1, <1>2, <1>3

LEMMA AtomicPlaces ==
    ASSUME TypeOK, TypeOK', Located, AllIssued, NEW w \in Warps, warp_point(w) \in Indices(w),
           IssueAtomic(w), UNCHANGED <<l1_vars, below>>
    PROVE  /\ Located' /\ AtomicFetches(w) \intersect Outstanding = {}
           /\ Outstanding' = Outstanding \union AtomicFetches(w)
<1> DEFINE ip == warp_point(w)
           sectors == Program[w][ip].sectors
           At(bk) == {i \in 1 .. Len(sectors) : sectors[i][2] = bk}
<1>1. PICK of \in [Banks -> Places(Len(sectors))] :
          /\ \A bk \in Banks : InOrder(of[bk], At(bk))
          /\ m_sm_to_l1' = [bk \in Banks |-> m_sm_to_l1[bk] \o
                [i \in 1 .. Len(of[bk]) |-> Fetch(w, ip, sectors[of[bk][i]], TRUE)]]
  BY Zenon DEF IssueAtomic
<1>2. /\ ip \in Nat /\ sectors \in Seq(Sectors)
      /\ \A i, j \in 1 .. Len(sectors) : sectors[i] = sectors[j] => i = j
  <2>1. ip \in Nat /\ ip \in Indices(w)
    BY DEF Indices
  <2> HIDE DEF ip
  <2>2. sectors \in Seq(Sectors)
    BY <2>1, SectorsOf
  <2>3. \A i, j \in 1 .. Len(sectors) : sectors[i] = sectors[j] => i = j
    BY <2>1, SectorsDiffer
  <2> QED
    BY <2>1, <2>2, <2>3
<1>3. ASSUME NEW i \in 1 .. Len(sectors) PROVE sectors[i][2] \in Banks
  <2> HIDE DEF sectors
  <2>1. sectors[i] \in Sectors
    BY <1>2, ElementOfSeq
  <2> QED
    BY <2>1, LoadStoreAssumption
<1>4. AtomicFetches(w) = FetchesOn(w, ip, sectors, 1 .. Len(sectors))
  BY DEF AtomicFetches
<1>5. AtomicFetches(w) \intersect Outstanding = {}
  BY AtomicIsNew
<1> HIDE DEF ip, sectors
<1>6. ASSUME NEW bk \in Banks
      PROVE  /\ Range(m_sm_to_l1'[bk])
                  = Range(m_sm_to_l1[bk]) \union {f \in AtomicFetches(w) : f.sector[2] = bk}
             /\ Once(m_sm_to_l1'[bk])
  <2> DEFINE added == FetchesAt(w, ip, sectors, of[bk])
  <2>1. InOrder(of[bk], At(bk)) /\ of[bk] \in Places(Len(sectors))
    BY <1>1
  <2>2. /\ added \in Seq(Fetches) /\ Once(added)
        /\ Range(added) = FetchesOn(w, ip, sectors, At(bk))
    <3> DEFINE places == of[bk]
               P == At(bk)
    <3>1. InOrder(places, P) /\ places \in Places(Len(sectors))
      BY <2>1
    <3> HIDE DEF places, P
    <3>2. /\ FetchesAt(w, ip, sectors, places) \in Seq(Fetches)
          /\ Once(FetchesAt(w, ip, sectors, places))
          /\ Range(FetchesAt(w, ip, sectors, places)) = FetchesOn(w, ip, sectors, P)
      BY <1>2, <3>1, ChosenFetches
    <3> QED
      BY <3>2 DEF places, P
  <2>3. m_sm_to_l1'[bk] = m_sm_to_l1[bk] \o added
    BY <1>1 DEF FetchesAt
  <2>4. Range(added) = {f \in AtomicFetches(w) : f.sector[2] = bk}
    <3>1. \A x : Fetch(w, ip, x, TRUE).sector = x
      BY DEF Fetch
    <3>2. \A i : i \in At(bk) <=> i \in 1 .. Len(sectors) /\ sectors[i][2] = bk
      OBVIOUS
    <3> HIDE DEF At, added
    <3>3. ASSUME NEW f PROVE f \in Range(added) <=> f \in AtomicFetches(w) /\ f.sector[2] = bk
      <4>1. f \in AtomicFetches(w)
              <=> \E i \in 1 .. Len(sectors) : f = Fetch(w, ip, sectors[i], TRUE)
        BY <1>4 DEF FetchesOn
      <4>2. f \in Range(added) <=> \E i \in At(bk) : f = Fetch(w, ip, sectors[i], TRUE)
        BY <2>2 DEF FetchesOn
      <4>3. ASSUME f \in Range(added) PROVE f \in AtomicFetches(w) /\ f.sector[2] = bk
        <5>1. PICK i \in At(bk) : f = Fetch(w, ip, sectors[i], TRUE)
          BY <4>2, <4>3
        <5>2. i \in 1 .. Len(sectors) /\ sectors[i][2] = bk
          BY <3>2
        <5>3. f.sector = sectors[i]
          BY <3>1, <5>1
        <5> QED
          BY <4>1, <5>1, <5>2, <5>3
      <4>4. f \in AtomicFetches(w) /\ f.sector[2] = bk => f \in Range(added)
        BY <3>1, <3>2, <4>1, <4>2
      <4> QED
        BY <4>3, <4>4
    <3> QED
      BY <3>3
  <2>5. m_sm_to_l1[bk] \in Seq(Fetches) /\ Once(m_sm_to_l1[bk])
        /\ Range(m_sm_to_l1[bk]) \subseteq Outstanding
    BY OutstandingPlaces DEF TypeOK, Located, OnceEach, Queued
  <2>6. Range(m_sm_to_l1[bk]) \intersect Range(added) = {}
    BY <1>5, <2>4, <2>5
  <2> HIDE DEF added, At
  <2>7. /\ Range(m_sm_to_l1[bk] \o added) = Range(m_sm_to_l1[bk]) \union Range(added)
        /\ Once(m_sm_to_l1[bk] \o added)
    BY <2>2, <2>5, <2>6, ConcatRange
  <2> QED
    BY <2>3, <2>4, <2>7
<1>7. \A f \in AtomicFetches(w) : ~f.copy /\ f.sector[2] \in Banks
  BY <1>3, <1>4 DEF FetchesOn, Fetch
<1>8. UNCHANGED <<l1_to_sm, m_mshrs, m_miss_queue, below>>
  BY DEF l1_vars
<1>9. Hits' = Hits /\ Merged' = Merged /\ Sent' = Sent /\ Down' = Down
  BY <1>8 DEF Hits, Merged, Sent, Down
<1>10. Queued' = Queued \union AtomicFetches(w)
  <2>1. ASSUME NEW f PROVE f \in Queued' <=> f \in Queued \/ f \in AtomicFetches(w)
    <3>1. f \in Queued' <=> \E bk \in Banks : f \in Range(m_sm_to_l1'[bk])
      BY DEF Queued
    <3>2. f \in Queued <=> \E bk \in Banks : f \in Range(m_sm_to_l1[bk])
      BY DEF Queued
    <3> QED
      BY <1>6, <1>7, <3>1, <3>2
  <2> QED
    BY <2>1
<1>11. Hits \union Merged \union Sent \union Down \subseteq Outstanding
  BY AllCount, OutstandingPlaces
<1>12. OnceEach'
  <2>1. AtomicFetches(w) \intersect (Hits \union Merged \union Sent \union Down) = {}
    BY <1>5, <1>11
  <2> QED
    BY <1>6, <1>8, <1>9, <1>10, <2>1 DEF Located, OnceEach
<1>13. Placed'
  <2>1. \A bk \in Banks : \A f \in Range(m_sm_to_l1'[bk]) : f.sector[2] = bk /\ ~f.copy
    BY <1>6, <1>7 DEF Located, Placed
  <2> QED
    BY <1>8, <1>9, <2>1 DEF Located, Placed
<1>14. OnePrimary'
  BY <1>8 DEF Located, OnePrimary
<1>15. Outstanding' = Outstanding \union AtomicFetches(w)
  BY <1>9, <1>10, OutstandingPlaces
<1> QED
  BY <1>5, <1>12, <1>13, <1>14, <1>15 DEF Located

----
(* The counters of the warps.                                              *)
LEMMA CountsTogether == PendingIsOutstanding <=> FetchCounts /\ UnitCounts
  BY DEF PendingIsOutstanding, FetchCounts, UnitCounts, OutstandingOf, OfInst, OfWarp

LEMMA PartsFinite ==
    ASSUME NEW S, IsFiniteSet(S), NEW w, NEW n
    PROVE  /\ IsFiniteSet(OfWarp(S, w)) /\ Cardinality(OfWarp(S, w)) \in Nat
           /\ IsFiniteSet(OfInst(S, w, n)) /\ Cardinality(OfInst(S, w, n)) \in Nat
           /\ OfInst(S, w, n) \subseteq OfWarp(S, w)
<1>1. OfWarp(S, w) \in SUBSET S /\ OfInst(S, w, n) \in SUBSET S
  BY DEF OfWarp, OfInst
<1>2. OfInst(S, w, n) \subseteq OfWarp(S, w)
  BY DEF OfWarp, OfInst
<1> QED
  BY <1>1, <1>2, FS_Subset, FS_CardinalityType

LEMMA Minus ==
    ASSUME NEW S, IsFiniteSet(S), NEW T \in SUBSET S
    PROVE  /\ IsFiniteSet(S \ T) /\ IsFiniteSet(T)
           /\ Cardinality(T) \in Nat /\ Cardinality(S) \in Nat
           /\ Cardinality(T) <= Cardinality(S)
           /\ Cardinality(S) = Cardinality(T) => S = T
           /\ Cardinality(S \ T) = Cardinality(S) - Cardinality(T)
<1>1. S \intersect T = T
  OBVIOUS
<1>2. IsFiniteSet(S \ T) /\ Cardinality(S \ T) = Cardinality(S) - Cardinality(S \intersect T)
  BY FS_Difference
<1>3. IsFiniteSet(T) /\ Cardinality(T) <= Cardinality(S) /\ (Cardinality(S) = Cardinality(T) => S = T)
  BY FS_Subset
<1> QED
  BY <1>1, <1>2, <1>3, FS_CardinalityType

LEMMA Plus ==
    ASSUME NEW S, IsFiniteSet(S), NEW T, IsFiniteSet(T), T \intersect S = {}
    PROVE  /\ IsFiniteSet(S \union T)
           /\ Cardinality(S \union T) = Cardinality(S) + Cardinality(T)
           /\ Cardinality(T) \in Nat /\ Cardinality(S) \in Nat
<1>1. Cardinality(S \intersect T) = 0
  <2>1. S \intersect T = {}
    OBVIOUS
  <2> QED
    BY <2>1, FS_EmptySet
<1>2. IsFiniteSet(S \union T)
      /\ Cardinality(S \union T) = Cardinality(S) + Cardinality(T) - Cardinality(S \intersect T)
  BY FS_Union
<1>3. Cardinality(T) \in Nat /\ Cardinality(S) \in Nat
  BY FS_CardinalityType
<1> QED
  BY <1>1, <1>2, <1>3

LEMMA PartsMinus ==
    ASSUME NEW S, IsFiniteSet(S), NEW T \in SUBSET S, NEW w, NEW n
    PROVE  /\ Cardinality(OfWarp(S \ T, w)) = Cardinality(OfWarp(S, w)) - Cardinality(OfWarp(T, w))
           /\ Cardinality(OfInst(S \ T, w, n))
                = Cardinality(OfInst(S, w, n)) - Cardinality(OfInst(T, w, n))
           /\ OfInst(S \ T, w, n) = OfInst(S, w, n) \ OfInst(T, w, n)
           /\ OfInst(T, w, n) \subseteq OfInst(S, w, n)
<1>1. OfWarp(S \ T, w) = OfWarp(S, w) \ OfWarp(T, w) /\ OfWarp(T, w) \in SUBSET OfWarp(S, w)
  BY DEF OfWarp
<1>2. /\ OfInst(S \ T, w, n) = OfInst(S, w, n) \ OfInst(T, w, n)
      /\ OfInst(T, w, n) \in SUBSET OfInst(S, w, n)
  BY DEF OfInst
<1>3. IsFiniteSet(OfWarp(S, w)) /\ IsFiniteSet(OfInst(S, w, n))
  BY PartsFinite
<1>4. Cardinality(OfWarp(S, w) \ OfWarp(T, w)) = Cardinality(OfWarp(S, w)) - Cardinality(OfWarp(T, w))
  BY <1>1, <1>3, Minus
<1>5. Cardinality(OfInst(S, w, n) \ OfInst(T, w, n))
        = Cardinality(OfInst(S, w, n)) - Cardinality(OfInst(T, w, n))
  BY <1>2, <1>3, Minus
<1> QED
  BY <1>1, <1>2, <1>4, <1>5

LEMMA PartsPlus ==
    ASSUME NEW S, IsFiniteSet(S), NEW T, IsFiniteSet(T), T \intersect S = {}, NEW w, NEW n
    PROVE  /\ Cardinality(OfWarp(S \union T, w))
                = Cardinality(OfWarp(S, w)) + Cardinality(OfWarp(T, w))
           /\ Cardinality(OfInst(S \union T, w, n))
                = Cardinality(OfInst(S, w, n)) + Cardinality(OfInst(T, w, n))
<1>1. OfWarp(S \union T, w) = OfWarp(S, w) \union OfWarp(T, w)
      /\ OfWarp(T, w) \intersect OfWarp(S, w) = {}
  BY DEF OfWarp
<1>2. OfInst(S \union T, w, n) = OfInst(S, w, n) \union OfInst(T, w, n)
      /\ OfInst(T, w, n) \intersect OfInst(S, w, n) = {}
  BY DEF OfInst
<1>3. /\ IsFiniteSet(OfWarp(S, w)) /\ IsFiniteSet(OfInst(S, w, n))
      /\ IsFiniteSet(OfWarp(T, w)) /\ IsFiniteSet(OfInst(T, w, n))
  BY PartsFinite
<1>4. Cardinality(OfWarp(S, w) \union OfWarp(T, w))
        = Cardinality(OfWarp(S, w)) + Cardinality(OfWarp(T, w))
  BY <1>1, <1>3, Plus
<1>5. Cardinality(OfInst(S, w, n) \union OfInst(T, w, n))
        = Cardinality(OfInst(S, w, n)) + Cardinality(OfInst(T, w, n))
  BY <1>2, <1>3, Plus
<1> QED
  BY <1>1, <1>2, <1>4, <1>5

(* Release counts down by the answers.                                     *)
LEMMA ReleaseCounts ==
    ASSUME TypeOK, FetchCounts, IsFiniteSet(Outstanding),
           NEW done \in SUBSET Outstanding, Release(done), Outstanding' = Outstanding \ done
    PROVE  FetchCounts' /\ IsFiniteSet(Outstanding')
<1>1. ASSUME NEW w \in Warps
      PROVE  /\ \A n \in Indices(w) :
                    pending_request'[w][n] = Cardinality(OfInst(Outstanding', w, n))
             /\ m_pending_mem_request_num'[w] = Cardinality(OfWarp(Outstanding', w))
  <2>1. ASSUME NEW n \in Indices(w)
        PROVE  pending_request'[w][n] = Cardinality(OfInst(Outstanding', w, n))
    <3>1. pending_request'[w][n] = pending_request[w][n] - Cardinality(OfInst(done, w, n))
      BY DEF Release, OfInst
    <3>2. Cardinality(OfInst(Outstanding \ done, w, n))
            = Cardinality(OfInst(Outstanding, w, n)) - Cardinality(OfInst(done, w, n))
      BY PartsMinus
    <3>3. pending_request[w][n] = Cardinality(OfInst(Outstanding, w, n))
      BY DEF FetchCounts
    <3> QED
      BY <3>1, <3>2, <3>3
  <2>2. m_pending_mem_request_num'[w] = Cardinality(OfWarp(Outstanding', w))
    <3>1. m_pending_mem_request_num'[w]
            = m_pending_mem_request_num[w] - Cardinality(OfWarp(done, w))
      BY DEF Release, OfWarp
    <3>2. Cardinality(OfWarp(Outstanding \ done, w))
            = Cardinality(OfWarp(Outstanding, w)) - Cardinality(OfWarp(done, w))
      BY PartsMinus
    <3>3. m_pending_mem_request_num[w] = Cardinality(OfWarp(Outstanding, w))
      BY DEF FetchCounts
    <3> QED
      BY <3>1, <3>2, <3>3
  <2> QED
    BY <2>1, <2>2
<1> QED
  BY <1>1, Minus DEF FetchCounts

(* The units emit one fetch each.                                          *)
LEMMA EmittedCount ==
    ASSUME TypeOK, AllIssued, NEW K \in SUBSET {k \in Subcores : Emits(k)}
    PROVE  /\ IsFiniteSet({Emitted(k) : k \in K})
           /\ Cardinality({Emitted(k) : k \in K}) = Cardinality(K)
<1> DEFINE E == {Emitted(k) : k \in K}
           emit == [k \in K |-> Emitted(k)]
<1>1. IsFiniteSet(K)
  BY LoadStoreAssumption, FS_Subset
<1>2. ASSUME NEW j \in K, NEW k \in K, Emitted(j) = Emitted(k) PROVE j = k
  <2>1. j \in Subcores /\ k \in Subcores /\ Emits(j) /\ Emits(k)
    OBVIOUS
  <2>2. Emitted(j).sector = Next_sector(j) /\ Emitted(k).sector = Next_sector(k)
    BY <2>1, EmittedIsNew
  <2> QED
    BY <1>2, <2>1, <2>2, OneEmitterPerBank
<1>3. /\ emit \in [K -> E]
      /\ \A j, k \in K : emit[j] = emit[k] => j = k
      /\ \A e \in E : \E k \in K : emit[k] = e
  BY <1>2
<1> HIDE DEF E, emit
<1>4. emit \in Bijection(K, E)
  BY <1>3 DEF Bijection, Injection, Surjection, IsInjective
<1>5. ExistsBijection(K, E)
  BY <1>4 DEF ExistsBijection
<1>6. IsFiniteSet(E) /\ Cardinality(E) = Cardinality(K)
  BY <1>1, <1>5, FS_Bijection
<1> QED
  BY <1>6 DEF E

LEMMA UnitCycleCounts ==
    ASSUME TypeOK, AllIssued, FetchCounts, IsFiniteSet(Outstanding), UnitCycle,
           NewFetches \intersect Outstanding = {}, Outstanding' = Outstanding \union NewFetches
    PROVE  FetchCounts' /\ IsFiniteSet(Outstanding')
<1>1. IsFiniteSet(NewFetches)
  <2>1. {k \in Subcores : Emits(k)} \in SUBSET {k \in Subcores : Emits(k)}
    OBVIOUS
  <2> QED
    BY <2>1, EmittedCount DEF NewFetches
<1>2. ASSUME NEW w \in Warps, NEW n \in Indices(w)
      PROVE  pending_request'[w][n] = Cardinality(OfInst(Outstanding', w, n))
  <2> DEFINE K == {k \in {j \in Subcores : Emits(j) /\ units[j].warp = w} : units[k].index = n}
  <2>1. pending_request'[w][n] = pending_request[w][n] + Cardinality(K)
    BY DEF UnitCycle
  <2>2. OfInst(NewFetches, w, n) = {Emitted(k) : k \in K}
    BY DEF OfInst, NewFetches, Emitted, Fetch
  <2>3. K \in SUBSET {k \in Subcores : Emits(k)}
    OBVIOUS
  <2> HIDE DEF K
  <2>4. Cardinality(OfInst(NewFetches, w, n)) = Cardinality(K)
    BY <2>2, <2>3, EmittedCount
  <2>5. Cardinality(OfInst(Outstanding \union NewFetches, w, n))
          = Cardinality(OfInst(Outstanding, w, n)) + Cardinality(OfInst(NewFetches, w, n))
    BY <1>1, PartsPlus
  <2>6. pending_request[w][n] = Cardinality(OfInst(Outstanding, w, n))
    BY DEF FetchCounts
  <2> QED
    BY <2>1, <2>4, <2>5, <2>6
<1>3. ASSUME NEW w \in Warps
      PROVE  m_pending_mem_request_num'[w] = Cardinality(OfWarp(Outstanding', w))
  <2> DEFINE K == {k \in Subcores : Emits(k) /\ units[k].warp = w}
  <2>1. m_pending_mem_request_num'[w] = m_pending_mem_request_num[w] + Cardinality(K)
    BY DEF UnitCycle
  <2>2. OfWarp(NewFetches, w) = {Emitted(k) : k \in K}
    BY DEF OfWarp, NewFetches, Emitted, Fetch
  <2>3. K \in SUBSET {k \in Subcores : Emits(k)}
    OBVIOUS
  <2> HIDE DEF K
  <2>4. Cardinality(OfWarp(NewFetches, w)) = Cardinality(K)
    BY <2>2, <2>3, EmittedCount
  <2>5. Cardinality(OfWarp(Outstanding \union NewFetches, w))
          = Cardinality(OfWarp(Outstanding, w)) + Cardinality(OfWarp(NewFetches, w))
    BY <1>1, PartsPlus
  <2>6. m_pending_mem_request_num[w] = Cardinality(OfWarp(Outstanding, w))
    BY DEF FetchCounts
  <2> QED
    BY <2>1, <2>4, <2>5, <2>6
<1> QED
  BY <1>1, <1>2, <1>3, Plus DEF FetchCounts

(* An instruction leaves its unit, and pending_inst, with its last fetch.  *)
LEMMA UnitCycleUnits ==
    ASSUME TypeOK, UnitCounts, UnitCycle
    PROVE  UnitCounts'
<1>1. ASSUME NEW w \in Warps
      PROVE  pending_inst'[w] = Cardinality({k \in Subcores : units'[k].warp = w})
  <2> DEFINE held == {k \in Subcores : units[k].warp = w}
             freed == {k \in {j \in Subcores : Emits(j) /\ units[j].warp = w} : LastOf(k)}
  <2>1. pending_inst'[w] = pending_inst[w] - Cardinality(freed)
    BY DEF UnitCycle
  <2>2. w # 0
    BY LoadStoreAssumption
  <2>3. ASSUME NEW k \in Subcores
        PROVE  units'[k].warp = w <=> k \in held /\ k \notin freed
    <3>1. CASE ~Emits(k)
      BY <3>1 DEF UnitCycle
    <3>2. CASE Emits(k) /\ LastOf(k)
      BY <2>2, <3>2 DEF UnitCycle, Idle
    <3>3. CASE Emits(k) /\ ~LastOf(k)
      BY <3>3 DEF UnitCycle
    <3> QED
      BY <3>1, <3>2, <3>3
  <2>4. freed \in SUBSET held /\ held \in SUBSET Subcores
    OBVIOUS
  <2>5. {k \in Subcores : units'[k].warp = w} = held \ freed
    <3>1. \A k : k \in held => k \in Subcores
      OBVIOUS
    <3> HIDE DEF held, freed
    <3> QED
      BY <2>3, <3>1
  <2>6. pending_inst[w] = Cardinality(held)
    BY DEF UnitCounts
  <2> HIDE DEF held, freed
  <2>7. IsFiniteSet(held)
    BY <2>4, LoadStoreAssumption, FS_Subset
  <2>8. Cardinality(held \ freed) = Cardinality(held) - Cardinality(freed)
    BY <2>4, <2>7, Minus
  <2> QED
    BY <2>1, <2>5, <2>6, <2>8
<1> QED
  BY <1>1 DEF UnitCounts

(* An atomic counts all its fetches.                                       *)
LEMMA AtomicCounts ==
    ASSUME TypeOK, FetchCounts, IsFiniteSet(Outstanding), NEW w \in Warps,
           warp_point(w) \in Indices(w), IssueAtomic(w),
           AtomicFetches(w) \intersect Outstanding = {},
           Outstanding' = Outstanding \union AtomicFetches(w)
    PROVE  FetchCounts' /\ IsFiniteSet(Outstanding')
<1> DEFINE ip == warp_point(w)
           sectors == Program[w][ip].sectors
           n == Len(sectors)
           new == AtomicFetches(w)
           make == [i \in 1 .. n |-> Fetch(w, ip, sectors[i], TRUE)]
<1>1. n \in Nat /\ \A i, j \in 1 .. n : sectors[i] = sectors[j] => i = j
  <2>1. ip \in Indices(w)
    OBVIOUS
  <2> HIDE DEF ip
  <2> QED
    BY <2>1, SectorsOf, SectorsDiffer
<1>2. /\ pending_request' = [v \in Warps |-> [d \in Indices(v) |->
              pending_request[v][d] + IF v = w /\ d = ip THEN n ELSE 0]]
      /\ m_pending_mem_request_num' = [m_pending_mem_request_num EXCEPT ![w] = @ + n]
  BY DEF IssueAtomic
<1>3. new = {Fetch(w, ip, sectors[i], TRUE) : i \in 1 .. n}
  BY DEF AtomicFetches, FetchesOn
<1>4. make \in Bijection(1 .. n, new)
  <2>1. \A i, j \in 1 .. n : make[i] = make[j] => i = j
    <3>1. \A x : Fetch(w, ip, x, TRUE).sector = x
      BY DEF Fetch
    <3>2. \A i \in 1 .. n : make[i] = Fetch(w, ip, sectors[i], TRUE)
      OBVIOUS
    <3> HIDE DEF make, n, sectors, ip
    <3>3. \A i \in 1 .. n : make[i].sector = sectors[i]
      BY <3>1, <3>2
    <3> QED
      BY <1>1, <3>3
  <2>2. make \in [1 .. n -> new] /\ \A f \in new : \E i \in 1 .. n : make[i] = f
    BY <1>3
  <2> HIDE DEF make, new, n, sectors, ip
  <2> QED
    BY <2>1, <2>2 DEF Bijection, Injection, Surjection, IsInjective
<1>5. /\ \A f \in new : f.warp = w /\ f.index = ip
      /\ ip \in Indices(w)
  BY <1>3 DEF Fetch
<1> HIDE DEF make, new, n, sectors, ip
<1>6. IsFiniteSet(new) /\ Cardinality(new) = n
  <2>1. IsFiniteSet(1 .. n) /\ Cardinality(1 .. n) = n
    BY <1>1, FS_Interval
  <2>2. ExistsBijection(1 .. n, new)
    BY <1>4 DEF ExistsBijection
  <2> QED
    BY <2>1, <2>2, FS_Bijection
<1>7. new \intersect Outstanding = {} /\ Outstanding' = Outstanding \union new
  BY DEF new
<1>8. ASSUME NEW v \in Warps, NEW d \in Indices(v)
      PROVE  pending_request'[v][d] = Cardinality(OfInst(Outstanding', v, d))
  <2>1. OfInst(new, v, d) = IF v = w /\ d = ip THEN new ELSE {}
    BY <1>5 DEF OfInst
  <2>2. Cardinality(OfInst(new, v, d)) = IF v = w /\ d = ip THEN n ELSE 0
    BY <1>6, <2>1, FS_EmptySet
  <2>3. Cardinality(OfInst(Outstanding \union new, v, d))
          = Cardinality(OfInst(Outstanding, v, d)) + Cardinality(OfInst(new, v, d))
    BY <1>6, <1>7, PartsPlus
  <2>4. pending_request[v][d] = Cardinality(OfInst(Outstanding, v, d))
    BY DEF FetchCounts
  <2> QED
    BY <1>2, <1>7, <2>2, <2>3, <2>4
<1>9. ASSUME NEW v \in Warps
      PROVE  m_pending_mem_request_num'[v] = Cardinality(OfWarp(Outstanding', v))
  <2>1. OfWarp(new, v) = IF v = w THEN new ELSE {}
    BY <1>5 DEF OfWarp
  <2>2. Cardinality(OfWarp(new, v)) = IF v = w THEN n ELSE 0
    BY <1>6, <2>1, FS_EmptySet
  <2>3. Cardinality(OfWarp(Outstanding \union new, v))
          = Cardinality(OfWarp(Outstanding, v)) + Cardinality(OfWarp(new, v))
    BY <1>6, <1>7, PartsPlus
  <2>4. m_pending_mem_request_num[v] = Cardinality(OfWarp(Outstanding, v))
    BY DEF FetchCounts
  <2>5. Cardinality(OfWarp(Outstanding, v)) \in Nat
    BY PartsFinite
  <2>6. m_pending_mem_request_num'[v]
          = m_pending_mem_request_num[v] + (IF v = w THEN n ELSE 0)
    BY <1>1, <1>2, <2>4, <2>5 DEF TypeOK
  <2> QED
    BY <1>7, <2>2, <2>3, <2>4, <2>6
<1>10. IsFiniteSet(Outstanding')
  BY <1>6, <1>7, Plus
<1> QED
  BY <1>8, <1>9, <1>10 DEF FetchCounts

(* A load or a store waits in a unit that held nothing.                    *)
LEMMA IssueUnits ==
    ASSUME TypeOK, UnitCounts, NEW w \in Warps, NEW k \in Subcores, units[k] = Idle,
           IssueToUnit(w, k)
    PROVE  UnitCounts'
<1>1. /\ units' = [units EXCEPT ![k] = [warp |-> w, index |-> warp_point(w), point |-> 1]]
      /\ pending_inst' = [pending_inst EXCEPT ![w] = @ + 1]
  BY DEF IssueToUnit
<1>2. /\ units \in [Subcores -> [warp : Nat, index : Nat, point : Nat]]
      /\ pending_inst \in [Warps -> Int] /\ units[k].warp = 0
  BY DEF TypeOK, Idle
<1>3. \A v \in Warps : v # 0
  BY LoadStoreAssumption
<1>4. ASSUME NEW v \in Warps
      PROVE  pending_inst'[v] = Cardinality({j \in Subcores : units'[j].warp = v})
  <2> DEFINE held == {j \in Subcores : units[j].warp = v}
  <2>1. pending_inst[v] = Cardinality(held)
    BY DEF UnitCounts
  <2>2. IsFiniteSet(held) /\ k \notin held
    <3>1. held \in SUBSET Subcores
      OBVIOUS
    <3>2. k \notin held
      BY <1>2, <1>3
    <3> QED
      BY <3>1, <3>2, LoadStoreAssumption, FS_Subset
  <2>3. CASE v = w
    <3>1. {j \in Subcores : units'[j].warp = v} = held \union {k}
      BY <1>1, <1>2, <2>3
    <3> HIDE DEF held
    <3>2. Cardinality(held \union {k}) = Cardinality(held) + 1
      BY <2>2, FS_AddElement, Zenon
    <3> QED
      BY <1>1, <1>2, <2>1, <2>3, <3>1, <3>2
  <2>4. CASE v # w
    <3>1. {j \in Subcores : units'[j].warp = v} = held
      BY <1>1, <1>2, <1>3, <2>4
    <3> QED
      BY <1>1, <1>2, <2>1, <2>4, <3>1
  <2> QED
    BY <2>3, <2>4
<1> QED
  BY <1>4 DEF UnitCounts

(* A fetch belongs to an instruction that issued.                          *)
LEMMA OutstandingTypes ==
    ASSUME TypeOK, AllIssued, NEW f \in Outstanding
    PROVE  /\ f.warp \in Warps /\ f.index \in Indices(f.warp)
           /\ f.index \in 1 .. Len(completions[f.warp])
<1>1. f \in Fetches
  <2>1. CASE f \in Queued
    BY <2>1, RangeIsFinite DEF Queued, TypeOK
  <2>2. CASE f \in Hits
    <3>1. l1_to_sm \in Seq(Hit)
      BY DEF TypeOK, Hit
    <3>2. Range(l1_to_sm) \subseteq Hit
      BY <3>1, RangeIsFinite
    <3> QED
      BY <2>2, <3>2 DEF Hits, Hit
  <2>3. CASE f \in Merged
    BY <2>3, RangeIsFinite DEF Merged, TypeOK
  <2>4. CASE f \in Sent \union Down
    BY <2>4, RangeIsFinite DEF Sent, Down, TypeOK
  <2> QED
    BY <2>1, <2>2, <2>3, <2>4, OutstandingPlaces
<1>2. f.warp \in Warps
  BY <1>1 DEF Fetches
<1> QED
  BY <1>2 DEF AllIssued, Issued

(* Steps that leave the fetches, the units and the warps as they are.      *)
LEMMA QuietStep ==
    ASSUME FetchInv, TypeOK', Located', Outstanding' = Outstanding,
           UNCHANGED <<warp_vars, units, warp_vec>>, block_pointer' >= block_pointer,
           phase' # "exit"
    PROVE  FetchParts'
<1>1. UNCHANGED <<completions, pending_request, m_pending_mem_request_num, pending_inst>>
  BY DEF warp_vars
<1>2. AllIssued'
  BY <1>1 DEF FetchInv, FetchParts, AllIssued, Issued
<1>3. UnitsHold'
  BY <1>1 DEF FetchInv, FetchParts, UnitsHold, Idle
<1>4. Progress'
  <2>1. ASSUME NEW w \in Warps, BlockOf[w] > block_pointer' PROVE BlockOf[w] > block_pointer
    <3>1. BlockOf[w] \in Int /\ block_pointer \in Int /\ block_pointer' \in Int
      BY LoadStoreAssumption DEF FetchInv, TypeOK
    <3> QED
      BY <2>1, <3>1
  <2> QED
    BY <1>1, <2>1 DEF FetchInv, FetchParts, Progress
<1>5. Waits'
  BY <1>1 DEF FetchInv, FetchParts, Waits, InUnit
<1>6. FetchCounts' /\ UnitCounts' /\ IsFiniteSet(Outstanding')
  BY <1>1 DEF FetchInv, FetchParts, FetchCounts, UnitCounts
<1> QED
  BY <1>2, <1>3, <1>4, <1>5, <1>6 DEF FetchParts, NeverExits

(* Time that goes on completes no instruction that is in flight.           *)
LEMMA StartCycleStep == ASSUME FetchInv, TypeOK', StartCycle PROVE FetchParts'
<1>1. TypeOK /\ Located /\ FetchParts
  BY DEF FetchInv, FetchParts
<1>2. Located' /\ Outstanding' = Outstanding
  BY <1>1, StartCyclePlaces
<1>3. /\ UNCHANGED <<pending_request, m_pending_mem_request_num, pending_inst, units,
                     warp_vec, block_pointer>>
      /\ phase' # "exit"
  BY DEF StartCycle, kernel_vars
<1>4. ASSUME NEW w \in Warps
      PROVE  /\ completions'[w] = [i \in 1 .. Len(completions[w]) |-> Sooner(completions[w][i])]
             /\ Len(completions'[w]) = Len(completions[w])
             /\ Len(completions[w]) \in Nat
             /\ \A i \in 1 .. Len(completions[w]) :
                   completions[w][i] \in Nat /\ completions'[w][i] = Sooner(completions[w][i])
  <2>1. completions[w] \in Seq(Nat)
    BY <1>1 DEF TypeOK
  <2>2. completions'[w] = [i \in 1 .. Len(completions[w]) |-> Sooner(completions[w][i])]
    BY DEF StartCycle
  <2>3. Len(completions[w]) \in Nat
    BY <2>1
  <2>4. \A i \in 1 .. Len(completions[w]) : completions[w][i] \in Nat
    BY <2>1, ElementOfSeq
  <2> QED
    BY <2>2, <2>3, <2>4
<1>5. AllIssued'
  <2>1. ASSUME NEW f \in Outstanding PROVE Issued(f)'
    <3>1. f.warp \in Warps /\ Issued(f)
      BY <1>1, OutstandingTypes DEF FetchParts, AllIssued
    <3>2. Len(completions'[f.warp]) = Len(completions[f.warp])
      BY <1>4, <3>1
    <3> QED
      BY <1>3, <3>1, <3>2 DEF Issued
  <2> QED
    BY <1>2, <2>1 DEF AllIssued
<1>6. UnitsHold'
  <2>1. \A k \in Subcores : units[k] # Idle => units[k].warp \in Warps
    BY <1>1 DEF TypeOK, Busy
  <2> QED
    BY <1>1, <1>3, <1>4, <2>1 DEF FetchParts, UnitsHold, Idle
<1>7. Progress'
  <2>1. ASSUME NEW w \in Warps, completions[w] = << >> PROVE completions'[w] = << >>
    <3>1. Len(completions[w]) = 0
      BY <2>1
    <3>2. completions'[w] = [i \in 1 .. 0 |-> Sooner(completions[w][i])]
      BY <1>4, <3>1
    <3> QED
      BY <3>2
  <2> QED
    BY <1>1, <1>2, <1>3, <1>4, <2>1 DEF FetchParts, Progress
<1>8. Waits'
  <2>1. ASSUME NEW w \in Warps, NEW i \in 1 .. Len(completions[w])
        PROVE  /\ completions'[w][i] <= INT_MAX
               /\ completions'[w][i] = INT_MAX <=> completions[w][i] = INT_MAX
    <3> DEFINE left == completions[w][i]
    <3>1. left \in Nat /\ left <= INT_MAX
      BY <1>1, <1>4 DEF FetchParts, Waits
    <3>2. completions'[w][i] = Sooner(left)
      BY <1>4
    <3> HIDE DEF left
    <3>3. /\ Sooner(left) <= INT_MAX
          /\ Sooner(left) = INT_MAX <=> left = INT_MAX
      BY <3>1, SMT DEF Sooner, INT_MAX
    <3> QED
      BY <3>2, <3>3 DEF left
  <2> QED
    BY <1>1, <1>2, <1>3, <1>4, <2>1 DEF FetchParts, Waits, InUnit
<1>9. FetchCounts' /\ UnitCounts' /\ IsFiniteSet(Outstanding')
  BY <1>1, <1>2, <1>3 DEF FetchParts, FetchCounts, UnitCounts
<1> QED
  BY <1>2, <1>3, <1>5, <1>6, <1>7, <1>8, <1>9 DEF FetchParts, NeverExits

----
(* The answers.  Whoever waits for one is resident, and is counted.        *)
LEMMA OutstandingFound ==
    ASSUME FetchInv, NEW f \in Outstanding
    PROVE  Found(f.warp) /\ can_decrease(f)
<1>1. /\ TypeOK /\ Residency /\ AllIssued /\ Progress /\ FetchCounts
      /\ IsFiniteSet(Outstanding)
  BY DEF FetchInv, FetchParts
<1>2. /\ f.warp \in Warps /\ f.index \in Indices(f.warp)
      /\ f.index \in 1 .. Len(completions[f.warp])
  BY <1>1, OutstandingTypes
<1>3. f.warp \in warp_vec
  BY <1>1, <1>2 DEF Progress, OfWarp
<1>4. ~(BlockOf[f.warp] > block_pointer)
  <2>1. Len(completions[f.warp]) # 0
    BY <1>2
  <2> QED
    BY <1>1, <1>2, <2>1 DEF Progress
<1>5. BlockOf[f.warp] \in block_vec
  BY <1>1, <1>3, <1>4 DEF Residency
<1>6. can_decrease(f)
  <2>1. pending_request[f.warp][f.index] = Cardinality(OfInst(Outstanding, f.warp, f.index))
    BY <1>1, <1>2 DEF FetchCounts
  <2>2. OfInst(Outstanding, f.warp, f.index) # {}
    BY DEF OfInst
  <2>3. /\ IsFiniteSet(OfInst(Outstanding, f.warp, f.index))
        /\ Cardinality(OfInst(Outstanding, f.warp, f.index)) \in Nat
    BY <1>1, PartsFinite
  <2>4. Cardinality(OfInst(Outstanding, f.warp, f.index)) # 0
    BY <2>2, <2>3, FS_EmptySet
  <2> QED
    BY <2>1, <2>3, <2>4 DEF can_decrease
<1> QED
  BY <1>3, <1>5, <1>6 DEF Found

(* An answer leaves all parts of the invariant intact.                     *)
LEMMA ReleaseStep ==
    ASSUME FetchInv, TypeOK', Located', NEW done \in SUBSET Outstanding, Release(done),
           Outstanding' = Outstanding \ done, UNCHANGED <<pending_inst, units, kernel_vars>>,
           phase' # "exit"
    PROVE  FetchParts'
<1>1. TypeOK /\ FetchParts /\ Progress /\ FetchCounts /\ IsFiniteSet(Outstanding)
  BY DEF FetchInv, FetchParts
<1>2. UNCHANGED <<pending_inst, units, warp_vec, block_pointer>>
  BY DEF kernel_vars
<1>3. FetchCounts' /\ IsFiniteSet(Outstanding')
  BY <1>1, ReleaseCounts
<1>4. ASSUME NEW w \in Warps
      PROVE  /\ Len(completions'[w]) = Len(completions[w])
             /\ Len(completions[w]) \in Nat
             /\ \A i \in 1 .. Len(completions[w]) :
                   completions'[w][i]
                     = IF /\ Cardinality(OfInst(done, w, i)) > 0
                          /\ pending_request[w][i] = Cardinality(OfInst(done, w, i))
                       THEN 0 ELSE completions[w][i]
  <2>1. Len(completions[w]) \in Nat
    BY <1>1 DEF TypeOK
  <2>2. completions'[w] = [i \in 1 .. Len(completions[w]) |->
              IF /\ Cardinality(OfInst(done, w, i)) > 0
                 /\ pending_request[w][i] = Cardinality(OfInst(done, w, i))
              THEN 0 ELSE completions[w][i]]
    BY DEF Release, OfInst
  <2> QED
    BY <2>1, <2>2
<1>5. AllIssued'
  <2>1. ASSUME NEW f \in Outstanding' PROVE Issued(f)'
    <3>1. f.warp \in Warps /\ Issued(f)
      BY <1>1, OutstandingTypes DEF FetchParts, AllIssued
    <3>2. Len(completions'[f.warp]) = Len(completions[f.warp])
      BY <1>4, <3>1
    <3> QED
      BY <1>2, <3>1, <3>2 DEF Issued
  <2> QED
    BY <2>1 DEF AllIssued
<1>6. UnitsHold'
  <2>1. \A k \in Subcores : units[k] # Idle => units[k].warp \in Warps
    BY <1>1 DEF TypeOK, Busy
  <2> QED
    BY <1>1, <1>2, <1>4, <2>1 DEF FetchParts, UnitsHold, Idle
<1>7. Progress'
  <2>1. ASSUME NEW w \in Warps, completions[w] = << >> PROVE completions'[w] = << >>
    <3>1. Len(completions'[w]) = 0
      BY <1>4, <2>1
    <3>2. completions'[w] \in Seq(Nat)
      BY DEF TypeOK
    <3> QED
      BY <3>1, <3>2, EmptySeq
  <2>2. \A w \in Warps : OfWarp(Outstanding', w) \subseteq OfWarp(Outstanding, w)
    BY DEF OfWarp
  <2> QED
    BY <1>1, <1>2, <1>4, <2>1, <2>2 DEF Progress
<1>8. Waits'
  <2>1. ASSUME NEW w \in Warps, NEW i \in 1 .. Len(completions[w])
        PROVE  /\ completions'[w][i] <= INT_MAX
               /\ completions'[w][i] = INT_MAX
                    => InUnit(w, i)' \/ OfInst(Outstanding', w, i) # {}
               /\ completions'[w][i] # INT_MAX /\ Program[w][i].kind = "ATOM"
                    => OfInst(Outstanding', w, i) = {}
    <3> DEFINE due == OfInst(Outstanding, w, i)
               answers == OfInst(done, w, i)
    <3>0. i \in Indices(w)
      <4>1. Len(completions[w]) <= Len(Program[w]) /\ Len(Program[w]) \in Nat
        BY <1>1, LoadStoreAssumption DEF Progress
      <4> QED
        BY <1>4, <4>1 DEF Indices
    <3>1. pending_request[w][i] = Cardinality(due)
      BY <1>1, <3>0 DEF FetchCounts
    <3>2. /\ completions[w][i] <= INT_MAX
          /\ completions[w][i] = INT_MAX => InUnit(w, i) \/ due # {}
          /\ completions[w][i] # INT_MAX /\ Program[w][i].kind = "ATOM" => due = {}
      BY <1>1 DEF FetchParts, Waits
    <3>3. InUnit(w, i)' <=> InUnit(w, i)
      BY <1>2 DEF InUnit
    <3>4. completions'[w][i] = IF Cardinality(answers) > 0 /\ Cardinality(due) = Cardinality(answers)
                               THEN 0 ELSE completions[w][i]
      BY <1>4, <3>1
    <3>5. OfInst(Outstanding', w, i) = due \ answers /\ answers \in SUBSET due
      BY <1>1, PartsMinus
    <3>6. IsFiniteSet(due)
      BY <1>1, PartsFinite
    <3> HIDE DEF due, answers
    <3>7. /\ Cardinality(answers) \in Nat /\ IsFiniteSet(answers)
          /\ Cardinality(due) = Cardinality(answers) => due = answers
      BY <3>5, <3>6, Minus
    <3>8. Cardinality(answers) = 0 <=> answers = {}
      BY <3>7, FS_EmptySet
    <3>9. CASE Cardinality(answers) > 0 /\ Cardinality(due) = Cardinality(answers)
      <4>1. due \ answers = {}
        BY <3>7, <3>9
      <4>2. completions'[w][i] = 0
        BY <3>4, <3>9
      <4>3. 0 <= INT_MAX /\ 0 # INT_MAX
        BY SMT DEF INT_MAX
      <4> QED
        BY <3>5, <4>1, <4>2, <4>3
    <3>10. CASE ~(Cardinality(answers) > 0 /\ Cardinality(due) = Cardinality(answers))
      <4>1. completions'[w][i] = completions[w][i]
        BY <3>4, <3>10
      <4>2. due # {} => due \ answers # {}
        <5>1. CASE answers = {}
          BY <5>1
        <5>2. CASE answers # {}
          <6>1. Cardinality(due) # Cardinality(answers)
            BY <3>7, <3>8, <3>10, <5>2
          <6> QED
            BY <3>5, <6>1
        <5> QED
          BY <5>1, <5>2
      <4> QED
        BY <3>2, <3>3, <3>5, <4>1, <4>2
    <3> QED
      BY <3>9, <3>10
  <2> QED
    BY <1>4, <2>1 DEF Waits
<1>9. UnitCounts'
  BY <1>1, <1>2 DEF FetchParts, UnitCounts
<1> QED
  BY <1>3, <1>5, <1>6, <1>7, <1>8, <1>9 DEF FetchParts, NeverExits

LEMMA WriteBackStep == ASSUME FetchInv, TypeOK', WriteBack PROVE FetchParts'
<1> DEFINE f == Head(l1_to_sm).fetch
<1>1. TypeOK /\ Located
  BY DEF FetchInv, FetchParts
<1>2. Located' /\ f \in Outstanding /\ Outstanding' = Outstanding \ {f}
  BY <1>1, WriteBackPlaces
<1>3. Found(f.warp) /\ can_decrease(f)
  <2> HIDE DEF f
  <2> QED
    BY <1>2, OutstandingFound
<1>4. Release({f}) /\ phase' = phase /\ phase = "write_back"
  BY <1>3 DEF WriteBack
<1>5. UNCHANGED <<pending_inst, units, kernel_vars>>
  BY DEF WriteBack
<1>6. {f} \in SUBSET Outstanding
  BY <1>2
<1> HIDE DEF f
<1> QED
  BY <1>2, <1>4, <1>5, <1>6, ReleaseStep

LEMMA ReplyStep == ASSUME FetchInv, TypeOK', NEW f \in below, Reply(f) PROVE FetchParts'
<1>1. TypeOK /\ Located
  BY DEF FetchInv, FetchParts
<1>2. f \in Fetches /\ f.sector \in Sectors
  BY <1>1 DEF TypeOK, Fetches
<1>3. Waiting(f) \subseteq Outstanding
  <2>1. CASE f.write
    <3>1. f \in Down
      BY DEF Reply, Down
    <3> QED
      BY <1>1, <2>1, <3>1, AllCount DEF Waiting
  <2>2. CASE ~f.write
    <3>1. Waiting(f) \subseteq Merged
      BY <1>2, <2>2 DEF Waiting, Merged
    <3> QED
      BY <3>1, OutstandingPlaces
  <2> QED
    BY <2>1, <2>2
<1>4. \A g \in Waiting(f) : Found(g.warp) /\ can_decrease(g)
  BY <1>3, OutstandingFound
<1>5. phase' = "miss_queue" /\ Release(Waiting(f))
  BY <1>4 DEF Reply
<1>6. Located' /\ Outstanding' = Outstanding \ Waiting(f)
  BY <1>1, <1>5, ReplyWritePlaces, ReplyReadPlaces
<1>7. UNCHANGED <<pending_inst, units, kernel_vars>>
  BY DEF Reply
<1> QED
  BY <1>3, <1>5, <1>6, <1>7, ReleaseStep

----
(* The cycle of the units.                                                 *)
LEMMA UnitsAfterCycle ==
    ASSUME TypeOK, UnitCycle, NEW k \in Subcores
    PROVE  /\ units'[k] # Idle =>
                 /\ units[k] # Idle
                 /\ units'[k].warp = units[k].warp /\ units'[k].index = units[k].index
                 /\ units'[k].point >= units[k].point
                 /\ Emits(k) => units'[k].point = units[k].point + 1
           /\ units'[k].warp # 0 => units'[k] # Idle
           /\ units[k].warp # 0 => units[k] # Idle
           /\ ~Emits(k) => units'[k] = units[k]
<1>1. units[k] \in [warp : Nat, index : Nat, point : Nat]
  BY DEF TypeOK
<1>2. Idle.warp = 0
  BY DEF Idle
<1>3. CASE ~Emits(k)
  BY <1>1, <1>2, <1>3 DEF UnitCycle
<1>4. CASE Emits(k) /\ LastOf(k)
  BY <1>2, <1>4 DEF UnitCycle
<1>5. CASE Emits(k) /\ ~LastOf(k)
  <2>1. units'[k] = [warp |-> units[k].warp, index |-> units[k].index,
                     point |-> units[k].point + 1]
    BY <1>5 DEF UnitCycle
  <2>2. units[k] # Idle
    BY <1>5 DEF Emits
  <2> QED
    BY <1>1, <1>2, <1>5, <2>1, <2>2
<1> QED
  BY <1>3, <1>4, <1>5

LEMMA UnitCycleStep == ASSUME FetchInv, TypeOK', UnitCycle PROVE FetchParts'
<1>1. /\ TypeOK /\ Located /\ AllIssued /\ UnitsHold /\ Progress /\ Waits /\ FetchCounts /\ UnitCounts
      /\ IsFiniteSet(Outstanding)
  BY DEF FetchInv, FetchParts
<1>2. /\ Located' /\ NewFetches \intersect Outstanding = {}
      /\ Outstanding' = Outstanding \union NewFetches
  BY <1>1, UnitCyclePlaces
<1>3. FetchCounts' /\ IsFiniteSet(Outstanding') /\ UnitCounts'
  BY <1>1, <1>2, UnitCycleCounts, UnitCycleUnits
<1>4. UNCHANGED <<completions, warp_vec, block_pointer>> /\ phase' # "exit"
  BY DEF UnitCycle, kernel_vars
<1>5. \A w \in Warps : w # 0
  BY LoadStoreAssumption
<1>6. ASSUME NEW f \in NewFetches
      PROVE  \E j \in Subcores : /\ Emits(j) /\ units[j] # Idle /\ Busy(units[j])
                                 /\ f.warp = units[j].warp /\ f.index = units[j].index
                                 /\ f.sector = Next_sector(j)
  <2>1. PICK j \in Subcores : Emits(j) /\ f = Emitted(j)
    BY DEF NewFetches
  <2>2. Busy(units[j])
    BY <1>1, <2>1, EmittedTypes
  <2>3. f.warp = units[j].warp /\ f.index = units[j].index /\ f.sector = Next_sector(j)
    BY <2>1 DEF Emitted, Fetch
  <2>4. units[j] # Idle
    BY <2>1 DEF Emits
  <2> QED
    BY <2>1, <2>2, <2>3, <2>4
<1>7. AllIssued'
  <2>1. ASSUME NEW f \in Outstanding PROVE Issued(f)'
    <3>1. f.warp \in Warps /\ Issued(f)
      BY <1>1, OutstandingTypes DEF AllIssued
    <3>2. PICK i \in 1 .. Len(Program[f.warp][f.index].sectors) :
            /\ f.sector = Program[f.warp][f.index].sectors[i]
            /\ \A k \in Subcores :
                  units[k].warp = f.warp /\ units[k].index = f.index => i < units[k].point
      BY <3>1 DEF Issued
    <3>3. Len(Program[f.warp][f.index].sectors) \in Nat
      BY <3>1, SectorsOf DEF Issued
    <3>4. ASSUME NEW k \in Subcores, units'[k].warp = f.warp, units'[k].index = f.index
          PROVE  i < units'[k].point
      <4>1. /\ units'[k].warp = units[k].warp /\ units'[k].index = units[k].index
            /\ units'[k].point >= units[k].point
        BY <1>1, <1>5, <3>1, <3>4, UnitsAfterCycle
      <4>2. i < units[k].point
        BY <3>2, <3>4, <4>1
      <4>3. units[k].point \in Nat /\ units'[k].point \in Nat
        BY <1>1 DEF TypeOK
      <4> QED
        BY <3>3, <4>1, <4>2, <4>3
    <3> QED
      BY <1>4, <3>1, <3>2, <3>4 DEF Issued
  <2>2. ASSUME NEW f \in NewFetches PROVE Issued(f)'
    <3>1. PICK j \in Subcores : /\ Emits(j) /\ units[j] # Idle /\ Busy(units[j])
                                /\ f.warp = units[j].warp /\ f.index = units[j].index
                                /\ f.sector = Next_sector(j)
      BY <1>6
    <3>2. /\ f.warp \in Warps /\ f.index \in Indices(f.warp)
          /\ units[j].point \in 1 .. Len(Program[f.warp][f.index].sectors)
          /\ f.sector = Program[f.warp][f.index].sectors[units[j].point]
      BY <3>1 DEF Busy, Next_sector
    <3>3. f.index \in 1 .. Len(completions[f.warp])
      <4>1. f.index <= Len(completions[f.warp])
        BY <1>1, <3>1 DEF UnitsHold
      <4>2. completions[f.warp] \in Seq(Nat)
        BY <1>1, <3>2 DEF TypeOK
      <4>3. Len(completions[f.warp]) \in Nat /\ Len(Program[f.warp]) \in Nat
        BY <3>2, <4>2, LoadStoreAssumption
      <4>4. f.index \in 1 .. Len(Program[f.warp])
        BY <3>2 DEF Indices
      <4> QED
        BY <4>1, <4>3, <4>4
    <3>4. ASSUME NEW k \in Subcores, units'[k].warp = f.warp, units'[k].index = f.index
          PROVE  units[j].point < units'[k].point
      <4>1. units'[k] # Idle /\ units[k] # Idle
            /\ units'[k].warp = units[k].warp /\ units'[k].index = units[k].index
            /\ (Emits(k) => units'[k].point = units[k].point + 1)
        BY <1>1, <1>5, <3>2, <3>4, UnitsAfterCycle
      <4>2. j = k
        BY <1>1, <3>1, <3>4, <4>1 DEF UnitsHold
      <4>3. units[j].point \in Nat
        BY <1>1 DEF TypeOK
      <4> QED
        BY <3>1, <4>1, <4>2, <4>3
    <3> QED
      BY <1>4, <3>2, <3>3, <3>4 DEF Issued
  <2> QED
    BY <1>2, <2>1, <2>2 DEF AllIssued
<1>8. UnitsHold'
  <2>1. \A k \in Subcores : units'[k] # Idle => /\ units[k] # Idle
                                                /\ units'[k].warp = units[k].warp
                                                /\ units'[k].index = units[k].index
    BY <1>1, UnitsAfterCycle
  <2>2. ASSUME NEW k \in Subcores, units'[k] # Idle
        PROVE  /\ units'[k].index <= Len(completions'[units'[k].warp])
               /\ Program[units'[k].warp][units'[k].index].kind \in {"LD", "ST"}
    BY <1>1, <1>4, <2>1, <2>2 DEF UnitsHold
  <2>3. ASSUME NEW j \in Subcores, NEW k \in Subcores, j # k, units'[j] # Idle
        PROVE  units'[j].warp # units'[k].warp \/ units'[j].index # units'[k].index
    <3>1. CASE units'[k] = Idle
      <4>1. units'[j].warp # 0
        BY <1>5, <2>3 DEF TypeOK, Busy
      <4> QED
        BY <3>1, <4>1 DEF Idle
    <3>2. CASE units'[k] # Idle
      BY <1>1, <2>1, <2>3, <3>2 DEF UnitsHold
    <3> QED
      BY <3>1, <3>2
  <2> QED
    BY <2>2, <2>3 DEF UnitsHold, Idle
<1>9. Progress'
  <2>1. ASSUME NEW w \in Warps, w \notin warp_vec
        PROVE  /\ OfWarp(Outstanding', w) = {}
               /\ \A k \in Subcores : units'[k].warp # w
    <3>1. OfWarp(Outstanding, w) = {} /\ \A k \in Subcores : units[k].warp # w
      BY <1>1, <2>1 DEF Progress
    <3>2. OfWarp(NewFetches, w) = {}
      BY <1>6, <3>1 DEF OfWarp
    <3>3. OfWarp(Outstanding', w) = OfWarp(Outstanding, w) \union OfWarp(NewFetches, w)
      BY <1>2 DEF OfWarp
    <3>4. \A k \in Subcores : units'[k].warp # w
      BY <1>1, <1>5, <3>1, UnitsAfterCycle
    <3> QED
      BY <3>1, <3>2, <3>3, <3>4
  <2> QED
    BY <1>1, <1>4, <2>1 DEF Progress
<1>10. Waits'
  <2>1. ASSUME NEW w \in Warps, NEW i \in 1 .. Len(completions[w])
        PROVE  /\ InUnit(w, i) => InUnit(w, i)' \/ OfInst(Outstanding', w, i) # {}
               /\ OfInst(Outstanding, w, i) \subseteq OfInst(Outstanding', w, i)
               /\ Program[w][i].kind = "ATOM"
                     => OfInst(Outstanding', w, i) \subseteq OfInst(Outstanding, w, i)
    <3>1. ASSUME NEW k \in Subcores, units[k].warp = w, units[k].index = i
          PROVE  InUnit(w, i)' \/ OfInst(Outstanding', w, i) # {}
      <4>1. CASE ~Emits(k)
        BY <1>1, <3>1, <4>1, UnitsAfterCycle DEF InUnit
      <4>2. CASE Emits(k)
        <5>1. Emitted(k) \in NewFetches
          BY <4>2 DEF NewFetches
        <5>2. Emitted(k).warp = w /\ Emitted(k).index = i
          BY <3>1 DEF Emitted, Fetch
        <5> QED
          BY <1>2, <5>1, <5>2 DEF OfInst
      <4> QED
        BY <4>1, <4>2
    <3>2. OfInst(Outstanding, w, i) \subseteq OfInst(Outstanding', w, i)
      BY <1>2 DEF OfInst
    <3>3. ASSUME Program[w][i].kind = "ATOM", NEW f \in OfInst(Outstanding', w, i)
          PROVE  f \in OfInst(Outstanding, w, i)
      <4>1. ASSUME f \in NewFetches PROVE FALSE
        <5>1. PICK j \in Subcores : /\ units[j] # Idle
                                    /\ f.warp = units[j].warp /\ f.index = units[j].index
          BY <1>6, <4>1
        <5>2. Program[w][i].kind \in {"LD", "ST"}
          BY <1>1, <3>3, <5>1 DEF UnitsHold, OfInst
        <5> QED
          BY <3>3, <5>2
      <4> QED
        BY <1>2, <3>3, <4>1 DEF OfInst
    <3> QED
      BY <3>1, <3>2, <3>3 DEF InUnit
  <2> QED
    BY <1>1, <1>4, <2>1 DEF Waits
<1> QED
  BY <1>2, <1>3, <1>4, <1>7, <1>8, <1>9, <1>10 DEF FetchParts, NeverExits

----
(* The scheduler.  A completion is added for the instruction that issues.  *)
LEMMA OneMoreCompletion ==
    ASSUME TypeOK, NEW w \in Warps, NEW x \in Nat,
           completions' = [completions EXCEPT ![w] = Append(@, x)]
    PROVE  /\ \A v \in Warps : Len(completions[v]) \in Nat /\ Len(Program[v]) \in Nat
           /\ \A v \in Warps : v # w => completions'[v] = completions[v]
           /\ Len(completions'[w]) = Len(completions[w]) + 1
           /\ warp_point(w) = Len(completions[w]) + 1
           /\ \A i \in 1 .. Len(completions[w]) : completions'[w][i] = completions[w][i]
           /\ completions'[w][warp_point(w)] = x
<1>1. completions \in [Warps -> Seq(Nat)] /\ completions[w] \in Seq(Nat)
  BY DEF TypeOK
<1>2. completions'[w] = Append(completions[w], x)
  BY <1>1
<1>3. \A v \in Warps : Len(Program[v]) \in Nat
  BY LoadStoreAssumption
<1>4. \A v \in Warps : v # w => completions'[v] = completions[v]
  BY <1>1
<1>5. \A v \in Warps : Len(completions[v]) \in Nat
  BY <1>1, LenProperties
<1>6. /\ Len(Append(completions[w], x)) = Len(completions[w]) + 1
      /\ \A i \in 1 .. Len(completions[w]) : Append(completions[w], x)[i] = completions[w][i]
      /\ Append(completions[w], x)[Len(completions[w]) + 1] = x
  BY <1>1, AppendProperties
<1> QED
  BY <1>2, <1>3, <1>4, <1>5, <1>6 DEF warp_point

(* Nothing of a warp is left when it may retire.                           *)
LEMMA NothingLeft ==
    ASSUME FetchInv, NEW v \in Warps, v \notin warp_vec \/ Done(v)
    PROVE  /\ Len(completions[v]) = Len(Program[v])
           /\ OfWarp(Outstanding, v) = {}
           /\ \A k \in Subcores : units[k].warp # v
<1>1. TypeOK /\ Progress /\ FetchCounts /\ UnitCounts /\ IsFiniteSet(Outstanding)
  BY DEF FetchInv, FetchParts
<1>2. CASE v \notin warp_vec
  BY <1>1, <1>2 DEF Progress
<1>3. CASE Done(v)
  <2>1. Len(completions[v]) = Len(Program[v])
    <3>1. completions[v] \in Seq(Nat)
      BY <1>1 DEF TypeOK
    <3>2. Len(completions[v]) \in Nat /\ Len(Program[v]) \in Nat
      BY <3>1, LoadStoreAssumption
    <3>3. Len(completions[v]) <= Len(Program[v])
      BY <1>1 DEF Progress
    <3>4. Len(completions[v]) + 1 > Len(Program[v])
      BY <1>3 DEF Done, warp_point
    <3> QED
      BY <3>2, <3>3, <3>4
  <2>2. OfWarp(Outstanding, v) = {}
    <3>1. Cardinality(OfWarp(Outstanding, v)) = 0
      BY <1>1, <1>3 DEF FetchCounts, Done
    <3>2. IsFiniteSet(OfWarp(Outstanding, v))
      BY <1>1, PartsFinite
    <3> QED
      BY <3>1, <3>2, FS_EmptySet
  <2>3. {k \in Subcores : units[k].warp = v} = {}
    <3> DEFINE held == {k \in Subcores : units[k].warp = v}
    <3>1. Cardinality(held) = 0
      BY <1>1, <1>3 DEF UnitCounts, Done
    <3>2. held \in SUBSET Subcores
      OBVIOUS
    <3> HIDE DEF held
    <3>3. IsFiniteSet(held)
      BY <3>2, LoadStoreAssumption, FS_Subset
    <3>4. held = {}
      BY <3>1, <3>3, FS_EmptySet
    <3> QED
      BY <3>4 DEF held
  <2> QED
    BY <2>1, <2>2, <2>3
<1> QED
  BY <1>2, <1>3

(* The fetches of S are for sectors of instruction n of w.                 *)
MadeFor(S, w, n) ==
    \A f \in S : /\ f.warp = w /\ f.index = n
                 /\ \E i \in 1 .. Len(Program[w][n].sectors) : f.sector = Program[w][n].sectors[i]

(* Some warps of the block retire and, after them, w issues: the completion*)
(* x is added, and either a unit in K holds the instruction or the fetches *)
(* in new are made, or neither.                                            *)
LEMMA IssueStep ==
    ASSUME FetchInv, TypeOK', Located',
           NEW w \in warp_vec, warp_point(w) \in Indices(w), BlockOf[w] \in block_vec,
           NEW R \in SUBSET (warp_vec \ {w}), \A v \in R : Done(v), warp_vec' = warp_vec \ R,
           NEW x \in Nat, x <= INT_MAX, completions' = [completions EXCEPT ![w] = Append(@, x)],
           NEW K \in SUBSET Subcores, \A j, k \in K : j = k, \A k \in K : units[k] = Idle,
           \A j \in Subcores : units'[j] = IF j \in K
                                           THEN [warp |-> w, index |-> warp_point(w), point |-> 1]
                                           ELSE units[j],
           NEW new, MadeFor(new, w, warp_point(w)), Outstanding' = Outstanding \union new,
           K = {} \/ new = {},
           K # {} => Program[w][warp_point(w)].kind \in {"LD", "ST"},
           x = INT_MAX => K # {} \/ new # {},
           x # INT_MAX /\ Program[w][warp_point(w)].kind = "ATOM" => new = {},
           FetchCounts', UnitCounts', IsFiniteSet(Outstanding'),
           block_pointer' = block_pointer, phase' # "exit"
    PROVE  FetchParts'
<1> DEFINE ip == warp_point(w)
<1>1. TypeOK /\ Residency /\ AllIssued /\ UnitsHold /\ Progress /\ Waits
  BY DEF FetchInv, FetchParts
<1>2. w \in Warps /\ w # 0 /\ R \subseteq Warps /\ warp_vec \subseteq Warps
  BY <1>1, LoadStoreAssumption DEF TypeOK
<1>3. /\ \A v \in Warps : Len(completions[v]) \in Nat /\ Len(Program[v]) \in Nat
      /\ \A v \in Warps : v # w => completions'[v] = completions[v]
      /\ Len(completions'[w]) = Len(completions[w]) + 1
      /\ ip = Len(completions[w]) + 1
      /\ \A i \in 1 .. Len(completions[w]) : completions'[w][i] = completions[w][i]
      /\ completions'[w][ip] = x
  BY <1>1, <1>2, OneMoreCompletion
<1>4. ip \in Indices(w) /\ ip \in Nat
  BY DEF Indices
<1>5. ASSUME NEW k \in Subcores, units[k].warp = w, units[k].index = ip PROVE FALSE
  <2>1. units[k] # Idle
    BY <1>2, <1>5 DEF Idle
  <2>2. units[k].index <= Len(completions[w])
    BY <1>1, <1>5, <2>1 DEF UnitsHold
  <2> HIDE DEF ip
  <2> QED
    BY <1>2, <1>3, <1>5, <2>2
<1>6. \A k \in K : units'[k].warp = w /\ units'[k].index = ip /\ units'[k].point = 1
  OBVIOUS
<1>7. \A k \in Subcores : k \notin K => units'[k] = units[k]
  OBVIOUS
<1>8. \A f \in new : /\ f.warp = w /\ f.index = ip
                     /\ \E i \in 1 .. Len(Program[w][ip].sectors) : f.sector = Program[w][ip].sectors[i]
  BY DEF MadeFor
<1>9. /\ K # {} => Program[w][ip].kind \in {"LD", "ST"}
      /\ x # INT_MAX /\ Program[w][ip].kind = "ATOM" => new = {}
  OBVIOUS
<1> HIDE DEF ip
<1>10. AllIssued'
  <2>1. ASSUME NEW f \in Outstanding PROVE Issued(f)'
    <3>1. f.warp \in Warps /\ Issued(f)
      BY <1>1, OutstandingTypes DEF AllIssued
    <3>2. PICK i \in 1 .. Len(Program[f.warp][f.index].sectors) :
            /\ f.sector = Program[f.warp][f.index].sectors[i]
            /\ \A k \in Subcores :
                  units[k].warp = f.warp /\ units[k].index = f.index => i < units[k].point
      BY <3>1 DEF Issued
    <3>3. f.index \in 1 .. Len(completions[f.warp])
      BY <3>1 DEF Issued
    <3>4. f.index \in 1 .. Len(completions'[f.warp])
      BY <1>2, <1>3, <3>1, <3>3
    <3>5. ~(f.warp = w /\ f.index = ip)
      BY <1>2, <1>3, <3>3
    <3>6. ASSUME NEW k \in Subcores, units'[k].warp = f.warp, units'[k].index = f.index
          PROVE  i < units'[k].point
      BY <1>6, <1>7, <3>2, <3>5, <3>6
    <3> QED
      BY <3>1, <3>2, <3>4, <3>6 DEF Issued
  <2>2. ASSUME NEW f \in new PROVE Issued(f)'
    <3>1. K = {} /\ f.warp = w /\ f.index = ip
      BY <1>8
    <3>2. PICK i \in 1 .. Len(Program[w][ip].sectors) : f.sector = Program[w][ip].sectors[i]
      BY <1>8
    <3>3. ip \in 1 .. Len(completions'[w])
      BY <1>2, <1>3
    <3>4. \A k \in Subcores : ~(units'[k].warp = w /\ units'[k].index = ip)
      BY <1>5, <1>7, <3>1
    <3> QED
      BY <1>4, <3>1, <3>2, <3>3, <3>4 DEF Issued
  <2> QED
    BY <2>1, <2>2 DEF AllIssued
<1>11. UnitsHold'
  <2>1. ASSUME NEW k \in Subcores, units'[k] # Idle
        PROVE  /\ units'[k].index <= Len(completions'[units'[k].warp])
               /\ Program[units'[k].warp][units'[k].index].kind \in {"LD", "ST"}
    <3>1. CASE k \in K
      BY <1>2, <1>3, <1>6, <1>9, <3>1
    <3>2. CASE k \notin K
      <4>1. units'[k] = units[k] /\ units[k] # Idle
        BY <1>7, <2>1, <3>2
      <4>2. units[k].warp \in Warps /\ units[k].index \in Nat
        BY <1>1, <4>1 DEF TypeOK, Busy
      <4>3. /\ units[k].index <= Len(completions[units[k].warp])
            /\ Program[units[k].warp][units[k].index].kind \in {"LD", "ST"}
        BY <1>1, <4>1 DEF UnitsHold
      <4>4. Len(completions[units[k].warp]) <= Len(completions'[units[k].warp])
            /\ Len(completions[units[k].warp]) \in Nat /\ Len(completions'[units[k].warp]) \in Nat
        BY <1>2, <1>3, <4>2
      <4> QED
        BY <4>1, <4>2, <4>3, <4>4
    <3> QED
      BY <3>1, <3>2
  <2>2. ASSUME NEW j \in Subcores, NEW k \in Subcores, j # k, units'[j] # Idle
        PROVE  units'[j].warp # units'[k].warp \/ units'[j].index # units'[k].index
    <3>1. CASE j \in K
      <4>1. k \notin K
        BY <2>2, <3>1
      <4> QED
        BY <1>5, <1>6, <1>7, <3>1, <4>1
    <3>2. CASE j \notin K /\ k \in K
      BY <1>5, <1>6, <1>7, <3>2
    <3>3. CASE j \notin K /\ k \notin K
      BY <1>1, <1>7, <2>2, <3>3 DEF UnitsHold
    <3> QED
      BY <3>1, <3>2, <3>3
  <2> QED
    BY <2>1, <2>2 DEF UnitsHold, Idle
<1>12. Progress'
  <2>1. ASSUME NEW v \in Warps PROVE Len(completions'[v]) <= Len(Program[v])
    <3>1. CASE v = w
      BY <1>2, <1>3, <1>4, <3>1 DEF Indices
    <3>2. CASE v # w
      BY <1>1, <1>3, <3>2 DEF Progress
    <3> QED
      BY <3>1, <3>2
  <2>2. ASSUME NEW v \in Warps, BlockOf[v] > block_pointer PROVE completions'[v] = << >>
    <3>1. v # w
      <4>1. BlockOf[w] \in 1 .. block_pointer /\ block_pointer \in Int
        BY <1>1 DEF Residency, TypeOK
      <4> QED
        BY <2>2, <4>1
    <3> QED
      BY <1>1, <1>3, <2>2, <3>1 DEF Progress
  <2>3. ASSUME NEW v \in Warps, v \notin warp_vec'
        PROVE  /\ Len(completions'[v]) = Len(Program[v])
               /\ OfWarp(Outstanding', v) = {}
               /\ \A k \in Subcores : units'[k].warp # v
    <3>1. v # w /\ (v \notin warp_vec \/ Done(v))
      BY <2>3
    <3>2. /\ Len(completions[v]) = Len(Program[v])
          /\ OfWarp(Outstanding, v) = {}
          /\ \A k \in Subcores : units[k].warp # v
      BY <3>1, NothingLeft
    <3>3. OfWarp(new, v) = {}
      BY <1>8, <3>1 DEF OfWarp
    <3>4. OfWarp(Outstanding', v) = OfWarp(Outstanding, v) \union OfWarp(new, v)
      BY DEF OfWarp
    <3>5. \A k \in Subcores : units'[k].warp # v
      BY <1>6, <1>7, <3>1, <3>2
    <3> QED
      BY <1>3, <3>1, <3>2, <3>3, <3>4, <3>5
  <2> QED
    BY <2>1, <2>2, <2>3 DEF Progress
<1>13. Waits'
  <2>1. ASSUME NEW v \in Warps, NEW i \in 1 .. Len(completions[v])
        PROVE  /\ completions'[v][i] <= INT_MAX
               /\ completions'[v][i] = INT_MAX
                    => InUnit(v, i)' \/ OfInst(Outstanding', v, i) # {}
               /\ completions'[v][i] # INT_MAX /\ Program[v][i].kind = "ATOM"
                    => OfInst(Outstanding', v, i) = {}
    <3>1. completions'[v][i] = completions[v][i]
      BY <1>2, <1>3
    <3>2. InUnit(v, i) => InUnit(v, i)'
      <4>1. ASSUME NEW k \in Subcores, units[k].warp = v, units[k].index = i PROVE k \notin K
        <5>1. v # 0
          BY LoadStoreAssumption
        <5> QED
          BY <4>1, <5>1 DEF Idle
      <4> QED
        BY <1>7, <4>1 DEF InUnit
    <3>3. ~(v = w /\ i = ip)
      BY <1>2, <1>3
    <3>4. OfInst(Outstanding', v, i) = OfInst(Outstanding, v, i)
      BY <1>8, <3>3 DEF OfInst
    <3> QED
      BY <1>1, <3>1, <3>2, <3>4 DEF Waits
  <2>2. /\ completions'[w][ip] <= INT_MAX
        /\ completions'[w][ip] = INT_MAX => (\E k \in Subcores : units'[k].warp = w /\ units'[k].index = ip)
                                             \/ OfInst(Outstanding', w, ip) # {}
        /\ completions'[w][ip] # INT_MAX /\ Program[w][ip].kind = "ATOM"
             => OfInst(Outstanding', w, ip) = {}
    <3>1. K # {} => \E k \in Subcores : units'[k].warp = w /\ units'[k].index = ip
      BY <1>6
    <3>2. new \subseteq OfInst(Outstanding', w, ip)
      BY <1>8 DEF OfInst
    <3>3. OfInst(Outstanding', w, ip) \subseteq new
      <4>1. ASSUME NEW f \in Outstanding, f.warp = w, f.index = ip PROVE FALSE
        <5>1. f.index \in 1 .. Len(completions[w])
          BY <1>1, <4>1, OutstandingTypes
        <5> QED
          BY <1>2, <1>3, <4>1, <5>1
      <4> QED
        BY <4>1 DEF OfInst
    <3> QED
      BY <1>3, <1>9, <3>1, <3>2, <3>3
  <2>3. ASSUME NEW v \in Warps, NEW i \in 1 .. Len(completions'[v])
        PROVE  i \in 1 .. Len(completions[v]) \/ (v = w /\ i = ip)
    BY <1>2, <1>3
  <2>4. ASSUME NEW v \in Warps, NEW i \in 1 .. Len(completions'[v])
        PROVE  /\ completions'[v][i] <= INT_MAX
               /\ completions'[v][i] = INT_MAX
                    => InUnit(v, i)' \/ OfInst(Outstanding', v, i) # {}
               /\ completions'[v][i] # INT_MAX /\ Program[v][i].kind = "ATOM"
                    => OfInst(Outstanding', v, i) = {}
    <3>1. CASE i \in 1 .. Len(completions[v])
      BY <2>1, <3>1
    <3>2. CASE v = w /\ i = ip
      BY <2>2, <3>2 DEF InUnit
    <3> QED
      BY <2>3, <3>1, <3>2
  <2> QED
    BY <2>4 DEF Waits
<1> QED
  BY <1>10, <1>11, <1>12, <1>13 DEF FetchParts, NeverExits

(* Warps of the block retire and none issues.                              *)
LEMMA RetireStep ==
    ASSUME FetchInv, TypeOK', Located', Outstanding' = Outstanding,
           NEW R \in SUBSET warp_vec, \A v \in R : Done(v), warp_vec' = warp_vec \ R,
           UNCHANGED <<warp_vars, units, block_pointer>>, phase' # "exit"
    PROVE  FetchParts'
<1>1. UNCHANGED <<completions, pending_request, m_pending_mem_request_num, pending_inst>>
  BY DEF warp_vars
<1>2. AllIssued' /\ UnitsHold' /\ Waits'
  BY <1>1 DEF FetchInv, FetchParts, AllIssued, Issued, UnitsHold, Waits, Idle, InUnit
<1>3. Progress'
  <2>1. \A v \in Warps : v \notin warp_vec' => v \notin warp_vec \/ Done(v)
    OBVIOUS
  <2>2. ASSUME NEW v \in Warps, v \notin warp_vec'
        PROVE  /\ Len(completions[v]) = Len(Program[v])
               /\ OfWarp(Outstanding, v) = {}
               /\ \A k \in Subcores : units[k].warp # v
    BY <2>1, <2>2, NothingLeft
  <2> QED
    BY <1>1, <2>2 DEF FetchInv, FetchParts, Progress
<1>4. FetchCounts' /\ UnitCounts' /\ IsFiniteSet(Outstanding')
  BY <1>1 DEF FetchInv, FetchParts, FetchCounts, UnitCounts
<1> QED
  BY <1>2, <1>3, <1>4 DEF FetchParts, NeverExits

(* The four ways an instruction issues.                                    *)
LEMMA TimedStep ==
    ASSUME FetchInv, TypeOK', NEW w \in warp_vec, warp_point(w) \in Indices(w),
           BlockOf[w] \in block_vec,
           NEW R \in SUBSET (warp_vec \ {w}), \A v \in R : Done(v), warp_vec' = warp_vec \ R,
           NEW x \in Nat, x < INT_MAX, IssueTimed(w, x),
           UNCHANGED <<block_pointer, l1_vars, below>>, phase' # "exit"
    PROVE  FetchParts'
<1>1. TypeOK /\ Located /\ FetchCounts /\ UnitCounts /\ IsFiniteSet(Outstanding)
  BY DEF FetchInv, FetchParts
<1>2. /\ completions' = [completions EXCEPT ![w] = Append(@, x)]
      /\ UNCHANGED <<units, pending_inst, pending_request, m_pending_mem_request_num, m_sm_to_l1>>
  BY DEF IssueTimed
<1>3. Located' /\ Outstanding' = Outstanding
  <2>1. UNCHANGED <<l1_to_sm, m_mshrs, m_miss_queue, below>>
    BY DEF l1_vars
  <2> QED
    BY <1>1, <1>2, <2>1, SamePlaces DEF Down
<1>4. FetchCounts' /\ UnitCounts' /\ IsFiniteSet(Outstanding')
  BY <1>1, <1>2, <1>3 DEF FetchCounts, UnitCounts
<1>5. x <= INT_MAX /\ x # INT_MAX
  BY SMT DEF INT_MAX
<1> DEFINE K == {}
           new == {}
<1>6. /\ K \in SUBSET Subcores /\ (\A j, k \in K : j = k) /\ (\A k \in K : units[k] = Idle)
      /\ \A j \in Subcores : units'[j] = IF j \in K
                                         THEN [warp |-> w, index |-> warp_point(w), point |-> 1]
                                         ELSE units[j]
  BY <1>2
<1>7. /\ MadeFor(new, w, warp_point(w))
      /\ Outstanding' = Outstanding \union new
      /\ K = {} /\ new = {}
  BY <1>3 DEF MadeFor
<1>8. block_pointer' = block_pointer
  OBVIOUS
<1> HIDE DEF K, new
<1> QED
  BY <1>2, <1>3, <1>4, <1>5, <1>6, <1>7, <1>8, IssueStep

LEMMA ToUnitStep ==
    ASSUME FetchInv, TypeOK', NEW w \in warp_vec, warp_point(w) \in Indices(w),
           BlockOf[w] \in block_vec,
           NEW R \in SUBSET (warp_vec \ {w}), \A v \in R : Done(v), warp_vec' = warp_vec \ R,
           NEW k \in Subcores, units[k] = Idle, IssueToUnit(w, k),
           Program[w][warp_point(w)].kind \in {"LD", "ST"},
           UNCHANGED <<block_pointer, l1_vars, below>>, phase' # "exit"
    PROVE  FetchParts'
<1>1. TypeOK /\ Located /\ FetchCounts /\ UnitCounts /\ IsFiniteSet(Outstanding)
  BY DEF FetchInv, FetchParts
<1>2. /\ completions' = [completions EXCEPT ![w] = Append(@, INT_MAX)]
      /\ units' = [units EXCEPT ![k] = [warp |-> w, index |-> warp_point(w), point |-> 1]]
      /\ UNCHANGED <<pending_request, m_pending_mem_request_num, m_sm_to_l1>>
  BY DEF IssueToUnit
<1>3. Located' /\ Outstanding' = Outstanding
  <2>1. UNCHANGED <<l1_to_sm, m_mshrs, m_miss_queue, below>>
    BY DEF l1_vars
  <2> QED
    BY <1>1, <1>2, <2>1, SamePlaces DEF Down
<1>4. FetchCounts' /\ IsFiniteSet(Outstanding')
  BY <1>1, <1>2, <1>3 DEF FetchCounts
<1>5. UnitCounts'
  <2>1. w \in Warps
    BY <1>1 DEF TypeOK
  <2> QED
    BY <1>1, <2>1, IssueUnits
<1>6. INT_MAX \in Nat /\ INT_MAX <= INT_MAX
  BY SMT DEF INT_MAX
<1> DEFINE K == {k}
           new == {}
<1>7. /\ K \in SUBSET Subcores /\ (\A i, j \in K : i = j) /\ (\A j \in K : units[j] = Idle)
      /\ \A j \in Subcores : units'[j] = IF j \in K
                                         THEN [warp |-> w, index |-> warp_point(w), point |-> 1]
                                         ELSE units[j]
  <2>1. units \in [Subcores -> [warp : Nat, index : Nat, point : Nat]]
    BY <1>1 DEF TypeOK
  <2> QED
    BY <1>2, <2>1
<1>8. /\ MadeFor(new, w, warp_point(w))
      /\ Outstanding' = Outstanding \union new
      /\ K # {} /\ new = {}
  BY <1>3 DEF MadeFor
<1>9. /\ block_pointer' = block_pointer
      /\ K = {} \/ new = {}
      /\ K # {} => Program[w][warp_point(w)].kind \in {"LD", "ST"}
  BY <1>8
<1> DEFINE x == INT_MAX
<1>10. /\ Located' /\ FetchCounts' /\ UnitCounts' /\ IsFiniteSet(Outstanding')
       /\ completions' = [completions EXCEPT ![w] = Append(@, x)]
       /\ x \in Nat /\ x <= INT_MAX /\ (x = INT_MAX => K # {} \/ new # {})
       /\ x # INT_MAX /\ Program[w][warp_point(w)].kind = "ATOM" => new = {}
  BY <1>2, <1>3, <1>4, <1>5, <1>6, <1>8
<1> HIDE DEF K, new, x
<1> QED
  BY <1>7, <1>8, <1>9, <1>10, IssueStep

LEMMA AtomicStep ==
    ASSUME FetchInv, TypeOK', NEW w \in warp_vec, warp_point(w) \in Indices(w),
           BlockOf[w] \in block_vec,
           NEW R \in SUBSET (warp_vec \ {w}), \A v \in R : Done(v), warp_vec' = warp_vec \ R,
           IssueAtomic(w), Program[w][warp_point(w)].kind = "ATOM",
           UNCHANGED <<block_pointer, l1_vars, below>>, phase' # "exit"
    PROVE  FetchParts'
<1>1. /\ TypeOK /\ Located /\ AllIssued /\ FetchCounts /\ UnitCounts /\ IsFiniteSet(Outstanding)
      /\ w \in Warps
  BY DEF FetchInv, FetchParts, TypeOK
<1>2. /\ completions' = [completions EXCEPT ![w] = Append(@, INT_MAX)]
      /\ UNCHANGED <<units, pending_inst>>
  BY DEF IssueAtomic
<1>3. /\ Located' /\ AtomicFetches(w) \intersect Outstanding = {}
      /\ Outstanding' = Outstanding \union AtomicFetches(w)
  BY <1>1, AtomicPlaces
<1>4. FetchCounts' /\ IsFiniteSet(Outstanding')
  BY <1>1, <1>3, AtomicCounts
<1>5. UnitCounts'
  BY <1>1, <1>2 DEF UnitCounts
<1>6. INT_MAX \in Nat /\ INT_MAX <= INT_MAX
  BY SMT DEF INT_MAX
<1> DEFINE K == {}
           new == AtomicFetches(w)
<1>7. /\ K \in SUBSET Subcores /\ (\A i, j \in K : i = j) /\ (\A j \in K : units[j] = Idle)
      /\ \A j \in Subcores : units'[j] = IF j \in K
                                         THEN [warp |-> w, index |-> warp_point(w), point |-> 1]
                                         ELSE units[j]
  BY <1>2
<1>8. /\ MadeFor(new, w, warp_point(w))
      /\ Outstanding' = Outstanding \union new
      /\ K = {}
  <2>1. \A x, y : /\ Fetch(w, y, x, TRUE).warp = w /\ Fetch(w, y, x, TRUE).index = y
                  /\ Fetch(w, y, x, TRUE).sector = x
    BY DEF Fetch
  <2>2. ASSUME NEW f \in new
        PROVE  /\ f.warp = w /\ f.index = warp_point(w)
               /\ \E i \in 1 .. Len(Program[w][warp_point(w)].sectors) :
                     f.sector = Program[w][warp_point(w)].sectors[i]
    <3>1. PICK i \in 1 .. Len(Program[w][warp_point(w)].sectors) :
            f = Fetch(w, warp_point(w), Program[w][warp_point(w)].sectors[i], TRUE)
      BY DEF AtomicFetches, FetchesOn
    <3> QED
      BY <2>1, <3>1
  <2> QED
    BY <1>3, <2>2 DEF MadeFor
<1>9. new # {}
  <2> DEFINE sectors == Program[w][warp_point(w)].sectors
  <2>1. sectors # << >>
    <3>1. \A n \in Indices(w) : Program[w][n].kind = "ATOM" => Program[w][n].sectors # << >>
      BY <1>1, LoadStoreAssumption DEF Indices
    <3> QED
      BY <3>1
  <2>2. sectors \in Seq(Sectors)
    BY <1>1, SectorsOf
  <2> HIDE DEF sectors
  <2>3. 1 \in 1 .. Len(sectors)
    BY <2>1, <2>2, EmptySeq
  <2>4. Fetch(w, warp_point(w), sectors[1], TRUE) \in AtomicFetches(w)
    BY <2>3 DEF AtomicFetches, FetchesOn, sectors
  <2> QED
    BY <2>4
<1>10. /\ block_pointer' = block_pointer
       /\ K = {} \/ new = {}
       /\ K # {} => Program[w][warp_point(w)].kind \in {"LD", "ST"}
  BY <1>8, <1>9
<1> DEFINE x == INT_MAX
<1>11. /\ Located' /\ FetchCounts' /\ UnitCounts' /\ IsFiniteSet(Outstanding')
       /\ completions' = [completions EXCEPT ![w] = Append(@, x)]
       /\ x \in Nat /\ x <= INT_MAX /\ (x = INT_MAX => K # {} \/ new # {})
       /\ x # INT_MAX /\ Program[w][warp_point(w)].kind = "ATOM" => new = {}
  BY <1>2, <1>3, <1>4, <1>5, <1>6, <1>9
<1> HIDE DEF K, new, x
<1> QED
  BY <1>7, <1>8, <1>10, <1>11, IssueStep

LEMMA NextBlockGoesOn ==
    ASSUME NEW free, NextBlock(free), phase = "sched"
    PROVE  phase' # "exit"
  BY DEF NextBlock

LEMMA ScheduleStep == ASSUME FetchInv, TypeOK', Schedule PROVE FetchParts'
<1> DEFINE mine == {w \in warp_vec : cursor \in block_vec /\ BlockOf[w] = cursor}
           issuable == {w \in mine : Issuable(w)}
<1>1. TypeOK /\ Located
  BY DEF FetchInv, FetchParts
<1>2. UNCHANGED <<block_pointer, l1_vars, below>> /\ phase = "sched"
  BY DEF Schedule
<1>3. CASE issuable = {}
  <2> DEFINE R == {v \in mine : Done(v)}
  <2>1. /\ warp_vec' = warp_vec \ R /\ NextBlock(active)
        /\ UNCHANGED <<completions, units, pending_inst, pending_request,
                       m_pending_mem_request_num, m_sm_to_l1>>
    BY <1>3 DEF Schedule
  <2>2. Located' /\ Outstanding' = Outstanding
    <3>1. UNCHANGED <<l1_to_sm, m_mshrs, m_miss_queue, below>>
      BY <1>2 DEF l1_vars
    <3> QED
      BY <1>1, <2>1, <3>1, SamePlaces DEF Down
  <2>3. R \in SUBSET warp_vec /\ \A v \in R : Done(v)
    OBVIOUS
  <2>4. phase' # "exit"
    BY <1>2, <2>1, NextBlockGoesOn
  <2>5. UNCHANGED <<warp_vars, units, block_pointer>>
    BY <1>2, <2>1 DEF warp_vars
  <2> HIDE DEF R
  <2> QED
    BY <2>1, <2>2, <2>3, <2>4, <2>5, RetireStep
<1>4. CASE issuable # {}
  <2> DEFINE w == Min(issuable)
             k == Min(Takers(w))
             R == {v \in {u \in mine : u < w} : Done(v)}
  <2>1. issuable \subseteq warp_vec /\ issuable \subseteq Nat /\ warp_vec \subseteq Warps
    BY <1>1, LoadStoreAssumption DEF TypeOK
  <2>2. w \in issuable
    <3> HIDE DEF issuable
    <3> QED
      BY <1>4, <2>1, MinOfNats
  <2>3. w \in warp_vec /\ w \in Warps /\ w \in Nat /\ BlockOf[w] \in block_vec /\ Ready(w) /\ Takers(w) # {}
    <3> HIDE DEF w
    <3> QED
      BY <2>1, <2>2 DEF Issuable
  <2>4. Takers(w) \subseteq Subcores /\ Takers(w) \subseteq Nat
    BY <1>1, LoadStoreAssumption DEF Takers, TypeOK
  <2>5. k \in Takers(w)
    <3> HIDE DEF w
    <3> QED
      BY <2>3, <2>4, MinOfNats
  <2>6. /\ warp_vec' = warp_vec \ R /\ Issue(w, k) /\ NextBlock(active \ {k})
    BY <1>4 DEF Schedule
  <2>7. R \in SUBSET (warp_vec \ {w}) /\ \A v \in R : Done(v)
    <3>1. ~(w < w)
      BY <2>3
    <3> HIDE DEF w
    <3> QED
      BY <3>1
  <2>8. phase' # "exit"
    BY <1>2, <2>6, NextBlockGoesOn
  <2>9. /\ k \in Subcores
        /\ Program[w][warp_point(w)].kind # "ALU" => units[k] = Idle
    <3> HIDE DEF w, k
    <3> QED
      BY <2>4, <2>5 DEF Takers
  <2>10. warp_point(w) \in Indices(w)
    BY <2>3 DEF Ready
  <2> HIDE DEF w, k, R
  <2>11. Program[w][warp_point(w)].kind \in {"ALU", "LD", "ST", "ATOM"}
    <3>1. \A n \in Indices(w) : Program[w][n].kind \in {"ALU", "LD", "ST", "ATOM"}
      BY <2>3, LoadStoreAssumption DEF Indices
    <3> QED
      BY <2>10, <3>1
  <2>12. CASE Program[w][warp_point(w)].kind = "ALU"
    <3>1. IssueTimed(w, alu_latency)
      BY <2>6, <2>12 DEF Issue
    <3>2. alu_latency \in Nat /\ alu_latency < INT_MAX
      BY LoadStoreAssumption
    <3> QED
      BY <1>2, <2>3, <2>6, <2>7, <2>8, <2>10, <3>1, <3>2, TimedStep
  <2>13. CASE Program[w][warp_point(w)].kind = "ATOM"
    <3>1. IssueAtomic(w)
      BY <2>6, <2>13 DEF Issue
    <3> QED
      BY <1>2, <2>3, <2>6, <2>7, <2>8, <2>10, <2>13, <3>1, AtomicStep
  <2>14. CASE /\ Program[w][warp_point(w)].kind \in {"LD", "ST"}
              /\ Program[w][warp_point(w)].sectors = << >>
    <3>1. IssueTimed(w, 1)
      BY <2>6, <2>14 DEF Issue
    <3>2. 1 \in Nat /\ 1 < INT_MAX
      BY SMT DEF INT_MAX
    <3> QED
      BY <1>2, <2>3, <2>6, <2>7, <2>8, <2>10, <3>1, <3>2, TimedStep
  <2>15. CASE /\ Program[w][warp_point(w)].kind \in {"LD", "ST"}
              /\ Program[w][warp_point(w)].sectors # << >>
    <3>1. IssueToUnit(w, k) /\ units[k] = Idle
      BY <2>6, <2>9, <2>15 DEF Issue
    <3> QED
      BY <1>2, <2>3, <2>6, <2>7, <2>8, <2>9, <2>10, <2>15, <3>1, ToUnitStep
  <2> QED
    BY <2>11, <2>12, <2>13, <2>14, <2>15
<1> QED
  BY <1>3, <1>4

----
(* The steps that answer nothing and issue nothing.                        *)
LEMMA NextBankGoesOn ==
    ASSUME NextBank, phase = "l1"
    PROVE  phase' # "exit"
  BY DEF NextBank

LEMMA BankStep == ASSUME FetchInv, TypeOK', CacheAccess \/ NoAccess PROVE FetchParts'
<1>1. TypeOK /\ Located /\ block_pointer \in Int
  BY DEF FetchInv, FetchParts, TypeOK
<1>2. /\ UNCHANGED <<kernel_vars, warp_vars, units>>
      /\ phase = "l1" /\ NextBank
  BY DEF CacheAccess, NoAccess
<1>3. Located' /\ Outstanding' = Outstanding
  <2>1. CASE CacheAccess
    <3>1. \/ HitAccess(Head(m_sm_to_l1[cursor]))
          \/ WriteMiss(Head(m_sm_to_l1[cursor]))
          \/ LoadMiss(Head(m_sm_to_l1[cursor]))
      BY <2>1 DEF CacheAccess
    <3> QED
      BY <1>1, <2>1, <3>1, HitPlaces, WriteMissPlaces, LoadMissPlaces
  <2>2. CASE NoAccess
    <3>1. UNCHANGED <<m_sm_to_l1, l1_to_sm, m_mshrs, m_miss_queue, below>>
      BY <2>2 DEF NoAccess, l1_vars
    <3> QED
      BY <1>1, <3>1, SamePlaces DEF Down
  <2> QED
    BY <2>1, <2>2
<1>4. UNCHANGED <<warp_vars, units, warp_vec>> /\ block_pointer' >= block_pointer
  BY <1>1, <1>2 DEF kernel_vars
<1>5. phase' # "exit"
  BY <1>2, NextBankGoesOn
<1> QED
  BY <1>3, <1>4, <1>5, QuietStep

LEMMA RefillStep == ASSUME FetchInv, TypeOK', Refill PROVE FetchParts'
<1>1. TypeOK /\ Residency /\ Located
  BY DEF FetchInv, FetchParts
<1>2. block_pointer' >= block_pointer
  <2>1. block_pointer' \in block_pointer .. NumBlocks
    BY <1>1, RefillBlocks DEF Refill
  <2> QED
    BY <2>1
<1>3. UNCHANGED <<m_sm_to_l1, l1_to_sm, m_mshrs, m_miss_queue, below>>
  BY DEF Refill, l1_vars
<1>4. Located' /\ Outstanding' = Outstanding
  BY <1>1, <1>3, SamePlaces DEF Down
<1>5. UNCHANGED <<warp_vars, units, warp_vec>> /\ phase' # "exit"
  BY DEF Refill
<1> QED
  BY <1>2, <1>4, <1>5, QuietStep

LEMMA MoveStep ==
    ASSUME FetchInv, TypeOK',
           \/ WriteBackEnd \/ NoReply \/ MissQueueSend \/ MissQueueHold \/ DelInactiveBlock
           \/ \E f \in below : L2Absorb(f)
    PROVE  FetchParts'
<1>1. TypeOK /\ Located /\ block_pointer \in Int
  BY DEF FetchInv, FetchParts, TypeOK
<1>2. Located' /\ Outstanding' = Outstanding
  <2>1. CASE WriteBackEnd \/ NoReply \/ MissQueueHold \/ DelInactiveBlock
    <3>1. UNCHANGED <<m_sm_to_l1, l1_to_sm, m_mshrs, m_miss_queue, below>>
      BY <2>1 DEF WriteBackEnd, NoReply, MissQueueHold, DelInactiveBlock, l1_vars
    <3> QED
      BY <1>1, <3>1, SamePlaces DEF Down
  <2>2. CASE MissQueueSend
    BY <1>1, <2>2, SendPlaces
  <2>3. CASE \E f \in below : L2Absorb(f)
    BY <1>1, <2>3, AbsorbPlaces
  <2> QED
    BY <2>1, <2>2, <2>3
<1>3. UNCHANGED <<warp_vars, units, warp_vec, block_pointer>>
  BY DEF WriteBackEnd, NoReply, MissQueueSend, MissQueueHold, DelInactiveBlock, L2Absorb, kernel_vars
<1>4. phase' # "exit"
  BY DEF WriteBackEnd, NoReply, MissQueueSend, MissQueueHold, DelInactiveBlock, L2Absorb, cycle_vars
<1>5. block_pointer' >= block_pointer
  BY <1>1, <1>3
<1> QED
  BY <1>2, <1>3, <1>4, <1>5, QuietStep

LEMMA StutterStep == ASSUME FetchInv, TypeOK', UNCHANGED vars PROVE FetchParts'
<1>1. TypeOK /\ Located /\ NeverExits /\ block_pointer \in Int
  BY DEF FetchInv, FetchParts, TypeOK
<1>2. /\ UNCHANGED <<m_sm_to_l1, l1_to_sm, m_mshrs, m_miss_queue, below>>
      /\ UNCHANGED <<warp_vars, units, warp_vec, block_pointer, phase>>
  BY DEF vars, cycle_vars, kernel_vars, l1_vars
<1>3. Located' /\ Outstanding' = Outstanding
  BY <1>1, <1>2, SamePlaces DEF Down
<1>4. block_pointer' >= block_pointer /\ phase' # "exit"
  BY <1>1, <1>2 DEF NeverExits
<1> QED
  BY <1>2, <1>3, <1>4, QuietStep

----
(* The invariant holds at the start: there are no fetches yet.             *)
LEMMA InitFetch == Init => FetchParts
<1> SUFFICES ASSUME Init PROVE FetchParts
  OBVIOUS
<1>1. /\ \A bk \in Banks : m_sm_to_l1[bk] = << >>
      /\ l1_to_sm = << >> /\ m_miss_queue = << >> /\ below = {}
      /\ \A s \in Sectors : m_mshrs[s] = << >>
  BY DEF Init
<1>2. Range(<< >>) = {} /\ Len(<< >>) = 0
  BY DEF Range
<1>3. Queued = {} /\ Hits = {} /\ Merged = {} /\ Sent = {} /\ Down = {}
  BY <1>1, <1>2 DEF Queued, Hits, Merged, Sent, Down
<1>4. Outstanding = {}
  BY <1>3, OutstandingPlaces
<1>5. Once(<< >>)
  BY <1>2 DEF Once
<1>6. FetchesOf(<< >>) = << >>
  BY <1>2 DEF FetchesOf
<1>7. OnceEach
  BY <1>1, <1>3, <1>5, <1>6 DEF OnceEach
<1>8. Placed
  BY <1>1, <1>2, <1>3 DEF Placed
<1>9. OnePrimary
  BY <1>1, <1>2 DEF OnePrimary
<1>10. \A k \in Subcores : units[k] = Idle
  BY DEF Init
<1>11. \A w \in Warps : w # 0 /\ Len(Program[w]) \in Nat
  BY LoadStoreAssumption
<1>12. \A w \in Warps : completions[w] = << >> /\ Len(completions[w]) = 0
  BY <1>2 DEF Init
<1>13. UnitsHold
  BY <1>10 DEF UnitsHold
<1>14. Progress
  BY <1>11, <1>12 DEF Progress, Init
<1>15. Waits
  BY <1>12 DEF Waits
<1>16. \A w, n : OfWarp(Outstanding, w) = {} /\ OfInst(Outstanding, w, n) = {}
  BY <1>4 DEF OfWarp, OfInst
<1>17. FetchCounts
  BY <1>16, FS_EmptySet DEF FetchCounts, Init
<1>18. UnitCounts
  <2>1. ASSUME NEW w \in Warps PROVE {k \in Subcores : units[k].warp = w} = {}
    BY <1>10, <1>11 DEF Idle
  <2> QED
    BY <2>1, FS_EmptySet DEF UnitCounts, Init
<1>19. NeverExits /\ AllIssued /\ IsFiniteSet(Outstanding)
  BY <1>4, FS_EmptySet DEF NeverExits, AllIssued, Init
<1> QED
  BY <1>7, <1>8, <1>9, <1>13, <1>14, <1>15, <1>17, <1>18, <1>19 DEF FetchParts, Located

LEMMA FetchStep == FetchInv /\ [Next]_vars => FetchInv'
<1> SUFFICES ASSUME FetchInv, [Next]_vars PROVE FetchInv'
  OBVIOUS
<1>1. TypeOK' /\ Residency'
  BY TypeStep, ResidencyStep DEF FetchInv
<1>2. ASSUME NEW f \in below, Reply(f) PROVE FetchParts'
  BY <1>1, <1>2, ReplyStep
<1>3. FetchParts'
  BY <1>1, <1>2, StartCycleStep, WriteBackStep, UnitCycleStep, ScheduleStep, BankStep, RefillStep,
     MoveStep, StutterStep DEF Next, Terminated
<1> QED
  BY <1>1, <1>3 DEF FetchInv

LEMMA FetchInvariance == Spec => []FetchInv
<1>1. Init => FetchInv
  BY InitTypes, InitResidency, InitFetch DEF FetchInv
<1> QED
  BY <1>1, FetchStep, PTL DEF Spec

(* Every answer finds its block resident, its warp in the list and its     *)
(* request counted: none of the exits of get_block (gpu.h:160-168) and of  *)
(* write_back_request_l2 (gpu.cpp:294-338) is reached.                     *)
THEOREM NeverExitsCorrect == Spec => []NeverExits
<1>1. FetchInv => NeverExits
  BY DEF FetchInv, FetchParts
<1> QED
  BY <1>1, FetchInvariance, PTL

(* The counters a warp retires by are the numbers of its fetches that are  *)
(* still to be answered and of its instructions that are still in a unit:  *)
(* increase_pending_request and decrease_pending_request match, whatever   *)
(* hits, misses, merges or is refused (kernel.h:179-197).                  *)
THEOREM PendingCorrect == Spec => []PendingIsOutstanding
<1>1. FetchInv => PendingIsOutstanding
  BY CountsTogether DEF FetchInv, FetchParts
<1> QED
  BY <1>1, FetchInvariance, PTL

(* A sector has loads in the MSHRs exactly while one of them, the first,   *)
(* is below the L1: no wake-up is missed, no sector is fetched twice       *)
(* (cache.cpp:285-306).                                                    *)
THEOREM OnePrimaryCorrect == Spec => []OnePrimary
<1>1. FetchInv => OnePrimary
  BY DEF FetchInv, FetchParts, Located
<1> QED
  BY <1>1, FetchInvariance, PTL

(* A warp that has been deleted has issued all of its program, and nothing *)
(* it issued is in a unit, under way or incomplete.                        *)
THEOREM RetiredCorrect == Spec => []RetiredIsFinished
<1>1. ASSUME FetchInv PROVE RetiredIsFinished
  <2>1. Progress /\ Waits
    BY <1>1 DEF FetchInv, FetchParts
  <2> SUFFICES ASSUME NEW w \in Warps \ warp_vec
               PROVE  /\ Len(completions[w]) = Len(Program[w])
                      /\ \A n \in Indices(w) : /\ completions[w][n] # INT_MAX
                                               /\ OutstandingOf(w, n) = {} /\ ~InUnit(w, n)
    BY DEF RetiredIsFinished
  <2>2. /\ Len(completions[w]) = Len(Program[w]) /\ OfWarp(Outstanding, w) = {}
        /\ \A k \in Subcores : units[k].warp # w
    BY <2>1 DEF Progress
  <2>3. ASSUME NEW n \in Indices(w)
        PROVE  /\ completions[w][n] # INT_MAX
               /\ OutstandingOf(w, n) = {} /\ ~InUnit(w, n)
    <3>1. OfInst(Outstanding, w, n) = {} /\ OutstandingOf(w, n) = {}
      BY <2>2 DEF OfInst, OfWarp, OutstandingOf
    <3>2. ~InUnit(w, n)
      BY <2>2 DEF InUnit
    <3>3. n \in 1 .. Len(completions[w])
      BY <2>2 DEF Indices
    <3> QED
      BY <2>1, <3>1, <3>2, <3>3 DEF Waits
  <2> QED
    BY <2>2, <2>3
<1> QED
  BY <1>1, FetchInvariance, PTL

(* An atomic is complete only when its last fetch has been answered        *)
(* (decrease_pending_request returns true for the last).                   *)
THEOREM AtomicCorrect == Spec => []AtomicCompletesLast
<1>1. FetchInv => AtomicCompletesLast
  BY DEF FetchInv, FetchParts, Waits, AtomicCompletesLast, OutstandingOf, OfInst
<1> QED
  BY <1>1, FetchInvariance, PTL
=============================================================================
