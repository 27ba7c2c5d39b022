------------------------------ MODULE KernelProofs ------------------------------
(***************************************************************************)
(* What holds of a kernel on the simulator: first of the instructions its  *)
(* warps get from the trace files, for any trace and any number of runs,   *)
(* then of its blocks on the SMs, for any number of SMs and any limits of  *)
(* the hardware.                                                           *)
(***************************************************************************)
EXTENDS TraceFiles, BlockScheduler, SubsequencesProofs

----
(* The dependencies of the instructions of a warp.                         *)

LEMMA LinePc ==
    ASSUME NEW line \in Lines
    PROVE  line.pc \in Pcs /\ line.block \in FileBlocks
<1>1. CASE \E p \in Places, pc \in {q \in Pcs : IsMem(q)}, a \in AddressLists :
              line = [block |-> p[1], warp |-> p[2], pc |-> pc, addrs |-> a]
  BY <1>1 DEF FileBlocks
<1>2. CASE \E p \in Places, pc \in {q \in Pcs : ~IsMem(q)} :
              line = [block |-> p[1], warp |-> p[2], pc |-> pc, addrs |-> << >>]
  BY <1>2 DEF FileBlocks
<1>. QED BY <1>1, <1>2 DEF Lines

LEMMA DestsAreRegs ==
    ASSUME NEW line \in Lines
    PROVE  DestRegs(line.pc) \subseteq Regs /\ Named(line) \subseteq Regs
  BY LinePc DEF Regs, Named

(* The recursive definition of the map has a solution.                     *)
LEMMA MapUnrolls ==
    ASSUME NEW insts \in Seq(Lines)
    PROVE  LET map == dependency_map(insts)
           IN  /\ map[0] = [r \in Regs |-> 0]
               /\ \A n \in 1 .. Len(insts) :
                     map[n] = [r \in Regs |-> IF r \in DestRegs(insts[n].pc) THEN n
                                              ELSE map[n - 1][r]]
<1> DEFINE N == Len(insts)  V == [Regs -> 0 .. N]
           step == [n \in 0 .. N |-> [g \in [0 .. n - 1 -> V] |->
                      IF n = 0 THEN [r \in Regs |-> 0]
                      ELSE [r \in Regs |-> IF r \in DestRegs(insts[n].pc) THEN n
                                           ELSE g[n - 1][r]]]]
<1>1. N \in Nat
  BY LenProperties
<1>2. \A n \in 0 .. N : \A g \in [0 .. n - 1 -> V] : step[n][g] \in V
  <2> TAKE n \in 0 .. N
  <2> TAKE g \in [0 .. n - 1 -> V]
  <2>1. n # 0 => n - 1 \in 0 .. n - 1
    BY <1>1
  <2>2. n # 0 => g[n - 1] \in V
    BY <2>1
  <2>. QED BY <1>1, <2>2
<1>3. \E f \in [0 .. N -> V] : \A n \in 0 .. N : f[n] = step[n][[m \in 0 .. n - 1 |-> f[m]]]
  <2> HIDE DEF V, step
  <2>1. Total(step, N, V)
    BY <1>2 DEF Total
  <2>. QED BY <1>1, <2>1, RecursionExists DEF Solves
<1>. PICK f \in [0 .. N -> V] : \A n \in 0 .. N : f[n] = step[n][[m \in 0 .. n - 1 |-> f[m]]]
  BY <1>3
<1>4. \A n \in 0 .. N :
         f[n] = IF n = 0 THEN [r \in Regs |-> 0]
                ELSE [r \in Regs |-> IF r \in DestRegs(insts[n].pc) THEN n ELSE f[n - 1][r]]
  <2> TAKE n \in 0 .. N
  <2> DEFINE g == [m \in 0 .. n - 1 |-> f[m]]
  <2>1. g \in [0 .. n - 1 -> V]
    <3>1. \A m \in 0 .. n - 1 : m \in 0 .. N
      BY <1>1
    <3> HIDE DEF V
    <3>. QED BY <3>1
  <2>2. n # 0 => g[n - 1] = f[n - 1]
    BY <1>1
  <2>3. step[n][g] = IF n = 0 THEN [r \in Regs |-> 0]
                     ELSE [r \in Regs |-> IF r \in DestRegs(insts[n].pc) THEN n
                                          ELSE g[n - 1][r]]
    <3> HIDE DEF V, g
    <3>. QED BY <2>1
  <2>4. f[n] = step[n][g]
    BY <1>3
  <2> HIDE DEF step, g
  <2>. QED BY <2>2, <2>3, <2>4
<1>5. f = [n \in 0 .. N |->
             IF n = 0 THEN [r \in Regs |-> 0]
             ELSE [r \in Regs |-> IF r \in DestRegs(insts[n].pc) THEN n ELSE f[n - 1][r]]]
  <2> HIDE DEF V
  <2>. QED BY <1>4
<1>6. \E map : map = [n \in 0 .. N |->
             IF n = 0 THEN [r \in Regs |-> 0]
             ELSE [r \in Regs |-> IF r \in DestRegs(insts[n].pc) THEN n ELSE map[n - 1][r]]]
  BY <1>5, Zenon
<1> DEFINE map == dependency_map(insts)
<1>7. map = [n \in 0 .. Len(insts) |->
             IF n = 0 THEN [r \in Regs |-> 0]
             ELSE [r \in Regs |-> IF r \in DestRegs(insts[n].pc) THEN n ELSE map[n - 1][r]]]
  BY <1>6, Zenon DEF dependency_map
<1> HIDE DEF map
<1>8. map[0] = [r \in Regs |-> 0]
  BY <1>1, <1>7
<1>9. ASSUME NEW n \in 1 .. Len(insts)
      PROVE  map[n] = [r \in Regs |-> IF r \in DestRegs(insts[n].pc) THEN n ELSE map[n - 1][r]]
  <2>1. n \in 0 .. Len(insts) /\ n # 0
    BY <1>1
  <2>. QED BY <1>7, <2>1
<1>. QED BY <1>8, <1>9 DEF map

(* After n instructions the map has the last one that writes a register.   *)
LastWriter(insts, n, r, k) ==
    /\ k \in 0 .. n
    /\ k # 0 => r \in DestRegs(insts[k].pc)
    /\ \A j \in k + 1 .. n : r \notin DestRegs(insts[j].pc)

LEMMA MapIsLastWriter ==
    ASSUME NEW insts \in Seq(Lines), NEW n \in 0 .. Len(insts), NEW r \in Regs
    PROVE  LastWriter(insts, n, r, dependency_map(insts)[n][r])
<1> DEFINE map == dependency_map(insts)  N == Len(insts)
           Bad == {m \in 0 .. N : ~LastWriter(insts, m, r, map[m][r])}
<1>1. N \in Nat
  BY LenProperties
<1>2. /\ map[0] = [q \in Regs |-> 0]
      /\ \A m \in 1 .. N : map[m] = [q \in Regs |-> IF q \in DestRegs(insts[m].pc) THEN m
                                                   ELSE map[m - 1][q]]
  BY MapUnrolls
<1> HIDE DEF map
<1>3. ASSUME Bad # {} PROVE FALSE
  <2>1. PICK m \in Bad : \A l \in Bad : m <= l
    <3>1. Bad \subseteq Nat
      BY <1>1
    <3> HIDE DEF Bad
    <3>. QED BY <1>3, <3>1, LeastOfNats
  <2>2. m \in 0 .. N /\ ~LastWriter(insts, m, r, map[m][r])
    OBVIOUS
  <2>3. CASE m = 0
    <3>1. map[m][r] = 0
      BY <1>2, <2>3
    <3>. QED BY <2>2, <2>3, <3>1 DEF LastWriter
  <2>4. CASE m # 0
    <3>1. m \in 1 .. N /\ m - 1 \in 0 .. N /\ m - 1 < m
      BY <1>1, <2>2, <2>4
    <3>2. m - 1 \notin Bad
      <4> HIDE DEF Bad
      <4>. QED BY <1>1, <2>1, <2>2, <3>1
    <3>3. LastWriter(insts, m - 1, r, map[m - 1][r])
      BY <3>1, <3>2
    <3>4. map[m][r] = IF r \in DestRegs(insts[m].pc) THEN m ELSE map[m - 1][r]
      BY <1>2, <3>1
    <3>5. LastWriter(insts, m, r, map[m][r])
      <4>1. CASE r \in DestRegs(insts[m].pc)
        BY <1>1, <2>2, <3>1, <3>4, <4>1 DEF LastWriter
      <4>2. CASE r \notin DestRegs(insts[m].pc)
        <5>1. LastWriter(insts, m - 1, r, map[m][r])
          BY <3>3, <3>4, <4>2
        <5> HIDE DEF N, Bad
        <5>. QED BY <1>1, <3>1, <4>2, <5>1 DEF LastWriter
      <4>. QED BY <4>1, <4>2
    <3>. QED BY <2>2, <3>5
  <2>. QED BY <2>3, <2>4
<1>. QED BY <1>3 DEF map

(* An earlier instruction that has to be waited for.                       *)
Waited(insts, j, n) ==
    \/ DestRegs(insts[j].pc) \cap Named(insts[n]) # {}
    \/ IsBarrier(insts[n].pc) /\ DestRegs(insts[j].pc) # {}

(* Any instruction that has to be waited for is named itself, or one named *)
(* writes the same register after it.  Only a barrier that writes a        *)
(* register names itself.                                                  *)
LEMMA DependencyCovers ==
    ASSUME NEW insts \in Seq(Lines), NEW n \in 1 .. Len(insts)
    PROVE  /\ m_dependency(insts, n) \subseteq 1 .. n
           /\ n \in m_dependency(insts, n)
                 <=> IsBarrier(insts[n].pc) /\ DestRegs(insts[n].pc) # {}
           /\ \A j \in 1 .. n - 1 : Waited(insts, j, n) =>
                 \E l \in m_dependency(insts, n) \cap (1 .. n - 1) :
                     l = j \/ (j < l /\ Waited(insts, j, l))
<1> DEFINE map == dependency_map(insts)  N == Len(insts)
<1>1. N \in Nat /\ \A j \in 1 .. N : insts[j] \in Lines
  BY LenProperties, ElementOfSeq
<1>2. /\ n \in 1 .. N /\ n \in 0 .. N /\ n - 1 \in 0 .. N
      /\ \A j \in 1 .. n - 1 : j \in 1 .. N
  BY <1>1
<1>3. \A r \in Regs : LastWriter(insts, n - 1, r, map[n - 1][r])
  BY <1>2, MapIsLastWriter
<1>4. map[n] = [r \in Regs |-> IF r \in DestRegs(insts[n].pc) THEN n ELSE map[n - 1][r]]
  BY MapUnrolls
<1>5. insts[n].pc \in Pcs /\ DestRegs(insts[n].pc) \subseteq Regs /\ Named(insts[n]) \subseteq Regs
  BY <1>1, <1>2, LinePc, DestsAreRegs
<1>6. \A r \in Regs : r \notin DestRegs(insts[n].pc) => map[n][r] = map[n - 1][r]
  BY <1>4
<1>7. \A r \in Regs : r \in DestRegs(insts[n].pc) => map[n][r] = n
  BY <1>4
<1>8. \A k : k \in Range(map[n]) <=> \E r \in Regs : k = map[n][r]
  <2>1. DOMAIN map[n] = Regs
    BY <1>4
  <2>. QED BY <2>1 DEF Range
<1>9. m_dependency(insts, n) =
         {k \in {map[n - 1][r] : r \in Named(insts[n])} \cup
                (IF IsBarrier(insts[n].pc) THEN Range(map[n]) ELSE {}) : k # 0}
  <2>1. m_dependency(insts, n) = ({map[n - 1][r] : r \in Named(insts[n])} \cup
                (IF IsBarrier(insts[n].pc) THEN Range(map[n]) ELSE {})) \ {0}
    BY Zenon DEF m_dependency
  <2> HIDE DEF map
  <2>. QED BY <2>1
<1> HIDE DEF map, N
<1>10. \A k \in m_dependency(insts, n) :
         k # 0 /\ \/ \E r \in Regs : k = map[n - 1][r]
                  \/ k = n /\ IsBarrier(insts[n].pc) /\ DestRegs(insts[n].pc) # {}
  <2> TAKE k \in m_dependency(insts, n)
  <2>1. CASE k \in {map[n - 1][r] : r \in Named(insts[n])}
    BY <1>5, <1>9, <2>1
  <2>2. CASE IsBarrier(insts[n].pc) /\ k \in Range(map[n])
    <3>1. PICK r \in Regs : k = map[n][r]
      BY <1>8, <2>2
    <3>2. CASE r \in DestRegs(insts[n].pc)
      BY <1>9, <1>7, <2>2, <3>1, <3>2
    <3>3. CASE r \notin DestRegs(insts[n].pc)
      BY <1>6, <1>9, <3>1, <3>3
    <3>. QED BY <3>2, <3>3
  <2>. QED BY <1>9, <2>1, <2>2
<1>11. \A r \in Regs : map[n - 1][r] \in 0 .. n - 1
  BY <1>3 DEF LastWriter
<1>12. m_dependency(insts, n) \subseteq 1 .. n
  <2> SUFFICES ASSUME NEW k \in m_dependency(insts, n) PROVE k \in 1 .. n
    OBVIOUS
  <2>1. k # 0 /\ (k \in 0 .. n - 1 \/ k = n)
    BY <1>10, <1>11
  <2>. QED BY <1>1, <1>2, <2>1
<1>13. n \in m_dependency(insts, n) <=> IsBarrier(insts[n].pc) /\ DestRegs(insts[n].pc) # {}
  <2>1. ASSUME n \in m_dependency(insts, n)
        PROVE  IsBarrier(insts[n].pc) /\ DestRegs(insts[n].pc) # {}
    <3>1. n \notin 0 .. n - 1
      BY <1>1, <1>2
    <3>. QED BY <1>10, <1>11, <2>1, <3>1
  <2>2. ASSUME IsBarrier(insts[n].pc), DestRegs(insts[n].pc) # {}
        PROVE  n \in m_dependency(insts, n)
    <3>1. PICK r \in Regs : r \in DestRegs(insts[n].pc)
      BY <1>5, <2>2
    <3>2. n \in Range(map[n])
      BY <1>7, <1>8, <3>1
    <3>3. n # 0
      BY <1>1, <1>2
    <3>. QED BY <1>9, <2>2, <3>2, <3>3
  <2>. QED BY <2>1, <2>2
<1>14. ASSUME NEW j \in 1 .. n - 1, Waited(insts, j, n)
       PROVE  \E l \in m_dependency(insts, n) \cap (1 .. n - 1) :
                  l = j \/ (j < l /\ Waited(insts, j, l))
  <2>1. insts[j] \in Lines /\ DestRegs(insts[j].pc) \subseteq Regs
    BY <1>1, <1>2, DestsAreRegs
  <2>2. \E r \in Regs : r \in DestRegs(insts[j].pc) /\ (r \in Named(insts[n]) \/ IsBarrier(insts[n].pc))
    BY <1>14, <2>1 DEF Waited
  <2>3. PICK r \in Regs : r \in DestRegs(insts[j].pc) /\ (r \in Named(insts[n]) \/ IsBarrier(insts[n].pc))
    BY <2>2
  <2> DEFINE l == map[n - 1][r]
  <2>4. LastWriter(insts, n - 1, r, l)
    BY <1>3
  <2>5. l \in m_dependency(insts, n) \/ l = 0
    <3>1. CASE r \in Named(insts[n])
      BY <1>9, <3>1
    <3>2. CASE IsBarrier(insts[n].pc) /\ r \notin Named(insts[n])
      <4>1. r \notin DestRegs(insts[n].pc)
        BY <3>2 DEF Named
      <4>2. l \in Range(map[n])
        BY <1>6, <1>8, <4>1
      <4> HIDE DEF l
      <4>. QED BY <1>9, <3>2, <4>2
    <3>. QED BY <2>3, <3>1, <3>2
  <2> HIDE DEF l
  <2>6. j <= l /\ l # 0 /\ l \in 1 .. n - 1
    <3>1. l \in 0 .. n - 1 /\ ~(j \in l + 1 .. n - 1)
      BY <2>3, <2>4 DEF LastWriter
    <3>. QED BY <1>2, <3>1, <1>1
  <2>7. l # j => j < l /\ Waited(insts, j, l)
    <3>1. r \in DestRegs(insts[l].pc)
      BY <2>4, <2>6 DEF LastWriter
    <3>2. l \in 0 .. n - 1
      BY <2>4 DEF LastWriter
    <3>. QED BY <1>2, <2>3, <2>6, <3>1, <3>2 DEF Waited, Named
  <2>. QED BY <2>5, <2>6, <2>7
<1>. QED BY <1>12, <1>14, <1>13

(* The recursive definition of what comes before has a solution.           *)
LEMMA BeforeUnrolls ==
    ASSUME NEW insts \in Seq(Lines)
    PROVE  \A n \in 1 .. Len(insts) :
              Before(insts)[n] = UNION {{d} \union Before(insts)[d] :
                                          d \in m_dependency(insts, n) \cap (1 .. n - 1)}
<1> DEFINE N == Len(insts)  V == SUBSET (1 .. N)
           D(n) == m_dependency(insts, n) \cap (1 .. n - 1)
           step == [n \in 0 .. N |-> [g \in [0 .. n - 1 -> V] |->
                      IF n = 0 THEN {} ELSE UNION {{d} \union g[d] : d \in D(n)}]]
<1>1. N \in Nat
  BY LenProperties
<1>2. \A n \in 0 .. N : D(n) \subseteq 1 .. n - 1
  OBVIOUS
<1> HIDE DEF D
<1>3. \A n \in 0 .. N : \A g \in [0 .. n - 1 -> V] : step[n][g] \in V
  <2> TAKE n \in 0 .. N
  <2> TAKE g \in [0 .. n - 1 -> V]
  <2>1. \A d \in D(n) : d \in 0 .. n - 1 /\ d \in 1 .. N
    BY <1>1, <1>2
  <2>2. \A d \in D(n) : {d} \union g[d] \subseteq 1 .. N
    BY <2>1
  <2>3. UNION {{d} \union g[d] : d \in D(n)} \subseteq 1 .. N
    BY <2>2
  <2>. QED BY <2>3
<1>4. \E f \in [0 .. N -> V] : \A n \in 0 .. N : f[n] = step[n][[m \in 0 .. n - 1 |-> f[m]]]
  <2> HIDE DEF V, step
  <2>1. Total(step, N, V)
    BY <1>3 DEF Total
  <2>. QED BY <1>1, <2>1, RecursionExists DEF Solves
<1>5. PICK f \in [0 .. N -> V] : \A n \in 0 .. N : f[n] = step[n][[m \in 0 .. n - 1 |-> f[m]]]
  BY <1>4
<1>6. \A n \in 0 .. N : f[n] = IF n = 0 THEN {} ELSE UNION {{d} \union f[d] : d \in D(n)}
  <2> TAKE n \in 0 .. N
  <2> DEFINE g == [m \in 0 .. n - 1 |-> f[m]]
  <2>1. g \in [0 .. n - 1 -> V]
    <3>1. \A m \in 0 .. n - 1 : m \in 0 .. N
      BY <1>1
    <3> HIDE DEF V
    <3>. QED BY <3>1
  <2>2. \A d \in D(n) : g[d] = f[d]
    BY <1>1, <1>2
  <2>3. step[n][g] = IF n = 0 THEN {} ELSE UNION {{d} \union g[d] : d \in D(n)}
    <3> HIDE DEF V, g
    <3>. QED BY <2>1
  <2>4. f[n] = step[n][g]
    BY <1>5
  <2> HIDE DEF step, g
  <2>. QED BY <2>2, <2>3, <2>4
<1>7. f = [n \in 0 .. N |-> IF n = 0 THEN {} ELSE UNION {{d} \union f[d] : d \in D(n)}]
  <2> HIDE DEF V
  <2>. QED BY <1>6
<1> DEFINE before == Before(insts)
<1>8. before = [n \in 0 .. Len(insts) |->
                  IF n = 0 THEN {}
                  ELSE UNION {{d} \union before[d] : d \in m_dependency(insts, n) \cap (1 .. n - 1)}]
  <2>1. \E b : b = [n \in 0 .. Len(insts) |->
                  IF n = 0 THEN {}
                  ELSE UNION {{d} \union b[d] : d \in m_dependency(insts, n) \cap (1 .. n - 1)}]
    BY <1>7, Zenon DEF D
  <2>. QED BY <2>1, Zenon DEF Before
<1> HIDE DEF before
<1>9. ASSUME NEW n \in 1 .. Len(insts)
      PROVE  before[n] = UNION {{d} \union before[d] : d \in m_dependency(insts, n) \cap (1 .. n - 1)}
  <2>1. n \in 0 .. Len(insts) /\ n # 0
    BY <1>1
  <2>. QED BY <1>8, <2>1
<1>. QED BY <1>9 DEF before

(* Whatever has to be waited for comes before.                             *)
LEMMA BeforeCovers ==
    ASSUME NEW insts \in Seq(Lines)
    PROVE  \A n \in 1 .. Len(insts) : \A j \in 1 .. n - 1 :
              Waited(insts, j, n) => j \in Before(insts)[n]
<1> DEFINE N == Len(insts)  before == Before(insts)
           Bad == {n \in 1 .. N : \E j \in 1 .. n - 1 : Waited(insts, j, n) /\ j \notin before[n]}
<1>1. N \in Nat
  BY LenProperties
<1>2. ASSUME Bad # {} PROVE FALSE
  <2>1. PICK n \in Bad : \A m \in Bad : n <= m
    <3>1. Bad \subseteq Nat
      BY <1>1
    <3> HIDE DEF Bad
    <3>. QED BY <1>2, <3>1, LeastOfNats
  <2>2. n \in 1 .. N
    OBVIOUS
  <2>3. PICK j \in 1 .. n - 1 : Waited(insts, j, n) /\ j \notin before[n]
    OBVIOUS
  <2>4. PICK l \in m_dependency(insts, n) \cap (1 .. n - 1) :
           l = j \/ (j < l /\ Waited(insts, j, l))
    BY <2>2, <2>3, DependencyCovers
  <2>5. l \in 1 .. n - 1
    OBVIOUS
  <2>6. before[n] = UNION {{d} \union before[d] : d \in m_dependency(insts, n) \cap (1 .. n - 1)}
    BY <2>2, BeforeUnrolls
  <2>7. {l} \union before[l] \subseteq before[n]
    <3> HIDE DEF before
    <3>. QED BY <2>5, <2>6
  <2>8. l = j \/ j \in before[l]
    <3>1. l \in 1 .. N /\ l < n
      BY <1>1, <2>2, <2>5
    <3>2. l \notin Bad
      <4> HIDE DEF Bad
      <4>. QED BY <2>1, <2>2, <3>1, <1>1
    <3>3. j < l => j \in 1 .. l - 1
      BY <2>3, <2>5, <2>2
    <3> HIDE DEF before
    <3>. QED BY <2>4, <3>1, <3>2, <3>3
  <2> HIDE DEF before
  <2>. QED BY <2>3, <2>7, <2>8
<1>. QED BY <1>2

LEMMA InstsType ==
    ASSUME sass \in Seq(Lines), NEW p
    PROVE  m_insts(p) \in Seq(Lines)
<1> DEFINE I == {i \in 1 .. Len(sass) : sass[i].block = p[1] /\ sass[i].warp = p[2]}
<1>1. I \in SUBSET (1 .. Len(sass))
  OBVIOUS
<1>2. m_insts(p) = At(sass, I)
  BY DEF m_insts
<1> HIDE DEF I
<1>. QED BY <1>1, <1>2, AtType

LEMMA Dependencies ==
    ASSUME sass \in Seq(Lines)
    PROVE  DependenciesSuffice
<1> SUFFICES ASSUME NEW p \in Places
             PROVE  \A n \in 1 .. Len(m_insts(p)) :
                       /\ m_dependency(m_insts(p), n) \subseteq 1 .. n
                       /\ n \in m_dependency(m_insts(p), n)
                             <=> IsBarrier(m_insts(p)[n].pc) /\ DestRegs(m_insts(p)[n].pc) # {}
                       /\ \A j \in 1 .. n - 1 :
                             \/ DestRegs(m_insts(p)[j].pc) \cap Named(m_insts(p)[n]) # {}
                             \/ IsBarrier(m_insts(p)[n].pc) /\ DestRegs(m_insts(p)[j].pc) # {}
                             => j \in Before(m_insts(p))[n]
  BY Zenon DEF DependenciesSuffice
<1>1. PICK insts \in Seq(Lines) : insts = m_insts(p)
  BY InstsType
<1>2. \A n \in 1 .. Len(insts) :
         /\ m_dependency(insts, n) \subseteq 1 .. n
         /\ n \in m_dependency(insts, n)
               <=> IsBarrier(insts[n].pc) /\ DestRegs(insts[n].pc) # {}
  BY DependencyCovers
<1>3. \A n \in 1 .. Len(insts) : \A j \in 1 .. n - 1 :
         Waited(insts, j, n) => j \in Before(insts)[n]
  BY BeforeCovers
<1>. QED BY <1>1, <1>2, <1>3, Zenon DEF Waited

----
(* Addresses and visits.                                                   *)

(* What is kept of the sectors: each of them once.                         *)
LEMMA CoalescedOnce ==
    ASSUME NEW addrs \in Seq(Nat)
    PROVE  /\ Range(Coalesced(addrs)) = {SectorOf(a) : a \in Range(addrs)}
           /\ IsInjective(Coalesced(addrs))
<1> DEFINE n == Len(addrs)
           sector == [i \in 1 .. n |-> SectorOf(addrs[i])]
           T == {sector[i] : i \in 1 .. n}
           I == {i \in 1 .. n : \A j \in 1 .. i - 1 : sector[j] # sector[i]}
           c == At(sector, I)
<1>1. n \in Nat /\ DOMAIN addrs = 1 .. n
  BY LenProperties
<1>2. Coalesced(addrs) = c
  BY Zenon DEF Coalesced
<1>3. sector \in Seq(T) /\ Len(sector) = n
  <2>1. sector \in [1 .. n -> T]
    OBVIOUS
  <2> HIDE DEF sector, T
  <2>. QED BY <1>1, <2>1
<1>4. \A i \in 1 .. n : sector[i] = SectorOf(addrs[i])
  OBVIOUS
<1> HIDE DEF sector, T
<1>5. I \in SUBSET (1 .. Len(sector))
  BY <1>3
<1>6. \A i, j \in I : sector[i] = sector[j] => i = j
  <2> SUFFICES ASSUME NEW i \in I, NEW j \in I, sector[i] = sector[j], i < j PROVE FALSE
    BY <1>1
  <2>1. i \in 1 .. j - 1
    BY <1>1
  <2>. QED BY <2>1
<1>7. \A i \in 1 .. n : \E j \in I : sector[j] = sector[i]
  <2> TAKE i \in 1 .. n
  <2> DEFINE S == {j \in 1 .. n : sector[j] = sector[i]}
  <2>1. S \subseteq Nat /\ S # {}
    BY <1>1
  <2>2. PICK j \in S : \A l \in S : j <= l
    <3> HIDE DEF S
    <3>. QED BY <2>1, LeastOfNats
  <2>3. \A l \in 1 .. j - 1 : l \in 1 .. n /\ l < j
    BY <1>1
  <2>4. \A l \in 1 .. j - 1 : l \notin S
    <3> HIDE DEF S
    <3>. QED BY <2>1, <2>2, <2>3
  <2>5. \A l \in 1 .. j - 1 : sector[l] # sector[j]
    BY <2>2, <2>3, <2>4
  <2>. QED BY <2>2, <2>5
<1> HIDE DEF I
<1>8. /\ IsFiniteSet(I) /\ Cardinality(I) \in Nat /\ I \in SUBSET Nat
      /\ c \in Seq(T) /\ Len(c) = Cardinality(I)
      /\ \A k \in 1 .. Cardinality(I) : Nth(I, k) \in I /\ c[k] = sector[Nth(I, k)]
  BY <1>3, <1>5, AtType
<1>9. \A k \in 1 .. Cardinality(I) : Rank(I, Nth(I, k)) = k
  BY <1>8, RankOnto
<1>10. \A i \in I : Rank(I, i) \in 1 .. Len(c) /\ c[Rank(I, i)] = sector[i]
  BY <1>3, <1>5, AtRank
<1>11. DOMAIN c = 1 .. Cardinality(I)
  BY <1>8, LenProperties
<1> HIDE DEF c
<1>12. \A x : x \in Range(c) <=> \E i \in 1 .. n : x = sector[i]
  <2>1. ASSUME NEW k \in DOMAIN c PROVE \E i \in 1 .. n : c[k] = sector[i]
    BY <1>3, <1>5, <1>8, <1>11
  <2>2. ASSUME NEW i \in 1 .. n PROVE sector[i] \in Range(c)
    <3>1. PICK j \in I : sector[j] = sector[i]
      BY <1>7
    <3>. QED BY <1>8, <1>10, <1>11, <3>1 DEF Range
  <2>. QED BY <2>1, <2>2 DEF Range
<1>13. \A x : x \in {SectorOf(a) : a \in Range(addrs)} <=> \E i \in 1 .. n : x = sector[i]
  BY <1>1, <1>4 DEF Range
<1>14. IsInjective(c)
  <2>1. ASSUME NEW k \in 1 .. Cardinality(I), NEW l \in 1 .. Cardinality(I), c[k] = c[l]
        PROVE  k = l
    <3>1. Nth(I, k) = Nth(I, l)
      BY <1>6, <1>8, <2>1
    <3>. QED BY <1>9, <3>1
  <2>. QED BY <1>11, <2>1 DEF IsInjective
<1>. QED BY <1>2, <1>12, <1>13, <1>14

(* Lines of the same instruction of a warp, told apart by pc_index only,   *)
(* and how many of the first n lines of q are such lines.                  *)
Same(l, m) == l.block = m.block /\ l.warp = m.warp /\ l.pc = m.pc

Count(q, line, n) == Cardinality({j \in 1 .. n : Same(q[j], line)})

LEMMA IndexIs ==
    ASSUME NEW q, NEW i
    PROVE  pc_index(q, i) = Cardinality({j \in 1 .. i - 1 : Same(q[j], q[i])})
  BY Zenon DEF pc_index, Same

LEMMA IndexType ==
    ASSUME NEW q, NEW i \in Nat
    PROVE  /\ IsFiniteSet({j \in 1 .. i - 1 : Same(q[j], q[i])})
           /\ pc_index(q, i) \in Nat
<1> DEFINE A == {j \in 1 .. i - 1 : Same(q[j], q[i])}
<1>1. A \in SUBSET (1 .. i - 1) /\ IsFiniteSet(1 .. i - 1)
  <2>1. i - 1 \in Int
    OBVIOUS
  <2>2. A \in SUBSET (1 .. i - 1)
    OBVIOUS
  <2>. QED BY <2>1, <2>2, FS_Interval
<1>2. IsFiniteSet(A)
  <2> HIDE DEF A
  <2>. QED BY <1>1, FS_Subset
<1>3. pc_index(q, i) = Cardinality(A)
  BY IndexIs
<1> HIDE DEF A
<1>4. pc_index(q, i) \in Nat
  BY <1>2, <1>3, FS_CardinalityType
<1>. QED BY <1>2, <1>4 DEF A

(* A later visit has a higher index.                                       *)
LEMMA IndexGrows ==
    ASSUME NEW q, NEW i \in Nat \ {0}, NEW j \in Nat, i < j, Same(q[i], q[j])
    PROVE  pc_index(q, i) < pc_index(q, j)
<1> DEFINE A == {k \in 1 .. i - 1 : Same(q[k], q[i])}
           B == {k \in 1 .. j - 1 : Same(q[k], q[j])}
<1>1. /\ IsFiniteSet(A) /\ IsFiniteSet(B)
      /\ Cardinality(A) \in Nat /\ Cardinality(B) \in Nat
      /\ pc_index(q, i) = Cardinality(A) /\ pc_index(q, j) = Cardinality(B)
  BY IndexType, IndexIs
<1>2. \A k \in A : k \in B
  <2> TAKE k \in A
  <2>1. k \in 1 .. j - 1 /\ Same(q[k], q[i])
    OBVIOUS
  <2>2. Same(q[k], q[j])
    BY <2>1 DEF Same
  <2>. QED BY <2>1, <2>2
<1>3. i \in B /\ i \notin A
  OBVIOUS
<1> HIDE DEF A, B
<1>4. Cardinality(A) <= Cardinality(B) /\ Cardinality(A) # Cardinality(B)
  <2>1. A \in SUBSET B /\ A # B
    BY <1>2, <1>3
  <2>. QED BY <1>1, <2>1, FS_Subset
<1>. QED BY <1>1, <1>4

(* Only what comes before counts.                                          *)
LEMMA IndexOfPrefix ==
    ASSUME NEW q, NEW t, NEW i \in Nat \ {0}, \A j \in 1 .. i : q[j] = t[j]
    PROVE  pc_index(q, i) = pc_index(t, i)
<1>1. \A j \in 1 .. i - 1 : q[j] = t[j]
  OBVIOUS
<1>2. q[i] = t[i]
  OBVIOUS
<1>3. {j \in 1 .. i - 1 : Same(q[j], q[i])} = {j \in 1 .. i - 1 : Same(t[j], t[i])}
  BY <1>1, <1>2
<1>. QED BY <1>3, IndexIs

(* An index is a count, and a count goes up with every such line.          *)
LEMMA CountType ==
    ASSUME NEW q, NEW line, NEW n \in Nat
    PROVE  /\ IsFiniteSet({j \in 1 .. n : Same(q[j], line)})
           /\ Count(q, line, n) \in Nat
           /\ Count(q, line, 0) = 0
<1> DEFINE A == {j \in 1 .. n : Same(q[j], line)}
<1>1. A \in SUBSET (1 .. n) /\ IsFiniteSet(1 .. n)
  BY FS_Interval
<1>2. Count(q, line, n) = Cardinality(A)
  BY Zenon DEF Count
<1> HIDE DEF A
<1>3. IsFiniteSet(A) /\ Cardinality(A) \in Nat
  BY <1>1, FS_Subset, FS_CardinalityType
<1>4. Count(q, line, 0) = 0
  <2>1. {j \in 1 .. 0 : Same(q[j], line)} = {}
    OBVIOUS
  <2>. QED BY <2>1, FS_EmptySet DEF Count
<1>. QED BY <1>2, <1>3, <1>4 DEF A

LEMMA IndexIsCount ==
    ASSUME NEW q, NEW i
    PROVE  pc_index(q, i) = Count(q, q[i], i - 1)
  BY IndexIs, Zenon DEF Count

Agree(q, t, n) == \A j \in 1 .. n : q[j] = t[j]

LEMMA CountStep ==
    ASSUME NEW q, NEW t, NEW line, NEW n \in Nat, Agree(q, t, n)
    PROVE  /\ Count(t, line, n) = Count(q, line, n)
           /\ Same(t[n + 1], line) => Count(t, line, n + 1) = Count(q, line, n) + 1
           /\ ~Same(t[n + 1], line) => Count(t, line, n + 1) = Count(q, line, n)
<1> DEFINE A == {j \in 1 .. n : Same(q[j], line)}
           B == {j \in 1 .. n : Same(t[j], line)}
           C == {j \in 1 .. n + 1 : Same(t[j], line)}
<1>1. B = A
  BY DEF Agree
<1>2. IsFiniteSet(A) /\ Cardinality(A) \in Nat
  BY CountType DEF Count
<1>3. C = IF Same(t[n + 1], line) THEN A \union {n + 1} ELSE A
  <2>1. \A j \in 1 .. n + 1 : j \in 1 .. n \/ j = n + 1
    OBVIOUS
  <2>2. \A j \in 1 .. n : j \in 1 .. n + 1
    OBVIOUS
  <2>. QED BY <1>1, <2>1, <2>2
<1>4. n + 1 \notin A
  OBVIOUS
<1>5. /\ Count(q, line, n) = Cardinality(A) /\ Count(t, line, n) = Cardinality(B)
      /\ Count(t, line, n + 1) = Cardinality(C)
  BY Zenon DEF Count
<1> HIDE DEF A, B, C
<1>6. Cardinality(A \union {n + 1}) = Cardinality(A) + 1
  BY <1>2, <1>4, FS_AddElement
<1>. QED BY <1>1, <1>2, <1>3, <1>5, <1>6

(* Leaving lines out that are not of the same instruction changes no index. *)
LEMMA IndexKept ==
    ASSUME NEW S, NEW s \in Seq(S), NEW I \in SUBSET (1 .. Len(s)), NEW i \in I,
           \A j \in 1 .. i - 1 : Same(s[j], s[i]) => j \in I
    PROVE  pc_index(At(s, I), Rank(I, i)) = pc_index(s, i)
<1> DEFINE t == At(s, I)  k == Rank(I, i)
           D == {j \in I : Same(s[j], s[i])}
           E == {m \in 1 .. k - 1 : Nth(I, m) \in D}
<1>1. /\ Cardinality(I) \in Nat /\ Len(t) = Cardinality(I) /\ I \in SUBSET Nat
      /\ \A m \in 1 .. Cardinality(I) : Nth(I, m) \in I /\ t[m] = s[Nth(I, m)]
  BY AtType
<1>2. k \in 1 .. Len(t) /\ t[k] = s[i]
  BY AtRank
<1>3. Cardinality(E) = Cardinality({j \in D : j < i})
  <2>1. D \in SUBSET I
    OBVIOUS
  <2>2. Len(s) \in Nat
    BY LenProperties
  <2> HIDE DEF D
  <2>3. Cardinality(RanksBelow(I, D, i)) = Cardinality(Below(D, i))
    BY <2>1, <2>2, AtBefore
  <2>. QED BY <2>3 DEF RanksBelow, Below
<1>4. {j \in D : j < i} = {j \in 1 .. i - 1 : Same(s[j], s[i])}
  <2>1. \A j \in I : j \in Nat /\ j >= 1
    BY LenProperties
  <2>2. \A j \in D : j < i => j \in 1 .. i - 1
    BY <2>1
  <2>3. \A j \in 1 .. i - 1 : Same(s[j], s[i]) => j \in D /\ j < i
    BY <2>1
  <2>. QED BY <2>2, <2>3
<1>5. E = {m \in 1 .. k - 1 : Same(t[m], t[k])}
  <2>1. \A m \in 1 .. k - 1 : Nth(I, m) \in I /\ t[m] = s[Nth(I, m)]
    <3> HIDE DEF t, k
    <3>. QED BY <1>1, <1>2
  <2> HIDE DEF t, k
  <2>. QED BY <1>2, <2>1
<1> HIDE DEF t, k, D, E
<1>6. pc_index(t, k) = pc_index(s, i)
  BY <1>3, <1>4, <1>5, IndexIs
<1>. QED BY <1>6 DEF t, k

----
(* The files of the blocks.                                                *)

(* The lines of block b among the first n of kernel-k.mem.                 *)
Split(n, b) == At(mem, {k \in 1 .. n : mem[k].block = b})

(* The file of block b holds all its lines, perhaps followed by others.    *)
Complete(b) ==
    /\ Len(Split(Len(mem), b)) <= Len(block_mem[b])
    /\ \A k \in 1 .. Len(Split(Len(mem), b)) : block_mem[b][k] = Split(Len(mem), b)[k]

MemLines == {line \in Lines : IsMem(line.pc)}

ReaderTypes ==
    /\ sass \in Seq(Lines)
    /\ stage \in {"stopped", "generate", "open", "loaded"}
    /\ torn \in BOOLEAN
    /\ at \in 1 .. Len(mem) + 1 /\ (stage = "open" => at <= Len(mem))
    /\ exist \subseteq FileBlocks
    /\ block_mem \in [FileBlocks -> Seq(MemLines)]
    /\ \A b \in FileBlocks : \A k \in 1 .. Len(block_mem[b]) : block_mem[b][k].block = b

(* What has been split so far is in the files, and nothing else; before    *)
(* the first line is written, block 0's file exists only if it is the one  *)
(* that has been opened for it.                                            *)
Splitting ==
    /\ stage \in {"generate", "open"}
    /\ \A b \in FileBlocks : block_mem[b] = Split(at - 1, b)
    /\ at = 1 /\ 0 \in exist => stage = "open" /\ mem[at].block = 0

Unsplit ==
    /\ stage = "stopped"
    /\ \A b \in FileBlocks : block_mem[b] = << >>
    /\ 0 \notin exist

(* Unless the simulator was killed while it split the file, the files are  *)
(* complete, or empty, or being split.                                     *)
Untorn == (\A b \in FileBlocks : Complete(b)) \/ Unsplit \/ Splitting

(* Torn or not: a line of a block's file is one of kernel-k.mem that stood *)
(* there no later among its own, and a file has at least the lines of what *)
(* has been split in this run.                                             *)
FromTrace ==
    \A b \in FileBlocks : \A k \in 1 .. Len(block_mem[b]) :
        \E n \in 1 .. Len(mem) : /\ mem[n] = block_mem[b][k]
                                /\ pc_index(mem, n) <= pc_index(block_mem[b], k)

Counted ==
    stage \in {"generate", "open"} =>
        \A b \in FileBlocks : \A line \in MemLines :
            line.block = b =>
                Count(mem, line, at - 1) <= Count(block_mem[b], line, Len(block_mem[b]))

ReaderInv == ReaderTypes /\ (~torn => Untorn) /\ FromTrace /\ Counted

LEMMA MemType ==
    ASSUME sass \in Seq(Lines)
    PROVE  /\ mem \in Seq(MemLines) /\ Len(mem) \in Nat
           /\ \A k \in 1 .. Len(mem) : mem[k] \in MemLines /\ mem[k].block \in FileBlocks
<1> DEFINE I == {i \in 1 .. Len(sass) : IsMem(sass[i].pc)}
<1>1. \A i \in 1 .. Len(sass) : sass[i] \in Lines
  BY ElementOfSeq
<1>2. I \in SUBSET (1 .. Len(sass)) /\ \A i \in I : sass[i] \in MemLines
  BY <1>1 DEF MemLines
<1>3. mem = At(sass, I)
  BY Zenon DEF mem
<1> HIDE DEF I
<1>4. /\ Cardinality(I) \in Nat /\ Len(mem) = Cardinality(I) /\ mem \in Seq(Lines)
      /\ \A k \in 1 .. Cardinality(I) : Nth(I, k) \in I /\ mem[k] = sass[Nth(I, k)]
  BY <1>2, <1>3, AtType
<1>5. \A k \in 1 .. Len(mem) : mem[k] \in MemLines
  BY <1>2, <1>4
<1>6. mem \in Seq(MemLines)
  <2>1. mem \in [1 .. Len(mem) -> MemLines]
    <3>1. DOMAIN mem = 1 .. Len(mem) /\ mem = [k \in DOMAIN mem |-> mem[k]]
      BY <1>4, LenProperties
    <3>. QED BY <1>5, <3>1
  <2>. QED BY <1>4, <2>1
<1>7. \A k \in 1 .. Len(mem) : mem[k].block \in FileBlocks
  BY <1>5, LinePc DEF MemLines
<1>. QED BY <1>4, <1>5, <1>6, <1>7

LEMMA SplitType ==
    ASSUME sass \in Seq(Lines), NEW n \in 0 .. Len(mem), NEW b
    PROVE  /\ Split(n, b) \in Seq(MemLines) /\ Len(Split(n, b)) \in Nat
           /\ Split(0, b) = << >>
<1> DEFINE K == {k \in 1 .. n : mem[k].block = b}
<1>1. mem \in Seq(MemLines) /\ Len(mem) \in Nat
  BY MemType
<1>2. K \in SUBSET (1 .. Len(mem))
  <2>1. \A k \in 1 .. n : k \in 1 .. Len(mem)
    BY <1>1
  <2>. QED BY <2>1
<1>3. Split(n, b) = At(mem, K)
  BY Zenon DEF Split
<1>4. Split(n, b) \in Seq(MemLines)
  <2> HIDE DEF K
  <2>. QED BY <1>1, <1>2, <1>3, AtType
<1>5. Split(0, b) = << >>
  <2>1. {k \in 1 .. 0 : mem[k].block = b} = {}
    OBVIOUS
  <2>2. Split(0, b) = At(mem, {})
    BY <2>1 DEF Split
  <2>. QED BY <2>2, AtNothing
<1>. QED BY <1>4, <1>5, LenProperties

(* One more line goes to its block's file and to no other.                 *)
LEMMA SplitStep ==
    ASSUME sass \in Seq(Lines), NEW n \in Nat, n < Len(mem), NEW b
    PROVE  /\ mem[n + 1].block = b => Split(n + 1, b) = Append(Split(n, b), mem[n + 1])
           /\ mem[n + 1].block # b => Split(n + 1, b) = Split(n, b)
<1> DEFINE K == {k \in 1 .. n : mem[k].block = b}  L == {k \in 1 .. n + 1 : mem[k].block = b}
<1>1. mem \in Seq(MemLines)
  BY MemType
<1>2. Split(n, b) = At(mem, K) /\ Split(n + 1, b) = At(mem, L)
  BY DEF Split
<1>3. mem[n + 1].block = b => L = K \cup {n + 1}
  OBVIOUS
<1>4. mem[n + 1].block # b => L = K
  <2> SUFFICES ASSUME mem[n + 1].block # b PROVE L = K
    OBVIOUS
  <2>1. \A k \in 1 .. n + 1 : k # n + 1 => k \in 1 .. n
    OBVIOUS
  <2>2. \A k \in 1 .. n : k \in 1 .. n + 1
    OBVIOUS
  <2>3. \A k \in L : k # n + 1
    OBVIOUS
  <2>. QED BY <2>1, <2>2, <2>3
<1>5. K \in SUBSET (1 .. n)
  OBVIOUS
<1>6. At(mem, K \cup {n + 1}) = Append(At(mem, K), mem[n + 1])
  <2> HIDE DEF K
  <2>. QED BY <1>1, <1>5, AtExtend
<1>. QED BY <1>2, <1>3, <1>4, <1>6

LEMMA InitReaderInv == ReaderInit => ReaderInv
<1> SUFFICES ASSUME ReaderInit PROVE ReaderInv
  OBVIOUS
<1>1. sass \in Seq(Lines)
  <2>1. PICK n \in 1 .. MaxLength : sass \in [1 .. n -> Lines]
    BY DEF ReaderInit
  <2>. QED BY <2>1, TraceAssumption
<1>2. at \in 1 .. Len(mem) + 1
  BY <1>1, MemType DEF ReaderInit
<1>3. \A b \in FileBlocks : block_mem[b] = << >> /\ Len(block_mem[b]) = 0
  BY DEF ReaderInit
<1>4. block_mem \in [FileBlocks -> Seq(MemLines)]
  <2>1. << >> \in Seq(MemLines)
    BY EmptySeq
  <2>. QED BY <2>1 DEF ReaderInit
<1>5. ReaderTypes
  <2>1. torn \in BOOLEAN /\ stage = "stopped" /\ exist \subseteq FileBlocks
    BY DEF ReaderInit
  <2>2. \A b \in FileBlocks : \A k \in 1 .. Len(block_mem[b]) : block_mem[b][k].block = b
    BY <1>3
  <2>. QED BY <1>1, <1>2, <1>4, <2>1, <2>2 DEF ReaderTypes
<1>6. Untorn
  BY <1>3 DEF Untorn, Unsplit, ReaderInit
<1>7. FromTrace /\ Counted
  BY <1>3 DEF FromTrace, Counted, ReaderInit
<1>. QED BY <1>5, <1>6, <1>7 DEF ReaderInv

(* The trace never changes, and neither does what its files should hold.   *)
LEMMA TraceStays ==
    ASSUME [ReaderNext]_reader_vars
    PROVE  /\ sass' = sass /\ mem' = mem
           /\ \A n, b : Split(n, b)' = Split(n, b)
<1>1. sass' = sass
  BY DEF ReaderNext, Start, Open, Generate, Generated, Kill, reader_vars
<1>2. mem' = mem
  BY <1>1 DEF mem
<1>. QED BY <1>1, <1>2 DEF Split

LEMMA CompleteStays ==
    ASSUME ReaderTypes, [ReaderNext]_reader_vars, NEW b \in FileBlocks, Complete(b),
           \/ block_mem'[b] = block_mem[b]
           \/ \E line \in MemLines : block_mem'[b] = Append(block_mem[b], line)
    PROVE  Complete(b)'
<1>1. PICK n \in Nat : n = Len(mem)
  BY MemType DEF ReaderTypes
<1>2. PICK s : s = Split(n, b)
  OBVIOUS
<1>3. Len(mem)' = n /\ Split(Len(mem), b)' = s
  <2>1. mem' = mem
    BY TraceStays
  <2>2. Split(Len(mem), b)' = Split(Len(mem), b)
    BY <2>1 DEF Split
  <2>. QED BY <1>1, <1>2, <2>1, <2>2
<1>4. Len(s) \in Nat /\ Len(s) <= Len(block_mem[b]) /\ \A k \in 1 .. Len(s) : block_mem[b][k] = s[k]
  <2>1. n \in 0 .. Len(mem) /\ sass \in Seq(Lines)
    BY <1>1 DEF ReaderTypes
  <2>2. Len(s) \in Nat
    BY <1>1, <1>2, <2>1, SplitType
  <2>. QED BY <1>1, <1>2, <2>2 DEF Complete
<1>5. Len(s) <= Len(block_mem'[b]) /\ \A k \in 1 .. Len(s) : block_mem'[b][k] = s[k]
  <2>1. CASE block_mem'[b] = block_mem[b]
    BY <1>4, <2>1
  <2>2. ASSUME NEW line \in MemLines, block_mem'[b] = Append(block_mem[b], line)
        PROVE  Len(s) <= Len(block_mem'[b]) /\ \A k \in 1 .. Len(s) : block_mem'[b][k] = s[k]
    <3>1. PICK q \in Seq(MemLines) : q = block_mem[b]
      BY DEF ReaderTypes
    <3>2. /\ Len(Append(q, line)) = Len(q) + 1 /\ Len(q) \in Nat
          /\ \A k \in 1 .. Len(q) : Append(q, line)[k] = q[k]
      BY AppendProperties, LenProperties
    <3>. QED BY <1>4, <2>2, <3>1, <3>2
  <2>. QED BY <2>1, <2>2
<1>. QED BY <1>3, <1>5 DEF Complete

LEMMA NextTypes ==
    ASSUME ReaderTypes, [ReaderNext]_reader_vars
    PROVE  ReaderTypes'
<1>1. sass' = sass /\ mem' = mem
  BY TraceStays
<1>2. Len(mem) \in Nat /\ \A k \in 1 .. Len(mem) : mem[k] \in MemLines /\ mem[k].block \in FileBlocks
  BY MemType DEF ReaderTypes
<1>3. CASE Generate
  <2> DEFINE line == mem[at]
  <2>1. at \in 1 .. Len(mem) /\ line \in MemLines /\ line.block \in FileBlocks
    <3>1. at \in 1 .. Len(mem)
      BY <1>2, <1>3 DEF Generate, ReaderTypes
    <3>. QED BY <1>2, <3>1
  <2>2. block_mem' = [block_mem EXCEPT ![line.block] = Append(block_mem[line.block], line)]
    BY <1>3 DEF Generate, AppendLine
  <2>3. block_mem[line.block] \in Seq(MemLines)
    BY <2>1 DEF ReaderTypes
  <2>4. Append(block_mem[line.block], line) \in Seq(MemLines)
    BY <2>1, <2>3, AppendProperties
  <2> HIDE DEF line
  <2>5. block_mem' \in [FileBlocks -> Seq(MemLines)]
    BY <2>1, <2>2, <2>4 DEF ReaderTypes
  <2>6. ASSUME NEW b \in FileBlocks, NEW k \in 1 .. Len(block_mem'[b])
        PROVE  block_mem'[b][k].block = b
    <3>1. CASE b # line.block
      <4>1. block_mem'[b] = block_mem[b]
        BY <2>2, <3>1 DEF ReaderTypes
      <4>. QED BY <2>6, <4>1 DEF ReaderTypes
    <3>2. CASE b = line.block
      <4>1. PICK q \in Seq(MemLines) : q = block_mem[b]
        BY <2>3, <3>2
      <4>2. block_mem'[b] = Append(q, line)
        BY <2>1, <2>2, <3>2, <4>1 DEF ReaderTypes
      <4>3. /\ Len(Append(q, line)) = Len(q) + 1 /\ Len(q) \in Nat
            /\ \A l \in 1 .. Len(q) : Append(q, line)[l] = q[l]
            /\ Append(q, line)[Len(q) + 1] = line
        BY <2>1, AppendProperties, LenProperties
      <4>4. CASE k = Len(q) + 1
        BY <3>2, <4>2, <4>3, <4>4
      <4>5. CASE k # Len(q) + 1
        <5>1. k \in 1 .. Len(q)
          BY <2>6, <4>2, <4>3, <4>5
        <5>. QED BY <4>1, <4>2, <4>3, <5>1 DEF ReaderTypes
      <4>. QED BY <4>4, <4>5
    <3>. QED BY <3>1, <3>2
  <2>7. at' \in 1 .. Len(mem) + 1 /\ stage' = "generate" /\ torn' = torn /\ exist' = exist
    BY <1>2, <1>3, <2>1 DEF Generate
  <2>. QED BY <1>1, <2>5, <2>6, <2>7 DEF ReaderTypes
<1>4. CASE Start
  BY <1>1, <1>2, <1>4 DEF Start, ReaderTypes
<1>5. CASE Generated
  BY <1>1, <1>5 DEF Generated, ReaderTypes
<1>6. CASE Kill
  BY <1>1, <1>6 DEF Kill, ReaderTypes
<1>7. CASE UNCHANGED reader_vars
  BY <1>1, <1>7 DEF reader_vars, ReaderTypes
<1>8. CASE Open
  <2>1. at \in 1 .. Len(mem) /\ mem[at].block \in FileBlocks
    BY <1>2, <1>8 DEF Open, ReaderTypes
  <2>. QED BY <1>1, <1>2, <1>8, <2>1 DEF Open, ReaderTypes
<1>. QED BY <1>3, <1>4, <1>5, <1>6, <1>7, <1>8 DEF ReaderNext

(* Only Generate writes a line.                                            *)
LEMMA FilesStay ==
    ASSUME [ReaderNext]_reader_vars, ~Generate
    PROVE  block_mem' = block_mem
BY DEF ReaderNext, Start, Open, Generated, Kill, reader_vars

LEMMA FileGrows ==
    ASSUME ReaderTypes, Generate
    PROVE  /\ at \in 1 .. Len(mem) /\ mem[at] \in MemLines /\ mem[at].block \in FileBlocks
           /\ \A b \in FileBlocks :
                 block_mem'[b] = IF b = mem[at].block THEN Append(block_mem[b], mem[at])
                                                      ELSE block_mem[b]
<1>1. Len(mem) \in Nat /\ \A k \in 1 .. Len(mem) : mem[k] \in MemLines /\ mem[k].block \in FileBlocks
  BY MemType DEF ReaderTypes
<1>2. at \in 1 .. Len(mem)
  BY <1>1 DEF Generate, ReaderTypes
<1>. QED BY <1>1, <1>2 DEF Generate, AppendLine, ReaderTypes

LEMMA NextUntorn ==
    ASSUME ReaderInv, [ReaderNext]_reader_vars, ~torn'
    PROVE  Untorn'
<1>1. ReaderTypes
  BY DEF ReaderInv
<1>2. ~torn /\ Untorn
  BY DEF ReaderNext, Start, Open, Generate, Generated, Kill, reader_vars, ReaderInv, ReaderTypes
<1>3. /\ Len(mem) \in Nat /\ at \in 1 .. Len(mem) + 1
      /\ \A k \in 1 .. Len(mem) : mem[k] \in MemLines /\ mem[k].block \in FileBlocks
  BY <1>1, MemType DEF ReaderTypes
<1>4. \A b \in FileBlocks : Split(0, b) = << >>
  BY <1>1, <1>3, SplitType DEF ReaderTypes
<1>5. (\A n, b : Split(n, b)' = Split(n, b)) /\ mem' = mem
  BY TraceStays
<1>6. \A b : Split(at - 1, b)' = Split(at' - 1, b)
  BY <1>5 DEF Split
<1>7. CASE \A b \in FileBlocks : Complete(b)
  <2>1. \A b \in FileBlocks : \/ block_mem'[b] = block_mem[b]
                              \/ \E line \in MemLines : block_mem'[b] = Append(block_mem[b], line)
    <3>1. CASE Generate
      BY <1>1, <3>1, FileGrows
    <3>. QED BY <3>1, FilesStay
  <2>2. \A b \in FileBlocks : Complete(b)'
    BY <1>1, <1>7, <2>1, CompleteStays
  <2>. QED BY <2>2 DEF Untorn
<1>8. CASE Unsplit
  <2>1. CASE Start
    <3>1. stage' = "generate" /\ at' = 1 /\ block_mem' = block_mem /\ exist' = exist
      BY <1>8, <2>1 DEF Start, Unsplit
    <3>2. at' - 1 = 0
      BY <3>1
    <3>3. \A b \in FileBlocks : block_mem'[b] = Split(at' - 1, b)
      BY <1>4, <1>5, <1>8, <3>1, <3>2 DEF Unsplit
    <3>. QED BY <1>8, <1>6, <3>1, <3>3 DEF Untorn, Splitting, Unsplit
  <2>2. CASE UNCHANGED reader_vars
    BY <1>8, <2>2 DEF reader_vars, Untorn, Unsplit
  <2>. QED BY <1>8, <2>1, <2>2 DEF ReaderNext, Open, Generate, Generated, Kill, Unsplit
<1>9. CASE Splitting
  <2>1. CASE Open
    <3>1. /\ stage' = "open" /\ at' = at /\ block_mem' = block_mem
          /\ exist' = exist \union {mem[at].block} /\ stage = "generate"
      BY <2>1 DEF Open
    <3>2. \A b \in FileBlocks : block_mem'[b] = Split(at' - 1, b)
      BY <1>5, <1>9, <3>1 DEF Splitting
    <3>3. at' = 1 /\ 0 \in exist' => mem'[at'].block = 0
      BY <1>5, <1>9, <3>1 DEF Splitting
    <3>. QED BY <1>6, <3>1, <3>2, <3>3 DEF Untorn, Splitting
  <2>2. CASE Generate
    <3>1. PICK n \in Nat : n = at - 1
      BY <1>3
    <3>2. n < Len(mem) /\ at = n + 1 /\ at' - 1 = n + 1 /\ at' # 1
      BY <1>1, <1>3, <2>2, <3>1, FileGrows DEF Generate
    <3>3. ASSUME NEW b \in FileBlocks PROVE block_mem'[b] = Split(n + 1, b)
      <4>1. block_mem[b] = Split(n, b)
        BY <1>9, <3>1 DEF Splitting
      <4>2. block_mem'[b] = IF b = mem[at].block THEN Append(block_mem[b], mem[at])
                                                 ELSE block_mem[b]
        BY <1>1, <2>2, FileGrows
      <4>3. /\ mem[n + 1].block = b => Split(n + 1, b) = Append(Split(n, b), mem[n + 1])
            /\ mem[n + 1].block # b => Split(n + 1, b) = Split(n, b)
        BY <1>1, <3>2, SplitStep DEF ReaderTypes
      <4>. QED BY <3>2, <4>1, <4>2, <4>3
    <3>4. \A b \in FileBlocks : block_mem'[b] = Split(at' - 1, b)
      BY <1>5, <3>2, <3>3
    <3>5. stage' = "generate"
      BY <2>2 DEF Generate
    <3>. QED BY <1>6, <3>2, <3>4, <3>5 DEF Untorn, Splitting
  <2>3. CASE Generated \/ Kill
    <3>1. block_mem' = block_mem /\ exist' = exist
      BY <2>3 DEF Generated, Kill
    <3>2. CASE stage = "generate" /\ at = Len(mem) + 1
      <4>1. at - 1 = Len(mem)
        BY <1>3, <3>2
      <4>2. ASSUME NEW b \in FileBlocks PROVE Complete(b)
        <5>1. block_mem[b] = Split(Len(mem), b)
          BY <1>9, <4>1 DEF Splitting
        <5>2. Len(Split(Len(mem), b)) \in Nat
          BY <1>1, <1>3, SplitType DEF ReaderTypes
        <5>. QED BY <5>1, <5>2 DEF Complete
      <4>3. \A b \in FileBlocks : Complete(b)'
        BY <1>1, <3>1, <4>2, CompleteStays
      <4>. QED BY <4>3 DEF Untorn
    <3>3. CASE ~(stage = "generate" /\ at = Len(mem) + 1)
      <4>1. Kill /\ stage' = "stopped" /\ ~Halfway
        <5>1. Kill
          BY <1>3, <2>3, <3>3 DEF Generated
        <5>2. stage' = "stopped" /\ torn' = (torn \/ Halfway)
          BY <5>1, Zenon DEF Kill
        <5>3. ~Halfway
          BY <5>2, Zenon
        <5>. QED BY <5>1, <5>2, <5>3
      <4>2. at = 1 /\ (stage = "open" => mem[at].block # 0)
        <5>1. CASE stage = "generate"
          BY <1>3, <3>3, <4>1, <5>1 DEF Halfway
        <5>2. CASE stage = "open"
          BY <1>3, <4>1, <5>2 DEF Halfway
        <5>. QED BY <1>9, <5>1, <5>2 DEF Splitting
      <4>3. 0 \notin exist'
        BY <1>9, <3>1, <4>2 DEF Splitting
      <4>4. at - 1 = 0
        BY <4>2
      <4>5. \A b \in FileBlocks : block_mem'[b] = << >>
        BY <1>4, <1>9, <3>1, <4>4 DEF Splitting
      <4>. QED BY <4>1, <4>3, <4>5 DEF Untorn, Unsplit
    <3>. QED BY <3>2, <3>3
  <2>4. CASE UNCHANGED reader_vars
    <3>1. stage' = stage /\ at' = at /\ block_mem' = block_mem /\ exist' = exist
      BY <2>4 DEF reader_vars
    <3>2. \A b \in FileBlocks : block_mem'[b] = Split(at' - 1, b)
      BY <1>5, <1>9, <3>1 DEF Splitting
    <3>. QED BY <1>5, <1>9, <1>6, <3>1, <3>2 DEF Untorn, Splitting
  <2>. QED BY <1>9, <2>1, <2>2, <2>3, <2>4 DEF ReaderNext, Start, Splitting
<1>. QED BY <1>2, <1>7, <1>8, <1>9 DEF Untorn

LEMMA Appended ==
    \A q \in Seq(MemLines) : \A line \in MemLines :
        /\ Len(Append(q, line)) = Len(q) + 1
        /\ Append(q, line)[Len(q) + 1] = line
        /\ Agree(q, Append(q, line), Len(q))
<1> TAKE q \in Seq(MemLines)
<1> TAKE line \in MemLines
<1>1. Len(q) \in Nat
  BY LenProperties
<1>. QED BY <1>1, AppendProperties DEF Agree

(* The line that is written stood in kernel-k.mem after no more of its own *)
(* than the file has of them.                                              *)
LEMMA NextFromTrace ==
    ASSUME ReaderInv, [ReaderNext]_reader_vars
    PROVE  FromTrace'
<1>1. ReaderTypes /\ FromTrace /\ Counted
  BY DEF ReaderInv
<1>2. mem' = mem
  BY TraceStays
<1>3. CASE Generate
  <2> DEFINE line == mem[at]
  <2>1. at \in 1 .. Len(mem) /\ line \in MemLines /\ line.block \in FileBlocks
    BY <1>1, <1>3, FileGrows
  <2> HIDE DEF line
  <2> SUFFICES ASSUME NEW b \in FileBlocks, NEW k \in 1 .. Len(block_mem'[b])
               PROVE  \E n \in 1 .. Len(mem) : /\ mem[n] = block_mem'[b][k]
                                              /\ pc_index(mem, n) <= pc_index(block_mem'[b], k)
    BY <1>2 DEF FromTrace
  <2>2. PICK q \in Seq(MemLines) : q = block_mem[b]
    BY <1>1 DEF ReaderTypes
  <2>3. Len(q) \in Nat
    BY <2>2, LenProperties
  <2>4. CASE b # line.block
    <3>1. block_mem'[b] = block_mem[b]
      BY <1>1, <1>3, <2>4, FileGrows DEF line
    <3>. QED BY <1>1, <3>1 DEF FromTrace
  <2>5. CASE b = line.block
    <3>1. PICK t : t = Append(q, line) /\ t = block_mem'[b]
      BY <1>1, <1>3, <2>2, <2>5, FileGrows DEF line
    <3>2. Len(t) = Len(q) + 1 /\ t[Len(q) + 1] = line /\ Agree(q, t, Len(q))
      BY ONLY <2>1, <3>1, Appended, Zenon
    <3>3. CASE k # Len(q) + 1
      <4>1. k \in 1 .. Len(q) /\ k \in Nat \ {0} /\ q[k] = t[k]
        BY <2>3, <3>1, <3>2, <3>3 DEF Agree
      <4>2. \A l \in 1 .. k : q[l] = t[l]
        BY <2>3, <3>2, <4>1 DEF Agree
      <4>3. pc_index(q, k) = pc_index(t, k)
        BY <4>1, <4>2, IndexOfPrefix
      <4>4. PICK n \in 1 .. Len(mem) : mem[n] = q[k] /\ pc_index(mem, n) <= pc_index(q, k)
        BY <1>1, <2>2, <4>1 DEF FromTrace
      <4>. QED BY <3>1, <3>2, <4>1, <4>3, <4>4
    <3>4. CASE k = Len(q) + 1
      <4>1. k - 1 = Len(q) /\ t[k] = line
        BY <2>3, <3>2, <3>4
      <4>2. pc_index(t, k) = Count(t, line, Len(q))
        BY <4>1, IndexIsCount
      <4>3. Count(t, line, Len(q)) = Count(q, line, Len(q))
        <5>1. PICK l : l \in Nat /\ l = Len(q) /\ Agree(q, t, l)
          BY <2>3, <3>2
        <5>2. Count(t, line, l) = Count(q, line, l)
          BY ONLY <5>1, CountStep
        <5>. QED BY ONLY <5>1, <5>2
      <4>4. pc_index(mem, at) = Count(mem, line, at - 1)
        BY IndexIsCount DEF line
      <4>5. Count(mem, line, at - 1) <= Count(q, line, Len(q))
        BY <1>1, <1>3, <2>1, <2>2, <2>5 DEF Counted, Generate
      <4>. QED BY <2>1, <3>1, <4>1, <4>2, <4>3, <4>4, <4>5 DEF line
    <3>. QED BY <3>3, <3>4
  <2>. QED BY <2>4, <2>5
<1>4. CASE ~Generate
  BY <1>1, <1>2, <1>4, FilesStay DEF FromTrace
<1>. QED BY <1>3, <1>4

LEMMA NextCounted ==
    ASSUME ReaderInv, [ReaderNext]_reader_vars
    PROVE  Counted'
<1>1. ReaderTypes /\ Counted
  BY DEF ReaderInv
<1>2. mem' = mem
  BY TraceStays
<1>3. CASE Generate
  <2> SUFFICES ASSUME NEW b \in FileBlocks, NEW line \in MemLines, line.block = b
               PROVE  Count(mem, line, at' - 1)
                         <= Count(block_mem'[b], line, Len(block_mem'[b]))
    BY <1>2 DEF Counted
  <2>1. PICK q \in Seq(MemLines) : q = block_mem[b]
    BY <1>1 DEF ReaderTypes
  <2>2. Len(q) \in Nat
    BY <2>1, LenProperties
  <2>3. PICK n \in Nat : n = at - 1 /\ at = n + 1 /\ at' - 1 = n + 1
    <3>1. at \in 1 .. Len(mem) /\ Len(mem) \in Nat
      BY <1>1, <1>3, FileGrows, MemType DEF ReaderTypes
    <3>. QED BY <1>3, <3>1 DEF Generate
  <2>4. Count(mem, line, n) <= Count(q, line, Len(q))
    BY <1>1, <1>3, <2>1, <2>3 DEF Counted, Generate
  <2>5. /\ Same(mem[at], line) => Count(mem, line, n + 1) = Count(mem, line, n) + 1
        /\ ~Same(mem[at], line) => Count(mem, line, n + 1) = Count(mem, line, n)
    BY <2>3, CountStep DEF Agree
  <2>6. Count(mem, line, n) \in Nat /\ Count(q, line, Len(q)) \in Nat
    BY <2>2, CountType
  <2>7. CASE b # mem[at].block
    <3>1. block_mem'[b] = q
      BY <1>1, <1>3, <2>1, <2>7, FileGrows
    <3>2. ~Same(mem[at], line)
      BY <2>7 DEF Same
    <3>. QED BY <2>3, <2>4, <2>5, <2>6, <3>1, <3>2
  <2>8. CASE b = mem[at].block
    <3>1. PICK t : t = Append(q, mem[at]) /\ t = block_mem'[b]
      BY <1>1, <1>3, <2>1, <2>8, FileGrows
    <3>2. mem[at] \in MemLines
      BY <1>1, <1>3, FileGrows
    <3>3. Len(t) = Len(q) + 1 /\ t[Len(q) + 1] = mem[at] /\ Agree(q, t, Len(q))
      BY ONLY <3>1, <3>2, Appended, Zenon
    <3>4. /\ Same(mem[at], line) => Count(t, line, Len(q) + 1) = Count(q, line, Len(q)) + 1
          /\ ~Same(mem[at], line) => Count(t, line, Len(q) + 1) = Count(q, line, Len(q))
      BY <2>2, <3>3, CountStep
    <3>. QED BY <2>3, <2>4, <2>5, <2>6, <3>1, <3>3, <3>4
  <2>. QED BY <2>7, <2>8
<1>4. CASE Start
  <2>1. at' - 1 = 0 /\ block_mem' = block_mem
    BY <1>4 DEF Start
  <2>2. \A b \in FileBlocks : \A line \in MemLines :
           Count(mem, line, 0) <= Count(block_mem[b], line, Len(block_mem[b]))
    <3> TAKE b \in FileBlocks
    <3> TAKE line \in MemLines
    <3>1. block_mem[b] \in Seq(MemLines)
      BY <1>1 DEF ReaderTypes
    <3>2. Len(block_mem[b]) \in Nat
      BY <3>1, LenProperties
    <3>3. Count(mem, line, 0) = 0 /\ Count(block_mem[b], line, Len(block_mem[b])) \in Nat
      BY <3>2, CountType
    <3>. QED BY <3>3
  <2>. QED BY <1>2, <2>1, <2>2 DEF Counted
<1>5. CASE Open \/ UNCHANGED reader_vars
  <2>1. /\ block_mem' = block_mem /\ at' = at
        /\ stage' \in {"generate", "open"} => stage \in {"generate", "open"}
    BY <1>5 DEF Open, reader_vars
  <2>. QED BY <1>1, <1>2, <2>1 DEF Counted
<1>6. CASE Generated \/ Kill
  BY <1>6 DEF Generated, Kill, Counted
<1>. QED BY <1>3, <1>4, <1>5, <1>6 DEF ReaderNext

LEMMA NextReaderInv == ReaderInv /\ [ReaderNext]_reader_vars => ReaderInv'
BY NextTypes, NextUntorn, NextFromTrace, NextCounted DEF ReaderInv

----
(* What get_mem_inst finds.                                                *)

(* The positions in its block's file whose warp, pc and pc_index are those *)
(* of the i-th instruction.                                                *)
Found(i) ==
    LET q == block_mem[sass[i].block]
    IN  {k \in 1 .. Len(q) : /\ q[k].warp = sass[i].warp /\ q[k].pc = sass[i].pc
                             /\ pc_index(q, k) = pc_index(sass, i)}

LEMMA FoundIs ==
    ASSUME ReaderTypes, NEW i \in 1 .. Len(sass)
    PROVE  get_mem_inst(i) = {read_mem(sass[i].block)[k] :
                                k \in {k \in Found(i) : \A l \in Found(i) : k <= l}}
<1> DEFINE b == sass[i].block  read == read_mem(b)  q == block_mem[b]
           found == {k \in 1 .. Len(read) : /\ read[k].warp = sass[i].warp
                                            /\ read[k].pc = sass[i].pc
                                            /\ read[k].pc_index = pc_index(sass, i)}
<1>1. Len(q) \in Nat
  <2>1. sass[i] \in Lines
    BY ElementOfSeq DEF ReaderTypes
  <2>2. q \in Seq(MemLines)
    BY <2>1, LinePc DEF ReaderTypes
  <2>. QED BY <2>2, LenProperties
<1>2. read = [k \in 1 .. Len(q) |->
                 [warp |-> q[k].warp, pc |-> q[k].pc, pc_index |-> pc_index(q, k),
                  coalesced |-> Coalesced(q[k].addrs)]]
  BY DEF read_mem
<1> HIDE DEF read, b, q
<1>3. Len(read) = Len(q)
  BY <1>1, <1>2
<1>4. \A k \in 1 .. Len(q) : /\ read[k].warp = q[k].warp /\ read[k].pc = q[k].pc
                             /\ read[k].pc_index = pc_index(q, k)
  BY <1>2
<1>5. found = {k \in 1 .. Len(q) : /\ q[k].warp = sass[i].warp /\ q[k].pc = sass[i].pc
                                   /\ pc_index(q, k) = pc_index(sass, i)}
  BY <1>3, <1>4
<1>6. found = Found(i)
  BY <1>5, Zenon DEF Found, q, b
<1>7. get_mem_inst(i) = {read[k] : k \in {k \in found : \A l \in found : k <= l}}
  BY Zenon DEF get_mem_inst, read, b
<1> HIDE DEF found
<1>. QED BY <1>6, <1>7, Zenon DEF read, b

(* An instruction that accesses no memory has no line.                     *)
LEMMA NothingFound ==
    ASSUME ReaderTypes, NEW i \in 1 .. Len(sass), ~IsMem(sass[i].pc)
    PROVE  get_mem_inst(i) = {}
<1>1. sass[i] \in Lines /\ sass[i].block \in FileBlocks
  BY ElementOfSeq, LinePc DEF ReaderTypes
<1>2. PICK q \in Seq(MemLines) : q = block_mem[sass[i].block]
  BY <1>1 DEF ReaderTypes
<1>3. \A k \in 1 .. Len(q) : IsMem(q[k].pc)
  <2>1. \A k \in 1 .. Len(q) : q[k] \in MemLines
    BY ElementOfSeq
  <2>. QED BY <2>1 DEF MemLines
<1>4. \A k \in 1 .. Len(q) : q[k].pc # sass[i].pc
  BY <1>3
<1>5. Found(i) = {}
  BY <1>2, <1>4 DEF Found
<1>. QED BY <1>5, FoundIs

(* One that accesses memory finds its own line in a complete file.         *)
LEMMA OwnLine ==
    ASSUME ReaderTypes, NEW i \in 1 .. Len(sass), IsMem(sass[i].pc), Complete(sass[i].block)
    PROVE  \E k \in Nat : /\ k \in 1 .. Len(block_mem[sass[i].block])
                          /\ block_mem[sass[i].block][k] = sass[i]
                          /\ pc_index(block_mem[sass[i].block], k) = pc_index(sass, i)
<1> DEFINE b == sass[i].block
           M == {j \in 1 .. Len(sass) : IsMem(sass[j].pc)}  m == Rank(M, i)
           K == {k \in 1 .. Len(mem) : mem[k].block = b}  k0 == Rank(K, m)
           all == Split(Len(mem), b)
<1>1. sass \in Seq(Lines) /\ Len(sass) \in Nat
  BY LenProperties DEF ReaderTypes
<1>2. mem = At(sass, M) /\ all = At(mem, K)
  BY Zenon DEF mem, Split
<1>3. mem \in Seq(MemLines) /\ Len(mem) \in Nat
  BY <1>1, MemType
<1>4. M \in SUBSET (1 .. Len(sass)) /\ i \in M
  OBVIOUS
<1>5. \A j \in 1 .. i - 1 : Same(sass[j], sass[i]) => j \in M
  <2>1. \A j \in 1 .. i - 1 : j \in 1 .. Len(sass)
    BY <1>1
  <2>. QED BY <2>1 DEF Same
<1>6. m \in 1 .. Len(mem) /\ mem[m] = sass[i] /\ pc_index(mem, m) = pc_index(sass, i)
  <2> HIDE DEF M
  <2>1. Rank(M, i) \in 1 .. Len(At(sass, M)) /\ At(sass, M)[Rank(M, i)] = sass[i]
    BY <1>1, <1>4, AtRank
  <2>2. pc_index(At(sass, M), Rank(M, i)) = pc_index(sass, i)
    BY <1>1, <1>4, <1>5, IndexKept
  <2>. QED BY <1>2, <2>1, <2>2
<1> HIDE DEF M, m
<1>7. K \in SUBSET (1 .. Len(mem)) /\ m \in K
  BY <1>6
<1>8. \A j \in 1 .. m - 1 : Same(mem[j], mem[m]) => j \in K
  <2>1. \A j \in 1 .. m - 1 : j \in 1 .. Len(mem)
    BY <1>3, <1>6
  <2>. QED BY <1>6, <2>1 DEF Same
<1>9. k0 \in 1 .. Len(all) /\ all[k0] = mem[m] /\ pc_index(all, k0) = pc_index(mem, m)
  <2> HIDE DEF K
  <2>1. Rank(K, m) \in 1 .. Len(At(mem, K)) /\ At(mem, K)[Rank(K, m)] = mem[m]
    BY <1>3, <1>7, AtRank
  <2>2. pc_index(At(mem, K), Rank(K, m)) = pc_index(mem, m)
    BY <1>3, <1>7, <1>8, IndexKept
  <2>. QED BY <1>2, <2>1, <2>2
<1>10. PICK q \in Seq(MemLines) : q = block_mem[b]
  <2>1. sass[i] \in Lines
    BY <1>1, ElementOfSeq
  <2>. QED BY <2>1, LinePc DEF ReaderTypes
<1>11. Len(q) \in Nat /\ Len(all) \in Nat
  BY <1>1, <1>3, SplitType, LenProperties
<1>12. Len(all) <= Len(q) /\ \A k \in 1 .. Len(all) : q[k] = all[k]
  BY <1>10 DEF Complete
<1> HIDE DEF all, k0, K
<1>13. k0 \in Nat \ {0} /\ k0 \in 1 .. Len(q) /\ \A k \in 1 .. k0 : q[k] = all[k]
  BY <1>9, <1>11, <1>12
<1>14. pc_index(q, k0) = pc_index(all, k0)
  BY <1>13, IndexOfPrefix
<1>15. q[k0] = sass[i] /\ pc_index(q, k0) = pc_index(sass, i)
  BY <1>6, <1>9, <1>12, <1>14
<1>. QED BY <1>10, <1>13, <1>15 DEF b

(* What read_mem makes of the lines of a file.                             *)
LEMMA ReadLine ==
    ASSUME NEW b, NEW k \in 1 .. Len(block_mem[b])
    PROVE  read_mem(b)[k].coalesced = Coalesced(block_mem[b][k].addrs)
BY DEF read_mem

LEMMA LineCoalesced ==
    ASSUME ReaderTypes, NEW i \in 1 .. Len(sass)
    PROVE  /\ Range(Coalesced(sass[i].addrs)) = {SectorOf(a) : a \in Range(sass[i].addrs)}
           /\ IsInjective(Coalesced(sass[i].addrs))
<1>1. sass[i] \in Lines
  BY ElementOfSeq DEF ReaderTypes
<1>2. sass[i].addrs \in Seq(Nat)
  <2>1. << >> \in Seq(Nat)
    BY EmptySeq
  <2>2. \A list \in AddressLists : list \in Seq(Nat)
    BY TraceAssumption
  <2>3. \A line \in Lines : line.addrs \in AddressLists \/ line.addrs = << >>
    BY DEF Lines
  <2>. QED BY <1>1, <2>1, <2>2, <2>3
<1>3. PICK addrs \in Seq(Nat) : addrs = sass[i].addrs
  BY <1>2
<1>. QED BY <1>3, CoalescedOnce

LEMMA AddressesFound ==
    ASSUME ReaderTypes, NEW i \in 1 .. Len(sass), IsMem(sass[i].pc), Complete(sass[i].block)
    PROVE  \E m \in get_mem_inst(i) : AddressesOf(i, i, m)
<1> DEFINE b == sass[i].block
<1>1. sass[i] \in Lines /\ b \in FileBlocks
  BY ElementOfSeq, LinePc DEF ReaderTypes
<1>2. PICK q \in Seq(MemLines) : q = block_mem[b]
  BY <1>1 DEF ReaderTypes
<1>3. PICK k \in Nat : /\ k \in 1 .. Len(q) /\ q[k] = sass[i]
                       /\ pc_index(q, k) = pc_index(sass, i)
  BY <1>2, OwnLine
<1>4. Len(q) \in Nat /\ \A l \in 1 .. Len(q) : q[l].block = b
  BY <1>1, <1>2, LenProperties DEF ReaderTypes
<1>5. k \in Found(i)
  BY <1>2, <1>3 DEF Found
<1>6. \A l \in Found(i) : l = k
  <2> SUFFICES ASSUME NEW l \in Found(i), l # k PROVE FALSE
    OBVIOUS
  <2>1. /\ l \in 1 .. Len(q) /\ q[l].warp = sass[i].warp /\ q[l].pc = sass[i].pc
        /\ pc_index(q, l) = pc_index(sass, i)
    BY <1>2 DEF Found
  <2>2. Same(q[l], q[k]) /\ Same(q[k], q[l])
    BY <1>3, <1>4, <2>1 DEF Same
  <2>3. l \in Nat \ {0} /\ k \in Nat \ {0}
    BY <1>3, <1>4, <2>1
  <2>4. pc_index(q, l) \in Nat /\ pc_index(q, k) \in Nat
    BY <2>3, IndexType
  <2>5. l < k => pc_index(q, l) < pc_index(q, k)
    BY <2>2, <2>3, IndexGrows
  <2>6. k < l => pc_index(q, k) < pc_index(q, l)
    BY <2>2, <2>3, IndexGrows
  <2>. QED BY <1>3, <2>1, <2>3, <2>4, <2>5, <2>6
<1>7. k \in {l \in Found(i) : \A j \in Found(i) : l <= j}
  BY <1>3, <1>5, <1>6
<1>8. read_mem(b)[k] \in get_mem_inst(i)
  BY <1>7, FoundIs
<1>9. read_mem(b)[k].coalesced = Coalesced(sass[i].addrs)
  BY <1>2, <1>3, ReadLine
<1>10. /\ Range(Coalesced(sass[i].addrs)) = {SectorOf(a) : a \in Range(sass[i].addrs)}
       /\ IsInjective(Coalesced(sass[i].addrs))
  BY LineCoalesced
<1>. QED BY <1>8, <1>9, <1>10 DEF AddressesOf

(* What an instruction finds is an earlier visit's of its own warp, or its *)
(* own: the line stood no later in kernel-k.mem than its index says.       *)
LEMMA AddressesEarlier ==
    ASSUME ReaderTypes, FromTrace, NEW i \in 1 .. Len(sass), NEW m \in get_mem_inst(i)
    PROVE  \E j \in 1 .. i : AddressesOf(j, i, m)
<1> DEFINE b == sass[i].block  M == {j \in 1 .. Len(sass) : IsMem(sass[j].pc)}
<1>1. sass \in Seq(Lines) /\ Len(sass) \in Nat /\ sass[i] \in Lines /\ b \in FileBlocks
  BY LenProperties, ElementOfSeq, LinePc DEF ReaderTypes
<1>2. PICK q \in Seq(MemLines) : q = block_mem[b]
  BY <1>1 DEF ReaderTypes
<1>3. PICK k \in Found(i) : m = read_mem(b)[k]
  BY FoundIs
<1>4. /\ k \in 1 .. Len(q) /\ q[k].warp = sass[i].warp /\ q[k].pc = sass[i].pc
      /\ pc_index(q, k) = pc_index(sass, i)
  BY <1>2, <1>3 DEF Found
<1>5. q[k].block = b
  BY <1>1, <1>2, <1>4 DEF ReaderTypes
<1>6. PICK n \in 1 .. Len(mem) : mem[n] = q[k] /\ pc_index(mem, n) <= pc_index(q, k)
  BY <1>1, <1>2, <1>4 DEF FromTrace
<1>7. mem = At(sass, M) /\ M \in SUBSET (1 .. Len(sass))
  BY Zenon DEF mem
<1> HIDE DEF M
<1>8. PICK j \in M : Rank(M, j) = n /\ sass[j] = mem[n]
  <2>1. /\ IsFiniteSet(M) /\ M \in SUBSET Nat /\ Len(At(sass, M)) = Cardinality(M)
        /\ \A l \in 1 .. Cardinality(M) : Nth(M, l) \in M /\ At(sass, M)[l] = sass[Nth(M, l)]
    BY <1>1, <1>7, AtType
  <2>2. n \in 1 .. Cardinality(M)
    BY <1>6, <1>7, <2>1
  <2>3. Nth(M, n) \in M /\ Rank(M, Nth(M, n)) = n
    BY <2>1, <2>2, RankOnto
  <2>. QED BY <1>7, <2>1, <2>2, <2>3
<1>9. j \in 1 .. Len(sass) /\ Same(sass[j], sass[i])
  BY <1>4, <1>5, <1>6, <1>7, <1>8 DEF Same
<1>10. pc_index(mem, n) = pc_index(sass, j)
  <2>1. \A l \in 1 .. j - 1 : Same(sass[l], sass[j]) => l \in M
    <3> TAKE l \in 1 .. j - 1
    <3>1. l \in 1 .. Len(sass)
      BY <1>1, <1>9
    <3>2. IsMem(sass[j].pc)
      BY <1>8 DEF M
    <3>. QED BY <3>1, <3>2 DEF Same, M
  <2>2. pc_index(At(sass, M), Rank(M, j)) = pc_index(sass, j)
    BY <1>1, <1>7, <1>8, <2>1, IndexKept
  <2>. QED BY <1>7, <1>8, <2>2
<1>11. j \in 1 .. i
  <2>1. i \in Nat \ {0} /\ j \in Nat \ {0}
    BY <1>1, <1>9
  <2>2. pc_index(sass, i) \in Nat /\ pc_index(sass, j) \in Nat
    BY <2>1, IndexType
  <2>3. Same(sass[i], sass[j])
    BY <1>9 DEF Same
  <2>4. i < j => pc_index(sass, i) < pc_index(sass, j)
    BY <2>1, <2>3, IndexGrows
  <2>. QED BY <1>4, <1>6, <1>10, <2>1, <2>2, <2>4
<1>12. m.coalesced = Coalesced(sass[j].addrs)
  BY <1>2, <1>3, <1>4, <1>6, <1>8, ReadLine
<1>13. /\ Range(Coalesced(sass[j].addrs)) = {SectorOf(a) : a \in Range(sass[j].addrs)}
       /\ IsInjective(Coalesced(sass[j].addrs))
  BY <1>9, LineCoalesced
<1>14. AddressesOf(j, i, m)
  BY <1>9, <1>12, <1>13 DEF AddressesOf, Same
<1>. QED BY <1>11, <1>14

LEMMA Addresses == ReaderInv => AddressesMatch
<1> SUFFICES ASSUME ReaderInv, stage = "loaded", NEW i \in 1 .. Len(sass)
             PROVE  /\ ~IsMem(sass[i].pc) => get_mem_inst(i) = {}
                    /\ ~torn /\ IsMem(sass[i].pc)
                          => \E m \in get_mem_inst(i) : AddressesOf(i, i, m)
                    /\ \A m \in get_mem_inst(i) : \E j \in 1 .. i : AddressesOf(j, i, m)
  BY Zenon DEF AddressesMatch
<1>1. ReaderTypes /\ FromTrace /\ (~torn => Untorn)
  BY DEF ReaderInv
<1>2. ~torn => Complete(sass[i].block)
  <2> HAVE ~torn
  <2>1. \A b \in FileBlocks : Complete(b)
    BY <1>1 DEF Untorn, Unsplit, Splitting
  <2>2. sass[i] \in Lines
    BY <1>1, ElementOfSeq DEF ReaderTypes
  <2>. QED BY <2>1, <2>2, LinePc
<1>3. ~IsMem(sass[i].pc) => get_mem_inst(i) = {}
  BY <1>1, NothingFound
<1>4. ~torn /\ IsMem(sass[i].pc) => \E m \in get_mem_inst(i) : AddressesOf(i, i, m)
  BY <1>1, <1>2, AddressesFound
<1>5. \A m \in get_mem_inst(i) : \E j \in 1 .. i : AddressesOf(j, i, m)
  BY <1>1, AddressesEarlier
<1>. QED BY <1>3, <1>4, <1>5

----
(* The theorems about the trace files.                                     *)

LEMMA ReaderInvAlways == ReaderSpec => []ReaderInv
<1>. QED BY InitReaderInv, NextReaderInv, PTL DEF ReaderSpec

(* Every memory instruction of every warp finds its own addresses, merged  *)
(* into sectors that each come once, and no other instruction finds any:   *)
(* read_sass and read_mem count the visits to a pc alike, for any trace    *)
(* and any number of runs of the simulator, killed or not.  If one was     *)
(* killed while gen_block_mem_trace split the file, an instruction may     *)
(* find none or those of an earlier visit to its pc by its own warp, still *)
(* never those of a later visit or of another warp.                        *)
THEOREM AddressesCorrect == ReaderSpec => []AddressesMatch
<1>. QED BY ReaderInvAlways, Addresses, PTL

(* For any instructions and registers, get_inst_dependency makes every     *)
(* instruction wait, directly or through others, for all that write what   *)
(* it names, EXIT and BAR for all that write anything, and none for a      *)
(* later one.  It makes one wait for itself exactly if it is a BAR (or     *)
(* EXIT) with a register that it is said to write.                         *)
THEOREM DependenciesCorrect == ReaderSpec => []DependenciesSuffice
<1>1. ReaderInv => DependenciesSuffice
  BY Dependencies DEF ReaderInv, ReaderTypes
<1>. QED BY <1>1, ReaderInvAlways, PTL

----
(* The blocks of a kernel on the SMs.                                      *)

TypeOK ==
    /\ info \in Kernels
    /\ phase \in {"spawn", "blocks", "schedule", "done"}
    /\ spawning \in 0 .. info.m_grid_size
    /\ index \in SMs
    /\ sm \in SMs
    /\ sm_active \in BOOLEAN
    /\ block_pointer \in 0 .. info.m_grid_size
    /\ block_vec \in [SMs -> SUBSET Int]
    /\ dispatched \in Seq(Int \X SMs)

(* Every SM has room for the blocks it holds.                              *)
Room ==
    \A s \in SMs :
        /\ IsFiniteSet(block_vec[s])
        /\ Cardinality(block_vec[s]) <= max_block_per_sm

(* The blocks are handed out in their order.                               *)
InOrder ==
    /\ Len(dispatched) = block_pointer
    /\ \A i \in 1 .. Len(dispatched) : dispatched[i][1] = i - 1

(* A resident block is on the SM it was handed to.                         *)
HeldWhereGiven ==
    \A s \in SMs : \A b \in block_vec[s] :
        b \in 0 .. block_pointer - 1 /\ dispatched[b + 1][2] = s

NoneDropped ==
    \A i \in 1 .. Len(dispatched) :
        dispatched[i][1] \in with_warps =>
            dispatched[i][1] \in block_vec[dispatched[i][2]]

(* first_spawn_block skips no block: once it finds the SM it is at full,   *)
(* it stays there, and hands out nothing more.                             *)
NoneSkipped ==
    phase = "spawn" =>
        /\ block_pointer <= spawning
        /\ block_pointer < spawning => Cardinality(block_vec[index]) >= max_block_per_sm

Inv ==
    TypeOK /\ Room /\ InOrder /\ HeldWhereGiven /\ NoneDropped /\ NoneSkipped

----
(* The arithmetic of the limits.                                           *)
LEMMA Quotient ==
    ASSUME NEW x \in Nat, NEW y \in Nat, y > 0
    PROVE  x \div y \in Nat /\ (x \div y) * y <= x
  OBVIOUS

LEMMA FitsOnce ==
    ASSUME NEW n \in Nat, NEW x \in Nat, NEW y \in Nat, y > 0, n <= x \div y
    PROVE  n * y <= x
<1>1. x \div y \in Nat /\ (x \div y) * y <= x
  BY Quotient
<1>2. n * y <= (x \div y) * y
  BY <1>1
<1> QED
  BY <1>1, <1>2

LEMMA RoundedUp ==
    ASSUME NEW x \in Nat, NEW s \in Nat, s > 0
    PROVE  /\ ceil(x, s) \in Nat
           /\ x <= ceil(x, s)
           /\ x = 0 => ceil(x, s) = 0
           /\ ceil(x, s) \div s = (x + s - 1) \div s
  BY DEF ceil

LEMMA KernelFacts ==
    ASSUME info \in Kernels
    PROVE  /\ info.m_grid_size \in Nat /\ info.m_grid_size > 0
           /\ info.m_block_size \in Nat /\ info.m_block_size > 0
           /\ info.m_num_registers \in Nat /\ info.m_shared_mem_bytes \in Nat
  BY SchedulerAssumption DEF SchedulerAssumption

LEMMA ConstantFacts ==
    /\ sm_num \in Nat /\ sm_num > 0
    /\ num_warp_schedulers_per_SM \in Nat /\ num_warp_schedulers_per_SM > 0
    /\ shared_mem_size \in Nat /\ warp_size \in Nat /\ warp_size > 0
    /\ max_active_blocks_per_SM \in Nat /\ max_active_threads_per_SM \in Nat
    /\ register_allocation_size \in Nat /\ register_allocation_size > 0
    /\ max_registers_per_block \in Nat /\ max_registers_per_block > 0
    /\ max_registers_per_SM \in Nat
    /\ smem_allocation_size \in Nat /\ smem_allocation_size > 0
  BY SchedulerAssumption DEF SchedulerAssumption

LEMMA SizeFacts ==
    ASSUME info \in Kernels
    PROVE  /\ warps_per_block \in Nat /\ warps_per_block > 0
           /\ regs_per_warp \in Nat
           /\ info.m_num_registers = 0 => regs_per_warp = 0
           /\ info.m_num_registers > 0 => regs_per_warp > 0
           /\ smem_per_block \in Nat
           /\ info.m_shared_mem_bytes = 0 => smem_per_block = 0
           /\ info.m_shared_mem_bytes > 0 => smem_per_block > 0
<1>1. warps_per_block \in Nat /\ warps_per_block > 0
  <2>1. warps_per_block = (info.m_block_size + warp_size - 1) \div warp_size
    BY RoundedUp, KernelFacts, ConstantFacts DEF warps_per_block
  <2> QED
    BY <2>1, KernelFacts, ConstantFacts
<1>2. /\ info.m_num_registers * warp_size \in Nat
      /\ info.m_num_registers = 0 => info.m_num_registers * warp_size = 0
      /\ info.m_num_registers > 0 => info.m_num_registers * warp_size > 0
  BY KernelFacts, ConstantFacts
<1>3. /\ regs_per_warp \in Nat
      /\ info.m_num_registers * warp_size <= regs_per_warp
      /\ info.m_num_registers * warp_size = 0 => regs_per_warp = 0
  BY <1>2, RoundedUp, ConstantFacts DEF regs_per_warp
<1>4. /\ smem_per_block \in Nat
      /\ info.m_shared_mem_bytes <= smem_per_block
      /\ info.m_shared_mem_bytes = 0 => smem_per_block = 0
  BY RoundedUp, KernelFacts, ConstantFacts DEF smem_per_block
<1> QED
  BY <1>1, <1>2, <1>3, <1>4, KernelFacts

(* Each of the three limits bounds what it is there for.                   *)
LEMMA WarpLimit ==
    ASSUME info \in Kernels, NEW n \in Nat, n <= max_block_limit_by_warps
    PROVE  /\ n <= max_active_blocks_per_SM
           /\ n * warps_per_block * warp_size <= max_active_threads_per_SM
<1> DEFINE w == max_active_threads_per_SM \div warp_size
<1>1. w \in Nat /\ w * warp_size <= max_active_threads_per_SM
  BY Quotient, ConstantFacts
<1>2. /\ n <= max_active_blocks_per_SM
      /\ n <= w \div warps_per_block
  <2>1. w \div warps_per_block \in Nat
    BY <1>1, SizeFacts
  <2> QED
    BY <2>1, ConstantFacts DEF max_block_limit_by_warps, AtMost
<1> HIDE DEF w
<1>3. n * warps_per_block <= w
  BY <1>1, <1>2, SizeFacts, FitsOnce
<1>4. n * warps_per_block * warp_size <= w * warp_size
  BY <1>1, <1>3, SizeFacts, ConstantFacts
<1> QED
  BY <1>1, <1>2, <1>4, SizeFacts, ConstantFacts

LEMMA RegisterLimit ==
    ASSUME info \in Kernels, NEW n \in Nat, n <= max_block_limit_by_regs
    PROVE  n * warps_per_block * regs_per_warp <= max_registers_per_SM
<1>1. CASE info.m_num_registers = 0
  BY <1>1, SizeFacts, ConstantFacts
<1>2. CASE info.m_num_registers # 0
  <2> DEFINE r == max_registers_per_block \div regs_per_warp
             a == floor(r, num_warp_schedulers_per_SM)
             q == max_registers_per_SM \div max_registers_per_block
             b == a \div warps_per_block
  <2>1. r \in Nat /\ r * regs_per_warp <= max_registers_per_block
    BY <1>2, Quotient, SizeFacts, KernelFacts, ConstantFacts
  <2>2. a \in Nat /\ a <= r
    <3> HIDE DEF r
    <3> QED
      BY <2>1, ConstantFacts DEF floor
  <2>3. q \in Nat /\ q * max_registers_per_block <= max_registers_per_SM
    BY Quotient, ConstantFacts
  <2>4. n <= b * q
    BY <1>2, KernelFacts DEF max_block_limit_by_regs
  <2>5. b \in Nat /\ b * warps_per_block <= a
    <3> HIDE DEF a
    <3> QED
      BY <2>2, Quotient, SizeFacts
  <2> HIDE DEF r, a, q, b
  <2> DEFINE W == warps_per_block
             R == regs_per_warp
  <2>6. W \in Nat /\ R \in Nat
    BY SizeFacts
  <2> HIDE DEF W, R
  <2>7. n * W <= b * q * W
    BY <2>3, <2>4, <2>5, <2>6
  <2>8. b * q * W = b * W * q
    BY <2>3, <2>5, <2>6
  <2>9. b * W <= r
    BY <2>1, <2>2, <2>5, <2>6 DEF W
  <2>10. b * W * q <= r * q
    BY <2>1, <2>3, <2>5, <2>6, <2>9
  <2>11. n * W * R <= r * q * R
    BY <2>1, <2>3, <2>5, <2>6, <2>7, <2>8, <2>10
  <2>12. r * q * R = r * R * q
    BY <2>1, <2>3, <2>6
  <2>13. r * R * q <= max_registers_per_block * q
    BY <2>1, <2>3, <2>6, ConstantFacts DEF R
  <2>14. n * W * R \in Nat /\ r * R * q \in Nat /\ q * max_registers_per_block \in Nat
    BY <2>1, <2>3, <2>6, ConstantFacts
  <2> QED
    BY <2>3, <2>11, <2>12, <2>13, <2>14, ConstantFacts DEF W, R
<1> QED
  BY <1>1, <1>2

LEMMA SmemLimit ==
    ASSUME info \in Kernels, NEW n \in Nat, n <= max_block_limit_by_smem
    PROVE  n * smem_per_block <= shared_mem_size
<1>1. CASE info.m_shared_mem_bytes = 0
  BY <1>1, SizeFacts, ConstantFacts
<1>2. CASE info.m_shared_mem_bytes # 0
  BY <1>2, FitsOnce, SizeFacts, KernelFacts, ConstantFacts DEF max_block_limit_by_smem
<1> QED
  BY <1>1, <1>2

LEMMA LimitFacts ==
    ASSUME info \in Kernels
    PROVE  /\ max_block_limit_by_warps \in Nat
           /\ max_block_limit_by_regs \in Nat
           /\ max_block_limit_by_smem \in Nat
           /\ max_block_per_sm \in Nat
           /\ max_block_per_sm <= max_block_limit_by_warps
           /\ max_block_per_sm <= max_block_limit_by_regs
           /\ max_block_per_sm <= max_block_limit_by_smem
<1>1. max_block_limit_by_warps \in Nat
  <2>1. max_active_threads_per_SM \div warp_size \in Nat
    BY Quotient, ConstantFacts
  <2>2. (max_active_threads_per_SM \div warp_size) \div warps_per_block \in Nat
    BY <2>1, Quotient, SizeFacts
  <2> QED
    BY <2>2, ConstantFacts DEF max_block_limit_by_warps, AtMost
<1>2. max_block_limit_by_regs \in Nat
  <2>1. CASE info.m_num_registers = 0
    BY <2>1, ConstantFacts DEF max_block_limit_by_regs
  <2>2. CASE info.m_num_registers # 0
    <3> DEFINE r == max_registers_per_block \div regs_per_warp
               a == floor(r, num_warp_schedulers_per_SM)
               q == max_registers_per_SM \div max_registers_per_block
    <3>1. r \in Nat
      BY <2>2, Quotient, SizeFacts, KernelFacts, ConstantFacts
    <3>2. a \in Nat
      <4> HIDE DEF r
      <4> QED
        BY <3>1, ConstantFacts DEF floor
    <3>3. q \in Nat
      BY Quotient, ConstantFacts
    <3>4. a \div warps_per_block \in Nat
      <4> HIDE DEF a
      <4> QED
        BY <3>2, Quotient, SizeFacts
    <3>5. max_block_limit_by_regs = (a \div warps_per_block) * q
      BY <2>2 DEF max_block_limit_by_regs
    <3> HIDE DEF r, a, q
    <3> DEFINE d == a \div warps_per_block
    <3> HIDE DEF d
    <3> QED
      BY <3>3, <3>4, <3>5 DEF d
  <2> QED
    BY <2>1, <2>2
<1>3. max_block_limit_by_smem \in Nat
  <2>1. CASE info.m_shared_mem_bytes = 0
    BY <2>1, ConstantFacts DEF max_block_limit_by_smem
  <2>2. CASE info.m_shared_mem_bytes # 0
    BY <2>2, Quotient, SizeFacts, KernelFacts, ConstantFacts DEF max_block_limit_by_smem
  <2> QED
    BY <2>1, <2>2
<1> QED
  BY <1>1, <1>2, <1>3 DEF max_block_per_sm, AtMost

LEMMA LimitsStay ==
    ASSUME info' = info
    PROVE  max_block_per_sm' = max_block_per_sm
  BY DEF max_block_per_sm, max_block_limit_by_warps, max_block_limit_by_regs,
         max_block_limit_by_smem, warps_per_block, regs_per_warp, smem_per_block

----
LEMMA InitInv == Init => Inv
<1> SUFFICES ASSUME Init PROVE Inv
  OBVIOUS
<1>1. TypeOK
  BY KernelFacts, ConstantFacts, EmptySeq DEF Init, TypeOK, SMs
<1>2. Room
  BY FS_EmptySet, LimitFacts DEF Init, Room
<1>3. InOrder /\ HeldWhereGiven /\ NoneDropped /\ NoneSkipped
  BY EmptySeq DEF Init, InOrder, HeldWhereGiven, NoneDropped, NoneSkipped
<1> QED
  BY <1>1, <1>2, <1>3 DEF Inv

(* What a step that hands out nothing has to keep: blocks leave an SM only *)
(* when they have no warps, and none gets warps again.                     *)
LEMMA NothingHandedOut ==
    ASSUME Inv,
           info' = info, block_pointer' = block_pointer, dispatched' = dispatched,
           block_vec' = block_vec, with_warps' \subseteq with_warps
    PROVE  Room' /\ InOrder' /\ HeldWhereGiven' /\ NoneDropped'
  BY LimitsStay DEF Inv, Room, InOrder, HeldWhereGiven, NoneDropped

(* first_spawn_block gives the block it is at to the SM it is at, unless   *)
(* that is full.                                                           *)
LEMMA SpawnBlockKeeps == ASSUME Inv, SpawnBlock PROVE Inv'
<1> USE DEF Inv
<1>1. /\ info' = info /\ phase' = phase /\ sm' = sm /\ sm_active' = sm_active
      /\ with_warps' = with_warps
      /\ phase = "spawn"
      /\ spawning \in Int /\ 0 <= spawning /\ spawning < info.m_grid_size
      /\ spawning' = spawning + 1
      /\ index \in SMs
  BY KernelFacts DEF SpawnBlock, Blocks, TypeOK
<1>2. max_block_per_sm' = max_block_per_sm /\ max_block_per_sm \in Nat
  BY <1>1, LimitsStay, LimitFacts DEF TypeOK
<1>3. IsFiniteSet(block_vec[index]) /\ Cardinality(block_vec[index]) \in Nat
  BY <1>1, FS_CardinalityType DEF Room
<1>4. CASE ~(Cardinality(block_vec[index]) < max_block_per_sm)
  <2>1. /\ block_vec' = block_vec /\ dispatched' = dispatched
        /\ block_pointer' = block_pointer /\ index' = index
    BY <1>4 DEF SpawnBlock
  <2>2. Room' /\ InOrder' /\ HeldWhereGiven' /\ NoneDropped'
    BY <1>1, <2>1, NothingHandedOut
  <2>3. TypeOK'
    BY <1>1, <2>1, KernelFacts DEF TypeOK
  <2>4. NoneSkipped'
    BY <1>1, <1>2, <1>3, <1>4, <2>1 DEF NoneSkipped, TypeOK
  <2> QED
    BY <2>2, <2>3, <2>4
<1>5. CASE Cardinality(block_vec[index]) < max_block_per_sm
  <2>1. /\ block_vec' = [block_vec EXCEPT ![index] = @ \union {spawning}]
        /\ dispatched' = Append(dispatched, <<spawning, index>>)
        /\ block_pointer' = block_pointer + 1
        /\ index' = (index + 1) % active_sms
    BY <1>5 DEF SpawnBlock, Take
  <2>2. spawning = block_pointer
    BY <1>1, <1>2, <1>3, <1>5 DEF NoneSkipped, TypeOK
  <2>3. index' \in SMs
    <3>1. active_sms \in Int /\ 0 < active_sms /\ active_sms <= sm_num
      BY KernelFacts, ConstantFacts DEF active_sms, AtMost, TypeOK
    <3> HIDE DEF active_sms
    <3> QED
      BY <1>1, <2>1, <3>1, ConstantFacts DEF SMs
  <2>4. \A s \in SMs : block_vec'[s] = IF s = index THEN block_vec[s] \union {spawning}
                                                    ELSE block_vec[s]
    BY <1>1, <2>1 DEF TypeOK
  <2>5. /\ dispatched' \in Seq(Int \X SMs)
        /\ Len(dispatched') = Len(dispatched) + 1
        /\ \A i \in 1 .. Len(dispatched) : dispatched'[i] = dispatched[i]
        /\ dispatched'[Len(dispatched) + 1] = <<spawning, index>>
    <3>1. <<spawning, index>> \in Int \X SMs
      BY <1>1
    <3> QED
      BY <2>1, <3>1, AppendProperties DEF TypeOK
  <2>6. Len(dispatched) = block_pointer /\ block_pointer \in Nat
    BY KernelFacts DEF InOrder, TypeOK
  <2>7. TypeOK'
    <3>1. block_vec' \in [SMs -> SUBSET Int]
      BY <1>1, <2>1 DEF TypeOK
    <3> QED
      BY <1>1, <2>1, <2>2, <2>3, <2>5, <3>1, KernelFacts DEF TypeOK
  <2>8. Room'
    <3> SUFFICES ASSUME NEW s \in SMs
                 PROVE  /\ IsFiniteSet(block_vec'[s])
                        /\ Cardinality(block_vec'[s]) <= max_block_per_sm
      BY <1>2 DEF Room
    <3>1. CASE s = index
      <4>1. /\ IsFiniteSet(block_vec[index] \union {spawning})
            /\ Cardinality(block_vec[index] \union {spawning})
                  <= Cardinality(block_vec[index]) + 1
        <5>1. /\ IsFiniteSet(block_vec[index] \union {spawning})
              /\ Cardinality(block_vec[index] \union {spawning})
                    = IF spawning \in block_vec[index] THEN Cardinality(block_vec[index])
                      ELSE Cardinality(block_vec[index]) + 1
          BY <1>3, FS_AddElement, Zenon
        <5> QED
          BY <1>3, <5>1
      <4>2. /\ block_vec'[s] = block_vec[index] \union {spawning}
            /\ Cardinality(block_vec[index] \union {spawning}) \in Nat
        BY <2>4, <3>1, <4>1, FS_CardinalityType
      <4> QED
        BY <1>2, <1>3, <1>5, <4>1, <4>2
    <3>2. CASE s # index
      BY <2>4, <3>2 DEF Room
    <3> QED
      BY <3>1, <3>2
  <2>9. InOrder'
    BY <2>1, <2>2, <2>5, <2>6 DEF InOrder
  <2>10. HeldWhereGiven'
    <3> SUFFICES ASSUME NEW s \in SMs, NEW b \in block_vec'[s]
                 PROVE  b \in 0 .. block_pointer' - 1 /\ dispatched'[b + 1][2] = s
      BY DEF HeldWhereGiven
    <3>1. CASE b \in block_vec[s]
      <4>1. b \in 0 .. block_pointer - 1 /\ dispatched[b + 1][2] = s
        BY <3>1 DEF HeldWhereGiven
      <4> QED
        BY <2>1, <2>5, <2>6, <4>1
    <3>2. CASE b \notin block_vec[s]
      <4>1. s = index /\ b = spawning
        BY <2>4, <3>2
      <4> QED
        BY <2>1, <2>2, <2>5, <2>6, <4>1
    <3> QED
      BY <3>1, <3>2
  <2>11. NoneDropped'
    <3> SUFFICES ASSUME NEW i \in 1 .. Len(dispatched'), dispatched'[i][1] \in with_warps
                 PROVE  dispatched'[i][1] \in block_vec'[dispatched'[i][2]]
      BY <1>1 DEF NoneDropped
    <3>1. CASE i \in 1 .. Len(dispatched)
      <4>1. dispatched[i] \in Int \X SMs
        BY <3>1, ElementOfSeq DEF TypeOK
      <4>2. dispatched[i][1] \in block_vec[dispatched[i][2]]
        BY <2>5, <3>1 DEF NoneDropped
      <4> QED
        BY <2>4, <2>5, <3>1, <4>1, <4>2
    <3>2. CASE i = Len(dispatched) + 1
      <4>1. dispatched'[i][1] = spawning /\ dispatched'[i][2] = index
        BY <2>5, <3>2
      <4> QED
        BY <1>1, <2>4, <4>1
    <3> QED
      BY <2>5, <2>6, <3>1, <3>2
  <2>12. NoneSkipped'
    BY <1>1, <2>1, <2>2 DEF NoneSkipped
  <2> QED
    BY <2>7, <2>8, <2>9, <2>10, <2>11, <2>12
<1> QED
  BY <1>4, <1>5

(* An SM drops the blocks without warps and fills up with the next ones.   *)
LEMMA ReplaceBlocksKeeps == ASSUME Inv, ReplaceBlocks PROVE Inv'
<1> USE DEF Inv
<1> DEFINE kept == block_vec[sm] \cap with_warps
           room == AtMost(max_block_per_sm - Cardinality(kept), info.m_grid_size - block_pointer)
           taken == block_pointer .. block_pointer + room - 1
           given == [i \in 1 .. room |-> <<block_pointer + i - 1, sm>>]
<1>1. /\ info' = info /\ phase' = "schedule" /\ sm' = sm /\ sm_active' = sm_active
      /\ with_warps' = with_warps /\ spawning' = spawning /\ index' = index
      /\ sm \in SMs
      /\ block_vec' = [block_vec EXCEPT ![sm] = kept \union taken]
      /\ dispatched' = dispatched \o given
      /\ block_pointer' = block_pointer + room
  BY DEF ReplaceBlocks, TypeOK
<1>2. max_block_per_sm' = max_block_per_sm /\ max_block_per_sm \in Nat
  BY <1>1, LimitsStay, LimitFacts DEF TypeOK
<1>3. /\ IsFiniteSet(kept) /\ Cardinality(kept) \in Nat
      /\ Cardinality(kept) <= max_block_per_sm
  <2>1. IsFiniteSet(block_vec[sm]) /\ Cardinality(block_vec[sm]) <= max_block_per_sm
    BY <1>1 DEF Room
  <2>2. IsFiniteSet(kept) /\ Cardinality(kept) <= Cardinality(block_vec[sm])
    BY <2>1, FS_Intersection
  <2> QED
    BY <1>2, <2>1, <2>2, FS_CardinalityType
<1>4. /\ block_pointer \in Nat /\ info.m_grid_size \in Nat
      /\ block_pointer <= info.m_grid_size
      /\ Len(dispatched) = block_pointer
  BY KernelFacts DEF TypeOK, InOrder
<1>5. /\ room \in Nat
      /\ room <= max_block_per_sm - Cardinality(kept)
      /\ room <= info.m_grid_size - block_pointer
  <2> HIDE DEF kept
  <2> QED
    BY <1>2, <1>3, <1>4 DEF AtMost
<1> HIDE DEF room
<1>6. /\ IsFiniteSet(taken) /\ Cardinality(taken) = room
  <2>1. block_pointer \in Int /\ block_pointer + room - 1 \in Int
    BY <1>4, <1>5
  <2>2. /\ IsFiniteSet(taken)
        /\ Cardinality(taken) = IF block_pointer > block_pointer + room - 1 THEN 0
                               ELSE (block_pointer + room - 1) - block_pointer + 1
    BY <2>1, FS_Interval
  <2> HIDE DEF taken
  <2> QED
    BY <1>4, <1>5, <2>2
<1>7. \A b \in kept : b \in 0 .. block_pointer - 1
  BY <1>1 DEF HeldWhereGiven
<1>8. kept \subseteq Int /\ taken \subseteq Int
  BY <1>1, <1>4, <1>5 DEF TypeOK
<1>9. given \in Seq(Int \X SMs) /\ Len(given) = room
  <2>1. \A i \in 1 .. room : <<block_pointer + i - 1, sm>> \in Int \X SMs
    BY <1>1, <1>4, <1>5
  <2>2. given \in [1 .. room -> Int \X SMs]
    BY <2>1
  <2> QED
    BY <1>5, <2>2, SeqDef
<1>10. \A s \in SMs : block_vec'[s] = IF s = sm THEN kept \union taken ELSE block_vec[s]
  BY <1>1 DEF TypeOK
<1>11. /\ dispatched' \in Seq(Int \X SMs)
       /\ Len(dispatched') = block_pointer + room
       /\ \A i \in 1 .. block_pointer : dispatched'[i] = dispatched[i]
       /\ \A i \in block_pointer + 1 .. block_pointer + room : dispatched'[i] = <<i - 1, sm>>
  <2>1. dispatched \in Seq(Int \X SMs)
    BY DEF TypeOK
  <2>2. \A i \in 1 .. room : given[i] = <<block_pointer + i - 1, sm>>
    OBVIOUS
  <2> HIDE DEF given
  <2>3. /\ dispatched \o given \in Seq(Int \X SMs)
        /\ Len(dispatched \o given) = block_pointer + room
        /\ \A i \in 1 .. block_pointer + room :
              (dispatched \o given)[i] = IF i <= block_pointer THEN dispatched[i]
                                         ELSE given[i - block_pointer]
    BY <1>4, <1>9, <2>1, ConcatProperties
  <2>4. \A i \in block_pointer + 1 .. block_pointer + room :
            i - block_pointer \in 1 .. room
            /\ block_pointer + (i - block_pointer) - 1 = i - 1
    BY <1>4, <1>5
  <2>5. dispatched' = dispatched \o given
    BY <1>1
  <2>6. \A i \in 1 .. block_pointer : dispatched'[i] = dispatched[i]
    BY <1>4, <1>5, <2>3, <2>5
  <2>7. ASSUME NEW i \in block_pointer + 1 .. block_pointer + room
        PROVE  dispatched'[i] = <<i - 1, sm>>
    <3>1. i \in 1 .. block_pointer + room /\ ~(i <= block_pointer)
      BY <1>4, <1>5
    <3>2. dispatched'[i] = given[i - block_pointer]
      BY <2>3, <2>5, <3>1
    <3>3. given[i - block_pointer] = <<block_pointer + (i - block_pointer) - 1, sm>>
      BY <2>2, <2>4
    <3> QED
      BY <2>4, <3>2, <3>3
  <2> QED
    BY <2>3, <2>5, <2>6, <2>7
<1>12. TypeOK'
  <2>1. block_vec' \in [SMs -> SUBSET Int]
    BY <1>1, <1>8 DEF TypeOK
  <2>2. block_pointer' \in 0 .. info.m_grid_size
    BY <1>1, <1>4, <1>5
  <2> QED
    BY <1>1, <1>11, <2>1, <2>2 DEF TypeOK
<1>13. Room'
  <2> SUFFICES ASSUME NEW s \in SMs
               PROVE  /\ IsFiniteSet(block_vec'[s])
                      /\ Cardinality(block_vec'[s]) <= max_block_per_sm
    BY <1>2 DEF Room
  <2>1. CASE s = sm
    <3>1. kept \cap taken = {}
      <4> HIDE DEF kept
      <4> QED
        BY <1>4, <1>5, <1>7
    <3>2. /\ IsFiniteSet(kept \union taken)
          /\ Cardinality(kept \union taken) = Cardinality(kept) + room
      <4> HIDE DEF kept, taken
      <4>1. /\ IsFiniteSet(kept \union taken)
            /\ Cardinality(kept \union taken)
                  = Cardinality(kept) + Cardinality(taken) - Cardinality(kept \cap taken)
        BY <1>3, <1>6, FS_Union
      <4>2. Cardinality(kept \cap taken) = 0
        BY <3>1, FS_EmptySet
      <4> QED
        BY <1>3, <1>5, <1>6, <4>1, <4>2
    <3> HIDE DEF kept, taken
    <3> QED
      BY <1>2, <1>3, <1>5, <1>10, <2>1, <3>2
  <2>2. CASE s # sm
    BY <1>10, <2>2 DEF Room
  <2> QED
    BY <2>1, <2>2
<1>14. InOrder'
  <2> SUFFICES ASSUME NEW i \in 1 .. Len(dispatched') PROVE dispatched'[i][1] = i - 1
    BY <1>1, <1>11 DEF InOrder
  <2>1. CASE i <= block_pointer
    <3>1. i \in 1 .. block_pointer /\ i \in 1 .. Len(dispatched)
      BY <1>4, <1>5, <1>11, <2>1
    <3>2. dispatched'[i] = dispatched[i]
      BY <1>11, <3>1
    <3> QED
      BY <1>4, <3>1, <3>2 DEF InOrder
  <2>2. CASE i > block_pointer
    <3>1. i \in block_pointer + 1 .. block_pointer + room
      BY <1>4, <1>5, <1>11, <2>2
    <3>2. dispatched'[i] = <<i - 1, sm>>
      BY <1>11, <3>1
    <3> QED
      BY <3>2
  <2> QED
    BY <1>4, <1>5, <1>11, <2>1, <2>2
<1>15. HeldWhereGiven'
  <2> SUFFICES ASSUME NEW s \in SMs, NEW b \in block_vec'[s]
               PROVE  b \in 0 .. block_pointer' - 1 /\ dispatched'[b + 1][2] = s
    BY DEF HeldWhereGiven
  <2>1. CASE b \in block_vec[s]
    <3>1. b \in 0 .. block_pointer - 1 /\ dispatched[b + 1][2] = s
      BY <2>1 DEF HeldWhereGiven
    <3>2. b + 1 \in 1 .. block_pointer
      BY <1>4, <3>1
    <3> QED
      BY <1>1, <1>4, <1>5, <1>11, <3>1, <3>2
  <2>2. CASE b \notin block_vec[s]
    <3>1. s = sm /\ b \in taken
      BY <1>10, <2>2
    <3>2. b + 1 \in block_pointer + 1 .. block_pointer + room
      BY <1>4, <1>5, <3>1
    <3> QED
      BY <1>1, <1>4, <1>5, <1>11, <3>1, <3>2
  <2> QED
    BY <2>1, <2>2
<1>16. NoneDropped'
  <2> SUFFICES ASSUME NEW i \in 1 .. Len(dispatched'), dispatched'[i][1] \in with_warps
               PROVE  dispatched'[i][1] \in block_vec'[dispatched'[i][2]]
    BY <1>1 DEF NoneDropped
  <2>1. CASE i <= block_pointer
    <3>1. i \in 1 .. Len(dispatched) /\ dispatched'[i] = dispatched[i]
      BY <1>4, <1>5, <1>11, <2>1
    <3>2. dispatched[i] \in Int \X SMs
      BY <3>1, ElementOfSeq DEF TypeOK
    <3>3. dispatched[i][1] \in block_vec[dispatched[i][2]]
      BY <3>1 DEF NoneDropped
    <3> QED
      BY <1>10, <3>1, <3>2, <3>3
  <2>2. CASE i > block_pointer
    <3>1. i \in block_pointer + 1 .. block_pointer + room
      BY <1>4, <1>5, <1>11, <2>2
    <3>2. dispatched'[i] = <<i - 1, sm>>
      BY <1>11, <3>1
    <3>3. dispatched'[i][1] = i - 1 /\ dispatched'[i][2] = sm
      BY <3>2
    <3>4. i - 1 \in taken
      BY <1>4, <1>5, <3>1
    <3>5. i - 1 \in block_vec'[sm]
      <4> HIDE DEF taken, kept
      <4> QED
        BY <1>1, <1>10, <3>4
    <3> QED
      BY <3>3, <3>5
  <2> QED
    BY <1>4, <1>5, <1>11, <2>1, <2>2
<1>17. NoneSkipped'
  BY <1>1 DEF NoneSkipped
<1> QED
  BY <1>12, <1>13, <1>14, <1>15, <1>16, <1>17

LEMMA ScheduleKeeps ==
    ASSUME Inv, NEW retired \in SUBSET Blocks, Schedule(retired) PROVE Inv'
<1> USE DEF Inv
<1>1. /\ info' = info /\ spawning' = spawning /\ index' = index
      /\ block_pointer' = block_pointer /\ block_vec' = block_vec
      /\ dispatched' = dispatched /\ with_warps' \subseteq with_warps
  BY DEF Schedule
<1>2. phase' \in {"blocks", "done"}
  BY DEF Schedule
<1>3. sm' \in SMs
  BY ConstantFacts DEF Schedule, TypeOK, SMs
<1>4. sm_active' \in BOOLEAN
  BY Zenon DEF Schedule
<1> QED
  BY <1>1, <1>2, <1>3, <1>4, NothingHandedOut DEF TypeOK, NoneSkipped

LEMMA NextInv == Inv /\ [Next]_vars => Inv'
<1> SUFFICES ASSUME Inv, [Next]_vars PROVE Inv'
  OBVIOUS
<1>1. CASE SpawnBlock
  BY <1>1, SpawnBlockKeeps
<1>2. CASE ReplaceBlocks
  BY <1>2, ReplaceBlocksKeeps
<1>3. CASE \E retired \in SUBSET Blocks : Schedule(retired)
  BY <1>3, ScheduleKeeps
<1>4. CASE Spawned
  BY <1>4, NothingHandedOut DEF Inv, Spawned, TypeOK, NoneSkipped
<1>5. CASE Inactive
  BY <1>5, NothingHandedOut DEF Inv, Inactive, TypeOK, NoneSkipped
<1>6. CASE UNCHANGED vars
  BY <1>6, NothingHandedOut DEF Inv, vars, TypeOK, NoneSkipped, max_block_per_sm,
     max_block_limit_by_warps, max_block_limit_by_regs, max_block_limit_by_smem,
     warps_per_block, regs_per_warp, smem_per_block
<1> QED
  BY <1>1, <1>2, <1>3, <1>4, <1>5, <1>6 DEF Next, Done

----
LEMMA InvFits == Inv => ResourcesFit
<1> SUFFICES ASSUME Inv, NEW s \in SMs
             PROVE  LET n == Cardinality(block_vec[s])
                    IN  /\ n <= max_active_blocks_per_SM
                        /\ n * warps_per_block * warp_size <= max_active_threads_per_SM
                        /\ n * warps_per_block * regs_per_warp <= max_registers_per_SM
                        /\ n * smem_per_block <= shared_mem_size
  BY DEF ResourcesFit
<1> DEFINE n == Cardinality(block_vec[s])
<1>1. info \in Kernels /\ n \in Nat /\ n <= max_block_per_sm
  BY FS_CardinalityType DEF Inv, TypeOK, Room
<1> HIDE DEF n
<1>2. /\ n <= max_block_limit_by_warps /\ n <= max_block_limit_by_regs
      /\ n <= max_block_limit_by_smem
  BY <1>1, LimitFacts
<1> QED
  BY <1>1, <1>2, WarpLimit, RegisterLimit, SmemLimit DEF n

LEMMA InvOnce == Inv => EachBlockOnce
<1> SUFFICES ASSUME Inv PROVE EachBlockOnce
  OBVIOUS
<1>1. \A s, t \in SMs : s # t => block_vec[s] \cap block_vec[t] = {}
  BY DEF Inv, HeldWhereGiven
<1> QED
  BY <1>1 DEF Inv, InOrder, NoneDropped, EachBlockOnce

LEMMA SpecInv == Spec => []Inv
  BY InitInv, NextInv, PTL DEF Spec

(* However many SMs there are and whatever a kernel's blocks need, those   *)
(* resident on an SM fit on it: the limits that gpu.cpp computes apart,    *)
(* with its roundings, are each sufficient, and sm_cycle never exceeds     *)
(* the smallest.                                                           *)
THEOREM OccupancyCorrect == Spec => []ResourcesFit
  BY SpecInv, InvFits, PTL

(* Of any kernel on any number of SMs, every block is handed out once, in  *)
(* order, and stays where it is until its warps are gone, although         *)
(* first_spawn_block and every SM's cycle take from the same pointer.      *)
THEOREM DispatchCorrect == Spec => []EachBlockOnce
  BY SpecInv, InvOnce, PTL
=============================================================================
