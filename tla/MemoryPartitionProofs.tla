------------------------- MODULE MemoryPartitionProofs -------------------------
(***************************************************************************)
(* What holds of a memory partition, for any fetches, sizes and latencies: *)
(* first of a slice of the L2 cache, then of the DRAM channel under the    *)
(* slices.                                                                 *)
(***************************************************************************)
EXTENDS L2Slice, DramChannel, SubsequencesProofs

----
(* The L2 slice.  Ways.                                                    *)

(* The first and the last of some ways are among them.                     *)
LEMMA FirstAndLastWay ==
    ASSUME NEW S, S \subseteq Ways, S # {}
    PROVE  Min(S) \in S /\ Max(S) \in S
<1>0. m_assoc \in Nat
  BY SliceAssumption
<1>1. \E x \in S : \A y \in S : x <= y
  <2>1. S \subseteq Nat
    BY <1>0 DEF Ways
  <2> QED
    BY <2>1, LeastOfNats
<1>2. \E x \in S : \A y \in S : x >= y
  <2> DEFINE T == {n \in Nat : \E x \in S : n = m_assoc - x}
  <2>1. \A x \in S : m_assoc - x \in T
    BY <1>0 DEF Ways
  <2>2. T \subseteq Nat /\ T # {}
    BY <2>1
  <2>3. PICK n \in T : \A m \in T : n <= m
    <3> HIDE DEF T
    <3> QED
      BY <2>2, LeastOfNats
  <2>4. PICK x \in S : n = m_assoc - x
    BY <2>3
  <2>5. ASSUME NEW y \in S PROVE x >= y
    <3>1. m_assoc - x <= m_assoc - y
      BY <2>1, <2>3, <2>4
    <3>2. x \in Int /\ y \in Int
      BY <1>0 DEF Ways
    <3> QED
      BY <1>0, <3>1, <3>2
  <2> QED
    BY <2>5
<1>3. Min(S) \in S
  BY <1>1 DEF Min
<1>4. Max(S) \in S
  BY <1>2 DEF Max
<1> QED
  BY <1>3, <1>4

----
(* Sequences.                                                              *)

LEMMA SeqFacts ==
    ASSUME NEW S, NEW s \in Seq(S)
    PROVE  Len(s) \in Nat /\ DOMAIN s = 1 .. Len(s) /\ \A i \in 1 .. Len(s) : s[i] \in S
  BY LenProperties, ElementOfSeq

LEMMA AppendRange ==
    ASSUME NEW S, NEW s \in Seq(S), NEW x \in S
    PROVE  /\ Append(s, x) \in Seq(S)
           /\ Range(Append(s, x)) = Range(s) \union {x}
           /\ IsInjective(s) /\ x \notin Range(s) => IsInjective(Append(s, x))
<1>1. /\ Len(s) \in Nat /\ DOMAIN s = 1 .. Len(s)
      /\ Append(s, x) \in Seq(S) /\ Len(Append(s, x)) = Len(s) + 1
      /\ \A i \in 1 .. Len(s) : Append(s, x)[i] = s[i]
      /\ Append(s, x)[Len(s) + 1] = x
      /\ DOMAIN Append(s, x) = 1 .. Len(s) + 1
  BY AppendProperties, LenProperties
<1>2. 1 .. Len(s) + 1 = (1 .. Len(s)) \union {Len(s) + 1}
  BY <1>1
<1>3. Range(Append(s, x)) = Range(s) \union {x}
  <2>1. ASSUME NEW y PROVE y \in Range(Append(s, x)) <=> y \in Range(s) \/ y = x
    <3>1. y \in Range(Append(s, x)) <=> \E i \in 1 .. Len(s) + 1 : Append(s, x)[i] = y
      BY <1>1 DEF Range
    <3>2. y \in Range(s) <=> \E i \in 1 .. Len(s) : s[i] = y
      BY <1>1 DEF Range
    <3> QED
      BY <1>1, <1>2, <3>1, <3>2
  <2> QED
    BY <2>1
<1>4. IsInjective(s) /\ x \notin Range(s) => IsInjective(Append(s, x))
  BY <1>1 DEF IsInjective, Range
<1> QED
  BY <1>1, <1>3, <1>4

LEMMA TailRange ==
    ASSUME NEW S, NEW s \in Seq(S), s # << >>
    PROVE  /\ Head(s) \in Range(s) /\ Head(s) \in S /\ Tail(s) \in Seq(S)
           /\ Range(s) = Range(Tail(s)) \union {Head(s)}
           /\ IsInjective(s) =>
                 IsInjective(Tail(s)) /\ Range(Tail(s)) = Range(s) \ {Head(s)}
<1>1. /\ Len(s) \in Nat /\ Len(s) >= 1 /\ DOMAIN s = 1 .. Len(s) /\ Head(s) = s[1]
      /\ Head(s) \in S
      /\ Tail(s) \in Seq(S) /\ Len(Tail(s)) = Len(s) - 1
      /\ \A i \in 1 .. Len(s) - 1 : Tail(s)[i] = s[i + 1]
      /\ DOMAIN Tail(s) = 1 .. Len(s) - 1
  BY HeadTailProperties, LenProperties, EmptySeq
<1>2. ASSUME NEW y PROVE y \in Range(Tail(s)) <=> \E j \in 2 .. Len(s) : s[j] = y
  <2>1. ASSUME NEW i \in 1 .. Len(s) - 1, Tail(s)[i] = y PROVE \E j \in 2 .. Len(s) : s[j] = y
    BY <1>1, <2>1, i + 1 \in 2 .. Len(s)
  <2>2. ASSUME NEW j \in 2 .. Len(s), s[j] = y PROVE \E i \in 1 .. Len(s) - 1 : Tail(s)[i] = y
    BY <1>1, <2>2, j - 1 \in 1 .. Len(s) - 1, (j - 1) + 1 = j
  <2> QED
    BY <1>1, <2>1, <2>2 DEF Range
<1>3. \A y : y \in Range(s) <=> (y = s[1] \/ \E j \in 2 .. Len(s) : s[j] = y)
  BY <1>1 DEF Range
<1>4. IsInjective(s) => IsInjective(Tail(s))
  BY <1>1 DEF IsInjective
<1>5. IsInjective(s) => ~\E j \in 2 .. Len(s) : s[j] = s[1]
  BY <1>1 DEF IsInjective
<1> QED
  BY <1>1, <1>2, <1>3, <1>4, <1>5

(* The fetches a queue of hits carries.                                    *)
HitOf == [fetch : Fetches, left : Nat]
Carried(s) == [i \in 1 .. Len(s) |-> s[i].fetch]

LEMMA CarriedBy ==
    ASSUME NEW s \in Seq(HitOf)
    PROVE  /\ Carried(s) \in Seq(Fetches)
           /\ s # << >> => /\ Carried(s) # << >>
                           /\ Carried(Tail(s)) = Tail(Carried(s))
                           /\ Head(s).fetch = Head(Carried(s))
           /\ \A h \in HitOf : Carried(Append(s, h)) = Append(Carried(s), h.fetch)
<1>1. Len(s) \in Nat /\ DOMAIN s = 1 .. Len(s) /\ \A i \in 1 .. Len(s) : s[i] \in HitOf
  BY SeqFacts
<1>2. \A i \in 1 .. Len(s) : s[i].fetch \in Fetches
  BY <1>1 DEF HitOf
<1>3. Carried(s) \in Seq(Fetches) /\ Len(Carried(s)) = Len(s)
      /\ \A i \in 1 .. Len(s) : Carried(s)[i] = s[i].fetch
  BY <1>1, <1>2 DEF Carried
<1>4. ASSUME s # << >>
      PROVE  /\ Carried(s) # << >>
             /\ Carried(Tail(s)) = Tail(Carried(s))
             /\ Head(s).fetch = Head(Carried(s))
  <2>1. /\ Len(s) >= 1 /\ Head(s) = s[1] /\ Tail(s) \in Seq(HitOf)
        /\ Len(Tail(s)) = Len(s) - 1
        /\ \A i \in 1 .. Len(s) - 1 : Tail(s)[i] = s[i + 1]
    BY <1>1, <1>4, HeadTailProperties, EmptySeq
  <2>2. Carried(s) # << >>
    BY <1>1, <1>3, <2>1
  <2>3. /\ Head(Carried(s)) = s[1].fetch
        /\ Tail(Carried(s)) \in Seq(Fetches)
        /\ Len(Tail(Carried(s))) = Len(s) - 1
        /\ \A i \in 1 .. Len(s) - 1 : Tail(Carried(s))[i] = s[i + 1].fetch
    BY <1>1, <1>3, <2>1, <2>2, HeadTailProperties
  <2>4. Tail(Carried(s)) = [i \in 1 .. Len(s) - 1 |-> Tail(Carried(s))[i]]
    BY <2>3, LenProperties
  <2>5. Carried(Tail(s)) = [i \in 1 .. Len(s) - 1 |-> s[i + 1].fetch]
    BY <2>1 DEF Carried
  <2> QED
    BY <2>1, <2>2, <2>3, <2>4, <2>5
<1>5. ASSUME NEW h \in HitOf PROVE Carried(Append(s, h)) = Append(Carried(s), h.fetch)
  <2>1. /\ Len(Append(s, h)) = Len(s) + 1
        /\ \A i \in 1 .. Len(s) : Append(s, h)[i] = s[i]
        /\ Append(s, h)[Len(s) + 1] = h
    BY AppendProperties
  <2>2. h.fetch \in Fetches
    BY DEF HitOf
  <2>3. /\ Append(Carried(s), h.fetch) \in Seq(Fetches)
        /\ Len(Append(Carried(s), h.fetch)) = Len(s) + 1
        /\ \A i \in 1 .. Len(s) : Append(Carried(s), h.fetch)[i] = s[i].fetch
        /\ Append(Carried(s), h.fetch)[Len(s) + 1] = h.fetch
    BY <1>3, <2>2, AppendProperties
  <2>4. Append(Carried(s), h.fetch)
          = [i \in 1 .. Len(s) + 1 |-> Append(Carried(s), h.fetch)[i]]
    BY <2>3, LenProperties
  <2>5. \A i \in 1 .. Len(s) + 1 : Append(s, h)[i].fetch = Append(Carried(s), h.fetch)[i]
    BY <1>1, <2>1, <2>3
  <2> QED
    BY <2>1, <2>4, <2>5 DEF Carried
<1> QED
  BY <1>3, <1>4, <1>5

----
(* The lines.  A way that holds no valid sector was never allocated: no    *)
(* operation makes a sector INVALID but the allocation, which makes        *)
(* another one valid at once.  So a way can match no tag until it has it.  *)
Line == [tag : Tags \union {NoTag}, status : [Masks -> Status]]

LinesOK ==
    /\ lines \in [Ways -> Line]
    /\ UniqueTags
    /\ \A w \in InvalidLines : lines[w].tag = NoTag

LEMMA SectorFacts ==
    ASSUME NEW s \in Sectors
    PROVE  s = <<s[1], s[2]>> /\ s[1] \in Tags /\ s[2] \in Masks /\ s[1] # NoTag
  BY SliceAssumption DEF Sectors

LEMMA AllocatedLine ==
    ASSUME NEW s \in Sectors, NEW st \in Status
    PROVE  /\ Allocated(s, st) \in Line
           /\ Allocated(s, st).tag = s[1]
           /\ Allocated(s, st).status[s[2]] = st
  BY SectorFacts DEF Allocated, Line, Status

LEMMA LineWithSector ==
    ASSUME NEW s \in Sectors, NEW st \in Status, NEW l \in Line
    PROVE  /\ WithSector(l, s[2], st) \in Line
           /\ WithSector(l, s[2], st).tag = l.tag
           /\ WithSector(l, s[2], st).status[s[2]] = st
  BY SectorFacts DEF WithSector, Line

(* One way takes a line that is in no other and is not INVALID.            *)
LEMMA ReplaceLine ==
    ASSUME LinesOK, NEW w \in Ways, NEW l \in Line, NEW k \in Masks, l.status[k] # "INVALID",
           l.tag = NoTag \/ \A v \in Ways : v # w => lines[v].tag # l.tag,
           lines' = [lines EXCEPT ![w] = l]
    PROVE  LinesOK'
<1>1. lines \in [Ways -> Line] /\ lines' \in [Ways -> Line]
  BY DEF LinesOK
<1>2. lines'[w] = l /\ \A v \in Ways : v # w => lines'[v] = lines[v]
  BY <1>1
<1>3. UniqueTags'
  BY <1>2 DEF LinesOK, UniqueTags
<1>4. \A v \in InvalidLines' : v # w /\ v \in InvalidLines
  BY <1>2 DEF InvalidLines
<1> QED
  BY <1>1, <1>2, <1>3, <1>4 DEF LinesOK

(* The ways of a resident line change a sector and keep their tags.        *)
LEMMA ChangeSector ==
    ASSUME LinesOK, NEW s \in Sectors, NEW st \in Status \ {"INVALID"},
           lines' = [w \in Ways |->
                       IF w \in Matching(s) THEN WithSector(lines[w], s[2], st) ELSE lines[w]]
    PROVE  LinesOK'
<1>1. \A w \in Ways : lines[w] \in Line
  BY DEF LinesOK
<1>2. \A w \in Ways :
        lines'[w] = IF w \in Matching(s) THEN WithSector(lines[w], s[2], st) ELSE lines[w]
  OBVIOUS
<1>3. \A w \in Ways : lines'[w] \in Line /\ lines'[w].tag = lines[w].tag
  BY <1>1, <1>2, LineWithSector
<1>4. lines' \in [Ways -> Line]
  BY <1>3
<1>5. UniqueTags'
  BY <1>3 DEF LinesOK, UniqueTags
<1>6. ASSUME NEW w \in InvalidLines' PROVE w \in InvalidLines
  <2>1. w \in Ways /\ lines'[w].status[s[2]] = "INVALID"
    BY SectorFacts DEF InvalidLines
  <2>2. w \notin Matching(s)
    BY <1>1, <1>2, <2>1, LineWithSector
  <2> QED
    BY <1>2, <2>1, <2>2 DEF InvalidLines
<1>7. InvalidLines \subseteq Ways
  BY DEF InvalidLines
<1> QED
  BY <1>3, <1>4, <1>5, <1>6, <1>7 DEF LinesOK

(* A tag that a probe does not find is in no way.                          *)
LEMMA MissingTag ==
    ASSUME LinesOK, NEW s \in Sectors, Miss(s)
    PROVE  \A w \in Ways : lines[w].tag # s[1]
  BY SectorFacts DEF LinesOK, Miss, Matching

LEMMA FillKeepsLines == ASSUME LinesOK, NEW s \in Sectors, FillLine(s) PROVE LinesOK'
<1>1. CASE Miss(s)
  <2>1. PICK w \in IF InvalidLines # {} THEN {Max(InvalidLines)} ELSE Ways :
           lines' = [lines EXCEPT ![w] = Allocated(s, "VALID")]
    BY <1>1 DEF FillLine
  <2>2. w \in Ways
    BY FirstAndLastWay DEF InvalidLines
  <2>3. /\ Allocated(s, "VALID") \in Line
        /\ Allocated(s, "VALID").tag = s[1]
        /\ Allocated(s, "VALID").status[s[2]] # "INVALID"
    BY AllocatedLine DEF Status
  <2> QED
    BY <1>1, <2>1, <2>2, <2>3, MissingTag, SectorFacts, ReplaceLine
<1>2. CASE ~Miss(s)
  <2>1. "VALID" \in Status \ {"INVALID"}
    BY DEF Status
  <2> QED
    BY <1>2, <2>1, ChangeSector DEF FillLine
<1> QED
  BY <1>1, <1>2

LEMMA SetModifiedKeepsLines == ASSUME LinesOK, NEW s \in Sectors, SetModified(s) PROVE LinesOK'
<1>1. "MODIFIED" \in Status \ {"INVALID"}
  BY DEF Status
<1> QED
  BY <1>1, ChangeSector DEF SetModified

LEMMA WriteAllocateKeepsLines ==
    ASSUME LinesOK, NEW s \in Sectors, WriteAllocate(s) PROVE LinesOK'
<1>1. CASE InvalidLines = {}
  BY <1>1 DEF WriteAllocate, LinesOK, UniqueTags, InvalidLines
<1>2. CASE InvalidLines # {}
  <2> DEFINE w == Min(InvalidLines)
  <2>1. w \in InvalidLines /\ w \in Ways /\ lines[w].tag = NoTag /\ lines[w] \in Line
    BY <1>2, FirstAndLastWay DEF InvalidLines, LinesOK
  <2>2. "MODIFIED" \in Status
    BY DEF Status
  <2>3. CASE Miss(s)
    <3>1. lines' = [lines EXCEPT ![w] = Allocated(s, "MODIFIED")]
      BY <1>2, <2>3 DEF WriteAllocate
    <3>2. /\ Allocated(s, "MODIFIED") \in Line
          /\ Allocated(s, "MODIFIED").tag = s[1]
          /\ Allocated(s, "MODIFIED").status[s[2]] # "INVALID"
      BY <2>2, AllocatedLine
    <3> QED
      BY <2>1, <2>3, <3>1, <3>2, MissingTag, SectorFacts, ReplaceLine
  <2>4. CASE ~Miss(s)
    <3>1. lines' = [lines EXCEPT ![w] = WithSector(lines[w], s[2], "MODIFIED")]
      BY <1>2, <2>4 DEF WriteAllocate
    <3>2. /\ WithSector(lines[w], s[2], "MODIFIED") \in Line
          /\ WithSector(lines[w], s[2], "MODIFIED").tag = NoTag
          /\ WithSector(lines[w], s[2], "MODIFIED").status[s[2]] # "INVALID"
      BY <2>1, <2>2, LineWithSector
    <3> QED
      BY <2>1, <3>1, <3>2, SectorFacts, ReplaceLine
  <2> QED
    BY <2>3, <2>4
<1> QED
  BY <1>1, <1>2

LEMMA LinesStep ==
    ASSUME LinesOK, dram \in Seq(Fetches), m_l1_to_l2 \in Seq(Fetches), [Next]_vars
    PROVE  LinesOK'
<1>1. ASSUME NEW f \in Fetches PROVE SectorOf[f] \in Sectors
  BY SliceAssumption
<1>2. CASE UNCHANGED lines
  BY <1>2 DEF LinesOK, UniqueTags, InvalidLines
<1>3. CASE DramReturn
  <2>1. Head(dram) \in Fetches
    BY <1>3, TailRange DEF DramReturn
  <2> QED
    BY <1>1, <1>2, <1>3, <2>1, FillKeepsLines DEF DramReturn
<1>4. CASE Access
  <2>1. Head(m_l1_to_l2) \in Fetches
    BY <1>4, TailRange DEF Access
  <2> QED
    BY <1>1, <1>2, <1>4, <2>1, SetModifiedKeepsLines, WriteAllocateKeepsLines
       DEF Access, cache_access, ReadHit, ReadMiss, Write, CopyWrite
<1> QED
  BY <1>2, <1>3, <1>4
     DEF Next, NoDramReturn, Answer, AnswerEnd, Receive, NoAccess, vars

----
(* The MSHRs.  A read enters the table and the DRAM's queue in one step,   *)
(* and the first read of a sector that returns empties its entry.          *)
MshrOK ==
    /\ m_mshrs \in [Sectors -> Seq(Fetches)]
    /\ MshrInFlight

LEMMA MshrStep ==
    ASSUME MshrOK, dram \in Seq(Fetches), m_l1_to_l2 \in Seq(Fetches), [Next]_vars
    PROVE  MshrOK'
<1>0. m_mshrs \in [Sectors -> Seq(Fetches)]
  BY DEF MshrOK
<1>1. CASE UNCHANGED <<m_mshrs, dram>>
  BY <1>1 DEF MshrOK, MshrInFlight
<1>2. CASE DramReturn
  <2> DEFINE s == SectorOf[Head(dram)]
  <2>1. m_mshrs' = [m_mshrs EXCEPT ![s] = << >>] /\ dram' = Tail(dram) /\ dram # << >>
    BY <1>2 DEF DramReturn
  <2>2. m_mshrs' \in [Sectors -> Seq(Fetches)]
    <3>1. << >> \in Seq(Fetches)
      OBVIOUS
    <3> HIDE DEF s
    <3> QED
      BY <1>0, <2>1, <3>1
  <2>3. ASSUME NEW t \in Sectors, NEW f \in Range(m_mshrs'[t])
        PROVE  KindOf[f] = "read" /\ SectorOf[f] = t /\ f \in Range(dram')
    <3>1. t # s
      <4>1. Range(<< >>) = {}
        BY DEF Range
      <4>2. t = s => m_mshrs'[t] = << >>
        BY <1>0, <2>1
      <4> QED
        BY <2>3, <4>1, <4>2
    <3>2. m_mshrs'[t] = m_mshrs[t]
      BY <1>0, <2>1, <3>1
    <3>3. KindOf[f] = "read" /\ SectorOf[f] = t /\ f \in Range(dram)
      BY <2>3, <3>2 DEF MshrOK, MshrInFlight
    <3>4. f # Head(dram)
      BY <3>1, <3>3
    <3> QED
      BY <2>1, <3>3, <3>4, TailRange
  <2> QED
    BY <2>2, <2>3 DEF MshrOK, MshrInFlight
<1>3. ASSUME NEW f \in Fetches, KindOf[f] = "read", dram' = Append(dram, f),
             m_mshrs' = [m_mshrs EXCEPT ![SectorOf[f]] = Append(@, f)]
      PROVE  MshrOK'
  <2> DEFINE s == SectorOf[f]
  <2>1. s \in Sectors
    BY SliceAssumption
  <2>2. Append(m_mshrs[s], f) \in Seq(Fetches)
        /\ Range(Append(m_mshrs[s], f)) = Range(m_mshrs[s]) \union {f}
    BY <1>0, <2>1, AppendRange
  <2>3. m_mshrs' \in [Sectors -> Seq(Fetches)]
    BY <1>0, <1>3, <2>2
  <2>4. Range(dram') = Range(dram) \union {f}
    BY <1>3, AppendRange
  <2>5. ASSUME NEW t \in Sectors, NEW g \in Range(m_mshrs'[t])
        PROVE  KindOf[g] = "read" /\ SectorOf[g] = t /\ g \in Range(dram')
    <3>1. m_mshrs'[s] = Append(m_mshrs[s], f) /\ (t # s => m_mshrs'[t] = m_mshrs[t])
      BY <1>0, <1>3, <2>1
    <3>2. g \in Range(m_mshrs[t]) \/ (t = s /\ g = f)
      BY <2>2, <2>5, <3>1
    <3> QED
      BY <1>3, <2>4, <3>2 DEF MshrOK, MshrInFlight
  <2> QED
    BY <2>3, <2>5 DEF MshrOK, MshrInFlight
<1>4. ASSUME NEW f \in Fetches, UNCHANGED m_mshrs, dram' = Append(dram, f) PROVE MshrOK'
  BY <1>4, AppendRange DEF MshrOK, MshrInFlight
<1>5. CASE Access
  <2>1. Head(m_l1_to_l2) \in Fetches
    BY <1>5, TailRange DEF Access
  <2> QED
    BY <1>1, <1>3, <1>4, <1>5, <2>1
       DEF Access, cache_access, ReadHit, ReadMiss, Write, CopyWrite
<1> QED
  BY <1>1, <1>2, <1>5 DEF Next, NoDramReturn, Answer, AnswerEnd, Receive, NoAccess, vars

----
(* The queues of hits.  No hit has longer to go than its queue's latency,  *)
(* and when an access is due every hit has some cycles left: those that    *)
(* had none were answered, from the front of a queue that is in order.     *)
Latency(q) == IF q = "hit" THEN l2_hit_latency ELSE tlb_miss_latency

(* A queue in order, in which a hit has at least low and less than high.   *)
Ordered(s, low, high) ==
    /\ s \in Seq(HitOf)
    /\ \A i \in 1 .. Len(s) : low <= s[i].left /\ s[i].left < high
    /\ \A i, j \in 1 .. Len(s) : i < j => s[i].left <= s[j].left

HitsOK ==
    /\ l2_to_sms \in [Queues -> Seq(HitOf)]
    /\ \A q \in Queues :
          Ordered(l2_to_sms[q], IF phase \in {"receive", "access"} THEN 1 ELSE 0, Latency(q))

LEMMA LatencyType == \A q \in Queues : Latency(q) \in Nat \ {0}
  BY SliceAssumption DEF Latency

LEMMA HitFacts ==
    ASSUME NEW s \in Seq(HitOf)
    PROVE  /\ Len(s) \in Nat
           /\ \A i \in 1 .. Len(s) : s[i] \in HitOf /\ s[i].left \in Nat
<1>1. Len(s) \in Nat /\ \A i \in 1 .. Len(s) : s[i] \in HitOf
  BY SeqFacts
<1> QED
  BY <1>1 DEF HitOf

LEMMA OrderedTail ==
    ASSUME NEW s, NEW low \in Nat, NEW high \in Nat, Ordered(s, low, high), s # << >>
    PROVE  Ordered(Tail(s), low, high)
<1>1. /\ s \in Seq(HitOf) /\ Len(s) \in Nat
      /\ Tail(s) \in Seq(HitOf) /\ Len(Tail(s)) = Len(s) - 1
      /\ \A i \in 1 .. Len(s) - 1 : Tail(s)[i] = s[i + 1]
  BY HeadTailProperties, LenProperties, EmptySeq DEF Ordered
<1>2. \A i \in 1 .. Len(s) - 1 : i + 1 \in 1 .. Len(s)
  BY <1>1
<1>3. \A i \in 1 .. Len(s) - 1 : low <= s[i + 1].left /\ s[i + 1].left < high
  BY <1>2 DEF Ordered
<1>4. \A i, j \in 1 .. Len(s) - 1 : i < j => s[i + 1].left <= s[j + 1].left
  BY <1>1, <1>2 DEF Ordered
<1> QED
  BY <1>1, <1>3, <1>4 DEF Ordered

LEMMA OrderedAppend ==
    ASSUME NEW s, NEW low \in Nat, NEW high \in Nat, Ordered(s, low, high),
           NEW h \in HitOf, low <= high, h.left = high
    PROVE  Ordered(Append(s, h), low, high + 1)
<1>1. /\ s \in Seq(HitOf) /\ Len(s) \in Nat
      /\ Append(s, h) \in Seq(HitOf) /\ Len(Append(s, h)) = Len(s) + 1
      /\ \A i \in 1 .. Len(s) : Append(s, h)[i] = s[i]
      /\ Append(s, h)[Len(s) + 1] = h
      /\ \A i \in 1 .. Len(s) : s[i].left \in Nat
  BY AppendProperties, HitFacts DEF Ordered
<1>2. \A i \in 1 .. Len(s) + 1 :
         IF i \in 1 .. Len(s)
         THEN /\ Append(s, h)[i].left = s[i].left
              /\ low <= s[i].left /\ s[i].left < high
         ELSE i = Len(s) + 1 /\ Append(s, h)[i].left = high
  BY <1>1 DEF Ordered
<1>3. \A i \in 1 .. Len(s) + 1 : low <= Append(s, h)[i].left /\ Append(s, h)[i].left < high + 1
  BY <1>1, <1>2
<1>4. \A i, j \in 1 .. Len(s) + 1 : i < j => Append(s, h)[i].left <= Append(s, h)[j].left
  <2> SUFFICES ASSUME NEW i \in 1 .. Len(s) + 1, NEW j \in 1 .. Len(s) + 1, i < j
               PROVE  Append(s, h)[i].left <= Append(s, h)[j].left
    OBVIOUS
  <2>1. i \in 1 .. Len(s)
    BY <1>1
  <2>2. CASE j \in 1 .. Len(s)
    BY <1>2, <2>1, <2>2 DEF Ordered
  <2>3. CASE j \notin 1 .. Len(s)
    BY <1>1, <1>2, <2>1, <2>3
  <2> QED
    BY <2>2, <2>3
<1> QED
  BY <1>1, <1>3, <1>4 DEF Ordered

(* What is in order stays in order, at smaller times.                      *)
LEMMA OrderedWeaker ==
    ASSUME NEW s, NEW low \in Nat, NEW high \in Nat, Ordered(s, low, high),
           NEW l \in Nat, NEW h \in Nat, l <= low, high <= h
    PROVE  Ordered(s, l, h)
<1>1. s \in Seq(HitOf) /\ \A i \in 1 .. Len(s) : s[i].left \in Nat
  BY HitFacts DEF Ordered
<1> QED
  BY <1>1 DEF Ordered

(* A cycle later.                                                          *)
LEMMA AgedHits ==
    ASSUME HitsOK, phase \in {"receive", "access"}, NEW q \in Queues
    PROVE  /\ Ordered(Aged[q], 0, Latency(q) - 1)
           /\ Carried(Aged[q]) = Carried(l2_to_sms[q])
<1> DEFINE s == l2_to_sms[q]
           t == Aged[q]
<1>1. Ordered(s, 1, Latency(q)) /\ s \in Seq(HitOf)
  BY DEF HitsOK
<1>2. t = [i \in 1 .. Len(s) |-> [fetch |-> s[i].fetch, left |-> s[i].left - 1]]
  BY DEF Aged
<1> HIDE DEF s, t
<1>3. Len(s) \in Nat /\ \A i \in 1 .. Len(s) : s[i] \in HitOf
  BY <1>1, HitFacts
<1>4. \A i \in 1 .. Len(s) : s[i].fetch \in Fetches /\ s[i].left \in Nat /\ s[i].left >= 1
  BY <1>1, <1>3 DEF HitOf, Ordered
<1>5. \A i \in 1 .. Len(s) :
         t[i] \in HitOf /\ t[i].fetch = s[i].fetch /\ t[i].left = s[i].left - 1
  BY <1>2, <1>4 DEF HitOf
<1>6. t \in Seq(HitOf) /\ Len(t) = Len(s)
  BY <1>2, <1>3, <1>5
<1>7. Carried(t) = Carried(s)
  BY <1>5, <1>6 DEF Carried
<1>8. Latency(q) \in Nat
  BY LatencyType
<1>9. \A i \in 1 .. Len(s) : 0 <= t[i].left /\ t[i].left < Latency(q) - 1
  BY <1>1, <1>4, <1>5, <1>8 DEF Ordered
<1>10. \A i, j \in 1 .. Len(s) : i < j => t[i].left <= t[j].left
  <2> SUFFICES ASSUME NEW i \in 1 .. Len(s), NEW j \in 1 .. Len(s), i < j
               PROVE  t[i].left <= t[j].left
    OBVIOUS
  <2>1. s[i].left <= s[j].left
    BY <1>1 DEF Ordered
  <2> QED
    BY <1>4, <1>5, <2>1
<1>11. Ordered(t, 0, Latency(q) - 1)
  BY <1>6, <1>9, <1>10 DEF Ordered
<1> QED
  BY <1>7, <1>11 DEF s, t

LEMMA AgedQueues ==
    ASSUME HitsOK, phase \in {"receive", "access"}
    PROVE  Aged \in [Queues -> Seq(HitOf)]
<1>1. \A q \in Queues : Aged[q] \in Seq(HitOf)
  BY AgedHits DEF Ordered
<1> QED
  BY <1>1 DEF Aged

(* The queue a hit joins is that of its latency.                           *)
LEMMA JoinsQueue ==
    ASSUME NEW l \in {l2_hit_latency, tlb_miss_latency}
    PROVE  QueueFor(l) \in Queues /\ Latency(QueueFor(l)) = l
  BY SliceAssumption DEF QueueFor, Queues, Latency

LEMMA SendKeepsHits ==
    ASSUME HitsOK, phase = "access", phase' = "dram", NEW f \in Fetches,
           NEW l \in {l2_hit_latency, tlb_miss_latency}, SendToSm(f, l)
    PROVE  HitsOK'
<1> DEFINE q == QueueFor(l)
           h == [fetch |-> f, left |-> l - 1]
<1>1. q \in Queues /\ Latency(q) = l /\ l \in Nat \ {0}
  BY JoinsQueue, SliceAssumption
<1>2. l2_to_sms' = [Aged EXCEPT ![q] = Append(@, h)]
  BY DEF SendToSm
<1>3. h \in HitOf /\ h.left = l - 1 /\ l - 1 \in Nat
  BY <1>1 DEF HitOf
<1>4. Aged \in [Queues -> Seq(HitOf)] /\ \A p \in Queues : Ordered(Aged[p], 0, Latency(p) - 1)
  BY AgedQueues, AgedHits
<1> HIDE DEF q, h
<1>5. Ordered(Append(Aged[q], h), 0, Latency(q))
  <2>1. 0 \in Nat /\ 0 <= l - 1 /\ (l - 1) + 1 = l
    BY <1>1, <1>3
  <2>2. Ordered(Append(Aged[q], h), 0, (l - 1) + 1)
    BY <1>1, <1>3, <1>4, <2>1, OrderedAppend
  <2> QED
    BY <1>1, <2>1, <2>2
<1>6. ASSUME NEW p \in Queues PROVE Ordered(l2_to_sms'[p], 0, Latency(p))
  <2>1. CASE p = q
    BY <1>1, <1>2, <1>4, <1>5, <2>1
  <2>2. CASE p # q
    <3>1. l2_to_sms'[p] = Aged[p]
      BY <1>1, <1>2, <1>4, <2>2
    <3>2. Latency(p) \in Nat /\ Latency(p) - 1 \in Nat /\ 0 \in Nat /\ 0 <= 0
          /\ Latency(p) - 1 <= Latency(p)
      BY LatencyType
    <3> QED
      BY <1>4, <3>1, <3>2, OrderedWeaker
  <2> QED
    BY <2>1, <2>2
<1>7. l2_to_sms' \in [Queues -> Seq(HitOf)]
  <2>1. Append(Aged[q], h) \in Seq(HitOf)
    BY <1>5 DEF Ordered
  <2> QED
    BY <1>1, <1>2, <1>4, <2>1
<1> QED
  BY <1>6, <1>7 DEF HitsOK

LEMMA AgeingKeepsHits ==
    ASSUME HitsOK, phase = "access", phase' = "dram", l2_to_sms' = Aged
    PROVE  HitsOK'
<1>1. Aged \in [Queues -> Seq(HitOf)] /\ \A p \in Queues : Ordered(Aged[p], 0, Latency(p) - 1)
  BY AgedQueues, AgedHits
<1>2. ASSUME NEW p \in Queues PROVE Ordered(Aged[p], 0, Latency(p))
  <2>1. Latency(p) \in Nat /\ Latency(p) - 1 \in Nat /\ 0 \in Nat /\ 0 <= 0
        /\ Latency(p) - 1 <= Latency(p)
    BY LatencyType
  <2> QED
    BY <1>1, <2>1, OrderedWeaker
<1> QED
  BY <1>1, <1>2 DEF HitsOK

LEMMA HitsStep ==
    ASSUME HitsOK, m_l1_to_l2 \in Seq(Fetches), [Next]_vars
    PROVE  HitsOK'
<1>0. /\ l2_to_sms \in [Queues -> Seq(HitOf)]
      /\ \A q \in Queues :
            Ordered(l2_to_sms[q], IF phase \in {"receive", "access"} THEN 1 ELSE 0, Latency(q))
  BY DEF HitsOK
<1>1. ASSUME UNCHANGED l2_to_sms,
             phase' \in {"receive", "access"} => phase \in {"receive", "access"}
      PROVE  HitsOK'
  BY <1>1, <1>0, LatencyType, OrderedWeaker, 0 \in Nat, 1 \in Nat, 0 <= 1 DEF HitsOK
<1>2. ASSUME NEW q \in Queues, Answer(q) PROVE HitsOK'
  <2>1. /\ phase = "sms" /\ phase' = "sms" /\ l2_to_sms[q] # << >>
        /\ l2_to_sms' = [l2_to_sms EXCEPT ![q] = Tail(l2_to_sms[q])]
    BY <1>2 DEF Answer, Due
  <2>2. Latency(q) \in Nat /\ 0 \in Nat
    BY LatencyType
  <2>3. Ordered(l2_to_sms[q], 0, Latency(q))
    BY <1>0, <2>1
  <2>4. Ordered(Tail(l2_to_sms[q]), 0, Latency(q)) /\ Tail(l2_to_sms[q]) \in Seq(HitOf)
    BY <2>1, <2>2, <2>3, OrderedTail DEF Ordered
  <2>5. \A p \in Queues : Ordered(l2_to_sms'[p], 0, Latency(p))
    BY <1>0, <2>1, <2>4
  <2>6. l2_to_sms' \in [Queues -> Seq(HitOf)]
    BY <1>0, <2>1, <2>4
  <2> QED
    BY <2>1, <2>5, <2>6 DEF HitsOK
<1>3. CASE AnswerEnd
  <2>1. /\ phase = "sms" /\ l2_to_sms' = l2_to_sms
        /\ \A q \in Queues : l2_to_sms[q] = << >> \/ Head(l2_to_sms[q]).left # 0
    BY <1>3 DEF AnswerEnd, Due
  <2>2. ASSUME NEW q \in Queues PROVE Ordered(l2_to_sms[q], 1, Latency(q))
    <3> DEFINE s == l2_to_sms[q]
    <3>1. Ordered(s, 0, Latency(q)) /\ s \in Seq(HitOf)
      BY <1>0, <2>1
    <3>2. s = << >> \/ Head(s).left # 0
      BY <2>1
    <3> HIDE DEF s
    <3>3. Len(s) \in Nat /\ \A i \in 1 .. Len(s) : s[i].left \in Nat
      BY <3>1, HitFacts
    <3>4. ASSUME NEW i \in 1 .. Len(s) PROVE 1 <= s[i].left
      <4>1. s # << >> /\ 1 \in 1 .. Len(s) /\ Head(s) = s[1]
        BY <3>1, <3>3
      <4>2. s[1].left \in Nat /\ s[1].left # 0
        BY <3>2, <3>3, <4>1
      <4>3. i = 1 \/ s[1].left <= s[i].left
        BY <3>1, <3>3, <4>1 DEF Ordered
      <4> QED
        BY <3>3, <4>2, <4>3
    <3>5. Ordered(s, 1, Latency(q))
      BY <3>1, <3>4 DEF Ordered
    <3> QED
      BY <3>5 DEF s
  <2> QED
    BY <1>0, <2>1, <2>2, LatencyType, OrderedWeaker, 0 \in Nat, 1 \in Nat, 0 <= 1 DEF HitsOK
<1>4. CASE Access
  <2> DEFINE f == Head(m_l1_to_l2)
  <2>1. f \in Fetches /\ phase = "access" /\ phase' = "dram" /\ cache_access(f)
    BY <1>4, TailRange DEF Access
  <2> HIDE DEF f
  <2>2. l2_to_sms' = Aged \/ \E l \in {l2_hit_latency, tlb_miss_latency} : SendToSm(f, l)
    BY <2>1 DEF cache_access, ReadHit, ReadMiss, Write, CopyWrite
  <2> QED
    BY <2>1, <2>2, SendKeepsHits, AgeingKeepsHits
<1>5. CASE NoAccess
  BY <1>5, AgeingKeepsHits DEF NoAccess
<1> QED
  BY <1>1, <1>2, <1>3, <1>4, <1>5 DEF Next, DramReturn, NoDramReturn, Receive, vars

----
(* The places of the fetches.  Every fetch is in one of them, and in a     *)
(* queue it is there once.                                                 *)
Places == {"unsent", "arrived", "dram", "hit", "tlb", "answered", "deleted"}

where ==
    [unsent |-> unsent,
     arrived |-> Range(m_l1_to_l2),
     dram |-> Range(dram),
     hit |-> Range(Carried(l2_to_sms["hit"])),
     tlb |-> Range(Carried(l2_to_sms["tlb"])),
     answered |-> answered,
     deleted |-> deleted]

Located == \A f \in Fetches : \E p \in Places : \A q \in Places : f \in where[q] <=> q = p

Unrepeated ==
    /\ IsInjective(m_l1_to_l2) /\ IsInjective(dram)
    /\ \A q \in Queues : IsInjective(Carried(l2_to_sms[q]))

(* No write-through copy is on its way back, or to the DRAM.               *)
CopiesStay ==
    \A f \in Fetches :
        KindOf[f] = "copy" => \A p \in {"dram", "hit", "tlb", "answered"} : f \notin where[p]

QueuesOK ==
    /\ phase \in {"dram", "sms", "receive", "access"}
    /\ unsent \subseteq Fetches /\ answered \subseteq Fetches /\ deleted \subseteq Fetches
    /\ m_l1_to_l2 \in Seq(Fetches) /\ dram \in Seq(Fetches)

PlacesOK == QueuesOK /\ Located /\ Unrepeated /\ CopiesStay

SliceInv == LinesOK /\ MshrOK /\ HitsOK /\ PlacesOK

(* A fetch goes from one place to another; what was there stays there.     *)
Moves(f, from, to) ==
    /\ f \in Fetches /\ from \in Places /\ to \in Places /\ from # to
    /\ f \in where[from]
    /\ \A p \in Places : where'[p] = IF p = from THEN where[p] \ {f}
                                     ELSE IF p = to THEN where[p] \union {f} ELSE where[p]

LEMMA MovedLocated ==
    ASSUME Located, NEW f, NEW from, NEW to, Moves(f, from, to)
    PROVE  Located'
<1> SUFFICES ASSUME NEW g \in Fetches
             PROVE  \E p \in Places : \A q \in Places : g \in where'[q] <=> q = p
  BY DEF Located
<1>1. PICK p \in Places : \A q \in Places : g \in where[q] <=> q = p
  BY DEF Located
<1>2. CASE g = f
  <2>1. p = from
    BY <1>1, <1>2 DEF Moves
  <2>2. \A q \in Places : g \in where'[q] <=> q = to
    BY <1>1, <1>2, <2>1 DEF Moves
  <2> QED
    BY <2>2 DEF Moves
<1>3. CASE g # f
  BY <1>1, <1>3 DEF Moves
<1> QED
  BY <1>2, <1>3

LEMMA MovedCopies ==
    ASSUME CopiesStay, NEW f, NEW from, NEW to, Moves(f, from, to),
           KindOf[f] # "copy" \/ to = "deleted" \/ to = "arrived"
    PROVE  CopiesStay'
<1> SUFFICES ASSUME NEW g \in Fetches, KindOf[g] = "copy",
                    NEW p \in {"dram", "hit", "tlb", "answered"}
             PROVE  g \notin where'[p]
  BY DEF CopiesStay
<1>1. g \notin where[p] /\ p \in Places
  BY DEF CopiesStay, Places
<1> QED
  BY <1>1 DEF Moves

(* Where a fetch is it is nowhere else.                                    *)
LEMMA NowhereElse ==
    ASSUME Located, NEW f \in Fetches, NEW p \in Places, f \in where[p],
           NEW q \in Places, q # p
    PROVE  f \notin where[q]
  BY DEF Located

LEMMA AllStay ==
    ASSUME PlacesOK, QueuesOK', \A p \in Places : where'[p] = where[p], Unrepeated'
    PROVE  PlacesOK'
<1>1. Located'
  BY DEF PlacesOK, Located
<1>2. CopiesStay'
  BY DEF PlacesOK, CopiesStay, Places
<1> QED
  BY <1>1, <1>2 DEF PlacesOK

LEMMA OneMoves ==
    ASSUME PlacesOK, QueuesOK', Unrepeated', NEW f, NEW from, NEW to, Moves(f, from, to),
           KindOf[f] # "copy" \/ to = "deleted" \/ to = "arrived"
    PROVE  PlacesOK'
  BY MovedLocated, MovedCopies DEF PlacesOK

(* The queues of hits, a cycle later and with one more.                    *)
LEMMA AgedPlaces ==
    ASSUME HitsOK, phase = "access", l2_to_sms' = Aged
    PROVE  \A q \in Queues : Carried(l2_to_sms'[q]) = Carried(l2_to_sms[q])
  BY AgedHits

LEMMA SentPlaces ==
    ASSUME HitsOK, phase = "access", NEW f \in Fetches,
           NEW l \in {l2_hit_latency, tlb_miss_latency}, SendToSm(f, l)
    PROVE  \E q \in Queues :
              /\ Carried(l2_to_sms'[q]) = Append(Carried(l2_to_sms[q]), f)
              /\ \A p \in Queues : p # q => Carried(l2_to_sms'[p]) = Carried(l2_to_sms[p])
<1> DEFINE q == QueueFor(l)
           h == [fetch |-> f, left |-> l - 1]
<1>1. q \in Queues /\ l \in Nat \ {0}
  BY JoinsQueue, SliceAssumption
<1>2. l2_to_sms' = [Aged EXCEPT ![q] = Append(@, h)]
  BY DEF SendToSm
<1>3. h \in HitOf /\ h.fetch = f
  BY <1>1 DEF HitOf
<1>4. /\ Aged \in [Queues -> Seq(HitOf)]
      /\ \A p \in Queues : Carried(Aged[p]) = Carried(l2_to_sms[p])
  BY AgedQueues, AgedHits
<1> HIDE DEF q, h
<1>5. l2_to_sms'[q] = Append(Aged[q], h) /\ \A p \in Queues : p # q => l2_to_sms'[p] = Aged[p]
  BY <1>1, <1>2, <1>4
<1>6. Carried(Append(Aged[q], h)) = Append(Carried(Aged[q]), f)
  BY <1>1, <1>3, <1>4, CarriedBy
<1> QED
  BY <1>1, <1>4, <1>5, <1>6

----
(* What each step does to the places.                                      *)
LEMMA WhereIs ==
    /\ where["unsent"] = unsent /\ where["arrived"] = Range(m_l1_to_l2)
    /\ where["dram"] = Range(dram)
    /\ \A q \in Queues : q \in Places /\ where[q] = Range(Carried(l2_to_sms[q]))
    /\ where["answered"] = answered /\ where["deleted"] = deleted
    /\ where'["unsent"] = unsent' /\ where'["arrived"] = Range(m_l1_to_l2')
    /\ where'["dram"] = Range(dram')
    /\ \A q \in Queues : where'[q] = Range(Carried(l2_to_sms'[q]))
    /\ where'["answered"] = answered' /\ where'["deleted"] = deleted'
    /\ \A p \in Places :
          p \in Queues \/ p \in {"unsent", "arrived", "dram", "answered", "deleted"}
  BY DEF where, Queues, Places

LEMMA CarriedQueues ==
    ASSUME HitsOK, NEW q \in Queues
    PROVE  Carried(l2_to_sms[q]) \in Seq(Fetches)
  BY CarriedBy DEF HitsOK

LEMMA ReturnPlaces == ASSUME SliceInv, DramReturn PROVE PlacesOK'
<1> DEFINE f == Head(dram)
<1>1. /\ dram \in Seq(Fetches) /\ dram # << >> /\ dram' = Tail(dram)
      /\ answered' = answered \union {f}
      /\ UNCHANGED <<unsent, m_l1_to_l2, l2_to_sms, deleted>> /\ phase' = "sms"
      /\ PlacesOK /\ QueuesOK /\ Located /\ Unrepeated /\ CopiesStay
  BY DEF DramReturn, Released, SliceInv, PlacesOK, QueuesOK
<1>2. /\ f \in Fetches /\ f \in Range(dram) /\ Tail(dram) \in Seq(Fetches)
      /\ IsInjective(Tail(dram)) /\ Range(Tail(dram)) = Range(dram) \ {f}
  BY <1>1, TailRange DEF Unrepeated
<1> HIDE DEF f
<1>3. QueuesOK' /\ Unrepeated'
  BY <1>1, <1>2 DEF QueuesOK, Unrepeated
<1>4. "dram" \in Places /\ "answered" \in Places /\ "dram" # "answered"
  BY DEF Places
<1>5. Moves(f, "dram", "answered")
  BY <1>1, <1>2, <1>4, WhereIs DEF Moves, Queues
<1>6. KindOf[f] # "copy"
  BY <1>1, <1>2, WhereIs DEF CopiesStay
<1> QED
  BY <1>1, <1>3, <1>5, <1>6, OneMoves

LEMMA AnswerPlaces == ASSUME SliceInv, NEW q \in Queues, Answer(q) PROVE PlacesOK'
<1> DEFINE s == l2_to_sms[q]
           c == Carried(l2_to_sms[q])
           f == Head(l2_to_sms[q]).fetch
<1>1. /\ s # << >> /\ answered' = answered \union {f} /\ phase = "sms"
      /\ l2_to_sms' = [l2_to_sms EXCEPT ![q] = Tail(s)]
      /\ UNCHANGED <<phase, unsent, m_l1_to_l2, dram, deleted>>
      /\ PlacesOK /\ QueuesOK /\ Located /\ Unrepeated /\ CopiesStay
      /\ s \in Seq(HitOf) /\ l2_to_sms \in [Queues -> Seq(HitOf)]
  BY DEF Answer, Due, SliceInv, HitsOK, PlacesOK
<1>2. c \in Seq(Fetches) /\ c # << >> /\ Carried(Tail(s)) = Tail(c) /\ f = Head(c)
  BY <1>1, CarriedBy
<1>3. /\ Carried(l2_to_sms'[q]) = Tail(c)
      /\ \A p \in Queues : p # q => Carried(l2_to_sms'[p]) = Carried(l2_to_sms[p])
  BY <1>1, <1>2
<1>4. c = Carried(l2_to_sms[q]) /\ IsInjective(c)
  BY <1>1 DEF Unrepeated
<1> HIDE DEF s, c, f
<1>5. /\ f \in Fetches /\ f \in Range(c)
      /\ IsInjective(Tail(c)) /\ Range(Tail(c)) = Range(c) \ {f}
  BY <1>2, <1>4, TailRange
<1>6. QueuesOK' /\ Unrepeated'
  BY <1>1, <1>3, <1>5 DEF QueuesOK, Unrepeated
<1>7. q \in Places /\ "answered" \in Places /\ q # "answered" /\ where[q] = Range(c)
      /\ q \in {"hit", "tlb"}
  BY <1>4, WhereIs DEF Places, Queues
<1>8. Moves(f, q, "answered")
  <2>1. ASSUME NEW p \in Places
        PROVE  where'[p] = IF p = q THEN where[p] \ {f}
                           ELSE IF p = "answered" THEN where[p] \union {f} ELSE where[p]
    <3>1. CASE p \in Queues
      <4>1. p # "answered" /\ where'[p] = Range(Carried(l2_to_sms'[p]))
            /\ where[p] = Range(Carried(l2_to_sms[p]))
        BY <3>1, WhereIs DEF Queues
      <4>2. CASE p = q
        BY <1>3, <1>5, <1>7, <4>1, <4>2
      <4>3. CASE p # q
        BY <1>3, <3>1, <4>1, <4>3
      <4> QED
        BY <4>2, <4>3
    <3>2. CASE p \in {"unsent", "arrived", "dram", "answered", "deleted"}
      BY <1>1, <1>7, <3>2, WhereIs
    <3> QED
      BY <3>1, <3>2, WhereIs
  <2> QED
    BY <1>5, <1>7, <2>1 DEF Moves
<1>9. KindOf[f] # "copy"
  BY <1>1, <1>5, <1>7 DEF CopiesStay
<1> QED
  BY <1>1, <1>6, <1>8, <1>9, OneMoves

LEMMA ReceivePlaces == ASSUME SliceInv, Receive PROVE PlacesOK'
<1>1. /\ UNCHANGED <<dram, l2_to_sms, answered, deleted>> /\ phase' = "access"
      /\ PlacesOK /\ QueuesOK /\ Located /\ Unrepeated
      /\ m_l1_to_l2 \in Seq(Fetches) /\ unsent \subseteq Fetches
  BY DEF Receive, SliceInv, PlacesOK, QueuesOK
<1>2. CASE UNCHANGED <<unsent, m_l1_to_l2>>
  <2>1. QueuesOK' /\ Unrepeated'
    BY <1>1, <1>2 DEF QueuesOK, Unrepeated
  <2>2. \A p \in Places : where'[p] = where[p]
    BY <1>1, <1>2 DEF where
  <2> QED
    BY <1>1, <2>1, <2>2, AllStay
<1>3. ASSUME NEW f \in unsent, unsent' = unsent \ {f}, m_l1_to_l2' = Append(m_l1_to_l2, f)
      PROVE  PlacesOK'
  <2>1. f \in Fetches /\ "unsent" \in Places /\ "arrived" \in Places /\ f \in where["unsent"]
    BY <1>1, WhereIs DEF Places
  <2>2. f \notin Range(m_l1_to_l2)
    BY <1>1, <2>1, NowhereElse, WhereIs
  <2>3. /\ m_l1_to_l2' \in Seq(Fetches) /\ IsInjective(m_l1_to_l2')
        /\ Range(m_l1_to_l2') = Range(m_l1_to_l2) \union {f}
    BY <1>1, <1>3, <2>1, <2>2, AppendRange DEF Unrepeated
  <2>4. QueuesOK' /\ Unrepeated'
    BY <1>1, <1>3, <2>3 DEF QueuesOK, Unrepeated
  <2>5. Moves(f, "unsent", "arrived")
    BY <1>1, <1>3, <2>1, <2>3, WhereIs DEF Moves, Queues
  <2> QED
    BY <1>1, <2>4, <2>5, OneMoves
<1> QED
  BY <1>2, <1>3 DEF Receive

(* An access takes the oldest fetch that has arrived to one place.         *)
LEMMA AccessPlaces == ASSUME SliceInv, Access PROVE PlacesOK'
<1> DEFINE f == Head(m_l1_to_l2)
<1>1. /\ m_l1_to_l2 \in Seq(Fetches) /\ m_l1_to_l2 # << >> /\ m_l1_to_l2' = Tail(m_l1_to_l2)
      /\ UNCHANGED <<unsent, answered>> /\ phase = "access" /\ phase' = "dram"
      /\ PlacesOK /\ QueuesOK /\ Located /\ Unrepeated /\ CopiesStay /\ HitsOK
      /\ dram \in Seq(Fetches) /\ deleted \subseteq Fetches
      /\ cache_access(f)
  BY DEF Access, SliceInv, PlacesOK, QueuesOK
<1>2. /\ f \in Fetches /\ f \in Range(m_l1_to_l2) /\ Tail(m_l1_to_l2) \in Seq(Fetches)
      /\ IsInjective(Tail(m_l1_to_l2))
      /\ Range(Tail(m_l1_to_l2)) = Range(m_l1_to_l2) \ {f}
  BY <1>1, TailRange DEF Unrepeated
<1> HIDE DEF f
<1>3. /\ f \in where["arrived"]
      /\ {"arrived", "dram", "hit", "tlb", "deleted"} \subseteq Places
  BY <1>2, WhereIs DEF Places
<1>4. ASSUME NEW l \in {l2_hit_latency, tlb_miss_latency}, SendToSm(f, l),
             UNCHANGED <<dram, deleted>>, KindOf[f] # "copy"
      PROVE  PlacesOK'
  <2>1. PICK q \in Queues :
           /\ Carried(l2_to_sms'[q]) = Append(Carried(l2_to_sms[q]), f)
           /\ \A p \in Queues : p # q => Carried(l2_to_sms'[p]) = Carried(l2_to_sms[p])
    BY <1>1, <1>2, <1>4, SentPlaces
  <2> DEFINE c == Carried(l2_to_sms[q])
  <2>2. c \in Seq(Fetches) /\ IsInjective(c) /\ q \in Places /\ q # "arrived"
        /\ where[q] = Range(c)
    BY <1>1, CarriedQueues, WhereIs DEF Unrepeated, Queues
  <2>3. f \notin Range(c)
    BY <1>1, <1>2, <1>3, <2>2, NowhereElse
  <2>4. IsInjective(Append(c, f)) /\ Range(Append(c, f)) = Range(c) \union {f}
    BY <1>2, <2>2, <2>3, AppendRange
  <2>5. c = Carried(l2_to_sms[q])
    OBVIOUS
  <2> HIDE DEF c
  <2>6. QueuesOK' /\ Unrepeated'
    BY <1>1, <1>2, <1>4, <2>1, <2>4, <2>5 DEF QueuesOK, Unrepeated
  <2>7. Moves(f, "arrived", q)
    <3>1. ASSUME NEW p \in Places
          PROVE  where'[p] = IF p = "arrived" THEN where[p] \ {f}
                             ELSE IF p = q THEN where[p] \union {f} ELSE where[p]
      <4>1. CASE p \in Queues
        <5>1. p # "arrived"
          BY <4>1 DEF Queues
        <5> QED
          BY <2>1, <2>4, <2>5, <4>1, <5>1, WhereIs
      <4>2. CASE p \in {"unsent", "arrived", "dram", "answered", "deleted"}
        <5>1. p # q
          BY <4>2 DEF Queues
        <5> QED
          BY <1>1, <1>2, <1>4, <4>2, <5>1, WhereIs
      <4> QED
        BY <4>1, <4>2, WhereIs
    <3> QED
      BY <1>2, <1>3, <2>2, <3>1 DEF Moves
  <2> QED
    BY <1>1, <1>4, <2>6, <2>7, OneMoves
<1>5. ASSUME dram' = Append(dram, f), l2_to_sms' = Aged, UNCHANGED deleted, KindOf[f] # "copy"
      PROVE  PlacesOK'
  <2>1. f \notin Range(dram)
    BY <1>1, <1>2, <1>3, NowhereElse, WhereIs
  <2>2. /\ dram' \in Seq(Fetches) /\ IsInjective(dram')
        /\ Range(dram') = Range(dram) \union {f}
    BY <1>1, <1>2, <1>5, <2>1, AppendRange DEF Unrepeated
  <2>3. \A q \in Queues : Carried(l2_to_sms'[q]) = Carried(l2_to_sms[q])
    BY <1>1, <1>5, AgedPlaces
  <2>4. QueuesOK' /\ Unrepeated'
    BY <1>1, <1>2, <1>5, <2>2, <2>3 DEF QueuesOK, Unrepeated
  <2>5. Moves(f, "arrived", "dram")
    BY <1>1, <1>2, <1>3, <1>5, <2>2, <2>3, WhereIs DEF Moves, Queues
  <2> QED
    BY <1>1, <1>5, <2>4, <2>5, OneMoves
<1>6. ASSUME deleted' = deleted \union {f}, l2_to_sms' = Aged, UNCHANGED dram
      PROVE  PlacesOK'
  <2>1. \A q \in Queues : Carried(l2_to_sms'[q]) = Carried(l2_to_sms[q])
    BY <1>1, <1>6, AgedPlaces
  <2>2. QueuesOK' /\ Unrepeated'
    BY <1>1, <1>2, <1>6, <2>1 DEF QueuesOK, Unrepeated
  <2>3. Moves(f, "arrived", "deleted")
    BY <1>1, <1>2, <1>3, <1>6, <2>1, WhereIs DEF Moves, Queues
  <2> QED
    BY <1>1, <2>2, <2>3, OneMoves
<1>7. CASE ReadHit(f)
  BY <1>4, <1>7 DEF ReadHit
<1>8. CASE ReadMiss(f)
  BY <1>5, <1>8 DEF ReadMiss
<1>9. CASE Write(f)
  BY <1>4, <1>5, <1>9 DEF Write
<1>10. CASE CopyWrite(f)
  BY <1>6, <1>10 DEF CopyWrite
<1> QED
  BY <1>1, <1>7, <1>8, <1>9, <1>10 DEF cache_access

LEMMA PlacesStep == ASSUME SliceInv, [Next]_vars PROVE PlacesOK'
<1>0. PlacesOK /\ QueuesOK /\ Unrepeated /\ HitsOK
  BY DEF SliceInv, PlacesOK
<1>1. ASSUME UNCHANGED <<unsent, m_l1_to_l2, dram, answered, deleted>>,
             \A q \in Queues : Carried(l2_to_sms'[q]) = Carried(l2_to_sms[q]),
             phase' \in {"dram", "sms", "receive", "access"}
      PROVE  PlacesOK'
  <2>1. QueuesOK' /\ Unrepeated'
    BY <1>0, <1>1 DEF QueuesOK, Unrepeated
  <2>2. \A p \in Places : where'[p] = where[p]
    BY <1>1, WhereIs
  <2> QED
    BY <1>0, <2>1, <2>2, AllStay
<1>2. CASE NoDramReturn \/ AnswerEnd
  BY <1>1, <1>2 DEF NoDramReturn, AnswerEnd
<1>3. CASE NoAccess
  BY <1>0, <1>1, <1>3, AgedPlaces DEF NoAccess
<1>4. CASE UNCHANGED vars
  BY <1>0, <1>1, <1>4 DEF vars, QueuesOK
<1> QED
  BY <1>2, <1>3, <1>4, ReturnPlaces, AnswerPlaces, ReceivePlaces, AccessPlaces DEF Next

----
(* From the places to their counts.                                        *)
LEMMA CountOf ==
    ASSUME NEW S, NEW s \in Seq(S), IsInjective(s), NEW f
    PROVE  Cardinality({i \in 1 .. Len(s) : s[i] = f}) = IF f \in Range(s) THEN 1 ELSE 0
<1>1. DOMAIN s = 1 .. Len(s)
  BY SeqFacts
<1>2. CASE f \in Range(s)
  <2>1. PICK k \in 1 .. Len(s) : s[k] = f
    BY <1>1, <1>2 DEF Range
  <2>2. {i \in 1 .. Len(s) : s[i] = f} = {k}
    BY <1>1, <2>1 DEF IsInjective
  <2> QED
    BY <1>2, <2>2, FS_Singleton
<1>3. CASE f \notin Range(s)
  <2>1. {i \in 1 .. Len(s) : s[i] = f} = {}
    BY <1>1, <1>3 DEF Range
  <2> QED
    BY <1>3, <2>1, FS_EmptySet
<1> QED
  BY <1>2, <1>3

(* A sequence of fetches without repetition is not longer than they are many. *)
LEMMA LengthBound ==
    ASSUME NEW s \in Seq(Fetches), IsInjective(s)
    PROVE  Len(s) <= Cardinality(Fetches) /\ Cardinality(Fetches) \in Nat
<1>1. Len(s) \in Nat /\ DOMAIN s = 1 .. Len(s) /\ \A i \in 1 .. Len(s) : s[i] \in Fetches
  BY SeqFacts
<1>2. s \in [1 .. Len(s) -> Fetches]
  BY LenProperties
<1>3. s \in Injection(1 .. Len(s), Fetches)
  BY <1>1, <1>2 DEF IsInjective, Injection
<1>4. IsFiniteSet(Fetches)
  BY SliceAssumption
<1>5. Cardinality(1 .. Len(s)) <= Cardinality(Fetches)
  BY <1>3, <1>4, FS_Injection
<1>6. Cardinality(1 .. Len(s)) = Len(s)
  <2>1. 1 \in Int /\ Len(s) \in Int
    BY <1>1
  <2>2. Cardinality(1 .. Len(s)) = IF 1 > Len(s) THEN 0 ELSE Len(s) - 1 + 1
    BY <2>1, FS_Interval
  <2> QED
    BY <1>1, <2>2
<1> QED
  BY <1>4, <1>5, <1>6, FS_CardinalityType

HitsOn(f) ==
    {at \in Queues \X (1 .. Cardinality(Fetches)) :
        at[2] <= Len(l2_to_sms[at[1]]) /\ l2_to_sms[at[1]][at[2]].fetch = f}

LEMMA CountOfHits ==
    ASSUME SliceInv, NEW f \in Fetches
    PROVE  Cardinality(HitsOn(f)) = IF f \in where["hit"] \/ f \in where["tlb"] THEN 1 ELSE 0
<1>1. ASSUME NEW q \in Queues
      PROVE  /\ l2_to_sms[q] \in Seq(HitOf) /\ Len(l2_to_sms[q]) \in Nat
             /\ Len(Carried(l2_to_sms[q])) = Len(l2_to_sms[q])
             /\ DOMAIN Carried(l2_to_sms[q]) = 1 .. Len(l2_to_sms[q])
             /\ \A i \in 1 .. Len(l2_to_sms[q]) :
                   Carried(l2_to_sms[q])[i] = l2_to_sms[q][i].fetch
             /\ Len(l2_to_sms[q]) <= Cardinality(Fetches) /\ Cardinality(Fetches) \in Nat
             /\ IsInjective(Carried(l2_to_sms[q]))
             /\ where[q] = Range(Carried(l2_to_sms[q])) /\ q \in Places
  <2>1. /\ l2_to_sms[q] \in Seq(HitOf) /\ IsInjective(Carried(l2_to_sms[q]))
        /\ Carried(l2_to_sms[q]) \in Seq(Fetches)
    BY CarriedQueues DEF SliceInv, HitsOK, PlacesOK, Unrepeated
  <2>2. Len(l2_to_sms[q]) \in Nat
    BY <2>1, SeqFacts
  <2>3. /\ DOMAIN Carried(l2_to_sms[q]) = 1 .. Len(l2_to_sms[q])
        /\ Len(Carried(l2_to_sms[q])) = Len(l2_to_sms[q])
        /\ \A i \in 1 .. Len(l2_to_sms[q]) :
                   Carried(l2_to_sms[q])[i] = l2_to_sms[q][i].fetch
    BY <2>2 DEF Carried
  <2>4. Len(Carried(l2_to_sms[q])) <= Cardinality(Fetches) /\ Cardinality(Fetches) \in Nat
    BY <2>1, LengthBound
  <2> QED
    BY <2>1, <2>2, <2>3, <2>4, WhereIs
<1>2. ASSUME NEW q \in Queues
      PROVE  f \in where[q] <=> \E i \in 1 .. Len(l2_to_sms[q]) : l2_to_sms[q][i].fetch = f
  <2> DEFINE c == Carried(l2_to_sms[q])
  <2>1. /\ where[q] = Range(c) /\ DOMAIN c = 1 .. Len(l2_to_sms[q])
        /\ \A i \in 1 .. Len(l2_to_sms[q]) : c[i] = l2_to_sms[q][i].fetch
    BY <1>1
  <2> HIDE DEF c
  <2> QED
    BY <2>1 DEF Range
<1>3. CASE \E q \in Queues : f \in where[q]
  <2>1. PICK q \in Queues : f \in where[q]
    BY <1>3
  <2>2. PICK k \in 1 .. Len(l2_to_sms[q]) : l2_to_sms[q][k].fetch = f
    BY <1>2, <2>1
  <2>3. k \in 1 .. Cardinality(Fetches) /\ k <= Len(l2_to_sms[q])
    BY <1>1, <2>2
  <2>4. <<q, k>> \in HitsOn(f)
    BY <2>2, <2>3 DEF HitsOn
  <2>5. ASSUME NEW at \in HitsOn(f) PROVE at = <<q, k>>
    <3>1. /\ at[1] \in Queues /\ at[2] \in 1 .. Len(l2_to_sms[at[1]]) /\ at = <<at[1], at[2]>>
          /\ l2_to_sms[at[1]][at[2]].fetch = f
      BY <1>1 DEF HitsOn
    <3>2. f \in where[at[1]]
      BY <1>2, <3>1
    <3>3. at[1] = q
      BY <1>1, <2>1, <3>1, <3>2, NowhereElse DEF SliceInv, PlacesOK
    <3>4. at[2] = k
      <4> DEFINE c == Carried(l2_to_sms[q])
      <4>1. /\ DOMAIN c = 1 .. Len(l2_to_sms[q]) /\ IsInjective(c)
            /\ \A i \in 1 .. Len(l2_to_sms[q]) : c[i] = l2_to_sms[q][i].fetch
        BY <1>1
      <4>2. at[2] \in 1 .. Len(l2_to_sms[q]) /\ l2_to_sms[q][at[2]].fetch = f
        BY <3>1, <3>3
      <4> HIDE DEF c
      <4>3. c[at[2]] = f /\ c[k] = f
        BY <2>2, <4>1, <4>2
      <4> QED
        BY <4>1, <4>2, <4>3 DEF IsInjective
    <3> QED
      BY <3>1, <3>3, <3>4
  <2>6. HitsOn(f) = {<<q, k>>}
    BY <2>4, <2>5
  <2>7. Cardinality(HitsOn(f)) = 1
    BY <2>6, FS_Singleton
  <2> QED
    BY <2>1, <2>7 DEF Queues
<1>4. CASE \A q \in Queues : f \notin where[q]
  <2>1. ASSUME NEW at \in HitsOn(f) PROVE FALSE
    <3>1. /\ at[1] \in Queues /\ at[2] \in 1 .. Len(l2_to_sms[at[1]])
          /\ l2_to_sms[at[1]][at[2]].fetch = f
      BY <1>1 DEF HitsOn
    <3> QED
      BY <1>2, <1>4, <3>1
  <2>2. HitsOn(f) = {}
    BY <2>1
  <2>3. f \notin where["hit"] /\ f \notin where["tlb"]
    BY <1>4 DEF Queues
  <2> QED
    BY <2>2, <2>3, FS_EmptySet
<1> QED
  BY <1>3, <1>4

KeptSets(f) == {S \in {<<1, unsent>>, <<2, answered>>, <<3, deleted>>} : f \in S[2]}

LEMMA CountOfSets ==
    ASSUME Located, NEW f \in Fetches
    PROVE  Cardinality(KeptSets(f)) =
             IF \E p \in {"unsent", "answered", "deleted"} : f \in where[p] THEN 1 ELSE 0
<1>1. /\ f \in unsent => f \notin answered /\ f \notin deleted
      /\ f \in answered => f \notin deleted
  BY NowhereElse, WhereIs DEF Places
<1>2. CASE f \in unsent
  <2>1. KeptSets(f) = {<<1, unsent>>}
    BY <1>1, <1>2 DEF KeptSets
  <2> QED
    BY <1>2, <2>1, FS_Singleton, WhereIs
<1>3. CASE f \in answered
  <2>1. KeptSets(f) = {<<2, answered>>}
    BY <1>1, <1>3 DEF KeptSets
  <2> QED
    BY <1>3, <2>1, FS_Singleton, WhereIs
<1>4. CASE f \in deleted
  <2>1. KeptSets(f) = {<<3, deleted>>}
    BY <1>1, <1>4 DEF KeptSets
  <2> QED
    BY <1>4, <2>1, FS_Singleton, WhereIs
<1>5. CASE f \notin unsent /\ f \notin answered /\ f \notin deleted
  <2>1. KeptSets(f) = {}
    BY <1>5 DEF KeptSets
  <2> QED
    BY <1>5, <2>1, FS_EmptySet, WhereIs
<1> QED
  BY <1>2, <1>3, <1>4, <1>5

LEMMA OncePlaced == SliceInv => OnePlace
<1> SUFFICES ASSUME SliceInv, NEW f \in Fetches
             PROVE  Cardinality({i \in 1 .. Len(m_l1_to_l2) : m_l1_to_l2[i] = f})
                    + Cardinality({i \in 1 .. Len(dram) : dram[i] = f})
                    + Cardinality(HitsOn(f)) + Cardinality(KeptSets(f)) = 1
  BY DEF OnePlace, HitsOn, KeptSets
<1>0. Located /\ PlacesOK
  BY DEF SliceInv, PlacesOK
<1>1. Cardinality({i \in 1 .. Len(m_l1_to_l2) : m_l1_to_l2[i] = f})
        = IF f \in where["arrived"] THEN 1 ELSE 0
  BY <1>0, CountOf, WhereIs DEF PlacesOK, QueuesOK, Unrepeated
<1>2. Cardinality({i \in 1 .. Len(dram) : dram[i] = f}) = IF f \in where["dram"] THEN 1 ELSE 0
  BY <1>0, CountOf, WhereIs DEF PlacesOK, QueuesOK, Unrepeated
<1>3. Cardinality(HitsOn(f)) = IF f \in where["hit"] \/ f \in where["tlb"] THEN 1 ELSE 0
  BY CountOfHits
<1>4. Cardinality(KeptSets(f)) =
        IF \E p \in {"unsent", "answered", "deleted"} : f \in where[p] THEN 1 ELSE 0
  BY <1>0, CountOfSets
<1>5. PICK p \in Places : \A q \in Places : f \in where[q] <=> q = p
  BY <1>0 DEF Located
<1>6. /\ p = "arrived" \/ p = "dram" \/ p \in {"hit", "tlb"} \/ p \in {"unsent", "answered", "deleted"}
      /\ f \in where["arrived"] <=> p = "arrived"
      /\ f \in where["dram"] <=> p = "dram"
      /\ f \in where["hit"] \/ f \in where["tlb"] <=> p \in {"hit", "tlb"}
      /\ (\E q \in {"unsent", "answered", "deleted"} : f \in where[q])
            <=> p \in {"unsent", "answered", "deleted"}
  BY <1>5 DEF Places
<1> QED
  BY <1>1, <1>2, <1>3, <1>4, <1>6

----
LEMMA InvInit == Init => SliceInv
<1> SUFFICES ASSUME Init PROVE SliceInv
  OBVIOUS
<1>1. LinesOK
  <2>1. lines \in [Ways -> Line]
    BY DEF Init, Line, Status
  <2>2. \A w \in Ways : lines[w].tag = NoTag
    BY DEF Init
  <2> QED
    BY <2>1, <2>2 DEF LinesOK, UniqueTags, InvalidLines
<1>2. MshrOK
  <2>1. Range(<< >>) = {}
    BY DEF Range
  <2>2. << >> \in Seq(Fetches)
    OBVIOUS
  <2> QED
    BY <2>1, <2>2 DEF Init, MshrOK, MshrInFlight
<1>3. HitsOK
  <2>1. << >> \in Seq(HitOf) /\ Len(<< >>) = 0
    OBVIOUS
  <2>2. \A q \in Queues : l2_to_sms[q] = << >>
    BY DEF Init
  <2>3. l2_to_sms \in [Queues -> Seq(HitOf)]
    BY <2>1 DEF Init
  <2> QED
    BY <2>1, <2>2, <2>3 DEF HitsOK, Ordered
<1>4. PlacesOK
  <2>1. /\ IsInjective(<< >>) /\ Range(<< >>) = {} /\ Carried(<< >>) = << >>
    BY DEF IsInjective, Range, Carried
  <2>2. \A q \in Queues : Carried(l2_to_sms[q]) = << >>
    BY <2>1 DEF Init
  <2>3. QueuesOK /\ Unrepeated
    BY <2>1, <2>2 DEF Init, QueuesOK, Unrepeated
  <2>4. \A p \in Places : where[p] = IF p = "unsent" THEN Fetches ELSE {}
    BY <2>1, <2>2, WhereIs DEF Init
  <2>5. Located
    BY <2>4 DEF Located, Places
  <2>6. CopiesStay
    BY <2>4 DEF CopiesStay, Places
  <2> QED
    BY <2>3, <2>5, <2>6 DEF PlacesOK
<1> QED
  BY <1>1, <1>2, <1>3, <1>4 DEF SliceInv

LEMMA InvStep == SliceInv /\ [Next]_vars => SliceInv'
  BY LinesStep, MshrStep, HitsStep, PlacesStep DEF SliceInv, PlacesOK, QueuesOK

LEMMA Invariance == Spec => []SliceInv
  BY InvInit, InvStep, PTL DEF Spec

(* The types; above all that of the time a hit has left, which never goes  *)
(* below zero: an answer goes out in the cycle in which its latency ends,  *)
(* not in a later one (cache.cpp:372).                                     *)
THEOREM TypesCorrect == Spec => []TypeOK
<1>1. SliceInv => TypeOK
  BY DEF SliceInv, LinesOK, Line, MshrOK, HitsOK, HitOf, PlacesOK, QueuesOK, TypeOK
<1> QED
  BY <1>1, Invariance, PTL

(* A fetch is in one place of the slice only, and is answered once or, if  *)
(* it is a copy, deleted.                                                  *)
THEOREM OnePlaceCorrect == Spec => []OnePlace
  BY OncePlaced, Invariance, PTL

(* The reads of an MSHR entry are all at the DRAM, so the entry is emptied *)
(* by the first that returns (cache.cpp:359).                              *)
THEOREM MshrCorrect == Spec => []MshrInFlight
  BY Invariance, PTL DEF SliceInv, MshrOK

(* A line is in one way of its set.                                        *)
THEOREM TagsCorrect == Spec => []UniqueTags
  BY Invariance, PTL DEF SliceInv, LinesOK

(* The front of a queue of hits is always due first.                       *)
THEOREM OrderCorrect == Spec => []HitsInOrder
<1>1. SliceInv => HitsInOrder
  BY DEF SliceInv, HitsOK, Ordered, HitsInOrder
<1> QED
  BY <1>1, Invariance, PTL

(* Write-through copies end in the slice (cache.cpp:428 and 455).          *)
THEOREM CopiesCorrect == Spec => []CopiesEndHere
<1>1. SliceInv => CopiesEndHere
  <2> SUFFICES ASSUME SliceInv, NEW f \in answered \union Range(dram), KindOf[f] = "copy"
               PROVE  FALSE
    BY DEF CopiesEndHere
  <2>1. PlacesOK /\ QueuesOK
    BY DEF SliceInv, PlacesOK
  <2>2. f \in Fetches
    BY <2>1, SeqFacts DEF QueuesOK, Range
  <2> QED
    BY <2>1, <2>2, WhereIs DEF PlacesOK, CopiesStay
<1> QED
  BY <1>1, Invariance, PTL

----
(* The DRAM channel.                                                       *)

(* The queues inside the channel have a fixed size or hold one request.    *)
Pipelines ==
    /\ Len(rwq) = CL
    /\ Len(returnq) <= 1
    /\ Len(mrqq) <= 1

(* A slice that has had its turn to receive has no answer left, and no     *)
(* slice ever has two.                                                     *)
Received ==
    \A p \in Slices :
        /\ Len(dram_L2[p]) <= 1
        /\ turn = 0 \/ turn > 2 * p + 1 => dram_L2[p] = << >>

(* A slice's queue holds no more than the slice has sent.                  *)
Bounded ==
    \A p \in Slices : Len(L2_dram[p]) <= sent[p] /\ sent[p] <= NumSends[p]

ChannelInv == ChannelTypeOK /\ NeverAsserts /\ Pipelines /\ Received /\ Bounded

LEMMA ConstantFacts ==
    /\ n_sub \in Nat /\ n_sub > 0 /\ CL \in Nat /\ CL > 0
    /\ l2_miss_latency \in Nat
    /\ mrqq_max \in Nat /\ mrqq_max > 1
    /\ returnq_max \in Nat /\ returnq_max > 0
    /\ dram_L2_max \in Nat /\ dram_L2_max > 0
    /\ L2_dram_max \in Nat
    /\ NumSends \in [Slices -> Nat]
    /\ \A p \in Slices : p \in Int /\ 0 <= p /\ p < n_sub
  BY DramAssumption DEF DramAssumption, Slices

(* Popping an element of a padded queue of the minimal length puts a NULL  *)
(* at its end.                                                             *)
LEMMA PopPads ==
    ASSUME NEW S, NEW q \in Seq(S), NULL \in S, Len(q) = CL
    PROVE  /\ FifoPop(q, CL) \in Seq(S)
           /\ Len(FifoPop(q, CL)) = CL
           /\ FifoPop(q, CL)[CL] = NULL
<1>1. q # << >> /\ Tail(q) \in Seq(S) /\ Len(Tail(q)) = CL - 1
  BY ConstantFacts, EmptySeq, HeadTailProperties
<1>2. FifoPop(q, CL) = Append(Tail(q), NULL)
  BY <1>1, ConstantFacts DEF FifoPop, FifoPush
<1> QED
  BY <1>1, <1>2, ConstantFacts, AppendProperties

(* A push that finds a NULL at that place overwrites it.                   *)
LEMMA PushOverwrites ==
    ASSUME NEW S, NEW q \in Seq(S), NEW x \in S, Len(q) = CL, q[CL] = NULL
    PROVE  /\ FifoPush(q, CL, x) \in Seq(S)
           /\ Len(FifoPush(q, CL, x)) = CL
           /\ FifoPush(q, CL, x)[CL] = x
<1>1. q # << >>
  BY ConstantFacts, EmptySeq
<1>2. FifoPush(q, CL, x) = [q EXCEPT ![CL] = x]
  BY <1>1, ConstantFacts DEF FifoPush
<1>3. CL \in 1 .. Len(q)
  BY ConstantFacts
<1> QED
  BY <1>2, <1>3, ExceptSeq

(* What the channel finds when it takes its turn: room wherever it passes  *)
(* something on.                                                           *)
LEMMA CycleStart ==
    ASSUME ChannelInv, DramCycle
    PROVE  /\ turn = 0
           /\ \A p \in Slices : dram_L2[p] = << >>
           /\ (IF Returned THEN Tail(returnq) ELSE returnq) = << >>
           /\ (IF mrqq = << >> THEN mrqq ELSE Tail(mrqq)) = << >>
           /\ returnq # << >> => Head(returnq) \in Requests
           /\ mrqq # << >> => Head(mrqq) \in Requests
<1> USE DEF ChannelInv
<1>1. turn = 0
  BY DEF DramCycle
<1>2. \A p \in Slices : dram_L2[p] = << >>
  BY <1>1 DEF Received
<1>3. returnq \in Seq(Requests) /\ mrqq \in Seq(Requests)
  BY DEF ChannelTypeOK
<1>4. /\ returnq # << >> => Head(returnq) \in Requests /\ Len(Tail(returnq)) = Len(returnq) - 1
      /\ mrqq # << >> => Head(mrqq) \in Requests /\ Len(Tail(mrqq)) = Len(mrqq) - 1
      /\ returnq # << >> => Tail(returnq) \in Seq(Requests) /\ Len(returnq) > 0
      /\ mrqq # << >> => Tail(mrqq) \in Seq(Requests) /\ Len(mrqq) > 0
  BY <1>3, HeadTailProperties, EmptySeq
<1>5. returnq # << >> => Returned
  <2> SUFFICES ASSUME returnq # << >> PROVE Returned
    OBVIOUS
  <2>1. Head(returnq).l2_id \in Slices
    BY <1>4 DEF Requests
  <2> QED
    BY <2>1, <1>2, ConstantFacts DEF Returned
<1>6. returnq # << >> => Tail(returnq) = << >>
  BY <1>4, EmptySeq DEF Pipelines
<1>7. mrqq # << >> => Tail(mrqq) = << >>
  BY <1>4, EmptySeq DEF Pipelines
<1> QED
  BY <1>1, <1>2, <1>4, <1>5, <1>6, <1>7 DEF Returned

(* The pipeline of requests being served after a cycle.                    *)
LEMMA CycleServes ==
    ASSUME ChannelInv, DramCycle
    PROVE  /\ rwq' \in Seq(Requests \union {NULL})
           /\ Len(rwq') = CL
           /\ rwq'[CL] = IF mrqq = << >> THEN NULL ELSE Head(mrqq)
           /\ turn' = 1
<1> DEFINE S == Requests \union {NULL}
<1>1. rwq \in Seq(S) /\ Len(rwq) = CL
  BY DEF ChannelInv, ChannelTypeOK, Pipelines
<1>2. Served(<< >>)
  BY ConstantFacts, EmptySeq DEF Served
<1>3. RwqAfter(<< >>) = FifoPop(rwq, CL)
  BY <1>2 DEF RwqAfter
<1>4. /\ FifoPop(rwq, CL) \in Seq(S)
      /\ Len(FifoPop(rwq, CL)) = CL
      /\ FifoPop(rwq, CL)[CL] = NULL
  BY <1>1, PopPads
<1>5. CASE mrqq = << >>
  <2>1. rwq' = RwqAfter(<< >>) /\ turn' = 1
    BY <1>5, CycleStart DEF DramCycle
  <2> QED
    BY <2>1, <1>3, <1>4, <1>5
<1>6. CASE mrqq # << >>
  <2>1. Head(mrqq) \in S
    BY <1>6, CycleStart
  <2>2. /\ rwq' = FifoPush(FifoPop(rwq, CL), CL, Head(mrqq))
        /\ turn' = IF Len(FifoPop(rwq, CL)) < CL + 1 THEN 1 ELSE AbortRwq
    BY <1>6, <1>3, CycleStart DEF DramCycle
  <2>3. turn' = 1
    BY <2>2, <1>4, ConstantFacts
  <2> QED
    BY <2>1, <2>2, <2>3, <1>4, <1>6, PushOverwrites
<1> QED
  BY <1>5, <1>6

(* The answers after a cycle: at most one is on its way to a slice, and at *)
(* most one waits.                                                         *)
LEMMA CycleReturns ==
    ASSUME ChannelInv, DramCycle
    PROVE  /\ returnq' \in Seq(Requests) /\ Len(returnq') <= 1
           /\ dram_L2' \in [Slices -> Seq(DramFetches)]
           /\ \A p \in Slices : Len(dram_L2'[p]) <= 1
<1>1. /\ dram_L2 \in [Slices -> Seq(DramFetches)]
      /\ rwq \in Seq(Requests \union {NULL}) /\ Len(rwq) = CL
  BY DEF ChannelInv, ChannelTypeOK, Pipelines
<1>2. Head(rwq) \in Requests \union {NULL}
  BY <1>1, ConstantFacts, EmptySeq, HeadTailProperties
<1>3. returnq' = ReturnqAfter(<< >>) /\ dram_L2' = DramL2After
  BY CycleStart DEF DramCycle
<1>4. << >> \in Seq(Requests) /\ Len(<< >>) = 0
  BY EmptySeq
<1>5. returnq' \in Seq(Requests) /\ Len(returnq') <= 1
  BY <1>2, <1>3, <1>4, AppendProperties DEF ReturnqAfter
<1>6. CASE Returned
  <2>1. Head(returnq) \in Requests
    BY <1>6, CycleStart DEF Returned
  <2>2. Head(returnq).l2_id \in Slices /\ Head(returnq).data \in DramFetches
    BY <2>1 DEF Requests
  <2>3. << Head(returnq).data >> \in Seq(DramFetches) /\ Len(<< Head(returnq).data >>) = 1
    BY <2>2
  <2>4. dram_L2' = [dram_L2 EXCEPT ![Head(returnq).l2_id] = << Head(returnq).data >>]
    <3>1. DramL2After = [dram_L2 EXCEPT ![Head(returnq).l2_id]
                             = Append(dram_L2[Head(returnq).l2_id], Head(returnq).data)]
      BY <1>6 DEF DramL2After
    <3>2. dram_L2[Head(returnq).l2_id] = << >>
      BY <2>2, CycleStart
    <3>3. Append(<< >>, Head(returnq).data) = << Head(returnq).data >>
      OBVIOUS
    <3> QED
      BY <3>1, <3>2, <3>3, <1>3
  <2>5. \A p \in Slices : Len(dram_L2[p]) <= 1
    BY DEF ChannelInv, Received
  <2> QED
    BY <1>1, <1>5, <2>2, <2>3, <2>4, <2>5
<1>7. CASE ~Returned
  <2>1. dram_L2' = dram_L2
    BY <1>3, <1>7 DEF DramL2After
  <2> QED
    BY <1>1, <1>5, <2>1 DEF ChannelInv, Received
<1> QED
  BY <1>6, <1>7
(* Every set of slices has one the arbitration prefers.                    *)
LEMMA LeastPreference ==
    ASSUME NEW S, S \subseteq Slices, S # {}
    PROVE  \E p \in S : \A r \in S : Preference(p) <= Preference(r)
<1> DEFINE Less == {p \in Nat \X Nat : p[1] < p[2]}
           P == {Preference(p) : p \in S}
<1>1. IsWellFoundedOn(Less, Nat)
  BY NatLessThanWellFounded, Zenon DEF OpToRel
<1>2. P \subseteq Nat /\ P # {}
  BY ConstantFacts DEF Preference
<1>3. \E x \in P : \A y \in P : ~(<<y, x>> \in Less)
  <2> HIDE DEF Less, P
  <2> QED
    BY <1>1, <1>2, WFMin
<1>4. PICK x \in P : \A y \in P : ~(<<y, x>> \in Less)
  BY <1>3
<1>5. \A y \in P : x <= y
  <2> SUFFICES ASSUME NEW y \in P PROVE x <= y
    OBVIOUS
  <2>1. <<y, x>> \in Nat \X Nat /\ ~(<<y, x>>[1] < <<y, x>>[2])
    BY <1>2, <1>4
  <2> QED
    BY <2>1
<1>6. PICK p \in S : x = Preference(p)
  OBVIOUS
<1> QED
  BY <1>5, <1>6

(* What goes in: the arbitration takes from one queue, and the requests    *)
(* that leave the latency queue find mrqq empty.                           *)
LEMMA CycleIssues ==
    ASSUME ChannelInv, DramCycle
    PROVE  /\ latency' \in Seq([req : Requests, left : Nat])
           /\ mrqq' \in Seq(Requests) /\ Len(mrqq') <= 1
           /\ L2_dram' \in [Slices -> Seq(DramFetches)]
           /\ \A p \in Slices : Len(L2_dram'[p]) <= Len(L2_dram[p])
           /\ sent' = sent
<1> DEFINE back == DramL2After
           entered == Entered(back, << >>)
           T == [req : Requests, left : Nat]
<1>1. /\ L2_dram \in [Slices -> Seq(DramFetches)] /\ latency \in Seq(T)
  BY DEF ChannelInv, ChannelTypeOK
<1>2. \A p \in Candidates(back) : /\ p \in Slices /\ L2_dram[p] # << >>
                                  /\ Head(L2_dram[p]) \in DramFetches
                                  /\ Tail(L2_dram[p]) \in Seq(DramFetches)
                                  /\ Len(Tail(L2_dram[p])) = Len(L2_dram[p]) - 1
  BY <1>1, HeadTailProperties DEF Candidates
<1>3. AgedLatency \in Seq(T)
  <2>1. \A i \in 1 .. Len(latency) : latency[i] \in T
    BY <1>1, ElementOfSeq
  <2>2. \A i \in 1 .. Len(latency) :
           [req |-> latency[i].req,
            left |-> IF latency[i].left = 0 THEN 0 ELSE latency[i].left - 1] \in T
    BY <2>1
  <2>3. Len(latency) \in Nat
    BY <1>1, LenProperties
  <2> QED
    BY <2>2, <2>3, SeqDef DEF AgedLatency
<1>4. Candidates(back) # {} => Chosen(Candidates(back)) \in Candidates(back)
  <2> SUFFICES ASSUME Candidates(back) # {}
               PROVE  Chosen(Candidates(back)) \in Candidates(back)
    OBVIOUS
  <2>1. PICK p \in Candidates(back) : \A r \in Candidates(back) : Preference(p) <= Preference(r)
    BY LeastPreference DEF Candidates
  <2> QED
    BY <2>1 DEF Chosen
<1>5. entered \in Seq(T)
  <2>1. CASE Issues(back, << >>)
    <3>1. Tagged(Chosen(Candidates(back))) \in Requests
      BY <2>1, <1>2, <1>4 DEF Issues, Tagged, Request, Requests
    <3>2. [req |-> Tagged(Chosen(Candidates(back))), left |-> l2_miss_latency] \in T
      BY <3>1, ConstantFacts
    <3> QED
      BY <2>1, <3>2, <1>3, AppendProperties DEF Entered
  <2>2. CASE ~Issues(back, << >>)
    BY <2>2, <1>3 DEF Entered
  <2> QED
    BY <2>1, <2>2
<1>6. /\ latency' = IF LatencyOver(entered, << >>) THEN Tail(entered) ELSE entered
      /\ mrqq' = IF LatencyOver(entered, << >>) THEN Append(<< >>, Head(entered).req) ELSE << >>
      /\ L2_dram' = IF Issues(back, << >>)
                    THEN [L2_dram EXCEPT ![Chosen(Candidates(back))]
                              = Tail(L2_dram[Chosen(Candidates(back))])]
                    ELSE L2_dram
      /\ sent' = sent
  BY CycleStart DEF DramCycle
<1>7. LatencyOver(entered, << >>) => Head(entered) \in T /\ Tail(entered) \in Seq(T)
  BY <1>5, HeadTailProperties DEF LatencyOver
<1>8. latency' \in Seq(T)
  BY <1>5, <1>6, <1>7
<1>9. mrqq' \in Seq(Requests) /\ Len(mrqq') <= 1
  <2>1. << >> \in Seq(Requests) /\ Len(<< >>) = 0
    BY EmptySeq
  <2>2. LatencyOver(entered, << >>) => Head(entered).req \in Requests
    BY <1>7
  <2> HIDE DEF entered
  <2> QED
    BY <1>6, <2>1, <2>2, AppendProperties
<1>10. /\ L2_dram' \in [Slices -> Seq(DramFetches)]
       /\ \A p \in Slices : Len(L2_dram'[p]) <= Len(L2_dram[p])
  <2> HIDE DEF back
  <2>1. \A p \in Slices : Len(L2_dram[p]) \in Nat
    BY <1>1, LenProperties
  <2>2. CASE Issues(back, << >>)
    <3> DEFINE c == Chosen(Candidates(back))
    <3>1. /\ c \in Slices /\ Tail(L2_dram[c]) \in Seq(DramFetches)
          /\ Len(Tail(L2_dram[c])) = Len(L2_dram[c]) - 1
      BY <2>2, <1>2, <1>4 DEF Issues
    <3>2. L2_dram' = [L2_dram EXCEPT ![c] = Tail(L2_dram[c])]
      BY <2>2, <1>6
    <3> HIDE DEF c
    <3> QED
      BY <3>1, <3>2, <2>1, <1>1
  <2>3. CASE ~Issues(back, << >>)
    BY <2>1, <2>3, <1>1, <1>6
  <2> QED
    BY <2>2, <2>3
<1> QED
  BY <1>6, <1>8, <1>9, <1>10

----
LEMMA ChannelInitInv == ChannelInit => ChannelInv
<1> SUFFICES ASSUME ChannelInit PROVE ChannelInv
  OBVIOUS
<1> USE DEF ChannelInit
<1>1. rwq \in Seq(Requests \union {NULL}) /\ Len(rwq) = CL
  BY ConstantFacts, SeqDef
<1>2. \A S : << >> \in Seq(S)
  BY EmptySeq
<1>3. ChannelTypeOK
  BY <1>1, <1>2, ConstantFacts DEF ChannelTypeOK
<1>4. Pipelines /\ NeverAsserts /\ Received
  BY <1>1, ConstantFacts DEF Pipelines, NeverAsserts, Received, AbortRwq, AbortL2
<1>5. Bounded
  BY ConstantFacts DEF Bounded
<1> QED
  BY <1>3, <1>4, <1>5 DEF ChannelInv

LEMMA ChannelNextInv == ChannelInv /\ [ChannelNext]_channel_vars => ChannelInv'
<1> SUFFICES ASSUME ChannelInv, [ChannelNext]_channel_vars PROVE ChannelInv'
  OBVIOUS
<1>1. CASE DramCycle
  <2>1. turn' = 1 /\ sent' = sent
    BY <1>1, CycleServes, CycleIssues
  <2>2. ChannelTypeOK'
    <3>1. turn' \in Aborts \union (0 .. 2 * n_sub)
      BY <2>1, ConstantFacts
    <3> QED
      BY <1>1, <2>1, <3>1, CycleServes, CycleReturns, CycleIssues DEF ChannelInv, ChannelTypeOK
  <2>3. NeverAsserts' /\ Pipelines'
    BY <1>1, <2>1, CycleServes, CycleReturns, CycleIssues DEF NeverAsserts, Pipelines, AbortRwq, AbortL2
  <2>4. Received'
    BY <1>1, <2>1, CycleReturns, ConstantFacts DEF Received
  <2>5. Bounded'
    <3>1. /\ L2_dram \in [Slices -> Seq(DramFetches)] /\ L2_dram' \in [Slices -> Seq(DramFetches)]
          /\ sent \in [Slices -> Nat]
      BY <1>1, CycleIssues DEF ChannelInv, ChannelTypeOK
    <3>2. \A p \in Slices : Len(L2_dram[p]) \in Nat /\ Len(L2_dram'[p]) \in Nat
      BY <3>1, LenProperties
    <3> QED
      BY <1>1, <2>1, <3>1, <3>2, CycleIssues, ConstantFacts DEF ChannelInv, Bounded
  <2> QED
    BY <2>2, <2>3, <2>4, <2>5 DEF ChannelInv
<1>2. ASSUME NEW p \in Slices, TakeAnswer(p) PROVE ChannelInv'
  <2> USE <1>2 DEF TakeAnswer, AnswerTurn, NextTurn, ChannelInv
  <2>1. turn = 2 * p + 1 /\ turn' = 2 * p + 2
    BY ConstantFacts
  <2>2. dram_L2 \in [Slices -> Seq(DramFetches)] /\ Len(dram_L2[p]) <= 1
    BY DEF ChannelTypeOK, Received
  <2>3. dram_L2[p] # << >> => Tail(dram_L2[p]) = << >>
    BY <2>2, HeadTailProperties, EmptySeq
  <2>4. dram_L2' = [dram_L2 EXCEPT ![p] = << >>]
    BY <2>2, <2>3
  <2>5. ChannelTypeOK'
    <3>1. << >> \in Seq(DramFetches)
      BY EmptySeq
    <3>2. dram_L2' \in [Slices -> Seq(DramFetches)]
      BY <2>2, <2>4, <3>1
    <3>3. turn' \in 0 .. 2 * n_sub
      BY <2>1, ConstantFacts
    <3> QED
      BY <3>2, <3>3 DEF ChannelTypeOK, dram_vars
  <2>6. NeverAsserts' /\ Pipelines' /\ Bounded'
    BY <2>1, ConstantFacts DEF NeverAsserts, Pipelines, Bounded, AbortRwq, AbortL2, dram_vars
  <2>7. Received'
    BY <2>1, <2>2, <2>4, ConstantFacts DEF Received
  <2> QED
    BY <2>5, <2>6, <2>7
<1>3. ASSUME NEW p \in Slices, SendTurn(p), turn' = NextTurn, UNCHANGED dram_L2
      PROVE  /\ Received' /\ turn' \in Aborts \union (0 .. 2 * n_sub)
             /\ NeverAsserts'
  <2>0. p \in Int /\ 0 <= p /\ p < n_sub /\ n_sub \in Nat
    BY ConstantFacts
  <2>1. turn = 2 * p + 2 /\ turn' = IF p = n_sub - 1 THEN 0 ELSE 2 * p + 3
    BY <1>3, <2>0 DEF SendTurn, NextTurn
  <2>2. turn' \in 0 .. 2 * n_sub
    BY <2>1, ConstantFacts
  <2>3. Received'
    BY <1>3, <2>1, ConstantFacts DEF ChannelInv, Received
  <2> QED
    BY <2>2, <2>3 DEF NeverAsserts, AbortRwq, AbortL2
<1>4. ASSUME NEW p \in Slices, Send(p) PROVE ChannelInv'
  <2> USE <1>4 DEF Send
  <2>1. /\ sent \in [Slices -> Nat] /\ L2_dram \in [Slices -> Seq(DramFetches)]
        /\ Len(L2_dram[p]) <= sent[p] /\ Len(L2_dram[p]) \in Nat
        /\ \A q \in Slices : Len(L2_dram[q]) \in Nat
    BY LenProperties DEF ChannelInv, ChannelTypeOK, Bounded
  <2>2. /\ UNCHANGED <<dram_vars, dram_L2>>
        /\ sent' = [sent EXCEPT ![p] = sent[p] + 1]
        /\ SendTurn(p) /\ sent[p] < NumSends[p]
    OBVIOUS
  <2>3. Pipelines'
    BY <2>2 DEF ChannelInv, Pipelines, dram_vars
  <2>4. /\ \A q \in Slices : sent'[q] = IF q = p THEN sent[p] + 1 ELSE sent[q]
        /\ \A q \in Slices : Len(L2_dram[q]) <= sent[q] /\ sent[q] <= NumSends[q]
        /\ \A q \in Slices : sent[q] \in Nat /\ NumSends[q] \in Nat
        /\ sent' \in [Slices -> Nat]
    <3>1. NumSends \in [Slices -> Nat]
      BY ConstantFacts
    <3>2. \A q \in Slices : Len(L2_dram[q]) <= sent[q] /\ sent[q] <= NumSends[q]
      BY DEF ChannelInv, Bounded
    <3>3. \A q \in Slices : sent[q] \in Nat /\ NumSends[q] \in Nat
      BY <2>1, <3>1
    <3>4. sent' \in [Slices -> Nat] /\ \A q \in Slices : sent'[q] = IF q = p THEN sent[p] + 1 ELSE sent[q]
      BY <2>1, <2>2, <3>3
    <3> QED
      BY <3>2, <3>3, <3>4
  <2>5. CASE Len(L2_dram[p]) < L2_dram_max
    <3>1. /\ turn' = NextTurn
          /\ L2_dram' = [L2_dram EXCEPT ![p] = Append(L2_dram[p], <<p, sent[p] + 1>>)]
      BY <2>5
    <3>2. <<p, sent[p] + 1>> \in DramFetches
      <4>1. sent[p] + 1 \in 1 .. NumSends[p]
        BY <2>2, <2>4
      <4> QED
        BY <4>1 DEF DramFetches
    <3>3. /\ Append(L2_dram[p], <<p, sent[p] + 1>>) \in Seq(DramFetches)
          /\ Len(Append(L2_dram[p], <<p, sent[p] + 1>>)) = Len(L2_dram[p]) + 1
      BY <2>1, <3>2, AppendProperties
    <3>4. Received' /\ turn' \in Aborts \union (0 .. 2 * n_sub) /\ NeverAsserts'
      BY <1>3, <2>2, <3>1
    <3>5. ChannelTypeOK'
      BY <2>1, <2>2, <2>4, <3>1, <3>3, <3>4 DEF ChannelInv, ChannelTypeOK, dram_vars
    <3>6. Bounded'
      <4>1. \A q \in Slices : L2_dram'[q] = IF q = p THEN Append(L2_dram[p], <<p, sent[p] + 1>>)
                                             ELSE L2_dram[q]
        BY <2>1, <3>1
      <4>2. \A q \in Slices : Len(L2_dram'[q]) = IF q = p THEN Len(L2_dram[p]) + 1
                                                           ELSE Len(L2_dram[q])
        BY <4>1, <3>3
      <4> QED
        BY <4>2, <2>1, <2>2, <2>4 DEF Bounded
    <3> QED
      BY <2>3, <3>4, <3>5, <3>6 DEF ChannelInv
(* A queue that is full has taken L2_dram_max fetches, so this one is more. *)
  <2>6. CASE ~(Len(L2_dram[p]) < L2_dram_max)
    <3>1. turn' = AbortL2 /\ L2_dram' = L2_dram
      BY <2>6
    <3>2. sent'[p] > L2_dram_max
      BY <2>1, <2>4, <2>6, ConstantFacts
    <3>3. NeverAsserts'
      BY <3>1, <3>2 DEF NeverAsserts, AbortRwq, AbortL2
    <3>4. Received'
      <4>1. \A q \in Slices : Len(dram_L2'[q]) <= 1 /\ ~(turn' = 0 \/ turn' > 2 * q + 1)
        BY <2>2, <3>1, ConstantFacts DEF ChannelInv, Received, AbortL2
      <4> QED
        BY <4>1 DEF Received
    <3>5. ChannelTypeOK'
      BY <2>2, <2>4, <3>1 DEF ChannelInv, ChannelTypeOK, Aborts, dram_vars
    <3>6. Bounded'
      BY <2>1, <2>2, <2>4, <3>1 DEF Bounded
    <3> QED
      BY <2>3, <3>3, <3>4, <3>5, <3>6 DEF ChannelInv
  <2> QED
    BY <2>5, <2>6
<1>5. ASSUME NEW p \in Slices, NoSend(p) PROVE ChannelInv'
  <2>1. Received' /\ turn' \in Aborts \union (0 .. 2 * n_sub) /\ NeverAsserts'
    BY <1>3, <1>5 DEF NoSend
  <2> QED
    BY <1>5, <2>1 DEF NoSend, ChannelInv, ChannelTypeOK, Pipelines, Bounded, dram_vars
<1>6. CASE Aborted \/ UNCHANGED channel_vars
  BY <1>6 DEF Aborted, ChannelInv, ChannelTypeOK, NeverAsserts, Pipelines, Received, Bounded, channel_vars, dram_vars
<1> QED
  BY <1>1, <1>2, <1>4, <1>5, <1>6 DEF ChannelNext

----
LEMMA ChannelInvAlways == ChannelSpec => []ChannelInv
  BY ChannelInitInv, ChannelNextInv, PTL DEF ChannelSpec

(* The variables have their types in every reachable state.                *)
THEOREM ChannelTypesCorrect == ChannelSpec => []ChannelTypeOK
<1>1. ChannelInv => ChannelTypeOK
  BY DEF ChannelInv
<1> QED
  BY <1>1, ChannelInvAlways, PTL

(* rwq is never pushed when it is full, although nothing asks whether it   *)
(* is: the assert of delayqueue.h:72 never fails for it.  It fails for the *)
(* queue of a slice only if that slice has sent more fetches than its      *)
(* queue's limit; how many it sends is not bounded.                        *)
THEOREM NoAssertion == ChannelSpec => []NeverAsserts
<1>1. ChannelInv => NeverAsserts
  BY DEF ChannelInv
<1> QED
  BY <1>1, ChannelInvAlways, PTL

(* At most one request waits in returnq or in mrqq, and when the channel   *)
(* takes its turn the slices have taken all it sent them.                  *)
THEOREM NoBacklogEver == ChannelSpec => []NoBacklog
<1>1. ChannelInv => NoBacklog
  BY ConstantFacts DEF ChannelInv, Pipelines, Received, NoBacklog
<1> QED
  BY <1>1, ChannelInvAlways, PTL

(* Every cycle leaves CL elements in rwq, the last of them the request     *)
(* that the scheduler has just passed on: it is served CL cycles later.    *)
THEOREM LatencyExact == ChannelSpec => ExactLatency
<1>1. ChannelInv /\ [ChannelNext]_channel_vars => [DramCycle => /\ Len(rwq') = CL
                                          /\ rwq'[CL] = IF mrqq = << >> THEN NULL
                                                        ELSE Head(mrqq)]_channel_vars
  BY CycleServes
<1> QED
  BY <1>1, ChannelInvAlways, PTL DEF ChannelSpec, ExactLatency
----
(* The channel is a FIFO for every slice.                                  *)

(* What a slice sends is its own.                                          *)
OwnFetches ==
    \A p \in Slices : \A i \in 1 .. Len(L2_dram[p]) : L2_dram[p][i][1] = p

Padded == Requests \union {NULL}

DataIn(u) == [i \in 1 .. Len(u) |-> u[i].data]

LEMMA DataInType ==
    ASSUME NEW u \in Seq(Requests)
    PROVE  DataIn(u) \in Seq(DramFetches) /\ Len(DataIn(u)) = Len(u)
<1>1. Len(u) \in Nat /\ \A i \in 1 .. Len(u) : u[i] \in Requests
  BY LenProperties, ElementOfSeq
<1>2. \A i \in 1 .. Len(u) : u[i].data \in DramFetches
  BY <1>1 DEF Requests
<1>. QED BY <1>1, <1>2 DEF DataIn

LEMMA DataInAppend ==
    ASSUME NEW u \in Seq(Requests), NEW x \in Requests
    PROVE  DataIn(Append(u, x)) = Append(DataIn(u), x.data)
<1> DEFINE v == Append(u, x)
<1>1. /\ v \in Seq(Requests) /\ Len(v) = Len(u) + 1 /\ Len(u) \in Nat
      /\ v[Len(u) + 1] = x /\ \A i \in 1 .. Len(u) : v[i] = u[i]
  BY AppendProperties, LenProperties
<1> HIDE DEF v
<1>2. /\ DataIn(v) \in Seq(DramFetches) /\ Len(DataIn(v)) = Len(u) + 1
      /\ DataIn(u) \in Seq(DramFetches) /\ Len(DataIn(u)) = Len(u)
  BY <1>1, DataInType
<1>3. x.data \in DramFetches
  BY DEF Requests
<1>4. /\ Append(DataIn(u), x.data) \in Seq(DramFetches)
      /\ Len(Append(DataIn(u), x.data)) = Len(u) + 1
      /\ Append(DataIn(u), x.data)[Len(u) + 1] = x.data
      /\ \A i \in 1 .. Len(u) : Append(DataIn(u), x.data)[i] = DataIn(u)[i]
  BY <1>2, <1>3, AppendProperties
<1>5. /\ \A i \in 1 .. Len(u) : DataIn(u)[i] = u[i].data
      /\ \A i \in 1 .. Len(u) + 1 : DataIn(v)[i] = v[i].data
  BY <1>1 DEF DataIn
<1>6. \A i \in 1 .. Len(u) + 1 : i \in 1 .. Len(u) \/ i = Len(u) + 1
  BY <1>1
<1>7. \A i \in 1 .. Len(DataIn(v)) : DataIn(v)[i] = Append(DataIn(u), x.data)[i]
  BY <1>1, <1>2, <1>4, <1>5, <1>6
<1>8. DataIn(v) = Append(DataIn(u), x.data)
  BY <1>2, <1>4, <1>7, SeqEqual
<1>. QED BY <1>8 DEF v

LEMMA AnswersNone ==
    ASSUME NEW s, NEW o
    PROVE  Answers(<< >>, s, o) = << >>
  BY SelectedNothing, EmptySeq DEF Answers

LEMMA AnswersType ==
    ASSUME NEW q \in Seq(Padded), NEW s, NEW o
    PROVE  /\ Answers(q, s, o) \in Seq(DramFetches)
           /\ Answers(q, s, o) = DataIn(Selected(q, OfPair(s, o)))
           /\ Selected(q, OfPair(s, o)) \in Seq(Requests)
<1>1. Selected(q, OfPair(s, o)) \in Seq(OfPair(s, o))
  BY SelectedIn
<1>2. OfPair(s, o) \subseteq Requests
  BY DEF OfPair
<1>3. Selected(q, OfPair(s, o)) \in Seq(Requests)
  BY <1>1, <1>2
<1>. QED BY <1>3, DataInType DEF Answers, DataIn

(* What enters a queue is answered behind the others.                      *)
LEMMA AnswersAppend ==
    ASSUME NEW q \in Seq(Padded), NEW x \in Padded, NEW s, NEW o
    PROVE  /\ x \in OfPair(s, o) =>
                  Answers(Append(q, x), s, o) = Append(Answers(q, s, o), x.data)
           /\ x \notin OfPair(s, o) => Answers(Append(q, x), s, o) = Answers(q, s, o)
<1>1. Append(q, x) \in Seq(Padded)
  BY AppendProperties
<1>2. Selected(Append(q, x), OfPair(s, o)) =
        IF x \in OfPair(s, o) THEN Append(Selected(q, OfPair(s, o)), x)
        ELSE Selected(q, OfPair(s, o))
  BY SelectedAppend
<1> DEFINE u == Selected(q, OfPair(s, o))
<1>3. /\ Answers(Append(q, x), s, o) = DataIn(Selected(Append(q, x), OfPair(s, o)))
      /\ Answers(q, s, o) = DataIn(u) /\ u \in Seq(Requests)
  BY <1>1, AnswersType
<1>4. ASSUME x \in OfPair(s, o) PROVE DataIn(Append(u, x)) = Append(DataIn(u), x.data)
  <2>1. x \in Requests
    BY <1>4 DEF OfPair
  <2> HIDE DEF u
  <2>. QED BY <1>3, <2>1, DataInAppend
<1>. QED BY <1>2, <1>3, <1>4, Zenon

LEMMA AnswersOne ==
    ASSUME NEW x \in Padded, NEW s, NEW o
    PROVE  /\ Answers(<< x >>, s, o) = IF x \in OfPair(s, o) THEN << x.data >> ELSE << >>
           /\ << x >> \in Seq(Padded)
<1>1. << >> \in Seq(Padded) /\ Append(<< >>, x) = << x >>
  BY EmptySeq
<1>2. << x >> \in Seq(Padded) /\ Append(<< >>, x.data) = << x.data >>
  OBVIOUS
<1>3. PICK e \in Seq(Padded) : e = << >>
  BY <1>1
<1>4. /\ x \in OfPair(s, o) => Answers(Append(e, x), s, o) = Append(Answers(e, s, o), x.data)
      /\ x \notin OfPair(s, o) => Answers(Append(e, x), s, o) = Answers(e, s, o)
  BY ONLY AnswersAppend, x \in Padded, e \in Seq(Padded)
<1>. QED BY <1>1, <1>2, <1>3, <1>4, AnswersNone, Zenon

LEMMA AnswersSplit ==
    ASSUME NEW q \in Seq(Padded), NEW x \in Padded, NEW s, NEW o
    PROVE  Answers(Append(q, x), s, o) = Answers(q, s, o) \o Answers(<< x >>, s, o)
<1>1. Answers(q, s, o) \in Seq(DramFetches)
  BY AnswersType
<1>2. x \in OfPair(s, o) => x.data \in DramFetches
  BY DEF OfPair, Requests
<1>3. x \in OfPair(s, o) =>
        Append(Answers(q, s, o), x.data) = Answers(q, s, o) \o << x.data >>
  BY <1>1, <1>2, AppendIsConcat
<1>4. Answers(q, s, o) \o << >> = Answers(q, s, o)
  BY <1>1, ConcatEmptySeq
<1>5. /\ x \in OfPair(s, o) => Answers(Append(q, x), s, o) = Append(Answers(q, s, o), x.data)
      /\ x \notin OfPair(s, o) => Answers(Append(q, x), s, o) = Answers(q, s, o)
  BY AnswersAppend
<1>6. Answers(<< x >>, s, o) = IF x \in OfPair(s, o) THEN << x.data >> ELSE << >>
  BY AnswersOne, Zenon
<1>. QED BY <1>3, <1>4, <1>5, <1>6, Zenon

(* What leaves a queue was answered ahead of the others.                   *)
LEMMA AnswersHead ==
    ASSUME NEW q \in Seq(Padded), q # << >>, NEW s, NEW o
    PROVE  Answers(q, s, o) = Answers(<< Head(q) >>, s, o) \o Answers(Tail(q), s, o)
<1> DEFINE u == Selected(q, OfPair(s, o))  v == Selected(Tail(q), OfPair(s, o))
<1>1. Head(q) \in Padded /\ Tail(q) \in Seq(Padded)
  BY HeadTailProperties
<1>2. /\ u \in Seq(Requests) /\ Answers(q, s, o) = DataIn(u)
      /\ v \in Seq(Requests) /\ Answers(Tail(q), s, o) = DataIn(v)
      /\ DataIn(u) \in Seq(DramFetches) /\ Len(DataIn(u)) = Len(u)
      /\ DataIn(v) \in Seq(DramFetches) /\ Len(DataIn(v)) = Len(v)
  BY <1>1, AnswersType, DataInType
<1>3. /\ Head(q) \in OfPair(s, o) => u # << >> /\ Head(u) = Head(q) /\ v = Tail(u)
      /\ Head(q) \notin OfPair(s, o) => v = u
  BY SelectedTail
<1> HIDE DEF u, v
<1>4. CASE Head(q) \in OfPair(s, o)
  <2> DEFINE a == << Head(q).data >>  b == a \o DataIn(v)
  <2>1. Head(q).data \in DramFetches
    BY <1>4 DEF OfPair, Requests
  <2>2. a \in Seq(DramFetches) /\ Len(a) = 1 /\ a[1] = Head(q).data
    BY <2>1
  <2>3. /\ Len(u) \in Nat \ {0} /\ Len(v) = Len(u) - 1 /\ u[1] = Head(q)
        /\ \A i \in 1 .. Len(v) : v[i] = u[i + 1]
    <3>1. u # << >> /\ u \in Seq(Requests) /\ v = Tail(u) /\ Head(u) = Head(q)
      BY <1>2, <1>3, <1>4
    <3>2. Len(u) \in Nat /\ Len(u) # 0
      BY <3>1, EmptySeq, LenProperties
    <3>3. /\ Len(Tail(u)) = Len(u) - 1 /\ u[1] = Head(u)
          /\ \A i \in 1 .. Len(Tail(u)) : Tail(u)[i] = u[i + 1]
      BY <3>1, HeadTailProperties
    <3>. QED BY <3>1, <3>2, <3>3
  <2> HIDE DEF a
  <2>4. /\ b \in Seq(DramFetches) /\ Len(b) = 1 + Len(v)
        /\ \A i \in 1 .. 1 + Len(v) : b[i] = IF i <= 1 THEN a[i] ELSE DataIn(v)[i - 1]
    <3> DEFINE d == DataIn(v)
    <3>1. d \in Seq(DramFetches) /\ Len(d) = Len(v)
      BY <1>2
    <3> HIDE DEF d
    <3>2. /\ a \o d \in Seq(DramFetches) /\ Len(a \o d) = Len(a) + Len(d)
          /\ \A i \in 1 .. Len(a) + Len(d) : (a \o d)[i] = IF i <= Len(a) THEN a[i] ELSE d[i - Len(a)]
      BY <2>2, <3>1, ConcatProperties
    <3>3. /\ a \o d \in Seq(DramFetches) /\ Len(a \o d) = 1 + Len(v)
          /\ \A i \in 1 .. 1 + Len(v) : (a \o d)[i] = IF i <= 1 THEN a[i] ELSE d[i - 1]
      BY <2>2, <3>1, <3>2, Zenon
    <3>. QED BY <3>3 DEF d
  <2> HIDE DEF b
  <2>5. /\ \A i \in 1 .. Len(u) : DataIn(u)[i] = u[i].data
        /\ \A i \in 1 .. Len(v) : DataIn(v)[i] = v[i].data
    BY DEF DataIn
  <2>6. \A i \in 1 .. Len(u) : i = 1 \/ (~(i <= 1) /\ i - 1 \in 1 .. Len(v) /\ (i - 1) + 1 = i)
    BY <2>3
  <2>7. \A i \in 1 .. Len(u) : b[i] = DataIn(u)[i]
    <3> TAKE i \in 1 .. Len(u)
    <3>1. CASE i = 1
      BY <3>1, <2>2, <2>3, <2>4, <2>5
    <3>2. CASE i # 1
      <4>1. ~(i <= 1) /\ i - 1 \in 1 .. Len(v) /\ (i - 1) + 1 = i /\ i \in 1 .. 1 + Len(v)
        BY <3>2, <2>3, <2>6
      <4>2. b[i] = DataIn(v)[i - 1]
        BY <4>1, <2>4
      <4>. QED BY <4>1, <4>2, <2>3, <2>5
    <3>. QED BY <3>1, <3>2
  <2>8. DataIn(u) = b
    BY <1>2, <2>3, <2>4, <2>7, SeqEqual
  <2>9. Answers(<< Head(q) >>, s, o) = a
    BY <1>1, <1>4, AnswersOne DEF a
  <2>. QED BY <1>2, <2>8, <2>9 DEF b
<1>5. CASE Head(q) \notin OfPair(s, o)
  <2>1. Answers(<< Head(q) >>, s, o) = << >>
    BY <1>1, <1>5, AnswersOne
  <2>. QED BY <1>2, <1>3, <1>5, <2>1, ConcatEmptySeq
<1>. QED BY <1>4, <1>5

----
(* A cycle moves what is inside from stage to stage in its order.          *)

Waiting(l) == [i \in 1 .. Len(l) |-> l[i].req]
Sends(l2, s, o) == IF s = o THEN l2[s] ELSE << >>

LEMMA BetweenIs ==
    ASSUME NEW s, NEW o
    PROVE  Between(s, o) =
              Selected(dram_L2[o], {f \in DramFetches : f[1] = s})
              \o Answers(returnq, s, o) \o Answers(rwq, s, o)
              \o Answers(mrqq, s, o) \o Answers(Waiting(latency), s, o)
              \o Sends(L2_dram, s, o)
  BY Zenon DEF Between, Waiting, Sends

LEMMA WaitingType ==
    ASSUME NEW l \in Seq([req : Requests, left : Nat])
    PROVE  Waiting(l) \in Seq(Padded) /\ Len(Waiting(l)) = Len(l)
<1>1. Len(l) \in Nat /\ \A i \in 1 .. Len(l) : l[i] \in [req : Requests, left : Nat]
  BY LenProperties, ElementOfSeq
<1>2. \A i \in 1 .. Len(l) : l[i].req \in Padded
  BY <1>1 DEF Padded
<1>. QED BY <1>1, <1>2 DEF Waiting

LEMMA WaitingAppend ==
    ASSUME NEW l \in Seq([req : Requests, left : Nat]),
           NEW x \in [req : Requests, left : Nat]
    PROVE  Waiting(Append(l, x)) = Append(Waiting(l), x.req)
<1> DEFINE v == Append(l, x)  b == Append(Waiting(l), x.req)
<1>1. /\ v \in Seq([req : Requests, left : Nat]) /\ Len(v) = Len(l) + 1 /\ Len(l) \in Nat
      /\ v[Len(l) + 1] = x /\ \A i \in 1 .. Len(l) : v[i] = l[i]
  BY AppendProperties, LenProperties
<1>2. /\ Waiting(v) \in Seq(Padded) /\ Len(Waiting(v)) = Len(v)
      /\ Waiting(l) \in Seq(Padded) /\ Len(Waiting(l)) = Len(l)
  BY <1>1, WaitingType
<1>3. x.req \in Padded
  BY DEF Padded
<1>4. /\ b \in Seq(Padded) /\ Len(b) = Len(l) + 1 /\ b[Len(l) + 1] = x.req
      /\ \A i \in 1 .. Len(l) : b[i] = Waiting(l)[i]
  BY <1>2, <1>3, AppendProperties
<1> HIDE DEF v, b
<1>5. /\ \A i \in 1 .. Len(l) : Waiting(l)[i] = l[i].req
      /\ \A i \in 1 .. Len(v) : Waiting(v)[i] = v[i].req
  BY DEF Waiting
<1>6. \A i \in 1 .. Len(v) : i \in 1 .. Len(l) \/ i = Len(l) + 1
  BY <1>1
<1>7. \A i \in 1 .. Len(v) : Waiting(v)[i] = b[i]
  BY <1>1, <1>4, <1>5, <1>6
<1>8. Waiting(v) = b
  BY <1>1, <1>2, <1>4, <1>7, SeqEqual
<1>. QED BY <1>8 DEF v, b

LEMMA WaitingTail ==
    ASSUME NEW l \in Seq([req : Requests, left : Nat]), l # << >>
    PROVE  /\ Waiting(l) # << >> /\ Head(Waiting(l)) = Head(l).req
           /\ Waiting(Tail(l)) = Tail(Waiting(l))
<1>1. /\ Tail(l) \in Seq([req : Requests, left : Nat]) /\ Len(Tail(l)) = Len(l) - 1
      /\ Len(l) \in Nat \ {0} /\ l[1] = Head(l)
      /\ \A i \in 1 .. Len(Tail(l)) : Tail(l)[i] = l[i + 1]
  BY HeadTailProperties, EmptySeq, LenProperties
<1>2. /\ Waiting(l) \in Seq(Padded) /\ Len(Waiting(l)) = Len(l)
      /\ Waiting(Tail(l)) \in Seq(Padded) /\ Len(Waiting(Tail(l))) = Len(l) - 1
  BY <1>1, WaitingType
<1>3. Waiting(l) # << >>
  BY <1>1, <1>2, EmptySeq
<1>4. /\ Head(Waiting(l)) = Waiting(l)[1]
      /\ Tail(Waiting(l)) \in Seq(Padded) /\ Len(Tail(Waiting(l))) = Len(l) - 1
      /\ \A i \in 1 .. Len(l) - 1 : Tail(Waiting(l))[i] = Waiting(l)[i + 1]
  BY <1>2, <1>3, HeadTailProperties
<1>5. /\ \A i \in 1 .. Len(l) : Waiting(l)[i] = l[i].req
      /\ \A i \in 1 .. Len(l) - 1 : Waiting(Tail(l))[i] = Tail(l)[i].req
  BY <1>1 DEF Waiting
<1>6. 1 \in 1 .. Len(l) /\ \A i \in 1 .. Len(l) - 1 : i + 1 \in 1 .. Len(l)
  BY <1>1
<1>7. \A i \in 1 .. Len(l) - 1 : Waiting(Tail(l))[i] = Tail(Waiting(l))[i]
  BY <1>1, <1>4, <1>5, <1>6
<1>8. Waiting(Tail(l)) = Tail(Waiting(l))
  BY <1>2, <1>4, <1>7, SeqEqual
<1>. QED BY <1>1, <1>3, <1>4, <1>5, <1>6, <1>8

(* A queue with room for one request.                                      *)
LEMMA AtMostOne ==
    ASSUME NEW q \in Seq(Requests), Len(q) <= 1
    PROVE  q = << >> \/ (q # << >> /\ Head(q) \in Requests /\ q = << Head(q) >>)
<1>1. CASE q # << >>
  <2>1. Len(q) \in Nat /\ Len(q) # 0 /\ q[1] = Head(q) /\ Head(q) \in Requests
    BY <1>1, EmptySeq, HeadTailProperties, LenProperties
  <2>2. << Head(q) >> \in Seq(Requests) /\ Len(<< Head(q) >>) = 1 /\ << Head(q) >>[1] = Head(q)
    BY <2>1
  <2>3. Len(q) = 1 /\ \A i \in 1 .. Len(q) : q[i] = << Head(q) >>[i]
    BY <2>1, <2>2
  <2>4. q = << Head(q) >>
    BY <2>2, <2>3, SeqEqual
  <2>. QED BY <1>1, <2>1, <2>4
<1>. QED BY <1>1

LEMMA PaddedTypes ==
    ASSUME ChannelInv
    PROVE  /\ returnq \in Seq(Padded) /\ mrqq \in Seq(Padded) /\ rwq \in Seq(Padded)
           /\ Waiting(latency) \in Seq(Padded)
           /\ NULL \in Padded /\ \A r \in Requests : r \in Padded
           /\ \A s, o : NULL \notin OfPair(s, o)
<1>1. returnq \in Seq(Requests) /\ mrqq \in Seq(Requests)
  BY DEF ChannelInv, ChannelTypeOK
<1>2. Requests \subseteq Padded
  BY DEF Padded
<1>3. rwq \in Seq(Padded)
  BY DEF ChannelInv, ChannelTypeOK, Padded
<1>4. Waiting(latency) \in Seq(Padded)
  BY WaitingType DEF ChannelInv, ChannelTypeOK
<1>5. NULL \in Padded /\ \A s, o : NULL \notin OfPair(s, o)
  BY DramAssumption DEF DramAssumption, Padded, OfPair
<1>. QED BY <1>1, <1>2, <1>3, <1>4, <1>5

(* What was done goes to the slice that asked.                             *)
LEMMA CycleDelivers ==
    ASSUME ChannelInv, DramCycle, NEW s \in Slices, NEW o \in Slices
    PROVE  /\ Selected(dram_L2'[o], {f \in DramFetches : f[1] = s}) = Answers(returnq, s, o)
           /\ Selected(dram_L2[o], {f \in DramFetches : f[1] = s}) = << >>
<1> DEFINE F == {f \in DramFetches : f[1] = s}
<1>0. Selected(<< >>, F) = << >>
  BY SelectedNothing
<1>1. dram_L2[o] = << >>
  BY CycleStart
<1>2. returnq \in Seq(Requests) /\ Len(returnq) <= 1 /\ dram_L2 \in [Slices -> Seq(DramFetches)]
  BY DEF ChannelInv, ChannelTypeOK, Pipelines
<1>3. CASE returnq = << >>
  <2>1. dram_L2' = dram_L2
    BY <1>3 DEF DramCycle, DramL2After, Returned
  <2>. QED BY <1>0, <1>1, <1>3, <2>1, AnswersNone
<1>4. CASE returnq # << >>
  <2> DEFINE r == Head(returnq)
  <2>1. r \in Requests /\ returnq = << r >>
    BY <1>2, <1>4, AtMostOne
  <2>2. r.l2_id \in Slices /\ r.data \in DramFetches
    BY <2>1 DEF Requests
  <2>3. Returned
    BY <1>4, <2>2, CycleStart, ConstantFacts DEF Returned
  <2>4. dram_L2'[o] = IF o = r.l2_id THEN << r.data >> ELSE << >>
    <3>1. dram_L2' = [dram_L2 EXCEPT ![r.l2_id] = Append(dram_L2[r.l2_id], r.data)]
      BY <2>3 DEF DramCycle, DramL2After
    <3>2. dram_L2[r.l2_id] = << >> /\ Append(<< >>, r.data) = << r.data >>
      BY <2>2, CycleStart
    <3>. QED BY <1>1, <1>2, <2>2, <3>1, <3>2
  <2>5. Answers(returnq, s, o) = IF r \in OfPair(s, o) THEN << r.data >> ELSE << >>
    BY <2>1, AnswersOne, PaddedTypes
  <2>6. r \in OfPair(s, o) <=> r.data \in F /\ o = r.l2_id
    BY <2>1, <2>2 DEF OfPair
  <2>7. Selected(<< r.data >>, F) = IF r.data \in F THEN << r.data >> ELSE << >>
    <3> HIDE DEF r, F
    <3>1. << >> \in Seq(DramFetches) /\ Append(<< >>, r.data) = << r.data >>
      BY EmptySeq
    <3>2. Selected(Append(<< >>, r.data), F) = IF r.data \in F
                                              THEN Append(Selected(<< >>, F), r.data)
                                              ELSE Selected(<< >>, F)
      BY <2>2, <3>1, SelectedAppend, Zenon
    <3>. QED BY <1>0, <3>1, <3>2, Zenon
  <2> HIDE DEF r, F
  <2>8. Selected(dram_L2'[o], F) = Answers(returnq, s, o)
    BY <1>0, <2>4, <2>5, <2>6, <2>7
  <2>. QED BY <1>0, <1>1, <2>8 DEF F
<1>. QED BY <1>3, <1>4

(* rwq gives its oldest element away and takes the request of mrqq.        *)
LEMMA PopShifts ==
    ASSUME NEW S, NEW q \in Seq(S), NULL \in S, Len(q) = CL
    PROVE  /\ FifoPop(q, CL) = Append(Tail(q), NULL)
           /\ \A x \in S : FifoPush(FifoPop(q, CL), CL, x) = Append(Tail(q), x)
<1> DEFINE t == Tail(q)  p == Append(t, NULL)
<1>1. q # << >> /\ t \in Seq(S) /\ Len(t) = CL - 1
  BY ConstantFacts, EmptySeq, HeadTailProperties
<1>2. FifoPop(q, CL) = p
  BY <1>1, ConstantFacts DEF FifoPop, FifoPush
<1> HIDE DEF t
<1>3. /\ p \in Seq(S) /\ Len(p) = CL /\ p[CL] = NULL /\ p # << >>
      /\ \A i \in 1 .. CL - 1 : p[i] = t[i]
  BY <1>1, ConstantFacts, AppendProperties, EmptySeq
<1>4. ASSUME NEW x \in S PROVE FifoPush(p, CL, x) = Append(t, x)
  <2> DEFINE a == Append(t, x)  e == [p EXCEPT ![CL] = x]
  <2>1. /\ a \in Seq(S) /\ Len(a) = CL /\ a[CL] = x
        /\ \A i \in 1 .. CL - 1 : a[i] = t[i]
    BY <1>1, ConstantFacts, AppendProperties
  <2> HIDE DEF p, a
  <2>2. FifoPush(p, CL, x) = e
    BY <1>3, ConstantFacts DEF FifoPush
  <2>3. CL \in 1 .. Len(p)
    BY <1>3, ConstantFacts
  <2>4. /\ e \in Seq(S) /\ Len(e) = CL
        /\ \A i \in 1 .. Len(e) : e[i] = IF i = CL THEN x ELSE p[i]
    BY <1>3, <2>3, ExceptSeq
  <2> HIDE DEF e
  <2>5. \A i \in 1 .. CL : i = CL \/ i \in 1 .. CL - 1
    BY ConstantFacts
  <2>6. \A i \in 1 .. Len(e) : e[i] = a[i]
    BY <1>3, <2>1, <2>4, <2>5
  <2>7. e = a
    BY <2>1, <2>4, <2>6, SeqEqual
  <2>. QED BY <2>2, <2>7 DEF a
<1>. QED BY <1>2, <1>4 DEF t

LEMMA CycleShifts ==
    ASSUME ChannelInv, DramCycle, NEW s \in Slices, NEW o \in Slices
    PROVE  /\ Answers(rwq, s, o) = Answers(returnq', s, o) \o Answers(Tail(rwq), s, o)
           /\ Answers(rwq', s, o) = Answers(Tail(rwq), s, o) \o Answers(mrqq, s, o)
           /\ Tail(rwq) \in Seq(Padded)
<1>1. rwq \in Seq(Padded) /\ Len(rwq) = CL /\ NULL \in Padded
  BY PaddedTypes DEF ChannelInv, Pipelines
<1>2. rwq # << >> /\ Tail(rwq) \in Seq(Padded) /\ Head(rwq) \in Padded
  BY <1>1, ConstantFacts, EmptySeq, HeadTailProperties
<1>3. Served(<< >>)
  BY ConstantFacts, EmptySeq DEF Served
<1>4. Answers(returnq', s, o) = Answers(<< Head(rwq) >>, s, o)
  <2>1. returnq' = IF Head(rwq) # NULL THEN Append(<< >>, Head(rwq)) ELSE << >>
    BY <1>3, CycleStart DEF DramCycle, ReturnqAfter
  <2>2. Append(<< >>, Head(rwq)) = << Head(rwq) >>
    OBVIOUS
  <2>3. Answers(<< NULL >>, s, o) = << >>
    BY PaddedTypes, AnswersOne
  <2>. QED BY <2>1, <2>2, <2>3, AnswersNone
<1>5. Answers(rwq, s, o) = Answers(<< Head(rwq) >>, s, o) \o Answers(Tail(rwq), s, o)
  BY <1>1, <1>2, AnswersHead
<1>6. RwqAfter(<< >>) = FifoPop(rwq, CL)
  BY <1>3 DEF RwqAfter
<1>7. mrqq \in Seq(Requests) /\ Len(mrqq) <= 1
  BY DEF ChannelInv, ChannelTypeOK, Pipelines
<1>8. \E x \in Padded : rwq' = Append(Tail(rwq), x) /\ Answers(mrqq, s, o) = Answers(<< x >>, s, o)
  <2>1. CASE mrqq = << >>
    <3>1. rwq' = Append(Tail(rwq), NULL)
      BY <1>1, <1>6, <2>1, CycleStart, PopShifts DEF DramCycle
    <3>2. Answers(<< NULL >>, s, o) = << >>
      BY PaddedTypes, AnswersOne
    <3>. QED BY <1>1, <2>1, <3>1, <3>2, AnswersNone
  <2>2. CASE mrqq # << >>
    <3>1. Head(mrqq) \in Requests /\ mrqq = << Head(mrqq) >>
      BY <1>7, <2>2, AtMostOne
    <3>2. Head(mrqq) \in Padded
      BY <3>1, PaddedTypes
    <3>3. rwq' = FifoPush(FifoPop(rwq, CL), CL, Head(mrqq))
      BY <1>6, <2>2, CycleStart DEF DramCycle
    <3>4. rwq' = Append(Tail(rwq), Head(mrqq))
      BY <1>1, <3>2, <3>3, PopShifts
    <3>. QED BY <3>1, <3>2, <3>4
  <2>. QED BY <2>1, <2>2
<1>9. PICK x \in Padded : rwq' = Append(Tail(rwq), x)
                          /\ Answers(mrqq, s, o) = Answers(<< x >>, s, o)
  BY <1>8
<1>10. Answers(rwq', s, o) = Answers(Tail(rwq), s, o) \o Answers(mrqq, s, o)
  <2>1. Answers(Append(Tail(rwq), x), s, o) = Answers(Tail(rwq), s, o) \o Answers(<< x >>, s, o)
    BY <1>2, AnswersSplit, Zenon
  <2>. QED BY <1>9, <2>1, Zenon
<1>. QED BY <1>2, <1>4, <1>5, <1>10

(* One request of one slice enters, and what has waited long enough leaves *)
(* for mrqq.                                                               *)
LEMMA CycleEnters ==
    ASSUME ChannelInv, OwnFetches, DramCycle, NEW s \in Slices, NEW o \in Slices
    PROVE  \E n \in Seq(DramFetches) :
              /\ Answers(mrqq', s, o) \o Answers(Waiting(latency'), s, o)
                    = Answers(Waiting(latency), s, o) \o n
              /\ n \o Sends(L2_dram', s, o) = Sends(L2_dram, s, o)
<1> DEFINE back == DramL2After
           entered == Entered(back, << >>)
           T == [req : Requests, left : Nat]
           c == Chosen(Candidates(back))
           new == [req |-> Tagged(c), left |-> l2_miss_latency]
           w == Answers(Waiting(latency), s, o)
<1>1. L2_dram \in [Slices -> Seq(DramFetches)] /\ latency \in Seq(T)
  BY DEF ChannelInv, ChannelTypeOK
<1>2. AgedLatency \in Seq(T) /\ Waiting(AgedLatency) = Waiting(latency)
  <2>1. \A i \in 1 .. Len(latency) : latency[i] \in T
    BY <1>1, ElementOfSeq
  <2>2. \A i \in 1 .. Len(latency) :
           [req |-> latency[i].req,
            left |-> IF latency[i].left = 0 THEN 0 ELSE latency[i].left - 1] \in T
    BY <2>1
  <2>3. Len(latency) \in Nat
    BY <1>1, LenProperties
  <2>4. AgedLatency \in Seq(T) /\ Len(AgedLatency) = Len(latency)
    BY <2>2, <2>3 DEF AgedLatency
  <2>5. \A i \in 1 .. Len(latency) : AgedLatency[i].req = latency[i].req
    BY DEF AgedLatency
  <2>. QED BY <2>4, <2>5 DEF Waiting
<1>3. Waiting(AgedLatency) \in Seq(Padded) /\ w \in Seq(DramFetches)
  BY <1>2, WaitingType, AnswersType
<1>4. /\ latency' = IF LatencyOver(entered, << >>) THEN Tail(entered) ELSE entered
      /\ mrqq' = IF LatencyOver(entered, << >>) THEN Append(<< >>, Head(entered).req) ELSE << >>
      /\ L2_dram' = IF Issues(back, << >>) THEN [L2_dram EXCEPT ![c] = Tail(L2_dram[c])] ELSE L2_dram
  BY CycleStart DEF DramCycle
(* What leaves the latency queue is at its head.                           *)
<1>7. ASSUME entered \in Seq(T)
      PROVE  Answers(mrqq', s, o) \o Answers(Waiting(latency'), s, o)
                = Answers(Waiting(entered), s, o)
  <2> HIDE DEF entered, T
  <2>1. CASE LatencyOver(entered, << >>)
    <3> DEFINE x == Head(entered).req
    <3>1. entered # << >>
      BY <2>1 DEF LatencyOver
    <3>2. x \in Padded /\ Waiting(entered) \in Seq(Padded)
      <4>1. Head(entered) \in T
        BY <1>7, <3>1, HeadTailProperties
      <4>. QED BY <1>7, <4>1, WaitingType DEF T, Padded
    <3>3. /\ Waiting(entered) # << >> /\ Head(Waiting(entered)) = x
          /\ Waiting(Tail(entered)) = Tail(Waiting(entered))
      BY <1>7, <3>1, WaitingTail DEF T
    <3>4. mrqq' = << x >> /\ latency' = Tail(entered)
      BY <1>4, <2>1
    <3>5. Answers(Waiting(entered), s, o)
             = Answers(<< Head(Waiting(entered)) >>, s, o) \o Answers(Tail(Waiting(entered)), s, o)
      BY <3>2, <3>3, AnswersHead, Zenon
    <3>. QED BY <3>3, <3>4, <3>5, Zenon
  <2>2. CASE ~LatencyOver(entered, << >>)
    <3>1. mrqq' = << >> /\ latency' = entered
      BY <1>4, <2>2
    <3>2. Answers(Waiting(entered), s, o) \in Seq(DramFetches)
      BY <1>7, WaitingType, AnswersType DEF T
    <3>. QED BY <3>1, <3>2, AnswersNone, ConcatEmptySeq
  <2>. QED BY <2>1, <2>2
<1>5. CASE Issues(back, << >>)
  <2>1. c \in Candidates(back)
    <3>1. PICK p \in Candidates(back) : \A r \in Candidates(back) : Preference(p) <= Preference(r)
      BY <1>5, LeastPreference DEF Issues, Candidates
    <3>. QED BY <3>1 DEF Chosen
  <2>2. c \in Slices /\ L2_dram[c] # << >>
    BY <2>1 DEF Candidates
  <2> DEFINE f == Head(L2_dram[c])
  <2> HIDE DEF c
  <2>3. /\ L2_dram[c] \in Seq(DramFetches) /\ f \in DramFetches /\ f = L2_dram[c][1]
        /\ Tail(L2_dram[c]) \in Seq(DramFetches)
        /\ 1 \in 1 .. Len(L2_dram[c])
    BY <1>1, <2>2, HeadTailProperties, LenProperties, EmptySeq
  <2>4. f[1] = c
    BY <2>2, <2>3 DEF OwnFetches
  <2>5. Tagged(c) = Request(f, c) /\ Tagged(c) \in Requests /\ new \in T
    BY <2>2, <2>3, ConstantFacts DEF Tagged, Request, Requests
  <2>6. Tagged(c) \in OfPair(s, o) <=> s = c /\ o = c
    BY <2>2, <2>3, <2>4, <2>5 DEF OfPair, Request
  <2>7. entered = Append(AgedLatency, new)
    BY <1>5 DEF Entered, c
  <2> DEFINE n == IF s = c /\ o = c THEN << f >> ELSE << >>
  <2>8. n \in Seq(DramFetches)
    BY <2>3
  <2>9. Answers(<< Tagged(c) >>, s, o) = n
    <3>1. Tagged(c) \in Padded /\ Tagged(c).data = f
      BY <2>5, PaddedTypes DEF Request
    <3>. QED BY <2>6, <3>1, AnswersOne
  <2>10. entered \in Seq(T) /\ Waiting(entered) = Append(Waiting(latency), Tagged(c))
    <3> HIDE DEF new, entered
    <3>1. new.req = Tagged(c)
      BY DEF new
    <3>. QED BY <1>2, <2>5, <2>7, <3>1, WaitingAppend, AppendProperties
  <2>11. Answers(Waiting(entered), s, o) = w \o n
    <3>1. Tagged(c) \in Padded
      BY <2>5, PaddedTypes
    <3>2. Answers(Append(Waiting(AgedLatency), Tagged(c)), s, o)
             = Answers(Waiting(AgedLatency), s, o) \o Answers(<< Tagged(c) >>, s, o)
      BY <1>3, <3>1, AnswersSplit, Zenon
    <3>. QED BY <1>2, <2>9, <2>10, <3>2, Zenon
  <2>12. n \o Sends(L2_dram', s, o) = Sends(L2_dram, s, o)
    <3>1. L2_dram'[s] = IF s = c THEN Tail(L2_dram[s]) ELSE L2_dram[s]
      BY <1>1, <1>4, <1>5, <2>2
    <3>2. L2_dram[s] \in Seq(DramFetches) /\ << >> \in Seq(DramFetches)
      BY <1>1, EmptySeq
    <3>3. << >> \o L2_dram[s] = L2_dram[s] /\ << >> \o << >> = << >>
      BY <3>2, ConcatEmptySeq
    <3>4. << f >> \o Tail(L2_dram[c]) = L2_dram[c]
      <4> DEFINE q == L2_dram[c]
      <4>1. q \in Seq(DramFetches) /\ q # << >> /\ f = Head(q)
        BY <2>2, <2>3
      <4> HIDE DEF q, f
      <4>. QED BY <4>1 DEF q
    <3> HIDE DEF f
    <3>. QED BY <3>1, <3>3, <3>4 DEF Sends
  <2>. QED BY <1>7, <2>8, <2>10, <2>11, <2>12
<1>6. CASE ~Issues(back, << >>)
  <2>1. entered = AgedLatency /\ L2_dram' = L2_dram
    BY <1>4, <1>6 DEF Entered
  <2>2. << >> \in Seq(DramFetches) /\ w \o << >> = w
    BY <1>3, EmptySeq, ConcatEmptySeq
  <2>3. << >> \o Sends(L2_dram', s, o) = Sends(L2_dram, s, o)
    <3>1. Sends(L2_dram, s, o) \in Seq(DramFetches)
      BY <1>1, EmptySeq DEF Sends
    <3>. QED BY <2>1, <3>1, ConcatEmptySeq
  <2>4. Answers(Waiting(entered), s, o) = w /\ entered \in Seq(T)
    BY <1>2, <2>1
  <2>. QED BY <1>7, <2>2, <2>3, <2>4
<1>. QED BY <1>5, <1>6

(* Concatenation under a name, for reasoning by associativity alone.       *)
Cat(x, y) == x \o y

LEMMA CatAssociative ==
    ASSUME NEW S, NEW x \in Seq(S), NEW y \in Seq(S), NEW z \in Seq(S)
    PROVE  Cat(Cat(x, y), z) = Cat(x, Cat(y, z))
  BY ConcatAssociative DEF Cat

LEMMA CatType ==
    ASSUME NEW S, NEW x \in Seq(S), NEW y \in Seq(S)
    PROVE  Cat(x, y) \in Seq(S) /\ Cat(<< >>, x) = x
  BY ConcatProperties, ConcatEmptySeq DEF Cat

(* So nobody outside can tell a cycle from a stutter.                      *)
LEMMA CycleIsHidden ==
    ASSUME ChannelInv, ChannelInv', OwnFetches, DramCycle, NEW s \in Slices, NEW o \in Slices
    PROVE  Between(s, o)' = Between(s, o)
<1> DEFINE F == {f \in DramFetches : f[1] = s}
           r == Answers(returnq, s, o)  a == Answers(returnq', s, o)
           t == Answers(Tail(rwq), s, o)  m == Answers(mrqq, s, o)
           w == Answers(Waiting(latency), s, o)
           c == Answers(mrqq', s, o)  d == Answers(Waiting(latency'), s, o)
           e == Sends(L2_dram', s, o)  l == Sends(L2_dram, s, o)
<1>1. PICK n \in Seq(DramFetches) : c \o d = w \o n /\ n \o e = l
  BY CycleEnters
<1>2. /\ Selected(dram_L2'[o], F) = r /\ Selected(dram_L2[o], F) = << >>
      /\ Answers(rwq, s, o) = a \o t /\ Answers(rwq', s, o) = t \o m
      /\ Tail(rwq) \in Seq(Padded)
  BY CycleDelivers, CycleShifts
<1>3. /\ returnq \in Seq(Padded) /\ mrqq \in Seq(Padded) /\ Waiting(latency) \in Seq(Padded)
      /\ returnq' \in Seq(Padded) /\ mrqq' \in Seq(Padded) /\ Waiting(latency') \in Seq(Padded)
  <2>1. \A x \in Requests : x \in Padded
    BY PaddedTypes
  <2>2. returnq' \in Seq(Requests) /\ mrqq' \in Seq(Requests)
    BY DEF ChannelInv, ChannelTypeOK
  <2>3. Waiting(latency') \in Seq(Padded)
    <3>1. latency' \in Seq([req : Requests, left : Nat])
      BY DEF ChannelInv, ChannelTypeOK
    <3>. QED BY <3>1, WaitingType
  <2>4. Seq(Requests) \subseteq Seq(Padded)
    BY <2>1
  <2>. QED BY <2>2, <2>3, <2>4, PaddedTypes
<1>4. /\ r \in Seq(DramFetches) /\ a \in Seq(DramFetches) /\ t \in Seq(DramFetches)
      /\ m \in Seq(DramFetches) /\ w \in Seq(DramFetches) /\ c \in Seq(DramFetches)
      /\ d \in Seq(DramFetches)
  BY <1>2, <1>3, AnswersType
<1>5. e \in Seq(DramFetches) /\ l \in Seq(DramFetches)
  <2>1. << >> \in Seq(DramFetches)
    BY EmptySeq
  <2>2. L2_dram[s] \in Seq(DramFetches) /\ L2_dram'[s] \in Seq(DramFetches)
    BY DEF ChannelInv, ChannelTypeOK
  <2>. QED BY <2>1, <2>2 DEF Sends
<1>6. Between(s, o) = Selected(dram_L2[o], F) \o r \o Answers(rwq, s, o) \o m \o w \o l
  BY BetweenIs
<1>7. Between(s, o)' = Selected(dram_L2'[o], F) \o a \o Answers(rwq', s, o) \o c \o d \o e
  BY Zenon DEF Between, Waiting, Sends
<1> HIDE DEF F, r, a, t, m, w, c, d, e, l
<1>8. r \o a \o (t \o m) \o c \o d \o e = << >> \o r \o (a \o t) \o m \o w \o l
  <2>1. Cat(c, d) = Cat(w, n) /\ Cat(n, e) = l
    BY <1>1 DEF Cat
  <2> DEFINE S == Seq(DramFetches)  X == Cat(Cat(r, a), Cat(t, m))
  <2>2. X = Cat(Cat(r, Cat(a, t)), m) /\ X \in S
    <3>1. Cat(r, a) \in S /\ Cat(t, m) \in S
      BY <1>4, CatType
    <3>2. X \in S /\ X = Cat(Cat(Cat(r, a), t), m)
      BY <1>4, <3>1, CatType, CatAssociative
    <3>3. Cat(Cat(r, a), t) = Cat(r, Cat(a, t))
      BY <1>4, CatAssociative
    <3>. QED BY <3>2, <3>3
  <2> HIDE DEF X
  <2>3. Cat(Cat(X, c), d) = Cat(Cat(X, w), n)
    BY <1>4, <2>1, <2>2, CatAssociative
  <2>4. Cat(Cat(Cat(X, w), n), e) = Cat(Cat(X, w), l)
    BY <1>1, <1>4, <1>5, <2>1, <2>2, CatAssociative, CatType
  <2>5. Cat(<< >>, r) = r
    BY <1>4, CatType
  <2>6. Cat(Cat(Cat(X, c), d), e) = Cat(Cat(Cat(Cat(Cat(<< >>, r), Cat(a, t)), m), w), l)
    BY ONLY <2>2, <2>3, <2>4, <2>5, Zenon
  <2>. QED BY <2>6, Zenon DEF Cat, X
<1>. QED BY <1>2, <1>6, <1>7, <1>8

----
(* The slices.                                                             *)

LEMMA CatTail ==
    ASSUME NEW S, NEW x \in Seq(S), NEW y \in Seq(S), x # << >>
    PROVE  Cat(x, y) # << >> /\ Tail(Cat(x, y)) = Cat(Tail(x), y) /\ Tail(x) \in Seq(S)
  BY HeadTailProperties DEF Cat

LEMMA CatAppend ==
    ASSUME NEW S, NEW x \in Seq(S), NEW y \in Seq(S), NEW z \in S
    PROVE  Append(Cat(x, y), z) = Cat(x, Append(y, z))
  BY AppendProperties DEF Cat

(* Taking the head of the first of six stages takes it from all of them.   *)
Six(v, a, b, c, d, e) == Cat(Cat(Cat(Cat(Cat(v, a), b), c), d), e)

SixOf(S, v, a, b, c, d, e) ==
    v \in Seq(S) /\ a \in Seq(S) /\ b \in Seq(S) /\ c \in Seq(S) /\ d \in Seq(S) /\ e \in Seq(S)

LEMMA SixTail ==
    ASSUME NEW S, NEW v, NEW a, NEW b, NEW c, NEW d, NEW e,
           SixOf(S, v, a, b, c, d, e), v # << >>
    PROVE  /\ Six(v, a, b, c, d, e) # << >>
           /\ Tail(Six(v, a, b, c, d, e)) = Six(Tail(v), a, b, c, d, e)
<1> DEFINE T == Seq(S)
<1>1. \A x \in T, y \in T : x # << >> => Cat(x, y) # << >> /\ Tail(Cat(x, y)) = Cat(Tail(x), y)
  BY CatTail
<1>2. \A x \in T, y \in T : Cat(x, y) \in T
  BY CatType
<1> HIDE DEF T
<1>3. v \in T /\ a \in T /\ b \in T /\ c \in T /\ d \in T /\ e \in T
  BY DEF T, SixOf
<1>4. PICK x \in T : x = Cat(v, a)
  BY <1>2, <1>3
<1>5. x # << >> /\ Tail(x) = Cat(Tail(v), a)
  BY <1>1, <1>3, <1>4
<1>6. PICK y \in T : y = Cat(x, b)
  BY <1>2, <1>3
<1>7. y # << >> /\ Tail(y) = Cat(Tail(x), b)
  BY <1>1, <1>3, <1>5, <1>6
<1>8. PICK z \in T : z = Cat(y, c)
  BY <1>2, <1>3
<1>9. z # << >> /\ Tail(z) = Cat(Tail(y), c)
  BY <1>1, <1>3, <1>7, <1>8
<1>10. PICK w \in T : w = Cat(z, d)
  BY <1>2, <1>3
<1>11. w # << >> /\ Tail(w) = Cat(Tail(z), d)
  BY <1>1, <1>3, <1>9, <1>10
<1>12. Cat(w, e) # << >> /\ Tail(Cat(w, e)) = Cat(Tail(w), e)
  BY <1>1, <1>3, <1>11
<1>. QED BY ONLY <1>4, <1>5, <1>6, <1>7, <1>8, <1>9, <1>10, <1>11, <1>12, Zenon DEF Six

LEMMA FetchOf ==
    ASSUME NEW f \in DramFetches
    PROVE  f[1] \in Slices
<1>1. PICK p \in Slices : f \in {p} \X (1 .. NumSends[p])
  BY DEF DramFetches
<1>. QED BY <1>1

(* The stages of a pair and their types.                                   *)
LEMMA StageTypes ==
    ASSUME ChannelInv, NEW s \in Slices, NEW o \in Slices
    PROVE  /\ dram_L2[o] \in Seq(DramFetches)
           /\ Selected(dram_L2[o], {f \in DramFetches : f[1] = s}) \in Seq(DramFetches)
           /\ Answers(returnq, s, o) \in Seq(DramFetches)
           /\ Answers(rwq, s, o) \in Seq(DramFetches)
           /\ Answers(mrqq, s, o) \in Seq(DramFetches)
           /\ Answers(Waiting(latency), s, o) \in Seq(DramFetches)
           /\ L2_dram[s] \in Seq(DramFetches)
           /\ Sends(L2_dram, s, o) \in Seq(DramFetches)
<1>1. dram_L2[o] \in Seq(DramFetches) /\ L2_dram[s] \in Seq(DramFetches)
  BY DEF ChannelInv, ChannelTypeOK
<1>2. Sends(L2_dram, s, o) \in Seq(DramFetches)
  BY <1>1, EmptySeq DEF Sends
<1>. QED BY <1>1, <1>2, SelectedType, PaddedTypes, AnswersType

(* An answer taken is a Receive of the channel from the slice that sent    *)
(* the fetch, which is the slice that takes it.                            *)
LEMMA AnswerReceives ==
    ASSUME ChannelInv, NEW p \in Slices, TakeAnswer(p), dram_L2[p] # << >>,
           NEW s \in Slices, NEW o \in Slices
    PROVE  IF s = Head(dram_L2[p])[1] /\ o = p
           THEN Between(s, o) # << >> /\ Between(s, o)' = Tail(Between(s, o))
           ELSE Between(s, o)' = Between(s, o)
<1> DEFINE F == {f \in DramFetches : f[1] = s}  S == DramFetches
           v == Selected(dram_L2[o], F)
           a == Answers(returnq, s, o)  b == Answers(rwq, s, o)
           c == Answers(mrqq, s, o)  d == Answers(Waiting(latency), s, o)
           e == Sends(L2_dram, s, o)
           Stages(x) == Six(x, a, b, c, d, e)
<1>1. /\ dram_L2[o] \in Seq(S) /\ v \in Seq(S)
      /\ a \in Seq(S) /\ b \in Seq(S) /\ c \in Seq(S) /\ d \in Seq(S) /\ e \in Seq(S)
  BY StageTypes
<1>2. Between(s, o) = Stages(v)
  BY BetweenIs, Zenon DEF Cat, Six
<1>3. /\ dram_L2'[o] = IF o = p THEN Tail(dram_L2[o]) ELSE dram_L2[o]
      /\ UNCHANGED <<sent, L2_dram, latency, mrqq, rwq, returnq>>
  BY DEF TakeAnswer, ChannelInv, ChannelTypeOK, dram_vars
<1>4. Between(s, o)' = Stages(Selected(dram_L2'[o], F))
  <2>1. Between(s, o)' = Selected(dram_L2'[o], F) \o Answers(returnq', s, o)
                         \o Answers(rwq', s, o) \o Answers(mrqq', s, o)
                         \o Answers(Waiting(latency'), s, o) \o Sends(L2_dram', s, o)
    BY Zenon DEF Between, Waiting, Sends
  <2>. QED BY <1>3, <2>1, Zenon DEF Cat, Six
<1>5. o = p => (Head(dram_L2[o]) \in F <=> s = Head(dram_L2[p])[1])
  <2>1. o = p => Head(dram_L2[o]) \in DramFetches
    BY <1>1, HeadTailProperties
  <2>. QED BY <2>1
<1>6. CASE o # p
  BY <1>2, <1>3, <1>4, <1>6
<1>7. CASE o = p /\ s # Head(dram_L2[p])[1]
  <2>1. Selected(Tail(dram_L2[o]), F) = v
    <3> HIDE DEF F
    <3>. QED BY <1>1, <1>5, <1>7, SelectedTail
  <2>. QED BY <1>2, <1>3, <1>4, <1>7, <2>1
<1>8. CASE o = p /\ s = Head(dram_L2[p])[1]
  <2>1. v # << >> /\ Selected(Tail(dram_L2[o]), F) = Tail(v)
    <3> HIDE DEF F
    <3>. QED BY <1>1, <1>5, <1>8, SelectedTail
  <2>2. Stages(v) # << >> /\ Tail(Stages(v)) = Stages(Tail(v))
    <3> HIDE DEF v, a, b, c, d, e, S
    <3>1. SixOf(S, v, a, b, c, d, e)
      BY <1>1 DEF SixOf
    <3>. QED BY ONLY <2>1, <3>1, SixTail
  <2> HIDE DEF Stages, v
  <2>. QED BY <1>2, <1>3, <1>4, <1>8, <2>1, <2>2
<1>. QED BY <1>6, <1>7, <1>8

(* A fetch sent is a Send of the slice's own channel.                      *)
LEMMA SendSends ==
    ASSUME ChannelInv, NEW p \in Slices, sent[p] < NumSends[p],
           L2_dram' = [L2_dram EXCEPT ![p] = Append(@, <<p, sent[p] + 1>>)],
           UNCHANGED <<dram_vars, dram_L2>>, <<p, sent[p] + 1>> \in DramFetches,
           NEW s \in Slices, NEW o \in Slices
    PROVE  IF s = p /\ o = p
           THEN Between(s, o)' = Append(Between(s, o), <<p, sent[p] + 1>>)
           ELSE Between(s, o)' = Between(s, o)
<1> DEFINE F == {f \in DramFetches : f[1] = s}  S == DramFetches
           v == Selected(dram_L2[o], F)
           a == Answers(returnq, s, o)  b == Answers(rwq, s, o)
           c == Answers(mrqq, s, o)  d == Answers(Waiting(latency), s, o)
           e == Sends(L2_dram, s, o)
           x == Cat(Cat(Cat(Cat(v, a), b), c), d)
<1>1. /\ v \in Seq(S) /\ a \in Seq(S) /\ b \in Seq(S) /\ c \in Seq(S) /\ d \in Seq(S)
      /\ e \in Seq(S)
  BY StageTypes
<1>2. Between(s, o) = Cat(x, e)
  BY BetweenIs, Zenon DEF Cat
<1>3. UNCHANGED <<dram_L2, latency, mrqq, rwq, returnq>>
  BY DEF dram_vars
<1>4. Between(s, o)' = Cat(x, Sends(L2_dram', s, o))
  <2>1. Between(s, o)' = Selected(dram_L2'[o], F) \o Answers(returnq', s, o)
                         \o Answers(rwq', s, o) \o Answers(mrqq', s, o)
                         \o Answers(Waiting(latency'), s, o) \o Sends(L2_dram', s, o)
    BY Zenon DEF Between, Waiting, Sends
  <2>. QED BY <1>3, <2>1, Zenon DEF Cat
<1>5. x \in Seq(S)
  <2> HIDE DEF v, a, b, c, d, S
  <2>1. Cat(v, a) \in Seq(S)
    BY <1>1, CatType
  <2>2. Cat(Cat(v, a), b) \in Seq(S)
    BY <1>1, <2>1, CatType
  <2>3. Cat(Cat(Cat(v, a), b), c) \in Seq(S)
    BY <1>1, <2>2, CatType
  <2>. QED BY <1>1, <2>3, CatType
<1>6. Sends(L2_dram', s, o) = IF s = p /\ o = p THEN Append(e, <<p, sent[p] + 1>>) ELSE e
  BY DEF Sends, ChannelInv, ChannelTypeOK
<1> HIDE DEF x, e
<1>7. Append(Cat(x, e), <<p, sent[p] + 1>>) = Cat(x, Append(e, <<p, sent[p] + 1>>))
  <2> DEFINE T == Seq(S)  f == <<p, sent[p] + 1>>
  <2>1. \A x1, e1 \in T, f1 \in S : Append(Cat(x1, e1), f1) = Cat(x1, Append(e1, f1))
    BY CatAppend DEF T
  <2>2. x \in T /\ e \in T
    BY <1>1, <1>5
  <2>3. f \in S
    OBVIOUS
  <2> HIDE DEF T, f, S
  <2>4. Append(Cat(x, e), f) = Cat(x, Append(e, f))
    BY ONLY <2>1, <2>2, <2>3, Zenon
  <2>. QED BY <2>4 DEF f
<1>. QED BY <1>2, <1>4, <1>6, <1>7

----
LEMMA OwnStep == ChannelInv /\ OwnFetches /\ [ChannelNext]_channel_vars => OwnFetches'
<1> SUFFICES ASSUME ChannelInv, OwnFetches, [ChannelNext]_channel_vars
             PROVE  OwnFetches'
  OBVIOUS
<1>1. \A p \in Slices : L2_dram[p] \in Seq(DramFetches)
  BY DEF ChannelInv, ChannelTypeOK
<1>2. CASE DramCycle
  <2> SUFFICES ASSUME NEW p \in Slices, NEW i \in 1 .. Len(L2_dram'[p])
               PROVE  L2_dram'[p][i][1] = p
    BY DEF OwnFetches
  <2>1. L2_dram'[p] = L2_dram[p] \/ (L2_dram[p] # << >> /\ L2_dram'[p] = Tail(L2_dram[p]))
    <3> DEFINE c == Chosen(Candidates(DramL2After))
    <3>1. L2_dram' = IF Issues(DramL2After, << >>)
                     THEN [L2_dram EXCEPT ![c] = Tail(L2_dram[c])] ELSE L2_dram
      BY <1>2, CycleStart DEF DramCycle
    <3>2. Issues(DramL2After, << >>) => c \in Candidates(DramL2After)
      <4> SUFFICES ASSUME Issues(DramL2After, << >>) PROVE c \in Candidates(DramL2After)
        OBVIOUS
      <4>1. PICK q \in Candidates(DramL2After) :
               \A r \in Candidates(DramL2After) : Preference(q) <= Preference(r)
        BY LeastPreference DEF Issues, Candidates
      <4>. QED BY <4>1 DEF Chosen
    <3>3. Issues(DramL2After, << >>) => c \in Slices /\ L2_dram[c] # << >>
      BY <3>2 DEF Candidates
    <3> HIDE DEF c
    <3>. QED BY <3>1, <3>3 DEF ChannelInv, ChannelTypeOK
  <2>2. CASE L2_dram'[p] = L2_dram[p]
    BY <2>2 DEF OwnFetches
  <2>3. CASE L2_dram[p] # << >> /\ L2_dram'[p] = Tail(L2_dram[p])
    <3>1. /\ Len(Tail(L2_dram[p])) = Len(L2_dram[p]) - 1 /\ Len(L2_dram[p]) \in Nat
          /\ \A j \in 1 .. Len(Tail(L2_dram[p])) : Tail(L2_dram[p])[j] = L2_dram[p][j + 1]
      BY <1>1, <2>3, HeadTailProperties, LenProperties
    <3>2. i + 1 \in 1 .. Len(L2_dram[p]) /\ L2_dram'[p][i] = L2_dram[p][i + 1]
      BY <2>3, <3>1
    <3>. QED BY <3>2 DEF OwnFetches
  <2>. QED BY <2>1, <2>2, <2>3
<1>3. ASSUME NEW p \in Slices, Send(p) PROVE OwnFetches'
  <2>1. CASE L2_dram' = [L2_dram EXCEPT ![p] = Append(@, <<p, sent[p] + 1>>)]
    <3> SUFFICES ASSUME NEW q \in Slices, NEW i \in 1 .. Len(L2_dram'[q])
                 PROVE  L2_dram'[q][i][1] = q
      BY DEF OwnFetches
    <3>1. L2_dram'[q] = IF q = p THEN Append(L2_dram[p], <<p, sent[p] + 1>>) ELSE L2_dram[q]
      BY <2>1 DEF ChannelInv, ChannelTypeOK
    <3>2. CASE q # p
      BY <3>1, <3>2 DEF OwnFetches
    <3>3. CASE q = p
      <4>1. /\ Len(L2_dram'[q]) = Len(L2_dram[q]) + 1 /\ Len(L2_dram[q]) \in Nat
            /\ L2_dram'[q][Len(L2_dram[q]) + 1] = <<p, sent[p] + 1>>
            /\ \A j \in 1 .. Len(L2_dram[q]) : L2_dram'[q][j] = L2_dram[q][j]
        BY <1>1, <3>1, <3>3, AppendProperties, LenProperties
      <4>2. CASE i = Len(L2_dram[q]) + 1
        BY <3>3, <4>1, <4>2
      <4>3. CASE i \in 1 .. Len(L2_dram[q])
        BY <4>1, <4>3 DEF OwnFetches
      <4>. QED BY <4>1, <4>2, <4>3
    <3>. QED BY <3>2, <3>3
  <2>2. CASE L2_dram' = L2_dram
    BY <2>2 DEF OwnFetches
  <2>. QED BY <1>3, <2>1, <2>2 DEF Send
<1>4. CASE L2_dram' = L2_dram
  BY <1>4 DEF OwnFetches
<1>. QED BY <1>2, <1>3, <1>4 DEF ChannelNext, TakeAnswer, NoSend, Aborted, channel_vars

Bar == [pair \in Slices \X Slices |-> Between(pair[1], pair[2])]

LEMMA ChannelStep ==
    ChannelInv /\ ChannelInv' /\ OwnFetches /\ [ChannelNext]_channel_vars => Channels!Next \/ Bar' = Bar
<1> SUFFICES ASSUME ChannelInv, ChannelInv', OwnFetches, [ChannelNext]_channel_vars
             PROVE  Channels!Next \/ Bar' = Bar
  OBVIOUS
<1>0. /\ Bar' = [pair \in Slices \X Slices |-> Between(pair[1], pair[2])']
      /\ \A s, o \in Slices : Bar[<<s, o>>] = Between(s, o)
  BY DEF Bar
<1>1. CASE DramCycle
  <2>1. \A s, o \in Slices : Between(s, o)' = Between(s, o)
    BY <1>1, CycleIsHidden
  <2>2. \A pair \in Slices \X Slices : Between(pair[1], pair[2])' = Between(pair[1], pair[2])
    BY <2>1
  <2>. QED BY <1>0, <2>2 DEF Bar
<1>2. ASSUME NEW p \in Slices, TakeAnswer(p) PROVE Channels!Next \/ Bar' = Bar
  <2>1. CASE dram_L2[p] = << >>
    <3>1. dram_L2' = dram_L2 /\ UNCHANGED <<L2_dram, latency, mrqq, rwq, returnq>>
      BY <1>2, <2>1 DEF TakeAnswer, ChannelInv, ChannelTypeOK, dram_vars
    <3>. QED BY <3>1, Zenon DEF Bar, Between
  <2>2. CASE dram_L2[p] # << >>
    <3> DEFINE w == Head(dram_L2[p])[1]
    <3>1. w \in Slices
      <4>1. Head(dram_L2[p]) \in DramFetches
        BY <2>2, HeadTailProperties DEF ChannelInv, ChannelTypeOK
      <4>. QED BY <4>1, FetchOf
    <3>2. \A s, o \in Slices :
             IF s = w /\ o = p
             THEN Between(s, o) # << >> /\ Between(s, o)' = Tail(Between(s, o))
             ELSE Between(s, o)' = Between(s, o)
      BY <1>2, <2>2, AnswerReceives
    <3> HIDE DEF w
    <3>3. Bar' = [Bar EXCEPT ![<<w, p>>] = Tail(@)]
      <4>1. \A pair \in Slices \X Slices : Between(pair[1], pair[2])' =
               IF pair = <<w, p>> THEN Tail(Between(pair[1], pair[2]))
                                  ELSE Between(pair[1], pair[2])
        BY <3>2
      <4>. QED BY <1>0, <4>1, <3>1 DEF Bar
    <3>4. Bar[<<w, p>>] # << >>
      BY <1>0, <3>1, <3>2
    <3>5. Channels!Receive(w, p)
      BY <3>3, <3>4 DEF Channels!Receive, Bar
    <3>. QED BY <3>1, <3>5 DEF Channels!Next
  <2>. QED BY <2>1, <2>2
<1>3. ASSUME NEW p \in Slices, Send(p) PROVE Channels!Next \/ Bar' = Bar
  <2> DEFINE f == <<p, sent[p] + 1>>
  <2>1. sent[p] \in Nat /\ sent[p] < NumSends[p] /\ UNCHANGED <<dram_vars, dram_L2>>
    BY <1>3 DEF Send, ChannelInv, ChannelTypeOK
  <2>2. f \in DramFetches
    BY <2>1, ConstantFacts DEF DramFetches
  <2>3. CASE L2_dram' = [L2_dram EXCEPT ![p] = Append(@, f)]
    <3>1. \A s, o \in Slices :
             IF s = p /\ o = p THEN Between(s, o)' = Append(Between(s, o), f)
                               ELSE Between(s, o)' = Between(s, o)
      BY <2>1, <2>2, <2>3, SendSends
    <3> HIDE DEF f
    <3>2. Bar' = [Bar EXCEPT ![<<p, p>>] = Append(@, f)]
      <4>1. \A pair \in Slices \X Slices : Between(pair[1], pair[2])' =
               IF pair = <<p, p>> THEN Append(Between(pair[1], pair[2]), f)
                                  ELSE Between(pair[1], pair[2])
        BY <3>1
      <4>. QED BY <1>0, <4>1 DEF Bar
    <3>3. Channels!Send(p, p, f)
      BY <3>2 DEF Channels!Send, Bar
    <3>. QED BY <2>2, <3>3 DEF Channels!Next
  <2>4. CASE L2_dram' = L2_dram
    BY <2>1, <2>4, Zenon DEF Bar, Between, dram_vars
  <2>. QED BY <1>3, <2>3, <2>4 DEF Send
<1>4. CASE UNCHANGED <<L2_dram, dram_vars, dram_L2>>
  BY <1>4, Zenon DEF Bar, Between, dram_vars
<1>. QED BY <1>1, <1>2, <1>3, <1>4 DEF ChannelNext, NoSend, Aborted, channel_vars

(* To a slice the channel is a FIFO (cache.cpp:555-609, dram.cpp:29-83):   *)
(* it answers the slice's own fetches, each once, in the order in which    *)
(* they were sent, for any number of slices and fetches and any latency.   *)
THEOREM ChannelCorrect == ChannelSpec => ImplementsChannels
<1>1. ChannelInit => Channels!Init
  <2> SUFFICES ASSUME ChannelInit PROVE Bar = [pair \in Slices \X Slices |-> << >>]
    BY DEF Channels!Init, Bar
  <2>1. \A s, o \in Slices : Between(s, o) = << >>
    <3> TAKE s, o \in Slices
    <3>1. /\ dram_L2[o] = << >> /\ returnq = << >> /\ mrqq = << >> /\ latency = << >>
          /\ Sends(L2_dram, s, o) = << >>
      BY DEF ChannelInit, Sends
    <3>2. Waiting(latency) = << >>
      BY <3>1, EmptySeq DEF Waiting
    <3>3. Answers(rwq, s, o) = << >>
      <4>1. rwq = [i \in 1 .. CL |-> NULL] /\ Len(rwq) = CL
        BY ConstantFacts DEF ChannelInit
      <4>2. {i \in 1 .. Len(rwq) : rwq[i] \in OfPair(s, o)} = {}
        BY <4>1, ChannelInitInv, PaddedTypes
      <4>3. Selected(rwq, OfPair(s, o)) = At(rwq, {})
        BY <4>2 DEF Selected
      <4>4. At(rwq, {}) = << >>
        BY AtNothing
      <4>. QED BY <4>3, <4>4, EmptySeq DEF Answers
    <3>4. << >> \o << >> = << >>
      BY ConcatEmptySeq, EmptySeq
    <3>. QED BY <3>1, <3>2, <3>3, <3>4, AnswersNone, SelectedNothing, BetweenIs
  <2>. QED BY <2>1 DEF Bar
<1>2. ChannelInit => ChannelInv /\ OwnFetches
  BY ChannelInitInv, EmptySeq DEF ChannelInit, OwnFetches
<1>3. ChannelInv /\ OwnFetches /\ [ChannelNext]_channel_vars => (ChannelInv /\ OwnFetches)'
  BY ChannelNextInv, OwnStep
<1>4. ChannelInv /\ OwnFetches /\ [ChannelNext]_channel_vars =>
         [Channels!Next]_[pair \in Slices \X Slices |-> Between(pair[1], pair[2])]
  BY ChannelNextInv, ChannelStep DEF Bar
<1>. QED BY <1>1, <1>2, <1>3, <1>4, PTL DEF ChannelSpec, ImplementsChannels, Channels!Spec
=============================================================================
