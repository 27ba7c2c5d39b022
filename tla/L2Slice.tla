------------------------------- MODULE L2Slice -------------------------------
(***************************************************************************)
(* One slice of the L2 cache: class l2_data_cache of swift-sim/cache.cpp   *)
(* with its tag array, MSHR table and queues, driven by l2_cache_cycle.    *)
(* On one side is the network (LocalInterconnect), on the other the DRAM,  *)
(* which answers what it is sent in the order in which it was sent         *)
(* (DramChannel!ImplementsChannels), after any time.                       *)
(*                                                                         *)
(* The cycle is cut into its three parts by the variable phase.  One set   *)
(* of the cache is modelled; the sets share nothing but the MSHRs.         *)
(*                                                                         *)
(* Abstractions.  The victim of a replacement is any line (the code takes  *)
(* the least recently used).  Sectors are never RESERVED between two       *)
(* operations, because a fill follows its allocate at once, and always     *)
(* readable, so these states and the RESERVATION_FAIL of the tag array     *)
(* are left out.  Every fetch is sent once.                                *)
(***************************************************************************)
EXTENDS Integers, Sequences, FiniteSetsExt

CONSTANTS
    Fetches,       \* the mem_fetches that reach this slice
    KindOf,        \* "read", "write" or "copy" (WRITE_THROUGH_L2) of each
    SectorOf,      \* the sector <<tag, mask>> each of them names
    TlbHit,        \* those with m_tlb_hit
    Tags, Masks,   \* the lines, and the sectors of a line
    m_assoc,       \* ways of the set
    m_num_entries, m_max_merged,   \* of the MSHR table
    l2_hit_latency, tlb_miss_latency,
    NoTag          \* the tag of a line that was never allocated (0)

Ways == 1 .. m_assoc
Sectors == Tags \X Masks

ASSUME SliceAssumption ==
    /\ IsFiniteSet(Fetches) /\ IsFiniteSet(Tags) /\ IsFiniteSet(Masks)
    /\ KindOf \in [Fetches -> {"read", "write", "copy"}]
    /\ SectorOf \in [Fetches -> Sectors]
    /\ TlbHit \subseteq Fetches
    /\ m_assoc \in Nat \ {0} /\ m_num_entries \in Nat \ {0} /\ m_max_merged \in Nat \ {0}
    /\ l2_hit_latency \in Nat \ {0} /\ tlb_miss_latency \in Nat \ {0, l2_hit_latency}
    /\ NoTag \notin Tags

VARIABLES
    phase,      \* the part of l2_cache_cycle that comes next
    unsent,     \* the fetches the SMs have not sent yet
    m_l1_to_l2, \* fetches that have arrived
    lines,      \* lines[w]: the tag and the sectors' m_status of way w
    m_mshrs,    \* m_mshrs[s]: reads waiting for sector s
    dram,       \* fetches sent to the DRAM and not yet back, oldest first
    l2_to_sms,  \* hits on their way back, with the cycles still to go
    answered,   \* fetches pushed into the reply network
    deleted     \* write-through copies that have been deleted

vars == <<phase, unsent, m_l1_to_l2, lines, m_mshrs, dram, l2_to_sms, answered, deleted>>

Queues == {"hit", "tlb"}  \* l2_to_sms[0] and l2_to_sms[2]; [1] is never used

Status == {"INVALID", "VALID", "MODIFIED"}

Init ==
    /\ phase = "dram"
    /\ unsent = Fetches
    /\ m_l1_to_l2 = << >>
    /\ lines = [w \in Ways |-> [tag |-> NoTag, status |-> [k \in Masks |-> "INVALID"]]]
    /\ m_mshrs = [s \in Sectors |-> << >>]
    /\ dram = << >>
    /\ l2_to_sms = [q \in Queues |-> << >>]
    /\ answered = {}
    /\ deleted = {}

----
(* The tag array.                                                          *)

InvalidLines == {w \in Ways : \A k \in Masks : lines[w].status[k] = "INVALID"}

Matching(s) == {w \in Ways \ InvalidLines : lines[w].tag = s[1]}

(* tag_array_probe.                                                        *)
Hit(s) == \E w \in Matching(s) : lines[w].status[s[2]] # "INVALID"
SectorMiss(s) == Matching(s) # {} /\ ~Hit(s)
Miss(s) == Matching(s) = {}

WithSector(line, k, st) == [tag |-> line.tag, status |-> [line.status EXCEPT ![k] = st]]

(* allocate_line: the other sectors become INVALID.                        *)
Allocated(s, st) ==
    [tag |-> s[1], status |-> [k \in Masks |-> IF k = s[2] THEN st ELSE "INVALID"]]

(* tag_array_fill: a line that is missing takes the last invalid way, or a *)
(* victim's; a sector of a resident line becomes VALID whatever it was.    *)
FillLine(s) ==
    IF Miss(s)
    THEN \E w \in IF InvalidLines # {} THEN {Max(InvalidLines)} ELSE Ways :
            lines' = [lines EXCEPT ![w] = Allocated(s, "VALID")]
    ELSE lines' = [w \in Ways |->
                     IF w \in Matching(s) THEN WithSector(lines[w], s[2], "VALID") ELSE lines[w]]

SetModified(s) ==
    lines' = [w \in Ways |->
                IF w \in Matching(s) THEN WithSector(lines[w], s[2], "MODIFIED") ELSE lines[w]]

\* Faulty variant of WriteAllocate: a sector miss allocates the line anew.
WriteAllocateAgain(s) ==
    IF InvalidLines = {} THEN UNCHANGED lines
    ELSE lines' = [lines EXCEPT ![Min(InvalidLines)] = Allocated(s, "MODIFIED")]

(* A write that misses takes the first invalid way, if there is one: for a *)
(* missing line it becomes that line; for a missing sector of a resident   *)
(* line it keeps its own tag, NoTag, and only its sector is MODIFIED.      *)
WriteAllocate(s) ==
    IF InvalidLines = {} THEN UNCHANGED lines
    ELSE lines' = [lines EXCEPT ![Min(InvalidLines)] =
                      IF Miss(s) THEN Allocated(s, "MODIFIED")
                                 ELSE WithSector(@, s[2], "MODIFIED")]

----
(* First part: one fetch comes back from the DRAM.  It is answered itself; *)
(* the reads in its MSHR entry are only taken out of the table, each is on *)
(* its own way through the DRAM.                                           *)

\* Faulty variant of Released: the reads of the entry are answered as well.
ReleasedAll(f) == {f} \union Range(m_mshrs[SectorOf[f]])

Released(f) == {f}

DramReturn ==
    /\ phase = "dram"
    /\ dram # << >>
    /\ LET f == Head(dram)
           s == SectorOf[f]
       IN  /\ answered' = answered \union Released(f)
           /\ m_mshrs' = [m_mshrs EXCEPT ![s] = << >>]
           /\ IF m_mshrs[s] # << >> THEN FillLine(s) ELSE UNCHANGED lines
    /\ dram' = Tail(dram)
    /\ phase' = "sms"
    /\ UNCHANGED <<unsent, m_l1_to_l2, l2_to_sms, deleted>>

NoDramReturn ==
    /\ phase = "dram"
    /\ phase' = "sms"
    /\ UNCHANGED <<unsent, m_l1_to_l2, lines, m_mshrs, dram, l2_to_sms, answered, deleted>>

----
(* Second part: hits whose latency is over are pushed into the network.    *)

Due(q) == l2_to_sms[q] # << >> /\ Head(l2_to_sms[q]).left = 0

Answer(q) ==
    /\ phase = "sms"
    /\ Due(q)
    /\ answered' = answered \union {Head(l2_to_sms[q]).fetch}
    /\ l2_to_sms' = [l2_to_sms EXCEPT ![q] = Tail(@)]
    /\ UNCHANGED <<phase, unsent, m_l1_to_l2, lines, m_mshrs, dram, deleted>>

AnswerEnd ==
    /\ phase = "sms"
    /\ ~\E q \in Queues : Due(q)
    /\ phase' = "receive"
    /\ UNCHANGED <<unsent, m_l1_to_l2, lines, m_mshrs, dram, l2_to_sms, answered, deleted>>

----
(* Third part: one fetch comes out of the network, then the oldest that    *)
(* has arrived accesses the cache.                                         *)

Receive ==
    /\ phase = "receive"
    /\ \/ \E f \in unsent : unsent' = unsent \ {f} /\ m_l1_to_l2' = Append(m_l1_to_l2, f)
       \/ UNCHANGED <<unsent, m_l1_to_l2>>
    /\ phase' = "access"
    /\ UNCHANGED <<lines, m_mshrs, dram, l2_to_sms, answered, deleted>>

(* The cycle ends: the next one is one cycle later.                        *)
Aged ==
    [q \in Queues |-> [i \in 1 .. Len(l2_to_sms[q]) |->
        [fetch |-> l2_to_sms[q][i].fetch, left |-> l2_to_sms[q][i].left - 1]]]

\* Faulty variant of QueueFor: one queue for both latencies.
QueueForAll(latency) == "hit"

(* send_l2_to_sm: every latency has its own queue.                         *)
QueueFor(latency) == IF latency = l2_hit_latency THEN "hit" ELSE "tlb"

SendToSm(f, latency) ==
    l2_to_sms' = [Aged EXCEPT ![QueueFor(latency)] =
                     Append(@, [fetch |-> f, left |-> latency - 1])]

mshr_full(s) ==
    IF m_mshrs[s] # << >>
    THEN Len(m_mshrs[s]) >= m_max_merged
    ELSE Cardinality({t \in Sectors : m_mshrs[t] # << >>}) >= m_num_entries

ReadHit(f) ==
    /\ KindOf[f] = "read" /\ Hit(SectorOf[f])
    /\ SendToSm(f, l2_hit_latency)
    /\ UNCHANGED <<lines, m_mshrs, dram, deleted>>

\* Faulty variant of ReadMiss: as in the L1, only the first read is sent.
ReadMissFirstOnly(f) ==
    LET s == SectorOf[f]
    IN  /\ KindOf[f] = "read" /\ ~Hit(s) /\ ~mshr_full(s)
        /\ m_mshrs' = [m_mshrs EXCEPT ![s] = Append(@, f)]
        /\ dram' = IF m_mshrs[s] = << >> THEN Append(dram, f) ELSE dram
        /\ l2_to_sms' = Aged
        /\ UNCHANGED <<lines, deleted>>

(* A read that misses waits in the MSHRs and goes to the DRAM, be it the   *)
(* first of its sector or not.                                             *)
ReadMiss(f) ==
    LET s == SectorOf[f]
    IN  /\ KindOf[f] = "read" /\ ~Hit(s) /\ ~mshr_full(s)
        /\ m_mshrs' = [m_mshrs EXCEPT ![s] = Append(@, f)]
        /\ dram' = Append(dram, f)
        /\ l2_to_sms' = Aged
        /\ UNCHANGED <<lines, deleted>>

Write(f) ==
    LET s == SectorOf[f]
    IN  /\ KindOf[f] = "write"
        /\ IF Hit(s)
           THEN /\ SetModified(s)
                /\ SendToSm(f, IF f \in TlbHit THEN l2_hit_latency ELSE tlb_miss_latency)
                /\ UNCHANGED dram
           ELSE /\ WriteAllocate(s)
                /\ dram' = Append(dram, f)
                /\ l2_to_sms' = Aged
        /\ UNCHANGED <<m_mshrs, deleted>>

\* Faulty variant of CopyWrite: a copy that misses goes to the DRAM.
CopyWriteForwarding(f) ==
    LET s == SectorOf[f]
    IN  /\ KindOf[f] = "copy"
        /\ IF Hit(s) THEN SetModified(s) /\ deleted' = deleted \union {f} /\ UNCHANGED dram
                     ELSE WriteAllocate(s) /\ dram' = Append(dram, f) /\ UNCHANGED deleted
        /\ l2_to_sms' = Aged
        /\ UNCHANGED m_mshrs

CopyWrite(f) ==
    LET s == SectorOf[f]
    IN  /\ KindOf[f] = "copy"
        /\ IF Hit(s) THEN SetModified(s) ELSE WriteAllocate(s)
        /\ deleted' = deleted \union {f}
        /\ l2_to_sms' = Aged
        /\ UNCHANGED <<m_mshrs, dram>>

cache_access(f) == ReadHit(f) \/ ReadMiss(f) \/ Write(f) \/ CopyWrite(f)

Access ==
    /\ phase = "access"
    /\ m_l1_to_l2 # << >>
    /\ cache_access(Head(m_l1_to_l2))
    /\ m_l1_to_l2' = Tail(m_l1_to_l2)
    /\ phase' = "dram"
    /\ UNCHANGED <<unsent, answered>>

(* RESERVATION_FAIL: a read that the MSHRs cannot take stays.              *)
Refused ==
    /\ m_l1_to_l2 # << >>
    /\ LET f == Head(m_l1_to_l2)
       IN  KindOf[f] = "read" /\ ~Hit(SectorOf[f]) /\ mshr_full(SectorOf[f])

NoAccess ==
    /\ phase = "access"
    /\ m_l1_to_l2 = << >> \/ Refused
    /\ l2_to_sms' = Aged
    /\ phase' = "dram"
    /\ UNCHANGED <<unsent, m_l1_to_l2, lines, m_mshrs, dram, answered, deleted>>

Next ==
    \/ DramReturn \/ NoDramReturn
    \/ (\E q \in Queues : Answer(q)) \/ AnswerEnd
    \/ Receive \/ Access \/ NoAccess

(* The cycle goes on while an SM is active, as it is until the last fetch  *)
(* it has counted is answered; copies are not counted.  The DRAM answers   *)
(* what it has been sent (DramChannel!EveryFetchReturns).                  *)
Counted == {f \in Fetches : KindOf[f] # "copy"}
Active == Counted \ (unsent \union answered) # {}

Spec == Init /\ [][Next]_vars /\ WF_vars(Active /\ Next) /\ SF_vars(DramReturn)

----
TypeOK ==
    /\ phase \in {"dram", "sms", "receive", "access"}
    /\ unsent \subseteq Fetches
    /\ m_l1_to_l2 \in Seq(Fetches)
    /\ lines \in [Ways -> [tag : Tags \union {NoTag}, status : [Masks -> Status]]]
    /\ m_mshrs \in [Sectors -> Seq(Fetches)]
    /\ dram \in Seq(Fetches)
    /\ l2_to_sms \in [Queues -> Seq([fetch : Fetches, left : Nat])]
    /\ answered \subseteq Fetches
    /\ deleted \subseteq Fetches

(* A fetch is in one place only and is answered once: to answer the reads  *)
(* of an MSHR entry together with the fetch that came back would push      *)
(* them twice, because each comes back from the DRAM itself.               *)
OnePlace ==
    LET Copies(f) ==
            Cardinality({i \in 1 .. Len(m_l1_to_l2) : m_l1_to_l2[i] = f})
            + Cardinality({i \in 1 .. Len(dram) : dram[i] = f})
            + Cardinality({at \in Queues \X (1 .. Cardinality(Fetches)) :
                              at[2] <= Len(l2_to_sms[at[1]])
                              /\ l2_to_sms[at[1]][at[2]].fetch = f})
            + Cardinality({S \in {<<1, unsent>>, <<2, answered>>, <<3, deleted>>} : f \in S[2]})
    IN  \A f \in Fetches : Copies(f) = 1

(* The reads of an MSHR entry are all on their way to or from the DRAM, so *)
(* the entry is emptied by the first of them that comes back and a read    *)
(* that was refused is accepted in the end.                                *)
MshrInFlight ==
    \A s \in Sectors : \A f \in Range(m_mshrs[s]) :
        KindOf[f] = "read" /\ SectorOf[f] = s /\ f \in Range(dram)

(* No line is in two ways of the set: tag_array_probe returns the first    *)
(* match, and a second copy would never be found or cleaned.               *)
UniqueTags ==
    \A v, w \in Ways : v # w /\ lines[v].tag # NoTag => lines[v].tag # lines[w].tag

(* A hit that is due never waits behind one that is not: l2_cache_cycle    *)
(* looks at the front of each queue only.                                  *)
HitsInOrder ==
    \A q \in Queues : \A i, j \in 1 .. Len(l2_to_sms[q]) :
        i < j => l2_to_sms[q][i].left <= l2_to_sms[q][j].left

(* A write-through copy never comes back to its SM, whose pending counters *)
(* do not count it (LoadStore takes this for granted).                     *)
CopiesEndHere ==
    \A f \in answered \union Range(dram) : KindOf[f] # "copy"

(* Every fetch that has been sent and that its SM waits for is answered,   *)
(* however the MSHRs refuse reads on the way, and whatever copies come in  *)
(* between.  A copy that comes last may stay where it is: the loop stops   *)
(* when no SM is active.                                                   *)
EveryFetchAnswered == \A f \in Counted : f \notin unsent ~> f \in answered
=============================================================================
