----------------------------- MODULE DramChannel -----------------------------
(***************************************************************************)
(* One DRAM channel and the queues between it and its L2 slices            *)
(* (sub-partitions): memory_partition::dram_cycle of swift-sim/cache.cpp,  *)
(* dram_t of dram.cpp and the fifo_pipeline of delayqueue.h, in the order  *)
(* of memory_partition_cycle: the channel takes its turn, then every slice *)
(* receives what came back and may send one fetch.                         *)
(*                                                                         *)
(* The fetches a slice sends are numbered in the order in which it sends   *)
(* them: a kernel makes finitely many, and a slice sends each of them once *)
(* (L2Slice).  Ready cycles are relative to the current cycle.  The bank a *)
(* request names is idle whenever it is looked up, because dram_t::cycle   *)
(* empties all banks into rwq before it ends.                              *)
(***************************************************************************)
EXTENDS Integers, Subsequences

CONSTANTS
    n_sub,       \* m_n_sub_partition_per_memory_channel
    NumSends,    \* NumSends[p]: how many fetches slice p sends to the DRAM
    CL,          \* the length rwq is padded to
    l2_miss_latency,
    L2_dram_max,    \* m_max_len of m_L2_dram_queue
    dram_L2_max,    \* m_max_len of m_dram_L2_queue
    mrqq_max,       \* m_max_len of mrqq
    returnq_max,    \* m_max_len of returnq
    NULL            \* a padding element of a fifo_pipeline

Slices == 0 .. n_sub - 1

(* Fetch <<p, i>> is the i-th fetch that slice p sends.                    *)
DramFetches == UNION {{p} \X (1 .. NumSends[p]) : p \in Slices}

(* A request remembers the slice its answer goes to (mem_fetch::l2_id).    *)
Request(f, p) == [data |-> f, l2_id |-> p]
Requests == [data : DramFetches, l2_id : Slices]

ASSUME DramAssumption ==
    /\ n_sub \in Nat \ {0}
    /\ NumSends \in [Slices -> Nat]
    /\ CL \in Nat \ {0} /\ l2_miss_latency \in Nat \ {0}
    /\ L2_dram_max \in Nat \ {0} /\ dram_L2_max \in Nat \ {0}
    /\ mrqq_max \in Nat \ {0, 1} /\ returnq_max \in Nat \ {0}
    /\ NULL \notin Requests

VARIABLES
    sent,       \* sent[p]: how many fetches slice p has sent
    L2_dram,    \* L2_dram[p]: m_L2_dram_queue of slice p
    latency,    \* m_dram_latency_queue: requests with the cycles to go
    mrqq,       \* requests the scheduler looks at
    rwq,        \* requests being served, padded with NULL
    returnq,    \* requests that are done
    dram_L2,    \* dram_L2[p]: m_dram_L2_queue of slice p
    turn        \* who is next in memory_partition_cycle, or the assert that
                \*   has ended the program

dram_vars == <<latency, mrqq, rwq, returnq>>
channel_vars == <<sent, L2_dram, dram_vars, dram_L2, turn>>

(* The assert of push has failed: for rwq, or for a slice's queue.         *)
AbortRwq == -1
AbortL2 == -2
Aborts == {AbortRwq, AbortL2}

----
(* fifo_pipeline: a queue that push fills up to a minimal length with NULL *)
(* and whose last NULL a later push overwrites.                            *)

\* Faulty variant of FifoPush: the padding at the end is not overwritten.
FifoPushAppending(q, min, x) == Append(q, x)

FifoPush(q, min, x) ==
    IF q # << >> /\ q[Len(q)] = NULL /\ Len(q) >= min
    THEN [q EXCEPT ![Len(q)] = x]
    ELSE Append(q, x)

FifoPop(q, min) ==
    IF q = << >> THEN q
    ELSE IF Len(q) - 1 < min THEN FifoPush(Tail(q), min, NULL) ELSE Tail(q)

ChannelInit ==
    /\ sent = [p \in Slices |-> 0]
    /\ L2_dram = [p \in Slices |-> << >>]
    /\ latency = << >>
    /\ mrqq = << >>
    /\ rwq = [i \in 1 .. CL |-> NULL]
    /\ returnq = << >>
    /\ dram_L2 = [p \in Slices |-> << >>]
    /\ turn = 0

----
(* dram_cycle, step by step; an operator with a parameter is a step that   *)
(* sees what an earlier step of the same cycle has done.                   *)

(* The oldest answer goes back to its slice if there is room.              *)
Returned == returnq # << >> /\ Len(dram_L2[Head(returnq).l2_id]) < dram_L2_max

DramL2After ==
    IF Returned
    THEN [dram_L2 EXCEPT ![Head(returnq).l2_id] = Append(@, Head(returnq).data)]
    ELSE dram_L2

(* dram_t::cycle: what rwq delivers, unless returnq is full, is done; the  *)
(* scheduler passes the oldest request of mrqq through its bank into rwq.  *)
Served(rest) == Len(rest) < returnq_max

RwqAfter(rest) == IF Served(rest) THEN FifoPop(rwq, CL) ELSE rwq

ReturnqAfter(rest) ==
    IF Served(rest) /\ Head(rwq) # NULL THEN Append(rest, Head(rwq)) ELSE rest

\* Faulty variant of Candidates: only the slice after last_issued_partition
\* is looked at.
CandidatesFirstOnly(back) ==
    {p \in Slices : p = 1 % n_sub /\ L2_dram[p] # << >> /\ Len(back[p]) < dram_L2_max}

(* The slices the arbitration may choose: those that have sent something   *)
(* and can take an answer (can_issue_to_dram).                             *)
Candidates(back) == {p \in Slices : L2_dram[p] # << >> /\ Len(back[p]) < dram_L2_max}

(* The loop starts at last_issued_partition + 1, which dram_cycle never    *)
(* changes from 0: slice 1 goes first, slice 0 last.                       *)
Preference(p) == IF p = 0 THEN n_sub ELSE p

Chosen(S) == CHOOSE p \in S : \A r \in S : Preference(p) <= Preference(r)

\* Faulty variant of Tagged: every answer is sent to slice 0.
TaggedZero(p) == Request(Head(L2_dram[p]), 0)

(* The request that enters the latency queue from slice p.                 *)
Tagged(p) == Request(Head(L2_dram[p]), p)

AgedLatency == [i \in 1 .. Len(latency) |->
            [req |-> latency[i].req,
             left |-> IF latency[i].left = 0 THEN 0 ELSE latency[i].left - 1]]

(* The arbitration looks at mrqq although it fills the latency queue.      *)
Issues(back, scheduled) == Candidates(back) # {} /\ Len(scheduled) < mrqq_max

Entered(back, scheduled) ==
    IF Issues(back, scheduled)
    THEN Append(AgedLatency, [req |-> Tagged(Chosen(Candidates(back))), left |-> l2_miss_latency])
    ELSE AgedLatency

LatencyOver(entered, scheduled) ==
    entered # << >> /\ Head(entered).left = 0 /\ Len(scheduled) < mrqq_max

DramCycle ==
    LET rest == IF Returned THEN Tail(returnq) ELSE returnq
        back == DramL2After
        scheduled == IF mrqq = << >> THEN mrqq ELSE Tail(mrqq)
        entered == Entered(back, scheduled)
    IN  /\ turn = 0
        /\ dram_L2' = back
        /\ returnq' = ReturnqAfter(rest)
        /\ IF mrqq = << >>
           THEN rwq' = RwqAfter(rest) /\ turn' = 1
           ELSE /\ rwq' = FifoPush(RwqAfter(rest), CL, Head(mrqq))
                /\ turn' = IF Len(RwqAfter(rest)) < CL + 1 THEN 1 ELSE AbortRwq
        /\ L2_dram' = IF Issues(back, scheduled)
                      THEN [L2_dram EXCEPT ![Chosen(Candidates(back))] = Tail(@)]
                      ELSE L2_dram
        /\ latency' = IF LatencyOver(entered, scheduled) THEN Tail(entered) ELSE entered
        /\ mrqq' = IF LatencyOver(entered, scheduled)
                   THEN Append(scheduled, Head(entered).req) ELSE scheduled
        /\ UNCHANGED sent

----
(* The slices: l2_cache_cycle takes one answer out of m_dram_L2_queue, and *)
(* sends at most one fetch.                                                *)

AnswerTurn(p) == turn = 2 * p + 1
SendTurn(p) == turn = 2 * p + 2

NextTurn == IF turn = 2 * n_sub THEN 0 ELSE turn + 1

\* Faulty variant of TakeAnswer: a slice with a fetch to send does not pop.
TakeAnswerIfIdle(p) ==
    /\ AnswerTurn(p)
    /\ dram_L2' = [dram_L2 EXCEPT ![p] = IF @ = << >> \/ L2_dram[p] # << >> THEN @ ELSE Tail(@)]
    /\ turn' = NextTurn
    /\ UNCHANGED <<sent, L2_dram, dram_vars>>

TakeAnswer(p) ==
    /\ AnswerTurn(p)
    /\ dram_L2' = [dram_L2 EXCEPT ![p] = IF @ = << >> THEN @ ELSE Tail(@)]
    /\ turn' = NextTurn
    /\ UNCHANGED <<sent, L2_dram, dram_vars>>

Send(p) ==
    /\ SendTurn(p)
    /\ sent[p] < NumSends[p]
    /\ sent' = [sent EXCEPT ![p] = @ + 1]
    /\ IF Len(L2_dram[p]) < L2_dram_max
       THEN L2_dram' = [L2_dram EXCEPT ![p] = Append(@, <<p, sent[p] + 1>>)] /\ turn' = NextTurn
       ELSE turn' = AbortL2 /\ UNCHANGED L2_dram
    /\ UNCHANGED <<dram_vars, dram_L2>>

NoSend(p) ==
    /\ SendTurn(p)
    /\ turn' = NextTurn
    /\ UNCHANGED <<sent, L2_dram, dram_vars, dram_L2>>

Aborted ==
    /\ turn \in Aborts
    /\ UNCHANGED channel_vars

ChannelNext ==
    \/ DramCycle \/ Aborted
    \/ \E p \in Slices : TakeAnswer(p) \/ Send(p) \/ NoSend(p)

(* memory_partition_cycle runs once per gpu_cycle.                         *)
ChannelSpec == ChannelInit /\ [][ChannelNext]_channel_vars /\ WF_channel_vars(ChannelNext)

----
ChannelTypeOK ==
    /\ sent \in [Slices -> Nat]
    /\ L2_dram \in [Slices -> Seq(DramFetches)]
    /\ latency \in Seq([req : Requests, left : Nat])
    /\ mrqq \in Seq(Requests)
    /\ rwq \in Seq(Requests \union {NULL})
    /\ returnq \in Seq(Requests)
    /\ dram_L2 \in [Slices -> Seq(DramFetches)]
    /\ turn \in Aborts \union (0 .. 2 * n_sub)

(* rwq and the L2's queues are pushed without asking whether there is      *)
(* room.  rwq always has some: the assert of delayqueue.h:72 never fails   *)
(* for it, because it is pushed only in a cycle that has popped it.  A     *)
(* slice's queue holds m_max_len fetches (999999), which a kernel may      *)
(* exceed; its assert fails only after the slice has sent more than that.  *)
NeverAsserts ==
    /\ turn # AbortRwq
    /\ turn = AbortL2 => \E p \in Slices : sent[p] > L2_dram_max

(* Every answer finds the queues on its way back empty: when the channel   *)
(* takes its turn the slices have taken all they were sent, and at most    *)
(* one request is ever in returnq or in mrqq.  So the back-pressure of the *)
(* channel never holds anything up.                                        *)
NoBacklog ==
    /\ Len(returnq) <= 1
    /\ Len(mrqq) <= 1
    /\ turn = 0 => \A p \in Slices : dram_L2[p] = << >>

(* The padding makes the service time exact: what the scheduler passes on  *)
(* is put at place CL of rwq, that is CL cycles from its end, and rwq      *)
(* neither grows nor shrinks.                                              *)
ExactLatency ==
    [][DramCycle =>
          /\ Len(rwq') = CL
          /\ rwq'[CL] = IF mrqq = << >> THEN NULL ELSE Head(mrqq)]_channel_vars

(* The fetches slice s has sent that will be answered to slice o, oldest   *)
(* first.                                                                  *)
OfPair(s, o) == {r \in Requests : r.data[1] = s /\ r.l2_id = o}

Answers(queue, s, o) ==
    LET inside == Selected(queue, OfPair(s, o))
    IN  [i \in 1 .. Len(inside) |-> inside[i].data]

Between(s, o) ==
    LET waiting == [i \in 1 .. Len(latency) |-> latency[i].req]
    IN  Selected(dram_L2[o], {f \in DramFetches : f[1] = s})
        \o Answers(returnq, s, o) \o Answers(rwq, s, o)
        \o Answers(mrqq, s, o) \o Answers(waiting, s, o)
        \o (IF s = o THEN L2_dram[s] ELSE << >>)

Channels == INSTANCE PairChannels
    WITH Sources <- Slices, Sinks <- Slices, Messages <- DramFetches,
         chan <- [pair \in Slices \X Slices |-> Between(pair[1], pair[2])]

(* To a slice the channel is a FIFO: it answers the slice's own fetches,   *)
(* each once, in the order in which they were sent, whatever the other     *)
(* slices send.                                                            *)
ImplementsChannels == Channels!Spec

(* Whatever has been sent is answered in the end, also by slice 0, over    *)
(* which the other slices have priority as long as they have something to  *)
(* send: every queue is empty again and again, unless a slice's assert     *)
(* ends the program.                                                       *)
EveryFetchReturns ==
    []<>(turn = AbortL2 \/ \A p \in Slices : Between(p, p) = << >>)
=============================================================================
