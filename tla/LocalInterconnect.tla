-------------------------- MODULE LocalInterconnect --------------------------
(***************************************************************************)
(* The network on chip between the SMs and the L2 slices: class            *)
(* LocalInterconnect of swift-sim/crossbar.cpp, two routers of which the   *)
(* first carries requests and the second replies, driven in the order of   *)
(* gpu::gpu_cycle: every L2 slice takes its turn, the two routers advance, *)
(* every SM takes its turn.                                                *)
(*                                                                         *)
(* A mem_fetch goes from its SM to its L2 slice and, unless it is the copy *)
(* a write-through sends down, back to the SM.  What the L2 slice and the  *)
(* DRAM do with it in between is reduced to holding it for a while.        *)
(***************************************************************************)
EXTENDS Integers, Sequences, FiniteSets

CONSTANTS
    n_shader,         \* number of SMs: nodes 0 .. n_shader - 1
    n_mem,            \* number of L2 slices: the nodes after them
    in_buffer_limit,
    out_buffer_limit,
    Fetches,          \* the mem_fetches
    SmOf,             \* m_sm_id of each
    MemOf,            \* get_mem_sub_partition_id of each
    WriteThrough      \* those with m_write_type = WRITE_THROUGH_L2

total_nodes == n_shader + n_mem
Shaders == 0 .. n_shader - 1
Mems == n_shader .. total_nodes - 1

ASSUME InterconnectAssumption ==
    /\ n_shader \in Nat \ {0}
    /\ n_mem \in Nat \ {0}
    /\ in_buffer_limit \in Nat \ {0}
    /\ out_buffer_limit \in Nat \ {0}
    /\ SmOf \in [Fetches -> Shaders]
    /\ MemOf \in [Fetches -> Mems]
    /\ WriteThrough \subseteq Fetches

VARIABLES
    req_in, req_out, req_next,  \* net[REQ_NET]
    rep_in, rep_out, rep_next,  \* net[REPLY_NET]
    held,  \* held[m]: fetches in the L2 slice m or the DRAM behind it
    turn   \* how far the current gpu_cycle has come

req_vars == <<req_in, req_out, req_next>>
rep_vars == <<rep_in, rep_out, rep_next>>
vars == <<req_vars, rep_vars, held, turn>>

Req == INSTANCE XbarRouter
    WITH in_buffers <- req_in, out_buffers <- req_out, next_node_id <- req_next,
         InNodes <- Shaders, OutNodes <- Mems, Asking <- Shaders,
         Backlog <- 0, Data <- Fetches, Sender <- SmOf

Rep == INSTANCE XbarRouter
    WITH in_buffers <- rep_in, out_buffers <- rep_out, next_node_id <- rep_next,
         InNodes <- Mems, OutNodes <- Shaders, Asking <- {},
         Backlog <- 0, Data <- Fetches, Sender <- MemOf

Init ==
    /\ Req!Init
    /\ Rep!Init
    /\ held = [m \in Mems |-> {}]
    /\ turn = 0

----
(* The operations of LocalInterconnect.                                    *)

Packet(fetch, node) == [data |-> fetch, output_deviceID |-> node]

(* An SM pushes into the request network, an L2 slice into the reply one.  *)
IcntPush(input, output, fetch) ==
    IF input < n_shader THEN Req!Push(input, Packet(fetch, output)) /\ UNCHANGED rep_vars
                        ELSE Rep!Push(input, Packet(fetch, output)) /\ UNCHANGED req_vars

HasBuffer(n) == IF n >= n_shader THEN Rep!Has_Buffer_In(n) ELSE Req!Has_Buffer_In(n)

\* Faulty variant of IcntAdvance: the loop over the subnets ends one early.
AdvanceFirstOnly == Req!RR_Advance /\ UNCHANGED rep_vars

IcntAdvance == Req!RR_Advance /\ Rep!RR_Advance

----
(* One gpu_cycle: turns 0 .. n_mem - 1 are the L2 slices', turn n_mem      *)
(* advances the routers, the turns after it are the SMs'.                  *)

MemTurn(m) == turn = m - n_shader
AdvanceTurn == turn = n_mem
SmTurn(s) == turn = n_mem + 1 + s
EndTurn == turn' = IF turn = total_nodes THEN 0 ELSE turn + 1

\* Faulty variant of L2Reply: the answered fetch is pushed but not popped.
L2ReplyKeeping(m, f) ==
    /\ MemTurn(m)
    /\ f \in held[m] \ WriteThrough
    /\ IcntPush(m, SmOf[f], f)
    /\ UNCHANGED <<held, turn>>

(* l2_cache_cycle, first half: any number of answered fetches go into the  *)
(* reply network, none asking HasBuffer first (cache.cpp:356 and 374).     *)
L2Reply(m, f) ==
    /\ MemTurn(m)
    /\ f \in held[m] \ WriteThrough
    /\ IcntPush(m, SmOf[f], f)
    /\ held' = [held EXCEPT ![m] = @ \ {f}]
    /\ UNCHANGED turn

(* cache_access of a write-through copy deletes it.                        *)
L2Absorb(m, f) ==
    /\ MemTurn(m)
    /\ f \in held[m] \intersect WriteThrough
    /\ held' = [held EXCEPT ![m] = @ \ {f}]
    /\ UNCHANGED <<req_vars, rep_vars, turn>>

\* Faulty variant of L2Receive: the slice does not pop while it holds a fetch.
L2ReceiveWhenIdle(m) ==
    /\ MemTurn(m)
    /\ \/ /\ held[m] = {}
          /\ Req!Pop(m)
          /\ held' = [held EXCEPT ![m] =
                         IF req_out[m] = << >> THEN @ ELSE {Head(req_out[m]).data}]
       \/ held[m] # {} /\ UNCHANGED <<req_vars, held>>
    /\ EndTurn
    /\ UNCHANGED rep_vars

(* l2_cache_cycle, second half: one packet comes out of the network.       *)
L2Receive(m) ==
    /\ MemTurn(m)
    /\ Req!Pop(m)
    /\ held' = [held EXCEPT ![m] =
                   IF req_out[m] = << >> THEN @ ELSE @ \union {Head(req_out[m]).data}]
    /\ EndTurn
    /\ UNCHANGED rep_vars

(* m_icnt->Advance().                                                      *)
Advance ==
    /\ AdvanceTurn
    /\ IcntAdvance
    /\ EndTurn
    /\ UNCHANGED held

Contents(buffers) ==
    UNION {{buffers[n][i].data : i \in 1 .. Len(buffers[n])} : n \in 0 .. total_nodes - 1}

InRequests == Contents(req_in) \union Contents(req_out)
InReplies == Contents(rep_in) \union Contents(rep_out)
Held == UNION {held[m] : m \in Mems}

(* A fetch that is nowhere below its L1 can be created there.              *)
Fresh(s) == {f \in Fetches : SmOf[f] = s} \ (InRequests \union InReplies \union Held)

(* sm_cycle, as far as the network sees it: Pop one reply, then push the   *)
(* head of the L1 miss queue if there is one and HasBuffer allows it.  An  *)
(* SM that has become inactive skips both: then no reply is due to it (see *)
(* LoadStore), its miss queue is not served, and the step is the one that  *)
(* pops nothing and pushes nothing.                                        *)
SmCycle(s) ==
    /\ SmTurn(s)
    /\ Rep!Pop(s)
    /\ \/ \E f \in Fresh(s) : HasBuffer(s) /\ Req!Push(s, Packet(f, MemOf[f]))
       \/ UNCHANGED req_vars
    /\ EndTurn
    /\ UNCHANGED held

Next ==
    \/ \E m \in Mems : L2Receive(m)
    \/ \E m \in Mems, f \in Fetches : L2Reply(m, f) \/ L2Absorb(m, f)
    \/ Advance
    \/ \E s \in Shaders : SmCycle(s)

(* The cycle loop is one thread and does not stop while an SM is active.   *)
(* An SM stays active while a fetch it has counted is below its L1 (see    *)
(* LoadStore), but not for a write-through copy: when only copies are on   *)
(* their way the kernel may end, with them in the networks.  A fetch that  *)
(* an L2 slice holds is answered in one of its turns.                      *)
Active == \E f \in Fetches \ WriteThrough : f \notin Fresh(SmOf[f])
Clock == (\E m \in Mems : L2Receive(m)) \/ Advance \/ (\E s \in Shaders : SmCycle(s))

Fairness ==
    /\ WF_vars(Active /\ Clock)
    /\ \A m \in Mems, f \in Fetches \ WriteThrough : SF_vars(L2Reply(m, f))

Spec == Init /\ [][Next]_vars /\ Fairness

----
TypeOK ==
    /\ Req!TypeOK
    /\ Rep!TypeOK
    /\ held \in [Mems -> SUBSET Fetches]
    /\ turn \in 0 .. total_nodes

(* The request network never holds more of an SM's packets than            *)
(* in_buffer_limit: HasBuffer (cache.cpp:340) is asked before every push.  *)
RequestsWithinLimit ==
    \A s \in Shaders : Len(req_in[s]) <= in_buffer_limit

(* An output buffer never holds a second packet: its owner pops in every   *)
(* cycle and Advance adds one at most.  So Has_Buffer_Out never refuses.   *)
OutputsNeverBlock ==
    \A n \in 0 .. total_nodes - 1 : Len(req_out[n]) <= 1 /\ Len(rep_out[n]) <= 1

(* Where the fetches are: a fetch is never in two places, so nothing the   *)
(* networks do copies one (a second copy would be answered twice and then  *)
(* deleted twice).                                                         *)
OnePlace ==
    LET Copies(buffers, f) ==
            Cardinality({at \in (0 .. total_nodes - 1) \X (1 .. Cardinality(Fetches)) :
                            /\ at[2] <= Len(buffers[at[1]])
                            /\ buffers[at[1]][at[2]].data = f})
    IN  \A f \in Fetches :
           Copies(req_in, f) + Copies(req_out, f) + Copies(rep_in, f) + Copies(rep_out, f)
              + Cardinality({m \in Mems : f \in held[m]}) <= 1

(* The node the rotation starts with is always served, in both networks:   *)
(* a packet at the head of its buffer waits at most total_nodes cycles.    *)
FirstIsServed ==
    [][Advance =>
          /\ req_in[req_next] # << >> => req_in'[req_next] = Tail(req_in[req_next])
          /\ rep_in[rep_next] # << >> => rep_in'[rep_next] = Tail(rep_in[rep_next])]_vars

(* Every request that enters the network comes back to its SM, whatever    *)
(* write-through copies are on their way with it.  Nothing is said of the  *)
(* copies: no SM waits for one, and the loop may end before they arrive.   *)
RoundTrip ==
    \A f \in Fetches \ WriteThrough : f \in InRequests ~> f \in Fresh(SmOf[f])
=============================================================================
