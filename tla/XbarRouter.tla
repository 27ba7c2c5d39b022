----------------------------- MODULE XbarRouter -----------------------------
(***************************************************************************)
(* One crossbar router of the simulated network on chip: class             *)
(* xbar_router of swift-sim/crossbar.cpp.  Every node has an input buffer  *)
(* and an output buffer; Advance, called once per simulated cycle, moves   *)
(* at most one packet to every output, choosing among the inputs by a      *)
(* round robin that starts one node later every cycle.                     *)
(*                                                                         *)
(* LocalInterconnect instantiates this module twice (request and reply     *)
(* network).  Here the router stands alone, in an environment that may     *)
(* push and pop at any time, which is what any use of it can do.           *)
(***************************************************************************)
EXTENDS Integers, FiniteSets, Subsequences

CONSTANTS
    total_nodes,      \* n_shader + n_mem
    in_buffer_limit,  \* what Has_Buffer_In compares with
    out_buffer_limit, \* what Has_Buffer_Out compares with
    InNodes,          \* the nodes that push (active_in_buffers of them)
    OutNodes,         \* the nodes that pop (active_out_buffers of them)
    Asking,           \* the nodes of InNodes that push only if Has_Buffer_In
    Backlog,          \* bound: packets a node that does not ask may queue
    Data,             \* the payloads: the mem_fetches
    Sender            \* the node that sends each of them

Nodes == 0 .. total_nodes - 1

Packet == [data : Data, output_deviceID : OutNodes]

ASSUME RouterAssumption ==
    /\ total_nodes \in Nat \ {0}
    /\ in_buffer_limit \in Nat
    /\ out_buffer_limit \in Nat
    /\ Backlog \in Nat
    /\ InNodes \subseteq Nodes
    /\ OutNodes \subseteq Nodes
    /\ Asking \subseteq InNodes
    /\ Sender \in [Data -> InNodes]

VARIABLES
    in_buffers,   \* in_buffers[n]: packets node n has pushed, oldest first
    out_buffers,  \* out_buffers[n]: packets waiting for node n, oldest first
    next_node_id  \* the node the next Advance looks at first

vars == <<in_buffers, out_buffers, next_node_id>>

Init ==
    /\ in_buffers = [n \in Nodes |-> << >>]
    /\ out_buffers = [n \in Nodes |-> << >>]
    /\ next_node_id = 0

----
(* The operations.                                                         *)

Has_Buffer_In(n) == Len(in_buffers[n]) + 1 <= in_buffer_limit

Has_Buffer_Out(n) == Len(out_buffers[n]) + 1 <= out_buffer_limit

(* Push does not look at the limit: its callers are trusted to have asked. *)
Push(n, packet) ==
    /\ in_buffers' = [in_buffers EXCEPT ![n] = Append(@, packet)]
    /\ UNCHANGED <<out_buffers, next_node_id>>

(* Pop of an empty buffer returns NULL and changes nothing.                *)
Pop(n) ==
    /\ out_buffers' = [out_buffers EXCEPT ![n] = IF @ = << >> THEN @ ELSE Tail(@)]
    /\ UNCHANGED <<in_buffers, next_node_id>>

\* Faulty variant of Turn: the rotation is ignored, node 0 always goes first.
FixedTurn(n) == n

(* The iteration i of RR_Advance's loop at which node n is looked at.      *)
Turn(n) == IF n >= next_node_id THEN n - next_node_id
                                ELSE n + total_nodes - next_node_id

\* Faulty variant of Requests: the address of the packet is not looked at.
RequestsAnything(n, o) == in_buffers[n] # << >>

Requests(n, o) ==
    /\ in_buffers[n] # << >>
    /\ Head(in_buffers[n]).output_deviceID = o

\* Faulty variant of Granted: the issued[] flags are not kept.
GrantedWithoutIssued(n, o) == Requests(n, o) /\ Has_Buffer_Out(o)

(* Node n wins output o: o had room when the cycle began and no node       *)
(* looked at earlier asked for it (issued[o] is still false).              *)
Granted(n, o) ==
    /\ Requests(n, o)
    /\ Has_Buffer_Out(o)
    /\ \A m \in Nodes \ {n} : Requests(m, o) => Turn(n) < Turn(m)

NextNode == (next_node_id + 1) % total_nodes

(* RR_Advance: all moves of one cycle.  The conflict and utilisation       *)
(* counters are statistics nobody reads and are left out.                  *)
RR_Advance ==
    /\ in_buffers' = [n \in Nodes |->
          IF \E o \in OutNodes : Granted(n, o) THEN Tail(in_buffers[n])
                                               ELSE in_buffers[n]]
    /\ out_buffers' = [o \in Nodes |->
          IF \E n \in Nodes : Granted(n, o)
          THEN Append(out_buffers[o],
                      Head(in_buffers[CHOOSE n \in Nodes : Granted(n, o)]))
          ELSE out_buffers[o]]
    /\ next_node_id' = NextNode

----
(* The environment: pushes that ask first or that do not, pops, cycles.    *)

MayPush(n) == IF n \in Asking THEN Has_Buffer_In(n)
                              ELSE Len(in_buffers[n]) < Backlog

PushSome(n, packet) ==
    /\ Sender[packet.data] = n
    /\ MayPush(n)
    /\ Push(n, packet)

Next ==
    \/ \E n \in InNodes, packet \in Packet : PushSome(n, packet)
    \/ \E n \in OutNodes : Pop(n)
    \/ RR_Advance

Spec == Init /\ [][Next]_vars

----
(* Types.                                                                  *)
TypeOK ==
    /\ in_buffers \in [Nodes -> Seq(Packet)]
    /\ out_buffers \in [Nodes -> Seq(Packet)]
    /\ next_node_id \in Nodes

(* A packet reaches the output buffer of its addressee and no other: Pop   *)
(* hands it to whoever owns the buffer without looking at its address.     *)
RightPort ==
    \A o \in Nodes : \A i \in 1 .. Len(out_buffers[o]) :
        out_buffers[o][i].output_deviceID = o

(* The limits of crossbar.cpp:63-71 hold for outputs, whatever the nodes   *)
(* do, and for the inputs of the nodes that ask before they push.          *)
WithinLimits ==
    /\ \A o \in Nodes : Len(out_buffers[o]) <= out_buffer_limit
    /\ \A n \in Asking : Len(in_buffers[n]) <= in_buffer_limit

(* RR_Advance as crossbar.cpp writes it: the nodes one after the other,    *)
(* starting from next_node_id, each seeing what those before it did.       *)
LoopStart == [in |-> in_buffers, out |-> out_buffers, issued |-> {}]

LoopStep(before, n) ==
    LET p == Head(before.in[n])
        o == p.output_deviceID
    IN  IF \/ before.in[n] = << >>
           \/ Len(before.out[o]) + 1 > out_buffer_limit
           \/ o \in before.issued
        THEN before
        ELSE [in |-> [before.in EXCEPT ![n] = Tail(@)],
              out |-> [before.out EXCEPT ![o] = Append(@, p)],
              issued |-> before.issued \union {o}]

LoopAdvance[i \in 0 .. total_nodes] ==
    IF i = 0 THEN LoopStart
    ELSE LoopStep(LoopAdvance[i - 1], (i - 1 + next_node_id) % total_nodes)

(* The arbitration above, which says who wins and not in which order the   *)
(* code finds out, moves the packets the loop moves.                       *)
AdvanceIsTheLoop ==
    [][RR_Advance => /\ in_buffers' = LoopAdvance[total_nodes].in
                     /\ out_buffers' = LoopAdvance[total_nodes].out]_vars

(* The packets from s to o that the router holds, oldest first: what has   *)
(* crossed waits in the output buffer, ahead of what has not.              *)
From(s) == {p \in Packet : Sender[p.data] = s}
To(o) == {p \in Packet : p.output_deviceID = o}
Between(s, o) == Selected(out_buffers[o], From(s)) \o Selected(in_buffers[s], To(o))

Channels == INSTANCE PairChannels
    WITH Sources <- InNodes, Sinks <- OutNodes, Messages <- Packet,
         chan <- [pair \in InNodes \X OutNodes |-> Between(pair[1], pair[2])]

(* Seen from outside the router is one FIFO channel per pair of nodes: it  *)
(* loses, copies and invents no packet and never lets two packets of one   *)
(* pair overtake each other, whatever the arbitration decides.             *)
ImplementsChannels == Channels!Spec
=============================================================================
