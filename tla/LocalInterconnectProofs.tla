----------------------- MODULE LocalInterconnectProofs -----------------------
(***************************************************************************)
(* What holds of the network on chip for any number of SMs and L2 slices,  *)
(* any limits and any fetches.  The lemmas about one router are those of   *)
(* XbarRouterProofs, instantiated for both networks.  Then what holds of   *)
(* the decoding of addresses and, in the last section, of the two          *)
(* together: only there is a fetch's slice that of an address.             *)
(***************************************************************************)
EXTENDS AddressedInterconnect, FiniteSetTheorems, SequenceTheorems, TLAPS

ReqP == INSTANCE XbarRouterProofs
    WITH in_buffers <- req_in, out_buffers <- req_out, next_node_id <- req_next,
         InNodes <- Shaders, OutNodes <- Mems, Asking <- Shaders,
         Backlog <- 0, Data <- Fetches, Sender <- SmOf

RepP == INSTANCE XbarRouterProofs
    WITH in_buffers <- rep_in, out_buffers <- rep_out, next_node_id <- rep_next,
         InNodes <- Mems, OutNodes <- Shaders, Asking <- {},
         Backlog <- 0, Data <- Fetches, Sender <- MemOf

(* Both networks are routers as XbarRouter assumes them.                   *)
LEMMA Routers == ReqP!RouterAssumption /\ RepP!RouterAssumption
  BY InterconnectAssumption
     DEF ReqP!RouterAssumption, RepP!RouterAssumption, ReqP!Nodes, RepP!Nodes, Shaders, Mems,
         total_nodes

(* The operators of an instance are the same under both of its names.      *)
LEMMA SameTypes == /\ Req!TypeOK <=> ReqP!TypeOK
                   /\ Rep!TypeOK <=> RepP!TypeOK
                   /\ Req!TypeOK' <=> ReqP!TypeOK'
                   /\ Rep!TypeOK' <=> RepP!TypeOK'
  BY DEF Req!TypeOK, ReqP!TypeOK, Rep!TypeOK, RepP!TypeOK, Req!Packet, ReqP!Packet,
         Rep!Packet, RepP!Packet, Req!Nodes, ReqP!Nodes, Rep!Nodes, RepP!Nodes

LEMMA SamePops ==
    ASSUME NEW n PROVE (Req!Pop(n) <=> ReqP!Pop(n)) /\ (Rep!Pop(n) <=> RepP!Pop(n))
  BY DEF Req!Pop, ReqP!Pop, Rep!Pop, RepP!Pop

LEMMA SamePushes ==
    ASSUME NEW n, NEW p
    PROVE  (Req!Push(n, p) <=> ReqP!Push(n, p)) /\ (Rep!Push(n, p) <=> RepP!Push(n, p))
  BY DEF Req!Push, ReqP!Push, Rep!Push, RepP!Push

LEMMA SameGrants ==
    ASSUME NEW n, NEW o
    PROVE  (Req!Granted(n, o) <=> ReqP!Granted(n, o)) /\ (Rep!Granted(n, o) <=> RepP!Granted(n, o))
  BY DEF Req!Granted, ReqP!Granted, Rep!Granted, RepP!Granted, Req!Requests, ReqP!Requests,
         Rep!Requests, RepP!Requests, Req!Has_Buffer_Out, ReqP!Has_Buffer_Out,
         Rep!Has_Buffer_Out, RepP!Has_Buffer_Out, Req!Turn, ReqP!Turn, Rep!Turn, RepP!Turn,
         Req!Nodes, ReqP!Nodes, Rep!Nodes, RepP!Nodes

LEMMA SameAdvances == (Req!RR_Advance <=> ReqP!RR_Advance) /\ (Rep!RR_Advance <=> RepP!RR_Advance)
  BY DEF Req!NextNode, ReqP!NextNode, Rep!NextNode, RepP!NextNode, Req!RR_Advance, ReqP!RR_Advance, Rep!RR_Advance, RepP!RR_Advance,
         Req!Granted, ReqP!Granted, Rep!Granted, RepP!Granted, Req!Requests, ReqP!Requests,
         Rep!Requests, RepP!Requests, Req!Has_Buffer_Out, ReqP!Has_Buffer_Out,
         Rep!Has_Buffer_Out, RepP!Has_Buffer_Out, Req!Turn, ReqP!Turn, Rep!Turn, RepP!Turn,
         Req!Nodes, ReqP!Nodes, Rep!Nodes, RepP!Nodes


(* A packet for a node of one kind goes into the network whose outputs     *)
(* are of that kind.                                                       *)
LEMMA PacketTypes ==
    ASSUME NEW f \in Fetches
    PROVE  Packet(f, MemOf[f]) \in ReqP!Packet /\ Packet(f, SmOf[f]) \in RepP!Packet
  BY InterconnectAssumption DEF Packet, ReqP!Packet, RepP!Packet

LEMMA Sides ==
    /\ Shaders \subseteq Nat /\ Mems \subseteq Nat /\ Shaders \intersect Mems = {}
    /\ Req!Nodes = Shaders \union Mems /\ Rep!Nodes = Shaders \union Mems
    /\ ReqP!Nodes = Shaders \union Mems /\ RepP!Nodes = Shaders \union Mems
    /\ 0 .. total_nodes - 1 = Shaders \union Mems
    /\ \A s \in Shaders : s < n_shader
    /\ \A m \in Mems : ~(m < n_shader)
  BY InterconnectAssumption
     DEF Shaders, Mems, total_nodes, Req!Nodes, Rep!Nodes, ReqP!Nodes, RepP!Nodes

(* Which network a step touches, and how.                                  *)
LEMMA ReqSteps ==
    ASSUME [Next]_vars
    PROVE  \/ \E m \in Mems : Req!Pop(m)
           \/ \E s \in Shaders, f \in Fetches :
                 Req!Has_Buffer_In(s) /\ SmOf[f] = s /\ Req!Push(s, Packet(f, MemOf[f]))
           \/ Req!RR_Advance
           \/ UNCHANGED req_vars
<1>1. ASSUME NEW m \in Mems, L2Receive(m) PROVE Req!Pop(m)
  BY <1>1 DEF L2Receive
<1>2. ASSUME NEW m \in Mems, NEW f \in Fetches, L2Reply(m, f) \/ L2Absorb(m, f)
      PROVE  UNCHANGED req_vars
  BY <1>2, Sides DEF L2Reply, L2Absorb, IcntPush
<1>3. CASE Advance
  BY <1>3 DEF Advance, IcntAdvance
<1>4. ASSUME NEW s \in Shaders, SmCycle(s), ~UNCHANGED req_vars
      PROVE  \E f \in Fetches :
                Req!Has_Buffer_In(s) /\ SmOf[f] = s /\ Req!Push(s, Packet(f, MemOf[f]))
  <2>1. ~(s >= n_shader)
    BY Sides, InterconnectAssumption
  <2>2. PICK f \in Fresh(s) : HasBuffer(s) /\ Req!Push(s, Packet(f, MemOf[f]))
    BY <1>4 DEF SmCycle
  <2>3. f \in Fetches /\ SmOf[f] = s
    BY DEF Fresh
  <2> QED
    BY <2>1, <2>2, <2>3 DEF HasBuffer
<1> QED
  BY <1>1, <1>2, <1>3, <1>4 DEF Next, vars

LEMMA RepSteps ==
    ASSUME [Next]_vars
    PROVE  \/ \E s \in Shaders : Rep!Pop(s)
           \/ \E m \in Mems, f \in Fetches : Rep!Push(m, Packet(f, SmOf[f]))
           \/ Rep!RR_Advance
           \/ UNCHANGED rep_vars
<1>1. ASSUME NEW m \in Mems, L2Receive(m) PROVE UNCHANGED rep_vars
  BY <1>1 DEF L2Receive
<1>2. ASSUME NEW m \in Mems, NEW f \in Fetches, L2Reply(m, f) \/ L2Absorb(m, f)
      PROVE  Rep!Push(m, Packet(f, SmOf[f])) \/ UNCHANGED rep_vars
  BY <1>2, Sides DEF L2Reply, L2Absorb, IcntPush
<1>3. CASE Advance
  BY <1>3 DEF Advance, IcntAdvance
<1>4. ASSUME NEW s \in Shaders, SmCycle(s) PROVE Rep!Pop(s)
  BY <1>4 DEF SmCycle
<1> QED
  BY <1>1, <1>2, <1>3, <1>4 DEF Next, vars

(* Every operation keeps both networks well typed.                         *)
LEMMA ReqTypes == ASSUME Req!TypeOK, [Next]_vars PROVE Req!TypeOK'
<1>0. ReqP!TypeOK
  BY SameTypes
<1>1. ASSUME NEW m \in Mems, Req!Pop(m) PROVE ReqP!TypeOK'
  BY <1>0, <1>1, ReqP!PopTypes, Routers, SamePops, Sides
<1>2. ASSUME NEW s \in Shaders, NEW f \in Fetches, Req!Push(s, Packet(f, MemOf[f]))
      PROVE  ReqP!TypeOK'
  BY <1>0, <1>2, ReqP!PushTypes, Routers, SamePushes, PacketTypes, Sides
<1>3. ASSUME Req!RR_Advance PROVE ReqP!TypeOK'
  BY <1>0, <1>3, ReqP!AdvanceTypes, Routers, SameAdvances
<1>4. ASSUME UNCHANGED req_vars PROVE ReqP!TypeOK'
  BY <1>0, <1>4 DEF ReqP!TypeOK, req_vars
<1> QED
  BY <1>1, <1>2, <1>3, <1>4, ReqSteps, SameTypes

LEMMA RepTypes == ASSUME Rep!TypeOK, [Next]_vars PROVE Rep!TypeOK'
<1>0. RepP!TypeOK
  BY SameTypes
<1>1. ASSUME NEW s \in Shaders, Rep!Pop(s) PROVE RepP!TypeOK'
  BY <1>0, <1>1, RepP!PopTypes, Routers, SamePops, Sides
<1>2. ASSUME NEW m \in Mems, NEW f \in Fetches, Rep!Push(m, Packet(f, SmOf[f]))
      PROVE  RepP!TypeOK'
  BY <1>0, <1>2, RepP!PushTypes, Routers, SamePushes, PacketTypes, Sides
<1>3. ASSUME Rep!RR_Advance PROVE RepP!TypeOK'
  BY <1>0, <1>3, RepP!AdvanceTypes, Routers, SameAdvances
<1>4. ASSUME UNCHANGED rep_vars PROVE RepP!TypeOK'
  BY <1>0, <1>4 DEF RepP!TypeOK, rep_vars
<1> QED
  BY <1>1, <1>2, <1>3, <1>4, RepSteps, SameTypes

LEMMA TypeStep == ASSUME TypeOK, [Next]_vars PROVE TypeOK'
<1>1. Req!TypeOK' /\ Rep!TypeOK'
  BY ReqTypes, RepTypes DEF TypeOK
<1>2. held' \in [Mems -> SUBSET Fetches]
  <2>1. ASSUME NEW m \in Mems, L2Receive(m) PROVE held' \in [Mems -> SUBSET Fetches]
    <3>1. req_out[m] # << >> => Head(req_out[m]) \in Req!Packet
      BY Sides DEF TypeOK, Req!TypeOK
    <3>2. req_out[m] # << >> => Head(req_out[m]).data \in Fetches
      BY <3>1 DEF Req!Packet
    <3> QED
      BY <2>1, <3>2 DEF L2Receive, TypeOK
  <2>2. ASSUME NEW m \in Mems, NEW f \in Fetches, L2Reply(m, f) \/ L2Absorb(m, f)
        PROVE  held' \in [Mems -> SUBSET Fetches]
    BY <2>2 DEF L2Reply, L2Absorb, TypeOK
  <2> QED
    BY <2>1, <2>2 DEF Next, Advance, SmCycle, TypeOK, vars
<1>3. turn' \in 0 .. total_nodes
  BY InterconnectAssumption
     DEF Next, L2Receive, L2Reply, L2Absorb, Advance, SmCycle, EndTurn, TypeOK, vars, total_nodes
<1> QED
  BY <1>1, <1>2, <1>3 DEF TypeOK

----
(* The inductive invariant of OutputsNeverBlock.  What makes it hold is    *)
(* the order of gpu_cycle: when the routers advance, every L2 slice has    *)
(* already popped its request of the cycle before, and every SM its reply. *)
ReqOut ==
    /\ \A s \in Shaders : req_out[s] = << >>
    /\ \A m \in Mems :
          /\ Len(req_out[m]) <= 1
          /\ m - n_shader < turn /\ turn <= n_mem => req_out[m] = << >>

RepOut ==
    /\ \A m \in Mems : rep_out[m] = << >>
    /\ \A s \in Shaders :
          /\ Len(rep_out[s]) <= 1
          /\ turn <= n_mem \/ turn > n_mem + 1 + s => rep_out[s] = << >>

Inv == TypeOK /\ ReqOut /\ RepOut

LEMMA OneIsPopped ==
    ASSUME NEW S, NEW q \in Seq(S), Len(q) <= 1
    PROVE  (IF q = << >> THEN q ELSE Tail(q)) = << >>
<1>1. CASE q = << >>
  BY <1>1
<1>2. CASE q # << >>
  <2>1. Len(Tail(q)) = Len(q) - 1 /\ Tail(q) \in Seq(S)
    BY <1>2, HeadTailProperties
  <2>2. Len(q) \in Nat /\ Len(Tail(q)) \in Nat
    BY <2>1, LenProperties
  <2>3. Len(Tail(q)) = 0
    BY <2>1, <2>2
  <2>4. Tail(q) = << >>
    BY <2>1, <2>3, EmptySeq
  <2> QED
    BY <1>2, <2>4
<1> QED
  BY <1>1, <1>2

(* RR_Advance appends at most one packet to an output, and only to one     *)
(* that packets can be addressed to.                                       *)
LEMMA ReqDelivers ==
    ASSUME Req!TypeOK, Req!RR_Advance, NEW o \in Shaders \union Mems, req_out[o] = << >>
    PROVE  Len(req_out'[o]) <= 1 /\ (o \in Shaders => req_out'[o] = << >>)
<1> DEFINE w == CHOOSE n \in Req!Nodes : Req!Granted(n, o)
<1>1. CASE \E n \in Req!Nodes : Req!Granted(n, o)
  <2>1. w \in Req!Nodes /\ Req!Granted(w, o)
    BY <1>1
  <2>2. req_in[w] \in Seq(Req!Packet) /\ req_in[w] # << >> /\ Head(req_in[w]).output_deviceID = o
    BY <2>1 DEF Req!TypeOK, Req!Granted, Req!Requests
  <2>3. Head(req_in[w]) \in Req!Packet
    BY <2>2
  <2>4. o \in Mems
    BY <2>2, <2>3 DEF Req!Packet
  <2>5. req_out'[o] = Append(req_out[o], Head(req_in[w]))
    BY <1>1, Sides DEF Req!RR_Advance
  <2>6. Len(req_out'[o]) = 1
    BY <2>5
  <2> QED
    BY <2>4, <2>6, Sides
<1>2. CASE ~ \E n \in Req!Nodes : Req!Granted(n, o)
  BY <1>2, Sides DEF Req!RR_Advance
<1> QED
  BY <1>1, <1>2

LEMMA RepDelivers ==
    ASSUME Rep!TypeOK, Rep!RR_Advance, NEW o \in Shaders \union Mems, rep_out[o] = << >>
    PROVE  Len(rep_out'[o]) <= 1 /\ (o \in Mems => rep_out'[o] = << >>)
<1> DEFINE w == CHOOSE n \in Rep!Nodes : Rep!Granted(n, o)
<1>1. CASE \E n \in Rep!Nodes : Rep!Granted(n, o)
  <2>1. w \in Rep!Nodes /\ Rep!Granted(w, o)
    BY <1>1
  <2>2. rep_in[w] \in Seq(Rep!Packet) /\ rep_in[w] # << >> /\ Head(rep_in[w]).output_deviceID = o
    BY <2>1 DEF Rep!TypeOK, Rep!Granted, Rep!Requests
  <2>3. Head(rep_in[w]) \in Rep!Packet
    BY <2>2
  <2>4. o \in Shaders
    BY <2>2, <2>3 DEF Rep!Packet
  <2>5. rep_out'[o] = Append(rep_out[o], Head(rep_in[w]))
    BY <1>1, Sides DEF Rep!RR_Advance
  <2>6. Len(rep_out'[o]) = 1
    BY <2>5
  <2> QED
    BY <2>4, <2>6, Sides
<1>2. CASE ~ \E n \in Rep!Nodes : Rep!Granted(n, o)
  BY <1>2, Sides DEF Rep!RR_Advance
<1> QED
  BY <1>1, <1>2

LEMMA ReqOutStep == ASSUME Inv, [Next]_vars PROVE ReqOut'
<1> USE InterconnectAssumption
<1>0. turn \in 0 .. n_mem + n_shader /\ \A m \in Mems : req_out[m] \in Seq(Req!Packet)
  BY Sides DEF Inv, TypeOK, total_nodes, Req!TypeOK
<1>1. ASSUME NEW m \in Mems, L2Receive(m) PROVE ReqOut'
  <2>1. turn = m - n_shader /\ turn < n_mem
    BY <1>1 DEF L2Receive, MemTurn, Mems, total_nodes
  <2>2. turn' = turn + 1
    BY <1>0, <1>1, <2>1 DEF L2Receive, EndTurn, total_nodes
  <2>3. req_out'[m] = << >>
    BY <1>0, <1>1, OneIsPopped, Sides DEF L2Receive, Req!Pop, Inv, TypeOK, Req!TypeOK, ReqOut
  <2>4. \A n \in Shaders \union Mems : n # m => req_out'[n] = req_out[n]
    BY <1>1, Sides DEF L2Receive, Req!Pop, Inv, TypeOK, Req!TypeOK
  <2>5. \A n \in Mems : n # m /\ n - n_shader < turn' => n - n_shader < turn
    BY <2>1, <2>2, Sides
  <2>6. ASSUME NEW n \in Mems
        PROVE  /\ Len(req_out'[n]) <= 1
               /\ n - n_shader < turn' /\ turn' <= n_mem => req_out'[n] = << >>
    BY <2>1, <2>2, <2>3, <2>4, <2>5 DEF Inv, ReqOut
  <2> QED
    BY <2>3, <2>4, <2>6, Sides DEF Inv, ReqOut
<1>2. ASSUME NEW m \in Mems, NEW f \in Fetches, L2Reply(m, f) \/ L2Absorb(m, f)
      PROVE  ReqOut'
  BY <1>2, Sides DEF L2Reply, L2Absorb, IcntPush, Inv, ReqOut, req_vars
<1>3. CASE Advance
  <2>1. turn = n_mem /\ \A n \in Shaders \union Mems : req_out[n] = << >>
    BY <1>3 DEF Advance, AdvanceTurn, Inv, ReqOut, Mems, total_nodes
  <2>2. turn' = n_mem + 1
    BY <1>3, <2>1 DEF Advance, EndTurn, total_nodes
  <2> QED
    BY <1>3, <2>1, <2>2, ReqDelivers DEF Advance, IcntAdvance, Inv, TypeOK, ReqOut
<1>4. ASSUME NEW s \in Shaders, SmCycle(s) PROVE ReqOut'
  <2>1. req_out' = req_out
    BY <1>4 DEF SmCycle, Req!Push, req_vars
  <2>2. turn = n_mem + 1 + s
    BY <1>4 DEF SmCycle, SmTurn
  <2>3. turn' > n_mem \/ turn' = 0
    BY <1>0, <1>4, <2>2, Sides DEF SmCycle, EndTurn, total_nodes
  <2>4. ASSUME NEW m \in Mems PROVE ~(m - n_shader < turn' /\ turn' <= n_mem)
    BY <1>0, <1>4, <2>2, <2>3, Sides DEF Mems, SmCycle, EndTurn, total_nodes
  <2> QED
    BY <2>1, <2>4 DEF Inv, ReqOut
<1>5. CASE UNCHANGED vars
  BY <1>5 DEF vars, req_vars, Inv, ReqOut
<1> QED
  BY <1>1, <1>2, <1>3, <1>4, <1>5 DEF Next

LEMMA RepOutStep == ASSUME Inv, [Next]_vars PROVE RepOut'
<1> USE InterconnectAssumption
<1>0. turn \in 0 .. n_mem + n_shader /\ \A s \in Shaders : rep_out[s] \in Seq(Rep!Packet)
  BY Sides DEF Inv, TypeOK, total_nodes, Rep!TypeOK
<1>1. ASSUME NEW m \in Mems, L2Receive(m) PROVE RepOut'
  <2>1. turn <= n_mem /\ rep_out' = rep_out
    BY <1>1 DEF L2Receive, MemTurn, Mems, total_nodes, rep_vars
  <2> QED
    BY <2>1 DEF Inv, RepOut
<1>2. ASSUME NEW m \in Mems, NEW f \in Fetches, L2Reply(m, f) \/ L2Absorb(m, f)
      PROVE  RepOut'
  BY <1>2, Sides DEF L2Reply, L2Absorb, IcntPush, Rep!Push, Inv, RepOut, rep_vars
<1>3. CASE Advance
  <2>1. turn = n_mem /\ \A n \in Shaders \union Mems : rep_out[n] = << >>
    BY <1>3 DEF Advance, AdvanceTurn, Inv, RepOut
  <2>2. turn' = n_mem + 1
    BY <1>3, <2>1 DEF Advance, EndTurn, total_nodes
  <2>3. ASSUME NEW s \in Shaders PROVE ~(turn' <= n_mem \/ turn' > n_mem + 1 + s)
    BY <2>2, Sides
  <2> QED
    BY <1>3, <2>1, <2>3, RepDelivers DEF Advance, IcntAdvance, Inv, TypeOK, RepOut
<1>4. ASSUME NEW s \in Shaders, SmCycle(s) PROVE RepOut'
  <2>1. turn = n_mem + 1 + s
    BY <1>4 DEF SmCycle, SmTurn
  <2>2. rep_out'[s] = << >>
    BY <1>0, <1>4, OneIsPopped, Sides DEF SmCycle, Rep!Pop, Inv, TypeOK, Rep!TypeOK, RepOut
  <2>3. \A n \in Shaders \union Mems : n # s => rep_out'[n] = rep_out[n]
    BY <1>4, Sides DEF SmCycle, Rep!Pop, Inv, TypeOK, Rep!TypeOK
  <2>4. ASSUME NEW n \in Shaders, n # s, turn' <= n_mem \/ turn' > n_mem + 1 + n
        PROVE  turn > n_mem + 1 + n
    BY <1>0, <1>4, <2>1, <2>4 DEF SmCycle, EndTurn, total_nodes, Shaders
  <2>5. ASSUME NEW n \in Shaders
        PROVE  /\ Len(rep_out'[n]) <= 1
               /\ turn' <= n_mem \/ turn' > n_mem + 1 + n => rep_out'[n] = << >>
    BY <2>2, <2>3, <2>4 DEF Inv, RepOut
  <2> QED
    BY <2>3, <2>5, Sides DEF Inv, RepOut
<1>5. CASE UNCHANGED vars
  BY <1>5 DEF vars, rep_vars, Inv, RepOut
<1> QED
  BY <1>1, <1>2, <1>3, <1>4, <1>5 DEF Next

(* HasBuffer precedes every push into the request network.                 *)
LEMMA LimitStep ==
    ASSUME Req!TypeOK, RequestsWithinLimit, [Next]_vars
    PROVE  RequestsWithinLimit'
<1> SUFFICES ASSUME NEW s \in Shaders PROVE Len(req_in'[s]) <= in_buffer_limit
  BY DEF RequestsWithinLimit
<1>0. req_in[s] \in Seq(Req!Packet) /\ Len(req_in[s]) <= in_buffer_limit /\ in_buffer_limit \in Nat
  BY Sides, InterconnectAssumption DEF Req!TypeOK, RequestsWithinLimit
<1>1. ASSUME NEW m \in Mems, Req!Pop(m) PROVE req_in' = req_in
  BY <1>1 DEF Req!Pop
<1>2. ASSUME NEW t \in Shaders, NEW f \in Fetches, Req!Has_Buffer_In(t),
             Req!Push(t, Packet(f, MemOf[f]))
      PROVE  Len(req_in'[s]) <= in_buffer_limit
  BY <1>0, <1>2, Sides DEF Req!Push, Req!Has_Buffer_In, Req!TypeOK
<1>3. ASSUME Req!RR_Advance
      PROVE  req_in'[s] = req_in[s] \/ (req_in[s] # << >> /\ req_in'[s] = Tail(req_in[s]))
  BY <1>3, Sides DEF Req!RR_Advance, Req!Granted, Req!Requests
<1>4. CASE req_in[s] # << >> /\ req_in'[s] = Tail(req_in[s])
  <2>1. Len(req_in'[s]) = Len(req_in[s]) - 1
    BY <1>0, <1>4, HeadTailProperties
  <2> QED
    BY <1>0, <2>1, LenProperties
<1> QED
  BY <1>0, <1>1, <1>2, <1>3, <1>4, ReqSteps DEF req_vars

(* An output buffer that is empty has room, so the node the rotation       *)
(* starts with wins whatever output it wants.                              *)
LEMMA ReqFirst ==
    ASSUME Req!TypeOK, Req!RR_Advance, \A n \in Mems : req_out[n] = << >>,
           req_in[req_next] # << >>
    PROVE  req_in'[req_next] = Tail(req_in[req_next])
<1> DEFINE o == Head(req_in[req_next]).output_deviceID
<1>1. req_next \in Req!Nodes /\ req_in[req_next] \in Seq(Req!Packet)
  BY DEF Req!TypeOK
<1>2. o \in Mems
  <2>1. Head(req_in[req_next]) \in Req!Packet
    BY <1>1
  <2> QED
    BY <2>1 DEF Req!Packet
<1>3. Req!Has_Buffer_Out(o)
  BY <1>2, InterconnectAssumption DEF Req!Has_Buffer_Out
<1>4. ASSUME NEW m \in Req!Nodes \ {req_next} PROVE Req!Turn(req_next) < Req!Turn(m)
  BY <1>1, InterconnectAssumption DEF Req!Turn, Req!Nodes, total_nodes
<1>5. Req!Granted(req_next, o)
  BY <1>3, <1>4 DEF Req!Granted, Req!Requests
<1> QED
  BY <1>1, <1>2, <1>5 DEF Req!RR_Advance

LEMMA RepFirst ==
    ASSUME Rep!TypeOK, Rep!RR_Advance, \A n \in Shaders : rep_out[n] = << >>,
           rep_in[rep_next] # << >>
    PROVE  rep_in'[rep_next] = Tail(rep_in[rep_next])
<1> DEFINE o == Head(rep_in[rep_next]).output_deviceID
<1>1. rep_next \in Rep!Nodes /\ rep_in[rep_next] \in Seq(Rep!Packet)
  BY DEF Rep!TypeOK
<1>2. o \in Shaders
  <2>1. Head(rep_in[rep_next]) \in Rep!Packet
    BY <1>1
  <2> QED
    BY <2>1 DEF Rep!Packet
<1>3. Rep!Has_Buffer_Out(o)
  BY <1>2, InterconnectAssumption DEF Rep!Has_Buffer_Out
<1>4. ASSUME NEW m \in Rep!Nodes \ {rep_next} PROVE Rep!Turn(rep_next) < Rep!Turn(m)
  BY <1>1, InterconnectAssumption DEF Rep!Turn, Rep!Nodes, total_nodes
<1>5. Rep!Granted(rep_next, o)
  BY <1>3, <1>4 DEF Rep!Granted, Rep!Requests
<1> QED
  BY <1>1, <1>2, <1>5 DEF Rep!RR_Advance

LEMMA FirstStep ==
    ASSUME Inv, Advance
    PROVE  /\ req_in[req_next] # << >> => req_in'[req_next] = Tail(req_in[req_next])
           /\ rep_in[rep_next] # << >> => rep_in'[rep_next] = Tail(rep_in[rep_next])
<1>1. \A n \in Mems : req_out[n] = << >>
  BY InterconnectAssumption DEF Advance, AdvanceTurn, Inv, ReqOut, Mems, total_nodes
<1>2. \A n \in Shaders : rep_out[n] = << >>
  BY InterconnectAssumption DEF Advance, AdvanceTurn, Inv, RepOut
<1> QED
  BY <1>1, <1>2, ReqFirst, RepFirst DEF Advance, IcntAdvance, Inv, TypeOK

LEMMA InvInit == Init => Inv /\ RequestsWithinLimit
<1> SUFFICES ASSUME Init PROVE Inv /\ RequestsWithinLimit
  OBVIOUS
<1>1. Req!TypeOK /\ Rep!TypeOK
  BY InterconnectAssumption
     DEF Init, Req!Init, Rep!Init, Req!TypeOK, Rep!TypeOK, Req!Nodes, Rep!Nodes, total_nodes
<1>2. TypeOK
  BY <1>1, InterconnectAssumption DEF Init, TypeOK, total_nodes
<1>3. \A n \in Shaders \union Mems : req_in[n] = << >> /\ req_out[n] = << >> /\ rep_out[n] = << >>
  BY Sides DEF Init, Req!Init, Rep!Init
<1>4. Len(<< >>) = 0
  OBVIOUS
<1>5. ReqOut /\ RepOut /\ RequestsWithinLimit
  BY <1>3, <1>4, InterconnectAssumption DEF ReqOut, RepOut, RequestsWithinLimit
<1> QED
  BY <1>2, <1>5 DEF Inv

LEMMA InvStep == Inv /\ [Next]_vars => Inv'
  BY TypeStep, ReqOutStep, RepOutStep DEF Inv

----
(* The types, for any number of nodes.                                     *)
THEOREM TypesCorrect == Spec => []TypeOK
  BY InvInit, InvStep, PTL DEF Spec, Inv

(* The request network never exceeds its limit (cache.cpp:340 asks before  *)
(* every push), for any limit.                                             *)
THEOREM RequestsCorrect == Spec => []RequestsWithinLimit
<1>1. Inv /\ RequestsWithinLimit /\ [Next]_vars => RequestsWithinLimit'
  BY LimitStep DEF Inv, TypeOK
<1> QED
  BY InvInit, InvStep, <1>1, PTL DEF Spec

(* No output buffer ever holds a second packet: the order of gpu_cycle     *)
(* makes Has_Buffer_Out true whenever it is asked.                         *)
THEOREM OutputsCorrect == Spec => []OutputsNeverBlock
<1>1. Inv => OutputsNeverBlock
  <2>1. Len(<< >>) <= 1
    OBVIOUS
  <2> QED
    BY <2>1, Sides DEF Inv, ReqOut, RepOut, OutputsNeverBlock
<1> QED
  BY InvInit, InvStep, <1>1, PTL DEF Spec

(* The node the rotation starts with is served in every cycle, in both     *)
(* networks: the round robin starves no one.                               *)
THEOREM RotationCorrect == Spec => FirstIsServed
<1>1. Inv /\ [Next]_vars =>
        [Advance =>
          /\ req_in[req_next] # << >> => req_in'[req_next] = Tail(req_in[req_next])
          /\ rep_in[rep_next] # << >> => rep_in'[rep_next] = Tail(rep_in[rep_next])]_vars
  BY FirstStep
<1> QED
  BY InvInit, InvStep, <1>1, PTL DEF Spec, FirstIsServed

----
(***************************************************************************)
(* Where the fetches are: what the networks hold is given to them once,    *)
(* so that the lemmas of XbarRouterProofs about payloads apply.            *)
(***************************************************************************)

(* No fetch is in both networks, or in a network and at a slice, or at two *)
(* slices.                                                                 *)
Separate(requests, replies, slices) ==
    /\ requests \intersect replies = {}
    /\ \A m \in Mems : slices[m] \intersect (requests \union replies) = {}
    /\ \A m, n \in Mems : m # n => slices[m] \intersect slices[n] = {}

(* OnePlace in terms of sets, with what keeps it: no fetch is twice in a   *)
(* network, and the places are separate.                                   *)
Placed ==
    /\ ReqP!Apart
    /\ RepP!Apart
    /\ Separate(ReqP!Holding, RepP!Holding, held)

(* What the model calls InRequests is what the router of the requests      *)
(* holds; the same for the replies.                                        *)
LEMMA SameHolding == InRequests = ReqP!Holding /\ InReplies = RepP!Holding
<1>1. ASSUME NEW f PROVE f \in InRequests <=> f \in ReqP!Holding
  <2>1. f \in InRequests <=>
          \E n \in ReqP!Nodes : f \in {req_in[n][i].data : i \in 1 .. Len(req_in[n])}
                                \/ f \in {req_out[n][i].data : i \in 1 .. Len(req_out[n])}
    BY DEF InRequests, Contents, ReqP!Nodes
  <2>2. f \in InRequests <=>
          \E n \in ReqP!Nodes : f \in ReqP!DataOf(req_in[n]) \/ f \in ReqP!DataOf(req_out[n])
    BY <2>1 DEF ReqP!DataOf
  <2> QED
    BY <2>2 DEF ReqP!Holding
<1>2. ASSUME NEW f PROVE f \in InReplies <=> f \in RepP!Holding
  <2>1. f \in InReplies <=>
          \E n \in RepP!Nodes : f \in {rep_in[n][i].data : i \in 1 .. Len(rep_in[n])}
                                \/ f \in {rep_out[n][i].data : i \in 1 .. Len(rep_out[n])}
    BY DEF InReplies, Contents, RepP!Nodes
  <2>2. f \in InReplies <=>
          \E n \in RepP!Nodes : f \in RepP!DataOf(rep_in[n]) \/ f \in RepP!DataOf(rep_out[n])
    BY <2>1 DEF RepP!DataOf
  <2> QED
    BY <2>2 DEF RepP!Holding
<1> QED
  BY <1>1, <1>2

LEMMA ReqStays ==
    ASSUME UNCHANGED req_vars
    PROVE  /\ ReqP!Apart => ReqP!Apart'
           /\ ReqP!Holding' = ReqP!Holding /\ ReqP!Packets' = ReqP!Packets
  BY DEF req_vars, ReqP!Apart, ReqP!Holding, ReqP!Packets

LEMMA RepStays ==
    ASSUME UNCHANGED rep_vars
    PROVE  /\ RepP!Apart => RepP!Apart'
           /\ RepP!Holding' = RepP!Holding
  BY DEF rep_vars, RepP!Apart, RepP!Holding

(* What a slice receives, it takes out of the request network.             *)
LEMMA ReceiveMoves ==
    ASSUME TypeOK, ReqP!Apart, NEW m \in Mems, L2Receive(m)
    PROVE  /\ ReqP!Apart' /\ ReqP!Packets' \subseteq ReqP!Packets
           /\ \/ ReqP!Holding' = ReqP!Holding /\ held' = held
              \/ \E p \in ReqP!Packets :
                    /\ 1 \in 1 .. Len(req_out[m]) /\ p = req_out[m][1]
                    /\ p.data \in ReqP!Holding
                    /\ ReqP!Holding' = ReqP!Holding \ {p.data}
                    /\ held' = [held EXCEPT ![m] = @ \union {p.data}]
<1>1. ReqP!TypeOK /\ ReqP!Pop(m) /\ m \in ReqP!Nodes
  BY SameTypes, SamePops, Sides DEF TypeOK, L2Receive
<1>2. CASE req_out[m] = << >>
  <2>1. UNCHANGED ReqP!vars
    BY <1>1, <1>2, Routers, ReqP!PopNothing
  <2>2. UNCHANGED req_vars
    BY <2>1 DEF ReqP!vars, req_vars
  <2>3. held' = held
    BY <1>2 DEF L2Receive, TypeOK
  <2> QED
    BY <2>2, <2>3, ReqStays
<1>3. CASE req_out[m] # << >>
  <2> DEFINE p == Head(req_out[m])
  <2>1. /\ ReqP!Apart' /\ ReqP!Packets' \subseteq ReqP!Packets
        /\ p \in ReqP!Packets /\ p.data \in ReqP!Holding
        /\ ReqP!Holding' = ReqP!Holding \ {p.data}
    BY <1>1, <1>3, Routers, ReqP!PopApart
  <2>2. held' = [held EXCEPT ![m] = @ \union {p.data}]
    BY <1>3 DEF L2Receive
  <2>3. 1 \in 1 .. Len(req_out[m]) /\ p = req_out[m][1]
    <3>1. req_out[m] \in Seq(ReqP!Packet)
      BY <1>1 DEF ReqP!TypeOK
    <3>2. Len(req_out[m]) \in Nat \ {0}
      BY <1>3, <3>1, LenProperties, EmptySeq
    <3> QED
      BY <1>3, <3>1, <3>2, HeadTailProperties
  <2> QED
    BY <2>1, <2>2, <2>3
<1> QED
  BY <1>2, <1>3

(* What it answers, it puts into the reply network.                        *)
LEMMA ReplyMoves ==
    ASSUME TypeOK, RepP!Apart, NEW m \in Mems, NEW f \in Fetches, L2Reply(m, f),
           f \notin RepP!Holding
    PROVE  /\ RepP!Apart' /\ RepP!Holding' = RepP!Holding \union {f}
           /\ UNCHANGED req_vars
<1>1. Rep!Push(m, Packet(f, SmOf[f])) /\ UNCHANGED req_vars
  BY Sides DEF L2Reply, IcntPush
<1>2. RepP!TypeOK /\ RepP!Push(m, Packet(f, SmOf[f])) /\ m \in RepP!Nodes
  BY <1>1, SameTypes, SamePushes, Sides DEF TypeOK
<1>3. Packet(f, SmOf[f]) \in RepP!Packet /\ Packet(f, SmOf[f]).data = f
  BY PacketTypes DEF Packet
<1>4. RepP!Apart' /\ RepP!Holding' = RepP!Holding \union {Packet(f, SmOf[f]).data}
  BY <1>2, <1>3, Routers, RepP!PushApart
<1> QED
  BY <1>1, <1>3, <1>4

LEMMA AdvanceMoves ==
    ASSUME TypeOK, ReqP!Apart, RepP!Apart, Advance
    PROVE  /\ ReqP!Apart' /\ ReqP!Holding' = ReqP!Holding /\ ReqP!Packets' = ReqP!Packets
           /\ RepP!Apart' /\ RepP!Holding' = RepP!Holding
<1>1. ReqP!TypeOK /\ ReqP!RR_Advance /\ RepP!TypeOK /\ RepP!RR_Advance
  BY SameTypes, SameAdvances DEF TypeOK, Advance, IcntAdvance
<1> QED
  BY <1>1, Routers, ReqP!AdvanceApart, RepP!AdvanceApart

(* A reply that an SM takes leaves the network; what the SM sends was      *)
(* nowhere.                                                                *)
LEMMA SmTakes ==
    ASSUME TypeOK, RepP!Apart, NEW s \in Shaders, SmCycle(s)
    PROVE  RepP!Apart' /\ RepP!Holding' \subseteq RepP!Holding
<1>1. RepP!TypeOK /\ RepP!Pop(s) /\ s \in RepP!Nodes
  BY SameTypes, SamePops, Sides DEF TypeOK, SmCycle
<1>2. CASE rep_out[s] = << >>
  <2>1. UNCHANGED RepP!vars
    BY <1>1, <1>2, Routers, RepP!PopNothing
  <2>2. UNCHANGED rep_vars
    BY <2>1 DEF RepP!vars, rep_vars
  <2> QED
    BY <2>2, RepStays
<1>3. CASE rep_out[s] # << >>
  <2>1. RepP!Apart' /\ RepP!Holding' = RepP!Holding \ {Head(rep_out[s]).data}
    BY <1>1, <1>3, Routers, RepP!PopApart
  <2> QED
    BY <2>1
<1> QED
  BY <1>2, <1>3

LEMMA SmSends ==
    ASSUME TypeOK, ReqP!Apart, NEW s \in Shaders, SmCycle(s)
    PROVE  /\ ReqP!Apart'
           /\ \/ ReqP!Holding' = ReqP!Holding /\ ReqP!Packets' = ReqP!Packets
              \/ \E f \in Fetches :
                    /\ f \notin ReqP!Holding /\ f \notin RepP!Holding
                    /\ \A m \in Mems : f \notin held[m]
                    /\ ReqP!Holding' = ReqP!Holding \union {f}
                    /\ ReqP!Packets' = ReqP!Packets \union {Packet(f, MemOf[f])}
<1>1. CASE UNCHANGED req_vars
  BY <1>1, ReqStays
<1>2. CASE ~UNCHANGED req_vars
  <2>1. PICK f \in Fresh(s) : Req!Push(s, Packet(f, MemOf[f]))
    BY <1>2 DEF SmCycle
  <2>2. f \in Fetches /\ f \notin InRequests /\ f \notin InReplies /\ f \notin Held
    BY DEF Fresh
  <2>3. f \notin ReqP!Holding /\ f \notin RepP!Holding /\ \A m \in Mems : f \notin held[m]
    BY <2>2, SameHolding DEF Held
  <2>4. ReqP!TypeOK /\ ReqP!Push(s, Packet(f, MemOf[f])) /\ s \in ReqP!Nodes
    BY <2>1, SameTypes, SamePushes, Sides DEF TypeOK
  <2>5. Packet(f, MemOf[f]) \in ReqP!Packet /\ Packet(f, MemOf[f]).data = f
    BY <2>2, PacketTypes DEF Packet
  <2>6. /\ ReqP!Apart' /\ ReqP!Holding' = ReqP!Holding \union {f}
        /\ ReqP!Packets' = ReqP!Packets \union {Packet(f, MemOf[f])}
    BY <2>3, <2>4, <2>5, Routers, ReqP!PushApart
  <2> QED
    BY <2>2, <2>3, <2>6
<1> QED
  BY <1>1, <1>2

LEMMA PlacedStep == TypeOK /\ Placed /\ [Next]_vars => Placed'
<1> SUFFICES ASSUME TypeOK, Placed, [Next]_vars PROVE Placed'
  OBVIOUS
<1> DEFINE requests == ReqP!Holding
           replies == RepP!Holding
<1>0. /\ ReqP!Apart /\ RepP!Apart /\ Separate(requests, replies, held)
      /\ held \in [Mems -> SUBSET Fetches]
  BY DEF Placed, TypeOK
<1>1. ASSUME NEW m \in Mems, L2Receive(m) PROVE Placed'
  <2>1. RepP!Apart' /\ replies' = replies
    BY <1>0, <1>1, RepStays DEF L2Receive
  <2>2. /\ ReqP!Apart'
        /\ \/ requests' = requests /\ held' = held
           \/ \E f \in requests : /\ requests' = requests \ {f}
                                  /\ held' = [held EXCEPT ![m] = @ \union {f}]
    BY <1>0, <1>1, ReceiveMoves
  <2> HIDE DEF requests, replies
  <2>3. Separate(requests', replies', held')
    BY <1>0, <2>1, <2>2 DEF Separate
  <2> QED
    BY <2>1, <2>2, <2>3 DEF Placed, requests, replies, Separate
<1>2. ASSUME NEW m \in Mems, NEW f \in Fetches, L2Reply(m, f) PROVE Placed'
  <2>1. f \in held[m] /\ held' = [held EXCEPT ![m] = @ \ {f}]
    BY <1>2 DEF L2Reply
  <2>2. f \notin replies /\ f \notin requests
    <3> HIDE DEF requests, replies
    <3> QED
      BY <1>0, <2>1 DEF Separate
  <2>3. RepP!Apart' /\ replies' = replies \union {f} /\ ReqP!Apart' /\ requests' = requests
    BY <1>0, <1>2, <2>2, ReplyMoves, ReqStays
  <2> HIDE DEF requests, replies
  <2>4. Separate(requests', replies', held')
    BY <1>0, <2>1, <2>2, <2>3 DEF Separate
  <2> QED
    BY <2>3, <2>4 DEF Placed, requests, replies, Separate
<1>3. ASSUME NEW m \in Mems, NEW f \in Fetches, L2Absorb(m, f) PROVE Placed'
  <2>1. held' = [held EXCEPT ![m] = @ \ {f}]
    BY <1>3 DEF L2Absorb
  <2>2. RepP!Apart' /\ replies' = replies /\ ReqP!Apart' /\ requests' = requests
    BY <1>0, <1>3, ReqStays, RepStays DEF L2Absorb
  <2> HIDE DEF requests, replies
  <2>3. Separate(requests', replies', held')
    BY <1>0, <2>1, <2>2 DEF Separate
  <2> QED
    BY <2>2, <2>3 DEF Placed, requests, replies, Separate
<1>4. CASE Advance
  <2>1. RepP!Apart' /\ replies' = replies /\ ReqP!Apart' /\ requests' = requests
    BY <1>0, <1>4, AdvanceMoves
  <2>2. held' = held
    BY <1>4 DEF Advance
  <2> HIDE DEF requests, replies
  <2>3. Separate(requests', replies', held')
    BY <1>0, <2>1, <2>2
  <2> QED
    BY <2>1, <2>3 DEF Placed, requests, replies, Separate
<1>5. ASSUME NEW s \in Shaders, SmCycle(s) PROVE Placed'
  <2>1. RepP!Apart' /\ replies' \subseteq replies
    BY <1>0, <1>5, SmTakes
  <2>2. /\ ReqP!Apart'
        /\ \/ requests' = requests
           \/ \E f \in Fetches : /\ f \notin replies /\ \A m \in Mems : f \notin held[m]
                                 /\ requests' = requests \union {f}
    BY <1>0, <1>5, SmSends
  <2>3. held' = held
    BY <1>5 DEF SmCycle
  <2> HIDE DEF requests, replies
  <2>4. Separate(requests', replies', held')
    BY <1>0, <2>1, <2>2, <2>3 DEF Separate
  <2> QED
    BY <2>1, <2>2, <2>4 DEF Placed, requests, replies, Separate
<1>6. CASE UNCHANGED vars
  <2>1. UNCHANGED req_vars /\ UNCHANGED rep_vars /\ held' = held
    BY <1>6 DEF vars
  <2>2. RepP!Apart' /\ replies' = replies /\ ReqP!Apart' /\ requests' = requests
    BY <1>0, <2>1, ReqStays, RepStays
  <2> QED
    BY <1>0, <2>1, <2>2 DEF Placed, Separate
<1> QED
  BY <1>1, <1>2, <1>3, <1>4, <1>5, <1>6 DEF Next

(* A set in which any two elements are the same.                           *)
LEMMA OneAtMost ==
    ASSUME NEW S, \A x, y \in S : x = y
    PROVE  /\ Cardinality(S) \in {0, 1}
           /\ S = {} => Cardinality(S) = 0
<1>1. CASE S = {}
  BY <1>1, FS_EmptySet
<1>2. CASE S # {}
  <2>1. PICK x \in S : TRUE
    BY <1>2
  <2>2. S = {x}
    BY <2>1
  <2>3. Cardinality({x}) = 1
    BY FS_Singleton
  <2> QED
    BY <1>2, <2>2, <2>3
<1> QED
  BY <1>1, <1>2

(* The Copies of OnePlace.                                                 *)
CopiesIn(buffers, f) ==
    Cardinality({at \in (0 .. total_nodes - 1) \X (1 .. Cardinality(Fetches)) :
                    /\ at[2] <= Len(buffers[at[1]])
                    /\ buffers[at[1]][at[2]].data = f})

(* Buffers that hold nothing twice have one copy at most, and none of what *)
(* they do not hold.                                                       *)
LEMMA OneCopy ==
    ASSUME NEW S, NEW buffers \in [0 .. total_nodes - 1 -> Seq(S)], NEW f,
           \A n \in 0 .. total_nodes - 1 : ReqP!OnceIn(buffers[n]),
           \A m, n \in 0 .. total_nodes - 1 :
              m # n => ReqP!DataOf(buffers[m]) \intersect ReqP!DataOf(buffers[n]) = {}
    PROVE  /\ CopiesIn(buffers, f) \in {0, 1}
           /\ (\A n \in 0 .. total_nodes - 1 : f \notin ReqP!DataOf(buffers[n]))
                => CopiesIn(buffers, f) = 0
<1> DEFINE C == {at \in (0 .. total_nodes - 1) \X (1 .. Cardinality(Fetches)) :
                    /\ at[2] <= Len(buffers[at[1]])
                    /\ buffers[at[1]][at[2]].data = f}
<1>1. ASSUME NEW at \in C
      PROVE  /\ at = <<at[1], at[2]>>
             /\ at[1] \in 0 .. total_nodes - 1
             /\ at[2] \in 1 .. Len(buffers[at[1]])
             /\ buffers[at[1]][at[2]].data = f
             /\ f \in ReqP!DataOf(buffers[at[1]])
  <2>1. /\ at[1] \in 0 .. total_nodes - 1 /\ at[2] \in 1 .. Cardinality(Fetches)
        /\ at = <<at[1], at[2]>>
        /\ at[2] <= Len(buffers[at[1]]) /\ buffers[at[1]][at[2]].data = f
    BY <1>1
  <2>2. Len(buffers[at[1]]) \in Nat
    BY <2>1, LenProperties
  <2>3. at[2] \in 1 .. Len(buffers[at[1]])
    BY <2>1, <2>2
  <2> QED
    BY <2>1, <2>3 DEF ReqP!DataOf
<1>2. ASSUME NEW at \in C, NEW to \in C PROVE at = to
  <2>1. at[1] = to[1]
    BY <1>1
  <2>2. at[2] = to[2]
    BY <1>1, <2>1 DEF ReqP!OnceIn
  <2> QED
    BY <1>1, <2>1, <2>2
<1>3. CopiesIn(buffers, f) = Cardinality(C)
  BY DEF CopiesIn
<1>4. (\A n \in 0 .. total_nodes - 1 : f \notin ReqP!DataOf(buffers[n])) => C = {}
  BY <1>1
<1> HIDE DEF C
<1> QED
  BY <1>2, <1>3, <1>4, OneAtMost

LEMMA PlacedImplies == TypeOK /\ Placed => OnePlace
<1> SUFFICES ASSUME TypeOK, Placed, NEW f \in Fetches
             PROVE  CopiesIn(req_in, f) + CopiesIn(req_out, f) + CopiesIn(rep_in, f)
                      + CopiesIn(rep_out, f) + Cardinality({m \in Mems : f \in held[m]}) <= 1
  BY DEF OnePlace, CopiesIn
<1> DEFINE N == 0 .. total_nodes - 1
           Is(buffers) == \E n \in N : f \in ReqP!DataOf(buffers[n])
           IsHeld == \E m \in Mems : f \in held[m]
<1>1. /\ req_in \in [N -> Seq(ReqP!Packet)] /\ req_out \in [N -> Seq(ReqP!Packet)]
      /\ rep_in \in [N -> Seq(RepP!Packet)] /\ rep_out \in [N -> Seq(RepP!Packet)]
  BY SameTypes DEF TypeOK, ReqP!TypeOK, RepP!TypeOK, ReqP!Nodes, RepP!Nodes
<1>2. /\ \A n \in N : ReqP!OnceIn(req_in[n]) /\ ReqP!OnceIn(req_out[n])
      /\ \A m, n \in N :
           /\ m # n => ReqP!DataOf(req_in[m]) \intersect ReqP!DataOf(req_in[n]) = {}
           /\ m # n => ReqP!DataOf(req_out[m]) \intersect ReqP!DataOf(req_out[n]) = {}
           /\ ReqP!DataOf(req_in[m]) \intersect ReqP!DataOf(req_out[n]) = {}
  BY DEF Placed, ReqP!Apart, ReqP!Nodes
<1>3. /\ \A n \in N : ReqP!OnceIn(rep_in[n]) /\ ReqP!OnceIn(rep_out[n])
      /\ \A m, n \in N :
           /\ m # n => ReqP!DataOf(rep_in[m]) \intersect ReqP!DataOf(rep_in[n]) = {}
           /\ m # n => ReqP!DataOf(rep_out[m]) \intersect ReqP!DataOf(rep_out[n]) = {}
           /\ ReqP!DataOf(rep_in[m]) \intersect ReqP!DataOf(rep_out[n]) = {}
  BY DEF Placed, RepP!Apart, RepP!Nodes, ReqP!OnceIn, RepP!OnceIn, ReqP!DataOf, RepP!DataOf
<1>4. /\ Is(req_in) \/ Is(req_out) <=> f \in ReqP!Holding
      /\ Is(rep_in) \/ Is(rep_out) <=> f \in RepP!Holding
  BY DEF ReqP!Holding, RepP!Holding, ReqP!Nodes, RepP!Nodes, ReqP!DataOf, RepP!DataOf
<1>5. /\ ~(f \in ReqP!Holding /\ f \in RepP!Holding)
      /\ ~(IsHeld /\ f \in ReqP!Holding) /\ ~(IsHeld /\ f \in RepP!Holding)
      /\ \A m, n \in {k \in Mems : f \in held[k]} : m = n
  <2> HIDE DEF Is
  <2> QED
    BY DEF Placed, Separate
<1>6. ~(Is(req_in) /\ Is(req_out)) /\ ~(Is(rep_in) /\ Is(rep_out))
  BY <1>2, <1>3
<1>7. /\ CopiesIn(req_in, f) \in {0, 1} /\ CopiesIn(req_out, f) \in {0, 1}
      /\ ~Is(req_in) => CopiesIn(req_in, f) = 0
      /\ ~Is(req_out) => CopiesIn(req_out, f) = 0
  BY <1>1, <1>2, OneCopy
<1>8. /\ CopiesIn(rep_in, f) \in {0, 1} /\ CopiesIn(rep_out, f) \in {0, 1}
      /\ ~Is(rep_in) => CopiesIn(rep_in, f) = 0
      /\ ~Is(rep_out) => CopiesIn(rep_out, f) = 0
  BY <1>1, <1>3, OneCopy
<1>9. /\ Cardinality({m \in Mems : f \in held[m]}) \in {0, 1}
      /\ ~IsHeld => Cardinality({m \in Mems : f \in held[m]}) = 0
  <2> DEFINE H == {m \in Mems : f \in held[m]}
  <2>1. (\A m, n \in H : m = n) /\ (~IsHeld => H = {})
    BY <1>5
  <2> HIDE DEF H, IsHeld
  <2>2. Cardinality(H) \in {0, 1} /\ (~IsHeld => Cardinality(H) = 0)
    BY <2>1, OneAtMost
  <2> QED
    BY <2>2 DEF H
<1> DEFINE a == CopiesIn(req_in, f)
           b == CopiesIn(req_out, f)
           c == CopiesIn(rep_in, f)
           d == CopiesIn(rep_out, f)
           e == Cardinality({m \in Mems : f \in held[m]})
<1>10. /\ a \in {0, 1} /\ b \in {0, 1} /\ c \in {0, 1} /\ d \in {0, 1} /\ e \in {0, 1}
       /\ ~Is(req_in) => a = 0
       /\ ~Is(req_out) => b = 0
       /\ ~Is(rep_in) => c = 0
       /\ ~Is(rep_out) => d = 0
       /\ ~IsHeld => e = 0
  BY <1>7, <1>8, <1>9
<1> HIDE DEF Is, IsHeld, a, b, c, d, e
<1>11. a + b + c + d + e <= 1
  <2>1. CASE ~IsHeld /\ ~Is(req_in) /\ ~Is(req_out)
    BY <1>6, <1>10, <2>1
  <2>2. CASE ~IsHeld /\ ~Is(rep_in) /\ ~Is(rep_out)
    BY <1>6, <1>10, <2>2
  <2>3. CASE ~Is(req_in) /\ ~Is(req_out) /\ ~Is(rep_in) /\ ~Is(rep_out)
    BY <1>10, <2>3
  <2> QED
    BY <1>4, <1>5, <2>1, <2>2, <2>3
<1> QED
  BY <1>11 DEF a, b, c, d, e

LEMMA PlacedInit == Init => Placed
<1> SUFFICES ASSUME Init PROVE Placed
  OBVIOUS
<1>1. Len(<< >>) = 0
  OBVIOUS
<1>2. /\ \A n \in ReqP!Nodes : req_in[n] = << >> /\ req_out[n] = << >>
      /\ \A n \in RepP!Nodes : rep_in[n] = << >> /\ rep_out[n] = << >>
      /\ \A m \in Mems : held[m] = {}
  BY DEF Init, Req!Init, Rep!Init, Req!Nodes, Rep!Nodes, ReqP!Nodes, RepP!Nodes
<1>3. ReqP!DataOf(<< >>) = {} /\ RepP!DataOf(<< >>) = {}
  BY <1>1 DEF ReqP!DataOf, RepP!DataOf
<1>4. ReqP!Apart /\ ReqP!Holding = {}
  BY <1>1, <1>2, <1>3 DEF ReqP!Apart, ReqP!Holding, ReqP!OnceIn
<1>5. RepP!Apart /\ RepP!Holding = {}
  BY <1>1, <1>2, <1>3 DEF RepP!Apart, RepP!Holding, RepP!OnceIn
<1> QED
  BY <1>2, <1>4, <1>5 DEF Placed, Separate

(* A fetch is in one place at most, for any number of SMs, slices and      *)
(* fetches: the networks and the slices hand it on and never keep it, and  *)
(* an SM sends only what is nowhere below it (crossbar.cpp:49-114,         *)
(* cache.cpp:353-404).                                                     *)
THEOREM OnePlaceCorrect == Spec => []OnePlace
<1>1. Init => Inv /\ Placed
  BY InvInit, PlacedInit
<1>2. Inv /\ Placed /\ [Next]_vars => Inv' /\ Placed'
  BY InvStep, PlacedStep DEF Inv
<1>3. Inv /\ Placed => OnePlace
  BY PlacedImplies DEF Inv
<1> QED
  BY <1>1, <1>2, <1>3, PTL DEF Spec

----
(***************************************************************************)
(* The decoding of addresses, for every address, number of channels and    *)
(* number of SMs.                                                          *)
(***************************************************************************)

(* Quotient and remainder, in the form the provers use.                    *)
LEMMA Division ==
    ASSUME NEW x \in Nat, NEW d \in Nat \ {0}
    PROVE  /\ x \div d \in Nat /\ x % d \in 0 .. d - 1
           /\ x = d * (x \div d) + (x % d)
BY SMT

(* The channel and the address within it are numbers.                      *)
LEMMA DecodeTypes ==
    ASSUME NEW x \in Nat
    PROVE  /\ chip(x) \in 0 .. m_n_channel - 1
           /\ rest_of_addr(x) \in Nat
<1>1. x \div Chunk \in Nat /\ x % Chunk \in Nat
  BY SMT DEF Chunk
<1>2. m_n_channel \in Nat \ {0}
  BY DecodeAssumption DEF DecodeAssumption
<1>3. chip(x) \in 0 .. m_n_channel - 1
  BY <1>1, <1>2, Division DEF chip
<1>4. (x \div Chunk) \div m_n_channel \in Nat
  BY <1>1, <1>2, Division
<1>5. rest_of_addr(x) \in Nat
  BY <1>1, <1>4, SMT DEF rest_of_addr, Chunk
<1>. QED BY <1>3, <1>5

(* The bit of the address within the channel that picks the slice is bit 7 *)
(* of the address itself.                                                  *)
LEMMA SliceBit ==
    ASSUME NEW x \in Nat
    PROVE  bk(x) % PARTITION_PER_CHANNEL = (x \div 128) % 2
<1>. DEFINE q == (x \div Chunk) \div m_n_channel
            rest == rest_of_addr(x)
<1>1. q \in Nat
  BY Division, DecodeAssumption, SMT DEF Chunk, DecodeAssumption
<1>2. rest = q * 1024 + (x % 1024)
  BY DEF rest_of_addr, Chunk
<1>. HIDE DEF q, rest
<1>3. (rest \div 128) % 2 = (x \div 128) % 2
  BY <1>1, <1>2, SMTT(30)
<1>4. rest \in Nat
  BY <1>1, <1>2, SMT
<1>5. bk(x) = ((rest \div 128) % 2) + 2 * ((rest \div 4096) % 8)
  BY DEF bk, rest
<1>6. bk(x) % 2 = (rest \div 128) % 2
  BY <1>4, <1>5, SMT
<1>. QED BY <1>3, <1>6 DEF PARTITION_PER_CHANNEL

(* get_mem_sub_partition_id (mem_fetch.cpp:34) names the node of an L2     *)
(* slice, two for every channel, after those of the SMs: a request is      *)
(* never sent to an SM or to a node that does not exist.                   *)
THEOREM SliceInRange ==
    \A x \in Nat :
       get_mem_sub_partition_id(x) \in sm_num .. sm_num + 2 * m_n_channel - 1
<1>. TAKE x \in Nat
<1>. DEFINE c == chip(x)
            s == bk(x) % 2
<1>1. c \in 0 .. m_n_channel - 1
  BY DecodeTypes
<1>2. s \in 0 .. 1
  BY SliceBit, SMT DEF PARTITION_PER_CHANNEL
<1>3. get_mem_sub_partition_id(x) = c * 2 + s + sm_num
  BY DEF get_mem_sub_partition_id, PARTITION_PER_CHANNEL
<1>4. m_n_channel \in Nat /\ sm_num \in Nat
  BY DecodeAssumption DEF DecodeAssumption
<1>. HIDE DEF c, s
<1>. QED BY <1>1, <1>2, <1>3, <1>4, SMT

(* All the sectors of a line have one slice, because the slice is picked   *)
(* by the chunk and by bit 7, and neither changes within 128 bytes: the    *)
(* merging of reads and the state of a line (cache.cpp) rely on it.        *)
THEOREM LineInOneSlice ==
    \A x, y \in Nat : block_addr(x) = block_addr(y) =>
       get_mem_sub_partition_id(x) = get_mem_sub_partition_id(y)
<1>. SUFFICES ASSUME NEW x \in Nat, NEW y \in Nat, block_addr(x) = block_addr(y)
              PROVE  get_mem_sub_partition_id(x) = get_mem_sub_partition_id(y)
  OBVIOUS
<1>1. x - (x % 128) = y - (y % 128)
  BY DEF block_addr, m_line_size
<1>2. x \div 1024 = y \div 1024
  BY <1>1, SMTT(30)
<1>3. (x \div 128) % 2 = (y \div 128) % 2
  BY <1>1, SMTT(30)
<1>4. chip(x) = chip(y)
  BY <1>2 DEF chip, Chunk
<1>5. bk(x) % PARTITION_PER_CHANNEL = bk(y) % PARTITION_PER_CHANNEL
  BY <1>3, SliceBit
<1>. QED BY <1>4, <1>5 DEF get_mem_sub_partition_id

(* The channel and the address within it determine the address: dropping   *)
(* the channel number from an address (mem_fetch.cpp:54-57) lets no two    *)
(* addresses of a channel coincide.                                        *)
THEOREM ChannelAddressUnique ==
    \A x, y \in Nat :
       chip(x) = chip(y) /\ rest_of_addr(x) = rest_of_addr(y) => x = y
<1>. SUFFICES ASSUME NEW x \in Nat, NEW y \in Nat,
                     chip(x) = chip(y), rest_of_addr(x) = rest_of_addr(y)
              PROVE  x = y
  OBVIOUS
<1>. DEFINE n == m_n_channel
            u == x \div 1024
            v == y \div 1024
            p == u \div n
            q == v \div n
<1>1. n \in Nat \ {0}
  BY DecodeAssumption DEF DecodeAssumption
<1>2. u \in Nat /\ v \in Nat
  BY SMT
<1>. HIDE DEF u, v, n
<1>3. p \in Nat /\ q \in Nat /\ u = n * p + (u % n) /\ v = n * q + (v % n)
  BY <1>1, <1>2, Division
<1>4. u % n = v % n
  BY DEF chip, Chunk, u, v, n
<1>5. p * 1024 + (x % 1024) = q * 1024 + (y % 1024)
  BY DEF rest_of_addr, Chunk, u, v, n
<1>6. x % 1024 \in 0 .. 1023 /\ y % 1024 \in 0 .. 1023
  BY SMT
<1>7. x = 1024 * u + (x % 1024) /\ y = 1024 * v + (y % 1024)
  BY SMT DEF u, v
<1>. HIDE DEF p, q
<1>8. p = q /\ x % 1024 = y % 1024
  BY <1>3, <1>5, <1>6, SMT
<1>9. u = v
  BY <1>3, <1>4, <1>8
<1>. QED BY <1>7, <1>8, <1>9

(* An access is coalesced into the sector it lies in: read_mem's line and  *)
(* sector number give one of the four banks of the L1, and the address the *)
(* mem_fetch makes of them is that of its MSHR entry, under which a reply  *)
(* looks for the fetches that wait (gpu.cpp:299) although they were filed  *)
(* under mshr_addr (cache.cpp:285).                                        *)
THEOREM SectorOfAccess ==
    \A x \in Nat :
       LET sector == m_sector_address(cache_line_addr(x), sector_mask(x))
       IN  /\ sector_mask(x) \in 0 .. 3
           /\ sector = mshr_addr(x)
           /\ sector = mshr_addr(sector)
           /\ block_addr(sector) = cache_line_addr(x)
<1>. TAKE x \in Nat
<1>. DEFINE line == (x \div 128) * 128
            k == (x - line) \div 32
            sector == line + k * 32
<1>1. line \in Nat /\ line <= x /\ x - line < 128 /\ line % 128 = 0
  BY SMT
<1>2. k \in 0 .. 3
  BY <1>1, SMT
<1>3. sector = x - (x % 32)
  BY <1>1, SMTT(30)
<1>4. sector \in Nat /\ sector % 32 = 0 /\ sector - (sector % 128) = line
  BY <1>1, <1>2, SMTT(30)
<1>. HIDE DEF sector
<1>5. sector = sector - (sector % 32)
  BY <1>4, SMT
<1>6. /\ cache_line_addr(x) = line
      /\ sector_mask(x) = k
      /\ m_sector_address(cache_line_addr(x), sector_mask(x)) = sector
  BY DEF cache_line_addr, sector_mask, m_sector_address, m_line_size, SECTOR_SIZE, sector
<1>. QED BY <1>2, <1>3, <1>4, <1>5, <1>6 DEF mshr_addr, block_addr, m_line_size, SECTOR_SIZE

----
(* A count of flips is a number.                                           *)
LEMMA FlipsType ==
    ASSUME NEW x, NEW k \in 0 .. 5
    PROVE  Flips(x, k) \in Nat
<1>. DEFINE S == {i \in taps[k + 1] : (x \div 2 ^ i) % 2 = 1}
<1>1. taps[k + 1] \subseteq 0 .. 18
  BY SMT DEF taps
<1>2. IsFiniteSet(0 .. 18)
  <2>1. 0 \in Int /\ 18 \in Int
    OBVIOUS
  <2>. QED BY <2>1, FS_Interval
<1>3. S \subseteq 0 .. 18
  BY <1>1
<1>4. IsFiniteSet(S)
  BY <1>2, <1>3, FS_Subset
<1>. QED BY <1>4, FS_CardinalityType DEF Flips

(* Flipping does not mix up the values of a bit.                           *)
LEMMA SameBit ==
    ASSUME NEW f \in Nat, NEW i \in Nat, NEW j \in Nat, (f + i) % 2 = (f + j) % 2
    PROVE  i % 2 = j % 2
BY SMT

(* Six bits make a number below 64, and determine it.                      *)
LEMMA SixBits ==
    ASSUME NEW i \in 0 .. 63
    PROVE  i = (i % 2) + 2 * ((i \div 2) % 2) + 4 * ((i \div 4) % 2) + 8 * ((i \div 8) % 2)
               + 16 * ((i \div 16) % 2) + 32 * ((i \div 32) % 2)
BY SMTT(60)

LEMMA BitsOfSum ==
    ASSUME NEW a0 \in 0 .. 1, NEW a1 \in 0 .. 1, NEW a2 \in 0 .. 1,
           NEW a3 \in 0 .. 1, NEW a4 \in 0 .. 1, NEW a5 \in 0 .. 1,
           NEW c0 \in 0 .. 1, NEW c1 \in 0 .. 1, NEW c2 \in 0 .. 1,
           NEW c3 \in 0 .. 1, NEW c4 \in 0 .. 1, NEW c5 \in 0 .. 1,
           a0 + 2 * a1 + 4 * a2 + 8 * a3 + 16 * a4 + 32 * a5
              = c0 + 2 * c1 + 4 * c2 + 8 * c3 + 16 * c4 + 32 * c5
    PROVE  a0 = c0 /\ a1 = c1 /\ a2 = c2 /\ a3 = c3 /\ a4 = c4 /\ a5 = c5
BY SMTT(60)

(* HASH_IPOLY_FUNCTION permutes the sets: two lines that agree above the   *)
(* index share a set only if they are one line, so the hash of set_index   *)
(* (cache.h:150) spreads 64 consecutive lines over the 64 sets, as         *)
(* LINEAR_SET_FUNCTION does.                                               *)
THEOREM SetsSeparateLines ==
    \A x, y \in Nat : higher_bits(x) = higher_bits(y) =>
       /\ set_index(x) \in 0 .. 63
       /\ set_index(x) = set_index(y) <=> block_addr(x) = block_addr(y)
       /\ linear_set_index(x, 64) = linear_set_index(y, 64) <=> block_addr(x) = block_addr(y)
<1>. SUFFICES ASSUME NEW x \in Nat, NEW y \in Nat, higher_bits(x) = higher_bits(y)
              PROVE  /\ set_index(x) \in 0 .. 63
                     /\ set_index(x) = set_index(y) <=> block_addr(x) = block_addr(y)
                     /\ linear_set_index(x, 64) = linear_set_index(y, 64)
                          <=> block_addr(x) = block_addr(y)
  OBVIOUS
<1>. DEFINE h == higher_bits(x)
            i == index(x)
            j == index(y)
<1>1. i \in 0 .. 63 /\ j \in 0 .. 63
  BY SMT DEF index, m_line_size, m_n_sets
<1>2. x \div 8192 = y \div 8192
  BY SMT DEF higher_bits, m_line_size, m_n_sets
<1>3. i = j <=> block_addr(x) = block_addr(y)
  BY <1>2, SMTT(60) DEF index, block_addr, m_line_size, m_n_sets
<1>4. linear_set_index(x, 64) = i /\ linear_set_index(y, 64) = j
  BY DEF linear_set_index, index, m_n_sets
<1>5. /\ set_index(x) = ((Flips(h, 0) + (i \div 1)) % 2) + 2 * ((Flips(h, 1) + (i \div 2)) % 2)
            + 4 * ((Flips(h, 2) + (i \div 4)) % 2) + 8 * ((Flips(h, 3) + (i \div 8)) % 2)
            + 16 * ((Flips(h, 4) + (i \div 16)) % 2) + 32 * ((Flips(h, 5) + (i \div 32)) % 2)
      /\ set_index(y) = ((Flips(h, 0) + (j \div 1)) % 2) + 2 * ((Flips(h, 1) + (j \div 2)) % 2)
            + 4 * ((Flips(h, 2) + (j \div 4)) % 2) + 8 * ((Flips(h, 3) + (j \div 8)) % 2)
            + 16 * ((Flips(h, 4) + (j \div 16)) % 2) + 32 * ((Flips(h, 5) + (j \div 32)) % 2)
  BY DEF set_index, new_index
<1>6. /\ Flips(h, 0) \in Nat /\ Flips(h, 1) \in Nat /\ Flips(h, 2) \in Nat
      /\ Flips(h, 3) \in Nat /\ Flips(h, 4) \in Nat /\ Flips(h, 5) \in Nat
  BY FlipsType
<1>. HIDE DEF h, i, j
<1>7. /\ i \div 1 = i /\ i \div 1 \in Nat /\ i \div 2 \in Nat /\ i \div 4 \in Nat
      /\ i \div 8 \in Nat /\ i \div 16 \in Nat /\ i \div 32 \in Nat
      /\ j \div 1 = j /\ j \div 1 \in Nat /\ j \div 2 \in Nat /\ j \div 4 \in Nat
      /\ j \div 8 \in Nat /\ j \div 16 \in Nat /\ j \div 32 \in Nat
  BY <1>1, SMT
<1>8. \A f, g \in Nat : (f + g) % 2 \in 0 .. 1
  BY SMT
<1>9. set_index(x) \in 0 .. 63
  <2>. DEFINE b0 == (Flips(h, 0) + (i \div 1)) % 2
              b1 == (Flips(h, 1) + (i \div 2)) % 2
              b2 == (Flips(h, 2) + (i \div 4)) % 2
              b3 == (Flips(h, 3) + (i \div 8)) % 2
              b4 == (Flips(h, 4) + (i \div 16)) % 2
              b5 == (Flips(h, 5) + (i \div 32)) % 2
  <2>1. /\ b0 \in 0 .. 1 /\ b1 \in 0 .. 1 /\ b2 \in 0 .. 1
        /\ b3 \in 0 .. 1 /\ b4 \in 0 .. 1 /\ b5 \in 0 .. 1
    BY <1>6, <1>7, <1>8
  <2>2. set_index(x) = b0 + 2 * b1 + 4 * b2 + 8 * b3 + 16 * b4 + 32 * b5
    BY <1>5
  <2>. HIDE DEF b0, b1, b2, b3, b4, b5
  <2>. QED BY <2>1, <2>2, SMT
<1>10. ASSUME set_index(x) = set_index(y)
       PROVE  i = j
  <2>1. /\ (Flips(h, 0) + (i \div 1)) % 2 = (Flips(h, 0) + (j \div 1)) % 2
        /\ (Flips(h, 1) + (i \div 2)) % 2 = (Flips(h, 1) + (j \div 2)) % 2
        /\ (Flips(h, 2) + (i \div 4)) % 2 = (Flips(h, 2) + (j \div 4)) % 2
        /\ (Flips(h, 3) + (i \div 8)) % 2 = (Flips(h, 3) + (j \div 8)) % 2
        /\ (Flips(h, 4) + (i \div 16)) % 2 = (Flips(h, 4) + (j \div 16)) % 2
        /\ (Flips(h, 5) + (i \div 32)) % 2 = (Flips(h, 5) + (j \div 32)) % 2
    <3>. DEFINE F(k, v) == (Flips(h, k) + v) % 2
    <3>1. /\ F(0, i \div 1) \in 0 .. 1 /\ F(1, i \div 2) \in 0 .. 1 /\ F(2, i \div 4) \in 0 .. 1
          /\ F(3, i \div 8) \in 0 .. 1 /\ F(4, i \div 16) \in 0 .. 1 /\ F(5, i \div 32) \in 0 .. 1
          /\ F(0, j \div 1) \in 0 .. 1 /\ F(1, j \div 2) \in 0 .. 1 /\ F(2, j \div 4) \in 0 .. 1
          /\ F(3, j \div 8) \in 0 .. 1 /\ F(4, j \div 16) \in 0 .. 1 /\ F(5, j \div 32) \in 0 .. 1
      BY <1>6, <1>7, <1>8
    <3>2. F(0, i \div 1) + 2 * F(1, i \div 2) + 4 * F(2, i \div 4) + 8 * F(3, i \div 8)
             + 16 * F(4, i \div 16) + 32 * F(5, i \div 32)
          = F(0, j \div 1) + 2 * F(1, j \div 2) + 4 * F(2, j \div 4) + 8 * F(3, j \div 8)
             + 16 * F(4, j \div 16) + 32 * F(5, j \div 32)
      BY <1>5, <1>10
    <3>. HIDE DEF F
    <3>3. /\ F(0, i \div 1) = F(0, j \div 1) /\ F(1, i \div 2) = F(1, j \div 2)
          /\ F(2, i \div 4) = F(2, j \div 4) /\ F(3, i \div 8) = F(3, j \div 8)
          /\ F(4, i \div 16) = F(4, j \div 16) /\ F(5, i \div 32) = F(5, j \div 32)
      BY <3>1, <3>2, BitsOfSum
    <3>. QED BY <3>3 DEF F
  <2>2. /\ (i \div 1) % 2 = (j \div 1) % 2 /\ (i \div 2) % 2 = (j \div 2) % 2
        /\ (i \div 4) % 2 = (j \div 4) % 2 /\ (i \div 8) % 2 = (j \div 8) % 2
        /\ (i \div 16) % 2 = (j \div 16) % 2 /\ (i \div 32) % 2 = (j \div 32) % 2
    <3>2. (i \div 1) % 2 = (j \div 1) % 2
      BY <2>1, <1>6, <1>7, SameBit
    <3>3. (i \div 2) % 2 = (j \div 2) % 2
      <4>. DEFINE f == Flips(h, 1)
                  a == i \div 2
                  c == j \div 2
      <4>1. (f + a) % 2 = (f + c) % 2
        BY <2>1
      <4>2. f \in Nat /\ a \in Nat /\ c \in Nat
        BY <1>6, <1>7
      <4>. HIDE DEF f, a, c
      <4>3. a % 2 = c % 2
        BY <4>1, <4>2, SameBit
      <4>. QED BY <4>3 DEF a, c
    <3>4. (i \div 4) % 2 = (j \div 4) % 2
      <4>. DEFINE f == Flips(h, 2)
                  a == i \div 4
                  c == j \div 4
      <4>1. (f + a) % 2 = (f + c) % 2
        BY <2>1
      <4>2. f \in Nat /\ a \in Nat /\ c \in Nat
        BY <1>6, <1>7
      <4>. HIDE DEF f, a, c
      <4>3. a % 2 = c % 2
        BY <4>1, <4>2, SameBit
      <4>. QED BY <4>3 DEF a, c
    <3>5. (i \div 8) % 2 = (j \div 8) % 2
      <4>. DEFINE f == Flips(h, 3)
                  a == i \div 8
                  c == j \div 8
      <4>1. (f + a) % 2 = (f + c) % 2
        BY <2>1
      <4>2. f \in Nat /\ a \in Nat /\ c \in Nat
        BY <1>6, <1>7
      <4>. HIDE DEF f, a, c
      <4>3. a % 2 = c % 2
        BY <4>1, <4>2, SameBit
      <4>. QED BY <4>3 DEF a, c
    <3>6. (i \div 16) % 2 = (j \div 16) % 2
      <4>. DEFINE f == Flips(h, 4)
                  a == i \div 16
                  c == j \div 16
      <4>1. (f + a) % 2 = (f + c) % 2
        BY <2>1
      <4>2. f \in Nat /\ a \in Nat /\ c \in Nat
        BY <1>6, <1>7
      <4>. HIDE DEF f, a, c
      <4>3. a % 2 = c % 2
        BY <4>1, <4>2, SameBit
      <4>. QED BY <4>3 DEF a, c
    <3>7. (i \div 32) % 2 = (j \div 32) % 2
      <4>. DEFINE f == Flips(h, 5)
                  a == i \div 32
                  c == j \div 32
      <4>1. (f + a) % 2 = (f + c) % 2
        BY <2>1
      <4>2. f \in Nat /\ a \in Nat /\ c \in Nat
        BY <1>6, <1>7
      <4>. HIDE DEF f, a, c
      <4>3. a % 2 = c % 2
        BY <4>1, <4>2, SameBit
      <4>. QED BY <4>3 DEF a, c
    <3>. QED BY <3>2, <3>3, <3>4, <3>5, <3>6, <3>7
  <2>. QED BY <2>2, <1>1, <1>7, SixBits
<1>11. ASSUME i = j
       PROVE  set_index(x) = set_index(y)
  BY <1>5, <1>11
<1>. QED BY <1>3, <1>4, <1>9, <1>10, <1>11

----
(***************************************************************************)
(* The slices that the decoding chooses.                                   *)
(***************************************************************************)

(* Every request is addressed to the slice of its fetch, waits at that     *)
(* slice only, and what a slice holds is its own: the three together are   *)
(* what Pop and the handing on of a fetch keep.                            *)
Addressed ==
    /\ \A p \in ReqP!Packets : p.output_deviceID = MemOf[p.data]
    /\ ReqP!RightPort
    /\ \A m \in Mems : \A f \in held[m] : MemOf[f] = m

(* What the two sides do to the request network, the router may do in its  *)
(* own environment: an SM asks HasBuffer before it pushes.                 *)
LEMMA ReqIsRouter ==
    ASSUME TypeOK, [Next]_vars
    PROVE  [ReqP!Next]_(ReqP!vars)
<1>1. ASSUME NEW m \in Mems, Req!Pop(m) PROVE ReqP!Next
  BY <1>1, SamePops DEF ReqP!Next
<1>2. ASSUME NEW s \in Shaders, NEW f \in Fetches, Req!Has_Buffer_In(s), SmOf[f] = s,
             Req!Push(s, Packet(f, MemOf[f]))
      PROVE  ReqP!Next
  <2>1. Packet(f, MemOf[f]) \in ReqP!Packet /\ Packet(f, MemOf[f]).data = f
    BY PacketTypes DEF Packet
  <2>2. ReqP!Push(s, Packet(f, MemOf[f])) /\ ReqP!Has_Buffer_In(s)
    BY <1>2, SamePushes DEF Req!Has_Buffer_In, ReqP!Has_Buffer_In
  <2>3. ReqP!PushSome(s, Packet(f, MemOf[f]))
    BY <1>2, <2>1, <2>2 DEF ReqP!PushSome, ReqP!MayPush
  <2> QED
    BY <2>1, <2>3 DEF ReqP!Next
<1>3. CASE Req!RR_Advance
  BY <1>3, SameAdvances DEF ReqP!Next
<1>4. CASE UNCHANGED req_vars
  BY <1>4 DEF req_vars, ReqP!vars
<1> QED
  BY <1>1, <1>2, <1>3, <1>4, ReqSteps

LEMMA AddressedStep == TypeOK /\ Placed /\ Addressed /\ [Next]_vars => Addressed'
<1> SUFFICES ASSUME TypeOK, Placed, Addressed, [Next]_vars PROVE Addressed'
  OBVIOUS
<1>0. /\ ReqP!Apart /\ RepP!Apart /\ ReqP!RightPort
      /\ \A p \in ReqP!Packets : p.output_deviceID = MemOf[p.data]
      /\ \A m \in Mems : \A f \in held[m] : MemOf[f] = m
      /\ held \in [Mems -> SUBSET Fetches]
  BY DEF Placed, Addressed, TypeOK
<1>1. ReqP!RightPort'
  BY <1>0, SameTypes, Routers, ReqIsRouter, ReqP!RightPortStep DEF TypeOK
<1>2. ASSUME NEW m \in Mems, L2Receive(m) PROVE Addressed'
  <2>1. ReqP!Packets' \subseteq ReqP!Packets
    BY <1>0, <1>2, ReceiveMoves
  <2>2. \/ held' = held
        \/ \E p \in ReqP!Packets :
              /\ 1 \in 1 .. Len(req_out[m]) /\ p = req_out[m][1]
              /\ held' = [held EXCEPT ![m] = @ \union {p.data}]
    BY <1>0, <1>2, ReceiveMoves
  <2>3. CASE held' = held
    BY <1>0, <1>1, <2>1, <2>3 DEF Addressed
  <2>4. ASSUME NEW p \in ReqP!Packets, 1 \in 1 .. Len(req_out[m]), p = req_out[m][1],
               held' = [held EXCEPT ![m] = @ \union {p.data}]
        PROVE  Addressed'
    <3>1. p.output_deviceID = m
      BY <1>0, <2>4, Sides DEF ReqP!RightPort
    <3>2. MemOf[p.data] = m
      BY <1>0, <3>1
    <3>3. \A n \in Mems : \A f \in held'[n] : MemOf[f] = n
      BY <1>0, <2>4, <3>2
    <3> QED
      BY <1>0, <1>1, <2>1, <3>3 DEF Addressed
  <2> QED
    BY <2>2, <2>3, <2>4
<1>3. ASSUME NEW m \in Mems, NEW f \in Fetches, L2Reply(m, f) PROVE Addressed'
  <2>1. UNCHANGED req_vars
    BY <1>3, Sides DEF L2Reply, IcntPush
  <2>2. ReqP!Packets' = ReqP!Packets /\ held' = [held EXCEPT ![m] = @ \ {f}]
    BY <1>3, <2>1, ReqStays DEF L2Reply
  <2> QED
    BY <1>0, <1>1, <2>2 DEF Addressed
<1>4. ASSUME NEW m \in Mems, NEW f \in Fetches, L2Absorb(m, f) PROVE Addressed'
  <2>1. ReqP!Packets' = ReqP!Packets /\ held' = [held EXCEPT ![m] = @ \ {f}]
    BY <1>4, ReqStays DEF L2Absorb
  <2> QED
    BY <1>0, <1>1, <2>1 DEF Addressed
<1>5. CASE Advance
  <2>1. ReqP!Packets' = ReqP!Packets /\ held' = held
    BY <1>0, <1>5, AdvanceMoves DEF Advance
  <2> QED
    BY <1>0, <1>1, <2>1 DEF Addressed
<1>6. ASSUME NEW s \in Shaders, SmCycle(s) PROVE Addressed'
  <2>1. \/ ReqP!Packets' = ReqP!Packets
        \/ \E f \in Fetches : ReqP!Packets' = ReqP!Packets \union {Packet(f, MemOf[f])}
    BY <1>0, <1>6, SmSends
  <2>2. \A f : Packet(f, MemOf[f]).output_deviceID = MemOf[Packet(f, MemOf[f]).data]
    BY DEF Packet
  <2>3. held' = held
    BY <1>6 DEF SmCycle
  <2> QED
    BY <1>0, <1>1, <2>1, <2>2, <2>3 DEF Addressed
<1>7. CASE UNCHANGED vars
  <2>1. ReqP!Packets' = ReqP!Packets /\ held' = held
    BY <1>7, ReqStays DEF vars
  <2> QED
    BY <1>0, <1>1, <2>1 DEF Addressed
<1> QED
  BY <1>2, <1>3, <1>4, <1>5, <1>6, <1>7 DEF Next

LEMMA AddressedInit == Init => Addressed
<1> SUFFICES ASSUME Init PROVE Addressed
  OBVIOUS
<1>1. /\ \A n \in ReqP!Nodes : req_in[n] = << >> /\ req_out[n] = << >>
      /\ \A m \in Mems : held[m] = {}
  BY DEF Init, Req!Init, Req!Nodes, ReqP!Nodes
<1>2. ReqP!Range(<< >>) = {} /\ Len(<< >>) = 0
  BY DEF ReqP!Range
<1>3. ReqP!Packets = {}
  BY <1>1, <1>2 DEF ReqP!Packets
<1>4. ReqP!RightPort
  BY <1>1, <1>2 DEF ReqP!RightPort
<1> QED
  BY <1>1, <1>3, <1>4 DEF Addressed

LEMMA SectorIsNat ==
    ASSUME NEW f \in Fetches
    PROVE  SectorOf(f) \in Nat
<1>1. access[f] \in Nat
  BY AddressedAssumption
<1>2. SectorOf(f) = mshr_addr(access[f])
  BY <1>1, SectorOfAccess DEF SectorOf
<1> QED
  BY <1>1, <1>2, SMT DEF mshr_addr, SECTOR_SIZE

(* All that is under way for a line is at one slice, for any access of any *)
(* SM, any number of channels and any order of events: the decoding        *)
(* (mem_fetch.cpp:34-63) sends a line to one slice, and the network        *)
(* (crossbar.cpp:72-114) hands nothing to another.                         *)
THEOREM LinesMeet == Spec => []LineAtOneSlice
<1>1. Init => Inv /\ Placed /\ Addressed
  BY InvInit, PlacedInit, AddressedInit
<1>2. Inv /\ Placed /\ Addressed /\ [Next]_vars => Inv' /\ Placed' /\ Addressed'
  BY InvStep, PlacedStep, AddressedStep DEF Inv
<1>3. Inv /\ Addressed => LineAtOneSlice
  <2> SUFFICES ASSUME Inv, Addressed, NEW m \in Mems, NEW n \in Mems,
                      NEW f \in held[m], NEW g \in held[n],
                      block_addr(SectorOf(f)) = block_addr(SectorOf(g))
               PROVE  m = n
    BY DEF LineAtOneSlice
  <2>1. f \in Fetches /\ g \in Fetches
    BY DEF Inv, TypeOK
  <2>2. MemOf[f] = m /\ MemOf[g] = n
    BY DEF Addressed
  <2>3. get_mem_sub_partition_id(SectorOf(f)) = get_mem_sub_partition_id(SectorOf(g))
    BY <2>1, SectorIsNat, LineInOneSlice
  <2>4. MemOf[f] = get_mem_sub_partition_id(SectorOf(f))
        /\ MemOf[g] = get_mem_sub_partition_id(SectorOf(g))
    BY <2>1, AddressedAssumption
  <2> QED
    BY <2>2, <2>3, <2>4
<1> QED
  BY <1>1, <1>2, <1>3, PTL DEF Spec
=============================================================================
