-------------------------- MODULE XbarRouterProofs --------------------------
(***************************************************************************)
(* What holds of a crossbar router for any number of nodes, any limits and *)
(* any use of Push, Pop and Advance.                                       *)
(***************************************************************************)
EXTENDS XbarRouter, SubsequencesProofs

(* RightPort and WithinLimits speak of the buffers' lengths and contents,  *)
(* so both need the types; together the three are inductive.               *)
Inv == TypeOK /\ RightPort /\ WithinLimits

(* Taking the oldest packet never makes a buffer longer.                   *)
LEMMA TailIsShorter ==
    ASSUME NEW S, NEW s \in Seq(S), s # << >>
    PROVE  Len(Tail(s)) < Len(s)
<1>1. Len(Tail(s)) = Len(s) - 1
  BY HeadTailProperties
<1>2. Len(s) \in Nat
  BY LenProperties
<1> QED
  BY <1>1, <1>2

(* The node that wins an output has a packet for it, and the output room:  *)
(* the CHOOSE of RR_Advance picks such a node.                             *)
LEMMA WinnerRequests ==
    ASSUME NEW o \in Nodes, \E n \in Nodes : Granted(n, o), TypeOK
    PROVE  LET w == CHOOSE n \in Nodes : Granted(n, o)
           IN  /\ w \in Nodes
               /\ in_buffers[w] # << >>
               /\ Head(in_buffers[w]) \in Packet
               /\ Head(in_buffers[w]).output_deviceID = o
               /\ Len(out_buffers[o]) + 1 <= out_buffer_limit
<1> DEFINE w == CHOOSE n \in Nodes : Granted(n, o)
<1>1. w \in Nodes /\ Granted(w, o)
  OBVIOUS
<1>2. in_buffers[w] \in Seq(Packet)
  BY <1>1 DEF TypeOK
<1>3. /\ in_buffers[w] # << >>
      /\ Head(in_buffers[w]).output_deviceID = o
      /\ Len(out_buffers[o]) + 1 <= out_buffer_limit
  BY <1>1 DEF Granted, Requests, Has_Buffer_Out
<1>4. Head(in_buffers[w]) \in Packet
  BY <1>2, <1>3
<1> QED
  BY <1>1, <1>3, <1>4

(* Every operation keeps the buffers well typed (crossbar.cpp:49-114).     *)
LEMMA PushTypes ==
    ASSUME TypeOK, NEW n \in Nodes, NEW packet \in Packet, Push(n, packet)
    PROVE  TypeOK'
  BY DEF TypeOK, Push

LEMMA PopTypes ==
    ASSUME TypeOK, NEW n \in Nodes, Pop(n)
    PROVE  TypeOK'
<1>1. out_buffers[n] \in Seq(Packet)
  BY DEF TypeOK
<1>2. (IF out_buffers[n] = << >> THEN out_buffers[n] ELSE Tail(out_buffers[n])) \in Seq(Packet)
  BY <1>1
<1> QED
  BY <1>2 DEF TypeOK, Pop

LEMMA AdvanceTypes ==
    ASSUME TypeOK, RR_Advance
    PROVE  TypeOK'
<1> USE RouterAssumption
<1>1. in_buffers' \in [Nodes -> Seq(Packet)]
  <2>1. ASSUME NEW n \in Nodes
        PROVE  (IF \E o \in OutNodes : Granted(n, o) THEN Tail(in_buffers[n])
                                                     ELSE in_buffers[n]) \in Seq(Packet)
    BY DEF TypeOK, Granted, Requests
  <2> QED
    BY <2>1 DEF RR_Advance
<1>2. out_buffers' \in [Nodes -> Seq(Packet)]
  <2>1. ASSUME NEW o \in Nodes
        PROVE  (IF \E n \in Nodes : Granted(n, o)
                THEN Append(out_buffers[o],
                            Head(in_buffers[CHOOSE n \in Nodes : Granted(n, o)]))
                ELSE out_buffers[o]) \in Seq(Packet)
    <3>1. out_buffers[o] \in Seq(Packet)
      BY DEF TypeOK
    <3>2. CASE \E n \in Nodes : Granted(n, o)
      BY <3>1, <3>2, WinnerRequests
    <3> QED
      BY <3>1, <3>2
  <2> QED
    BY <2>1 DEF RR_Advance
<1>3. next_node_id' \in Nodes
  BY DEF RR_Advance, NextNode, Nodes, TypeOK
<1> QED
  BY <1>1, <1>2, <1>3 DEF TypeOK

LEMMA TypeStep == TypeOK /\ [Next]_vars => TypeOK'
<1> SUFFICES ASSUME TypeOK, [Next]_vars PROVE TypeOK'
  OBVIOUS
<1>1. ASSUME NEW n \in InNodes, NEW packet \in Packet, PushSome(n, packet)
      PROVE  TypeOK'
  BY <1>1, RouterAssumption, PushTypes DEF PushSome
<1>2. ASSUME NEW n \in OutNodes, Pop(n)
      PROVE  TypeOK'
  BY <1>2, RouterAssumption, PopTypes
<1>3. CASE RR_Advance
  BY <1>3, AdvanceTypes
<1>4. CASE UNCHANGED vars
  BY <1>4 DEF TypeOK, vars
<1> QED
  BY <1>1, <1>2, <1>3, <1>4 DEF Next

(* Only RR_Advance fills output buffers, and only with packets addressed   *)
(* to their owner.                                                         *)
LEMMA RightPortStep == TypeOK /\ RightPort /\ [Next]_vars => RightPort'
<1> SUFFICES ASSUME TypeOK, RightPort, [Next]_vars,
                    NEW o \in Nodes, NEW i \in 1 .. Len(out_buffers'[o])
             PROVE  out_buffers'[o][i].output_deviceID = o
  BY DEF RightPort
<1> USE RouterAssumption
<1>0. out_buffers[o] \in Seq(Packet)
  BY DEF TypeOK
<1>1. ASSUME NEW n \in OutNodes, Pop(n)
      PROVE  out_buffers'[o][i].output_deviceID = o
  <2>1. CASE o = n /\ out_buffers[o] # << >>
    <3>1. out_buffers'[o] = Tail(out_buffers[o])
      BY <1>1, <2>1 DEF Pop, TypeOK
    <3>2. i + 1 \in 1 .. Len(out_buffers[o]) /\ out_buffers'[o][i] = out_buffers[o][i + 1]
      BY <1>0, <2>1, <3>1
    <3> QED
      BY <3>2 DEF RightPort
  <2>2. CASE ~(o = n /\ out_buffers[o] # << >>)
    BY <1>1, <2>2 DEF Pop, TypeOK, RightPort
  <2> QED
    BY <2>1, <2>2
<1>2. ASSUME RR_Advance
      PROVE  out_buffers'[o][i].output_deviceID = o
  <2>1. CASE \E n \in Nodes : Granted(n, o)
    <3> DEFINE w == CHOOSE n \in Nodes : Granted(n, o)
    <3>1. out_buffers'[o] = Append(out_buffers[o], Head(in_buffers[w]))
      BY <1>2, <2>1 DEF RR_Advance
    <3>2. Head(in_buffers[w]).output_deviceID = o /\ Head(in_buffers[w]) \in Packet
      BY <2>1, WinnerRequests
    <3> HIDE DEF w
    <3>3. CASE i \in 1 .. Len(out_buffers[o])
      BY <1>0, <3>1, <3>3 DEF RightPort
    <3>4. CASE i = Len(out_buffers[o]) + 1
      BY <1>0, <3>1, <3>2, <3>4
    <3> QED
      BY <1>0, <3>1, <3>2, <3>3, <3>4
  <2>2. CASE ~ \E n \in Nodes : Granted(n, o)
    BY <1>2, <2>2 DEF RR_Advance, RightPort
  <2> QED
    BY <2>1, <2>2
<1>3. CASE out_buffers' = out_buffers
  BY <1>3 DEF RightPort
<1> QED
  BY <1>1, <1>2, <1>3 DEF Next, vars, PushSome, Push

(* Has_Buffer_Out guards every push into an output buffer; Has_Buffer_In   *)
(* guards the pushes of the nodes in Asking.                               *)
LEMMA LimitsStep == TypeOK /\ WithinLimits /\ [Next]_vars => WithinLimits'
<1> SUFFICES ASSUME TypeOK, WithinLimits, [Next]_vars PROVE WithinLimits'
  OBVIOUS
<1> USE RouterAssumption
<1>1. ASSUME NEW n \in InNodes, NEW packet \in Packet, PushSome(n, packet)
      PROVE  WithinLimits'
  <2>1. ASSUME NEW m \in Asking PROVE Len(in_buffers'[m]) <= in_buffer_limit
    <3>1. in_buffers[m] \in Seq(Packet)
      BY DEF TypeOK
    <3>2. CASE m = n
      BY <1>1, <3>1, <3>2 DEF PushSome, Push, MayPush, Has_Buffer_In, TypeOK
    <3>3. CASE m # n
      BY <1>1, <3>3 DEF PushSome, Push, TypeOK, WithinLimits
    <3> QED
      BY <3>2, <3>3
  <2> QED
    BY <1>1, <2>1 DEF PushSome, Push, WithinLimits
<1>2. ASSUME NEW n \in OutNodes, Pop(n)
      PROVE  WithinLimits'
  <2>1. ASSUME NEW o \in Nodes PROVE Len(out_buffers'[o]) <= out_buffer_limit
    <3>1. out_buffers[o] \in Seq(Packet) /\ Len(out_buffers[o]) <= out_buffer_limit
      BY DEF TypeOK, WithinLimits
    <3>2. \/ out_buffers'[o] = out_buffers[o]
          \/ out_buffers[o] # << >> /\ out_buffers'[o] = Tail(out_buffers[o])
      BY <1>2 DEF Pop, TypeOK
    <3>3. CASE out_buffers[o] # << >> /\ out_buffers'[o] = Tail(out_buffers[o])
      <4>1. Len(out_buffers'[o]) < Len(out_buffers[o])
        BY <3>1, <3>3, TailIsShorter
      <4>2. Len(out_buffers'[o]) \in Nat /\ Len(out_buffers[o]) \in Nat
        BY <3>1, <3>3
      <4> QED
        BY <3>1, <4>1, <4>2
    <3> QED
      BY <3>1, <3>2, <3>3
  <2> QED
    BY <1>2, <2>1 DEF Pop, WithinLimits
<1>3. ASSUME RR_Advance
      PROVE  WithinLimits'
  <2>1. ASSUME NEW o \in Nodes PROVE Len(out_buffers'[o]) <= out_buffer_limit
    <3>1. out_buffers[o] \in Seq(Packet) /\ Len(out_buffers[o]) <= out_buffer_limit
      BY DEF TypeOK, WithinLimits
    <3>2. CASE \E n \in Nodes : Granted(n, o)
      <4>1. Len(out_buffers[o]) + 1 <= out_buffer_limit
        BY <3>2, WinnerRequests
      <4> QED
        BY <1>3, <3>1, <3>2, <4>1 DEF RR_Advance
    <3> QED
      BY <1>3, <3>1, <3>2 DEF RR_Advance
  <2>2. ASSUME NEW n \in Asking PROVE Len(in_buffers'[n]) <= in_buffer_limit
    <3>1. in_buffers[n] \in Seq(Packet) /\ Len(in_buffers[n]) <= in_buffer_limit
      BY DEF TypeOK, WithinLimits
    <3>2. \/ in_buffers'[n] = in_buffers[n]
          \/ in_buffers[n] # << >> /\ in_buffers'[n] = Tail(in_buffers[n])
      BY <1>3 DEF RR_Advance, Granted, Requests
    <3>3. CASE in_buffers[n] # << >> /\ in_buffers'[n] = Tail(in_buffers[n])
      <4>1. Len(in_buffers'[n]) < Len(in_buffers[n])
        BY <3>1, <3>3, TailIsShorter
      <4>2. Len(in_buffers'[n]) \in Nat /\ Len(in_buffers[n]) \in Nat
        BY <3>1, <3>3
      <4> QED
        BY <3>1, <4>1, <4>2
    <3> QED
      BY <3>1, <3>2, <3>3
  <2> QED
    BY <2>1, <2>2 DEF WithinLimits
<1>4. CASE UNCHANGED vars
  BY <1>4 DEF WithinLimits, vars
<1> QED
  BY <1>1, <1>2, <1>3, <1>4 DEF Next

----
(***************************************************************************)
(* Where the payloads are.  A router that is given none twice never has    *)
(* one twice, and gives it back once.                                      *)
(***************************************************************************)
DataOf(s) == {s[i].data : i \in 1 .. Len(s)}
OnceIn(s) == \A i, j \in 1 .. Len(s) : s[i].data = s[j].data => i = j

Packets == UNION {Range(in_buffers[n]) \union Range(out_buffers[n]) : n \in Nodes}
Holding == UNION {DataOf(in_buffers[n]) \union DataOf(out_buffers[n]) : n \in Nodes}

(* No payload is in two buffers, or twice in one.                          *)
Apart ==
    /\ \A n \in Nodes : OnceIn(in_buffers[n]) /\ OnceIn(out_buffers[n])
    /\ \A m, n \in Nodes :
          /\ m # n => DataOf(in_buffers[m]) \intersect DataOf(in_buffers[n]) = {}
          /\ m # n => DataOf(out_buffers[m]) \intersect DataOf(out_buffers[n]) = {}
          /\ DataOf(in_buffers[m]) \intersect DataOf(out_buffers[n]) = {}

LEMMA AppendData ==
    ASSUME NEW s \in Seq(Packet), NEW p \in Packet
    PROVE  /\ DataOf(Append(s, p)) = DataOf(s) \union {p.data}
           /\ Range(Append(s, p)) = Range(s) \union {p}
           /\ OnceIn(s) /\ p.data \notin DataOf(s) => OnceIn(Append(s, p))
<1>1. /\ Len(s) \in Nat /\ Len(Append(s, p)) = Len(s) + 1
      /\ DOMAIN s = 1 .. Len(s) /\ DOMAIN Append(s, p) = 1 .. Len(s) + 1
      /\ \A i \in 1 .. Len(s) : Append(s, p)[i] = s[i]
      /\ Append(s, p)[Len(s) + 1] = p
  BY AppendProperties, LenProperties
<1>2. 1 .. Len(s) + 1 = (1 .. Len(s)) \union {Len(s) + 1}
  BY <1>1
<1>3. ASSUME NEW y PROVE y \in DataOf(Append(s, p)) <=> y \in DataOf(s) \/ y = p.data
  <2>1. y \in DataOf(Append(s, p)) <=> \E i \in 1 .. Len(s) + 1 : Append(s, p)[i].data = y
    BY <1>1 DEF DataOf
  <2>2. y \in DataOf(s) <=> \E i \in 1 .. Len(s) : s[i].data = y
    BY DEF DataOf
  <2> QED
    BY <1>1, <1>2, <2>1, <2>2
<1>4. ASSUME NEW y PROVE y \in Range(Append(s, p)) <=> y \in Range(s) \/ y = p
  <2>1. y \in Range(Append(s, p)) <=> \E i \in 1 .. Len(s) + 1 : Append(s, p)[i] = y
    BY <1>1 DEF Range
  <2>2. y \in Range(s) <=> \E i \in 1 .. Len(s) : s[i] = y
    BY <1>1 DEF Range
  <2> QED
    BY <1>1, <1>2, <2>1, <2>2
<1>5. OnceIn(s) /\ p.data \notin DataOf(s) => OnceIn(Append(s, p))
  BY <1>1 DEF OnceIn, DataOf
<1> QED
  BY <1>3, <1>4, <1>5

LEMMA TailData ==
    ASSUME NEW s \in Seq(Packet), s # << >>, OnceIn(s)
    PROVE  /\ Head(s) \in Packet /\ Head(s) \in Range(s) /\ Head(s).data \in DataOf(s)
           /\ Tail(s) \in Seq(Packet)
           /\ DataOf(Tail(s)) = DataOf(s) \ {Head(s).data}
           /\ Range(Tail(s)) = Range(s) \ {Head(s)}
           /\ OnceIn(Tail(s))
<1>1. /\ Len(s) \in Nat /\ Len(s) >= 1 /\ DOMAIN s = 1 .. Len(s) /\ Head(s) = s[1]
      /\ Head(s) \in Packet
      /\ Tail(s) \in Seq(Packet) /\ Len(Tail(s)) = Len(s) - 1
      /\ \A i \in 1 .. Len(s) - 1 : Tail(s)[i] = s[i + 1]
      /\ DOMAIN Tail(s) = 1 .. Len(s) - 1
  BY HeadTailProperties, LenProperties, EmptySeq
<1>2. /\ \A i \in 1 .. Len(s) - 1 : i + 1 \in 2 .. Len(s)
      /\ \A j \in 2 .. Len(s) : j - 1 \in 1 .. Len(s) - 1 /\ (j - 1) + 1 = j
      /\ \A j \in 1 .. Len(s) : j = 1 \/ j \in 2 .. Len(s)
      /\ \A j \in 2 .. Len(s) : j \in 1 .. Len(s) /\ j # 1
      /\ 1 \in 1 .. Len(s)
  BY <1>1
<1>3. \A j \in 2 .. Len(s) : s[j].data # s[1].data
  BY <1>2 DEF OnceIn
<1>4. ASSUME NEW y PROVE y \in DataOf(Tail(s)) <=> y \in DataOf(s) /\ y # s[1].data
  <2>1. y \in DataOf(Tail(s)) <=> \E i \in 1 .. Len(s) - 1 : s[i + 1].data = y
    BY <1>1 DEF DataOf
  <2>2. y \in DataOf(Tail(s)) <=> \E j \in 2 .. Len(s) : s[j].data = y
    BY <1>2, <2>1
  <2>3. y \in DataOf(s) <=> y = s[1].data \/ \E j \in 2 .. Len(s) : s[j].data = y
    BY <1>2 DEF DataOf
  <2> QED
    BY <1>3, <2>2, <2>3
<1>5. ASSUME NEW y PROVE y \in Range(Tail(s)) <=> y \in Range(s) /\ y # s[1]
  <2>1. y \in Range(Tail(s)) <=> \E i \in 1 .. Len(s) - 1 : s[i + 1] = y
    BY <1>1 DEF Range
  <2>2. y \in Range(Tail(s)) <=> \E j \in 2 .. Len(s) : s[j] = y
    BY <1>2, <2>1
  <2>3. y \in Range(s) <=> y = s[1] \/ \E j \in 2 .. Len(s) : s[j] = y
    BY <1>1, <1>2 DEF Range
  <2> QED
    BY <1>3, <2>2, <2>3
<1>6. OnceIn(Tail(s))
  BY <1>1, <1>2 DEF OnceIn
<1>7. Head(s) \in Range(s) /\ Head(s).data \in DataOf(s)
  BY <1>1, <1>2 DEF Range, DataOf
<1> QED
  BY <1>1, <1>4, <1>5, <1>6, <1>7

LEMMA Members ==
    ASSUME NEW y
    PROVE  /\ y \in Packets <=>
                 \E n \in Nodes : y \in Range(in_buffers[n]) \/ y \in Range(out_buffers[n])
           /\ y \in Packets' <=>
                 \E n \in Nodes : y \in Range(in_buffers'[n]) \/ y \in Range(out_buffers'[n])
           /\ y \in Holding <=>
                 \E n \in Nodes : y \in DataOf(in_buffers[n]) \/ y \in DataOf(out_buffers[n])
           /\ y \in Holding' <=>
                 \E n \in Nodes : y \in DataOf(in_buffers'[n]) \/ y \in DataOf(out_buffers'[n])
  BY DEF Packets, Holding

LEMMA PushApart ==
    ASSUME TypeOK, Apart, NEW n \in Nodes, NEW packet \in Packet, Push(n, packet),
           packet.data \notin Holding
    PROVE  /\ Apart' /\ Holding' = Holding \union {packet.data}
           /\ Packets' = Packets \union {packet}
<1>1. /\ in_buffers[n] \in Seq(Packet) /\ OnceIn(in_buffers[n])
      /\ packet.data \notin DataOf(in_buffers[n])
  BY DEF TypeOK, Apart, Holding
<1>2. /\ in_buffers'[n] = Append(in_buffers[n], packet)
      /\ \A m \in Nodes : m # n => in_buffers'[m] = in_buffers[m]
      /\ out_buffers' = out_buffers
  BY DEF Push, TypeOK
<1>3. /\ DataOf(in_buffers'[n]) = DataOf(in_buffers[n]) \union {packet.data}
      /\ Range(in_buffers'[n]) = Range(in_buffers[n]) \union {packet}
      /\ OnceIn(in_buffers'[n])
  BY <1>1, <1>2, AppendData
<1>4. \A m \in Nodes :
        packet.data \notin DataOf(in_buffers[m]) /\ packet.data \notin DataOf(out_buffers[m])
  BY DEF Holding
<1> DEFINE d == packet.data
<1>5. \A m \in Nodes :
        /\ DataOf(in_buffers'[m]) = IF m = n THEN DataOf(in_buffers[m]) \union {d}
                                             ELSE DataOf(in_buffers[m])
        /\ Range(in_buffers'[m]) = IF m = n THEN Range(in_buffers[m]) \union {packet}
                                            ELSE Range(in_buffers[m])
        /\ DataOf(out_buffers'[m]) = DataOf(out_buffers[m])
        /\ Range(out_buffers'[m]) = Range(out_buffers[m])
        /\ OnceIn(in_buffers'[m]) /\ OnceIn(out_buffers'[m])
  BY <1>2, <1>3 DEF Apart
<1>6. \A m \in Nodes : d \notin DataOf(in_buffers[m]) /\ d \notin DataOf(out_buffers[m])
  BY <1>4
<1> HIDE DEF d
<1>7. Apart'
  BY <1>5, <1>6 DEF Apart
<1>8. Holding' = Holding \union {d}
  <2>1. ASSUME NEW y PROVE y \in Holding' <=> y \in Holding \/ y = d
    BY <1>5, Members
  <2> QED
    BY <2>1
<1>9. Packets' = Packets \union {packet}
  <2>1. ASSUME NEW y PROVE y \in Packets' <=> y \in Packets \/ y = packet
    BY <1>5, Members
  <2> QED
    BY <2>1
<1> QED
  BY <1>7, <1>8, <1>9 DEF d

LEMMA PopApart ==
    ASSUME TypeOK, Apart, NEW n \in Nodes, Pop(n), out_buffers[n] # << >>
    PROVE  /\ Apart' /\ Packets' \subseteq Packets
           /\ Head(out_buffers[n]) \in Packets
           /\ Head(out_buffers[n]).data \in Holding
           /\ Holding' = Holding \ {Head(out_buffers[n]).data}
<1> DEFINE h == Head(out_buffers[n])
<1>1. out_buffers[n] \in Seq(Packet) /\ OnceIn(out_buffers[n])
  BY DEF TypeOK, Apart
<1>2. /\ out_buffers'[n] = Tail(out_buffers[n])
      /\ \A m \in Nodes : m # n => out_buffers'[m] = out_buffers[m]
      /\ in_buffers' = in_buffers
  BY DEF Pop, TypeOK
<1>3. /\ h \in Range(out_buffers[n]) /\ h.data \in DataOf(out_buffers[n])
      /\ DataOf(out_buffers'[n]) = DataOf(out_buffers[n]) \ {h.data}
      /\ Range(out_buffers'[n]) = Range(out_buffers[n]) \ {h}
      /\ OnceIn(out_buffers'[n])
  BY <1>1, <1>2, TailData
<1> HIDE DEF h
<1>4. Apart'
  BY <1>2, <1>3 DEF Apart
<1>5. Packets' \subseteq Packets /\ h \in Packets
  BY <1>2, <1>3 DEF Packets
<1>6. h.data \in Holding
  BY <1>3 DEF Holding
<1>7. \A m \in Nodes : /\ h.data \notin DataOf(in_buffers[m])
                       /\ m # n => h.data \notin DataOf(out_buffers[m])
  BY <1>3 DEF Apart
<1>8. Holding' = Holding \ {h.data}
  BY <1>2, <1>3, <1>7 DEF Holding
<1> QED
  BY <1>4, <1>5, <1>6, <1>8 DEF h

LEMMA PopNothing ==
    ASSUME TypeOK, NEW n \in Nodes, Pop(n), out_buffers[n] = << >>
    PROVE  UNCHANGED vars
<1>1. out_buffers' = out_buffers
  BY DEF Pop, TypeOK
<1> QED
  BY <1>1 DEF Pop, vars

----
(* One node wins an output, and a node wins one output only.               *)
LEMMA OneWinner ==
    ASSUME TypeOK, NEW m \in Nodes, NEW n \in Nodes, NEW o, Granted(m, o), Granted(n, o)
    PROVE  m = n
<1>1. ASSUME m # n PROVE FALSE
  <2>1. Turn(m) < Turn(n) /\ Turn(n) < Turn(m)
    BY <1>1 DEF Granted
  <2>2. Turn(m) \in Int /\ Turn(n) \in Int
    BY RouterAssumption DEF Turn, Nodes, TypeOK
  <2> QED
    BY <2>1, <2>2
<1> QED
  BY <1>1

(* p leaves the input buffer of n for the output buffer of o.              *)
Crosses(p, n, o) == Granted(n, o) /\ p = Head(in_buffers[n])

LEMMA CrossFacts ==
    ASSUME TypeOK, Apart, NEW n \in Nodes, NEW o, NEW p, Crosses(p, n, o)
    PROVE  /\ p \in Packet /\ p.output_deviceID = o /\ o \in OutNodes /\ o \in Nodes
           /\ in_buffers[n] # << >> /\ in_buffers[n] \in Seq(Packet)
           /\ p \in Range(in_buffers[n]) /\ p.data \in DataOf(in_buffers[n])
<1>1. /\ in_buffers[n] \in Seq(Packet) /\ OnceIn(in_buffers[n]) /\ in_buffers[n] # << >>
      /\ p = Head(in_buffers[n]) /\ p.output_deviceID = o
  BY DEF TypeOK, Apart, Crosses, Granted, Requests
<1>2. p \in Packet /\ p \in Range(in_buffers[n]) /\ p.data \in DataOf(in_buffers[n])
  BY <1>1, TailData
<1>3. o \in OutNodes
  BY <1>1, <1>2 DEF Packet
<1> QED
  BY <1>1, <1>2, <1>3, RouterAssumption

LEMMA AdvanceIn ==
    ASSUME TypeOK, Apart, RR_Advance, NEW n \in Nodes
    PROVE  /\ OnceIn(in_buffers'[n])
           /\ \A p : p \in Range(in_buffers'[n]) <=>
                        p \in Range(in_buffers[n]) /\ ~\E o \in Nodes : Crosses(p, n, o)
           /\ \A d : d \in DataOf(in_buffers'[n]) <=>
                        d \in DataOf(in_buffers[n])
                        /\ ~\E o \in Nodes, p \in Packet : Crosses(p, n, o) /\ d = p.data
<1>1. in_buffers[n] \in Seq(Packet) /\ OnceIn(in_buffers[n])
  BY DEF TypeOK, Apart
<1>2. CASE \E o \in OutNodes : Granted(n, o)
  <2> DEFINE h == Head(in_buffers[n])
  <2>1. PICK q \in OutNodes : Granted(n, q)
    BY <1>2
  <2>2. Crosses(h, n, q)
    BY <2>1 DEF Crosses
  <2>3. in_buffers[n] # << >> /\ h \in Packet /\ q \in Nodes
    BY <2>2, CrossFacts
  <2>4. in_buffers'[n] = Tail(in_buffers[n])
    BY <1>2 DEF RR_Advance
  <2>5. /\ OnceIn(in_buffers'[n])
        /\ DataOf(in_buffers'[n]) = DataOf(in_buffers[n]) \ {h.data}
        /\ Range(in_buffers'[n]) = Range(in_buffers[n]) \ {h}
    BY <1>1, <2>3, <2>4, TailData
  <2>6. \A p : (\E o \in Nodes : Crosses(p, n, o)) <=> p = h
    BY <2>2, <2>3 DEF Crosses
  <2> HIDE DEF h
  <2> QED
    BY <2>3, <2>5, <2>6
<1>3. CASE ~ \E o \in OutNodes : Granted(n, o)
  <2>1. in_buffers'[n] = in_buffers[n]
    BY <1>3 DEF RR_Advance
  <2>2. \A p, o : ~Crosses(p, n, o)
    BY <1>3, CrossFacts DEF Crosses
  <2> QED
    BY <1>1, <2>1, <2>2
<1> QED
  BY <1>2, <1>3

LEMMA AdvanceOut ==
    ASSUME TypeOK, Apart, RR_Advance, NEW o \in Nodes
    PROVE  /\ OnceIn(out_buffers'[o])
           /\ \A p : p \in Range(out_buffers'[o]) <=>
                        p \in Range(out_buffers[o]) \/ \E n \in Nodes : Crosses(p, n, o)
           /\ \A d : d \in DataOf(out_buffers'[o]) <=>
                        d \in DataOf(out_buffers[o])
                        \/ \E n \in Nodes, p \in Packet : Crosses(p, n, o) /\ d = p.data
<1>1. out_buffers[o] \in Seq(Packet) /\ OnceIn(out_buffers[o])
  BY DEF TypeOK, Apart
<1>2. CASE \E n \in Nodes : Granted(n, o)
  <2> DEFINE w == CHOOSE n \in Nodes : Granted(n, o)
             h == Head(in_buffers[w])
  <2>1. w \in Nodes /\ Granted(w, o)
    BY <1>2
  <2>2. out_buffers'[o] = Append(out_buffers[o], h)
    BY <1>2 DEF RR_Advance
  <2>3. Crosses(h, w, o)
    BY <2>1 DEF Crosses
  <2>4. \A n \in Nodes : Granted(n, o) => n = w
    BY <2>1, OneWinner
  <2>5. h = Head(in_buffers[w])
    OBVIOUS
  <2> HIDE DEF w, h
  <2>6. h \in Packet /\ h.data \in DataOf(in_buffers[w])
    BY <2>1, <2>3, CrossFacts
  <2>7. h.data \notin DataOf(out_buffers[o])
    BY <2>1, <2>6 DEF Apart
  <2>8. /\ OnceIn(out_buffers'[o])
        /\ DataOf(out_buffers'[o]) = DataOf(out_buffers[o]) \union {h.data}
        /\ Range(out_buffers'[o]) = Range(out_buffers[o]) \union {h}
    BY <1>1, <2>2, <2>6, <2>7, AppendData
  <2>9. \A p : (\E n \in Nodes : Crosses(p, n, o)) <=> p = h
    BY <2>1, <2>3, <2>4, <2>5 DEF Crosses
  <2> QED
    BY <2>6, <2>8, <2>9
<1>3. CASE ~ \E n \in Nodes : Granted(n, o)
  <2>1. out_buffers'[o] = out_buffers[o]
    BY <1>3 DEF RR_Advance
  <2>2. \A p : \A n \in Nodes : ~Crosses(p, n, o)
    BY <1>3 DEF Crosses
  <2> QED
    BY <1>1, <2>1, <2>2
<1> QED
  BY <1>2, <1>3

(* Advance moves packets and neither copies nor drops one.                 *)
LEMMA AdvanceApart ==
    ASSUME TypeOK, Apart, RR_Advance
    PROVE  Apart' /\ Holding' = Holding /\ Packets' = Packets
<1>1. ASSUME NEW p, NEW n \in Nodes, NEW o, Crosses(p, n, o)
      PROVE  /\ p \in Packet /\ o \in Nodes /\ p.output_deviceID = o
             /\ p \in Range(in_buffers[n]) /\ p.data \in DataOf(in_buffers[n])
  BY <1>1, CrossFacts
<1>2. \A n \in Nodes : OnceIn(in_buffers'[n]) /\ OnceIn(out_buffers'[n])
  BY AdvanceIn, AdvanceOut
<1>3. /\ \A n \in Nodes : \A d : d \in DataOf(in_buffers'[n]) => d \in DataOf(in_buffers[n])
      /\ \A o \in Nodes : \A d : d \in DataOf(out_buffers'[o]) =>
            \/ d \in DataOf(out_buffers[o])
            \/ \E n \in Nodes, p \in Packet : Crosses(p, n, o) /\ d = p.data
  BY AdvanceIn, AdvanceOut
<1>4. ASSUME NEW m \in Nodes, NEW n \in Nodes, m # n,
             NEW d, d \in DataOf(in_buffers'[m]), d \in DataOf(in_buffers'[n])
      PROVE  FALSE
  BY <1>3, <1>4 DEF Apart
<1>5. ASSUME NEW m \in Nodes, NEW n \in Nodes, m # n,
             NEW d, d \in DataOf(out_buffers'[m]), d \in DataOf(out_buffers'[n])
      PROVE  FALSE
  <2>1. CASE d \in DataOf(out_buffers[m]) /\ d \in DataOf(out_buffers[n])
    BY <1>5, <2>1 DEF Apart
  <2>2. ASSUME NEW k \in Nodes, NEW p \in Packet, NEW o \in Nodes, Crosses(p, k, o), d = p.data,
               NEW l \in Nodes, d \in DataOf(out_buffers[l])
        PROVE  FALSE
    BY <1>1, <2>2 DEF Apart
  <2>3. ASSUME NEW k \in Nodes, NEW p \in Packet, Crosses(p, k, m), d = p.data,
               NEW l \in Nodes, NEW q \in Packet, Crosses(q, l, n), d = q.data
        PROVE  FALSE
    <3>1. d \in DataOf(in_buffers[k]) /\ d \in DataOf(in_buffers[l])
      BY <1>1, <2>3
    <3>2. k = l
      BY <3>1 DEF Apart
    <3>3. p = q
      BY <2>3, <3>2 DEF Crosses
    <3>4. p.output_deviceID = m /\ q.output_deviceID = n
      BY <1>1, <2>3
    <3> QED
      BY <1>5, <3>3, <3>4
  <2> QED
    BY <1>3, <1>5, <2>1, <2>2, <2>3
<1>6. ASSUME NEW m \in Nodes, NEW n \in Nodes,
             NEW d, d \in DataOf(in_buffers'[m]), d \in DataOf(out_buffers'[n])
      PROVE  FALSE
  <2>1. d \in DataOf(in_buffers[m])
    BY <1>3, <1>6
  <2>2. CASE d \in DataOf(out_buffers[n])
    BY <2>1, <2>2 DEF Apart
  <2>3. ASSUME NEW k \in Nodes, NEW p \in Packet, Crosses(p, k, n), d = p.data PROVE FALSE
    <3>1. d \in DataOf(in_buffers[k])
      BY <1>1, <2>3
    <3>2. k = m
      BY <2>1, <3>1 DEF Apart
    <3> QED
      BY <1>6, <2>3, <3>2, AdvanceIn
  <2> QED
    BY <1>3, <1>6, <2>2, <2>3
<1>7. Apart'
  BY <1>2, <1>4, <1>5, <1>6 DEF Apart
<1>8. Holding' = Holding
  <2>1. ASSUME NEW d, d \in Holding' PROVE d \in Holding
    BY <1>1, <1>3, <2>1, Members
  <2>2. ASSUME NEW d, d \in Holding PROVE d \in Holding'
    <3>1. CASE \E n \in Nodes : d \in DataOf(out_buffers[n])
      BY <3>1, AdvanceOut, Members
    <3>2. ASSUME NEW n \in Nodes, d \in DataOf(in_buffers[n]) PROVE d \in Holding'
      <4>1. CASE \E o \in Nodes, p \in Packet : Crosses(p, n, o) /\ d = p.data
        BY <4>1, AdvanceOut, Members
      <4>2. CASE ~\E o \in Nodes, p \in Packet : Crosses(p, n, o) /\ d = p.data
        BY <3>2, <4>2, AdvanceIn, Members
      <4> QED
        BY <4>1, <4>2
    <3> QED
      BY <2>2, <3>1, <3>2, Members
  <2> QED
    BY <2>1, <2>2
<1>9. Packets' = Packets
  <2>1. ASSUME NEW d, d \in Packets' PROVE d \in Packets
    BY <1>1, <2>1, AdvanceIn, AdvanceOut, Members
  <2>2. ASSUME NEW d, d \in Packets PROVE d \in Packets'
    <3>1. CASE \E n \in Nodes : d \in Range(out_buffers[n])
      BY <3>1, AdvanceOut, Members
    <3>2. ASSUME NEW n \in Nodes, d \in Range(in_buffers[n]) PROVE d \in Packets'
      <4>1. CASE \E o \in Nodes : Crosses(d, n, o)
        BY <4>1, AdvanceOut, Members
      <4>2. CASE ~\E o \in Nodes : Crosses(d, n, o)
        BY <3>2, <4>2, AdvanceIn, Members
      <4> QED
        BY <4>1, <4>2
    <3> QED
      BY <2>2, <3>1, <3>2, Members
  <2> QED
    BY <2>1, <2>2
<1> QED
  BY <1>7, <1>8, <1>9

----
(* Every buffer of a router holds packets, a packet only ever waits at the *)
(* output it is addressed to, and the limits of Has_Buffer_In and          *)
(* Has_Buffer_Out hold, for any number of nodes and any limits.            *)
THEOREM RouterCorrect == Spec => [](TypeOK /\ RightPort /\ WithinLimits)
<1>1. Init => Inv
  BY RouterAssumption DEF Init, Inv, TypeOK, RightPort, WithinLimits, Nodes
<1>2. Inv /\ [Next]_vars => Inv'
  BY TypeStep, RightPortStep, LimitsStep DEF Inv
<1> QED
  BY <1>1, <1>2, PTL DEF Spec, Inv

----
(* The router is a FIFO channel for every pair of nodes.                   *)

(* A packet waits where its sender has pushed it: what crosses from node n *)
(* to o belongs to the channel from n to o.                                *)
OwnPackets ==
    \A n \in Nodes : \A i \in 1 .. Len(in_buffers[n]) : Sender[in_buffers[n][i].data] = n

LEMMA OwnStep == TypeOK /\ OwnPackets /\ [Next]_vars => OwnPackets'
<1> SUFFICES ASSUME TypeOK, OwnPackets, [Next]_vars,
                    NEW n \in Nodes, NEW i \in 1 .. Len(in_buffers'[n])
             PROVE  Sender[in_buffers'[n][i].data] = n
  BY DEF OwnPackets
<1>1. in_buffers[n] \in Seq(Packet) /\ Len(in_buffers[n]) \in Nat
  BY LenProperties DEF TypeOK
<1>2. \A j \in 1 .. Len(in_buffers[n]) : Sender[in_buffers[n][j].data] = n
  BY DEF OwnPackets
<1>3. ASSUME NEW m \in InNodes, NEW packet \in Packet, PushSome(m, packet)
      PROVE  Sender[in_buffers'[n][i].data] = n
  <2>1. in_buffers'[n] = IF n = m THEN Append(in_buffers[n], packet) ELSE in_buffers[n]
    BY <1>3 DEF PushSome, Push, TypeOK
  <2>2. CASE n = m
    <3>1. /\ Len(in_buffers'[n]) = Len(in_buffers[n]) + 1
          /\ in_buffers'[n][Len(in_buffers[n]) + 1] = packet
          /\ \A j \in 1 .. Len(in_buffers[n]) : in_buffers'[n][j] = in_buffers[n][j]
      BY <1>1, <2>1, <2>2, AppendProperties
    <3>2. Sender[packet.data] = n
      BY <1>3, <2>2 DEF PushSome
    <3>3. i \in 1 .. Len(in_buffers[n]) \/ i = Len(in_buffers[n]) + 1
      BY <1>1, <3>1
    <3>. QED BY <1>2, <3>1, <3>2, <3>3
  <2>. QED BY <1>2, <2>1, <2>2
<1>4. ASSUME NEW m \in OutNodes, Pop(m)
      PROVE  Sender[in_buffers'[n][i].data] = n
  BY <1>2, <1>4 DEF Pop
<1>5. ASSUME RR_Advance
      PROVE  Sender[in_buffers'[n][i].data] = n
  <2>1. CASE in_buffers'[n] = in_buffers[n]
    BY <1>2, <2>1
  <2>2. CASE in_buffers[n] # << >> /\ in_buffers'[n] = Tail(in_buffers[n])
    <3>1. /\ Len(in_buffers'[n]) = Len(in_buffers[n]) - 1
          /\ \A j \in 1 .. Len(in_buffers'[n]) : in_buffers'[n][j] = in_buffers[n][j + 1]
      BY <1>1, <2>2, HeadTailProperties
    <3>2. i + 1 \in 1 .. Len(in_buffers[n])
      BY <1>1, <3>1
    <3>. QED BY <1>2, <3>1, <3>2
  <2>. QED BY <1>5, <2>1, <2>2 DEF RR_Advance, Granted, Requests
<1>6. ASSUME UNCHANGED vars
      PROVE  Sender[in_buffers'[n][i].data] = n
  BY <1>2, <1>6 DEF vars
<1>. QED BY <1>3, <1>4, <1>5, <1>6 DEF Next

LEMMA BuffersOf ==
    ASSUME TypeOK, NEW s \in InNodes, NEW o \in OutNodes
    PROVE  /\ s \in Nodes /\ o \in Nodes
           /\ in_buffers[s] \in Seq(Packet) /\ out_buffers[o] \in Seq(Packet)
           /\ Selected(in_buffers[s], To(o)) \in Seq(Packet)
           /\ Selected(out_buffers[o], From(s)) \in Seq(Packet)
  BY SelectedType, RouterAssumption DEF TypeOK

(* A push is a Send of the pair it is for.                                 *)
LEMMA PushSends ==
    ASSUME TypeOK, NEW n \in InNodes, NEW packet \in Packet, PushSome(n, packet),
           NEW s \in InNodes, NEW o \in OutNodes
    PROVE  Between(s, o)' = IF s = n /\ o = packet.output_deviceID
                            THEN Append(Between(s, o), packet) ELSE Between(s, o)
<1> DEFINE crossed == Selected(out_buffers[o], From(s))
           waiting == Selected(in_buffers[s], To(o))
<1>1. /\ in_buffers[s] \in Seq(Packet) /\ crossed \in Seq(Packet) /\ waiting \in Seq(Packet)
      /\ s \in Nodes
  BY BuffersOf
<1>2. /\ out_buffers' = out_buffers
      /\ in_buffers'[s] = IF s = n THEN Append(in_buffers[s], packet) ELSE in_buffers[s]
  BY <1>1 DEF PushSome, Push, TypeOK
<1>3. packet \in To(o) <=> o = packet.output_deviceID
  BY DEF To
<1>4. Selected(in_buffers'[s], To(o)) =
        IF s = n /\ o = packet.output_deviceID THEN Append(waiting, packet) ELSE waiting
  <2>1. Selected(Append(in_buffers[s], packet), To(o)) =
           IF packet \in To(o) THEN Append(waiting, packet) ELSE waiting
    BY <1>1, SelectedAppend
  <2>. QED BY <1>2, <1>3, <2>1
<1>5. Between(s, o)' = crossed \o Selected(in_buffers'[s], To(o))
  BY <1>2 DEF Between
<1>6. crossed \o Append(waiting, packet) = Append(crossed \o waiting, packet)
  <2> HIDE DEF crossed, waiting
  <2>. QED BY <1>1
<1>. QED BY <1>4, <1>5, <1>6 DEF Between

(* A pop is a Receive of the pair of the packet's sender.                  *)
LEMMA PopReceives ==
    ASSUME TypeOK, NEW n \in OutNodes, Pop(n), out_buffers[n] # << >>,
           NEW s \in InNodes, NEW o \in OutNodes
    PROVE  IF s = Sender[Head(out_buffers[n]).data] /\ o = n
           THEN Between(s, o) # << >> /\ Between(s, o)' = Tail(Between(s, o))
           ELSE Between(s, o)' = Between(s, o)
<1> DEFINE crossed == Selected(out_buffers[o], From(s))
           waiting == Selected(in_buffers[s], To(o))
<1>1. /\ out_buffers[o] \in Seq(Packet) /\ crossed \in Seq(Packet) /\ waiting \in Seq(Packet)
      /\ o \in Nodes
  BY BuffersOf
<1>2. /\ in_buffers' = in_buffers
      /\ out_buffers'[o] = IF o = n THEN Tail(out_buffers[o]) ELSE out_buffers[o]
  BY <1>1 DEF Pop, TypeOK
<1>3. Between(s, o)' = Selected(out_buffers'[o], From(s)) \o waiting
  BY <1>2 DEF Between
<1>4. CASE o # n
  BY <1>2, <1>3, <1>4 DEF Between
<1>5. CASE o = n
  <2>1. Head(out_buffers[o]) \in Packet
    BY <1>1, <1>5, HeadTailProperties
  <2>2. Head(out_buffers[o]) \in From(s) <=> s = Sender[Head(out_buffers[n]).data]
    BY <2>1, <1>5 DEF From
  <2>3. CASE s = Sender[Head(out_buffers[n]).data]
    <3>1. crossed # << >> /\ Selected(out_buffers'[o], From(s)) = Tail(crossed)
      BY <1>1, <1>2, <1>5, <2>2, <2>3, SelectedTail
    <3>2. crossed \o waiting # << >> /\ Tail(crossed \o waiting) = Tail(crossed) \o waiting
      <4> HIDE DEF crossed, waiting
      <4>. QED BY <1>1, <3>1
    <3>. QED BY <1>3, <1>5, <2>3, <3>1, <3>2 DEF Between
  <2>4. CASE s # Sender[Head(out_buffers[n]).data]
    <3>1. Selected(out_buffers'[o], From(s)) = crossed
      BY <1>1, <1>2, <1>5, <2>2, <2>4, SelectedTail
    <3>. QED BY <1>3, <2>4, <3>1 DEF Between
  <2>. QED BY <2>3, <2>4
<1>. QED BY <1>4, <1>5

(* Advance moves the oldest waiting packet of a pair behind those that     *)
(* have crossed: nobody outside can tell.                                  *)
LEMMA AdvanceIsHidden ==
    ASSUME TypeOK, OwnPackets, RR_Advance, NEW s \in InNodes, NEW o \in OutNodes
    PROVE  Between(s, o)' = Between(s, o)
<1> DEFINE crossed == Selected(out_buffers[o], From(s))
           waiting == Selected(in_buffers[s], To(o))
           crossed2 == Selected(out_buffers'[o], From(s))
           waiting2 == Selected(in_buffers'[s], To(o))
           h == Head(in_buffers[s])
<1>1. /\ in_buffers[s] \in Seq(Packet) /\ out_buffers[o] \in Seq(Packet)
      /\ crossed \in Seq(Packet) /\ waiting \in Seq(Packet) /\ s \in Nodes /\ o \in Nodes
  BY BuffersOf
<1>2. Between(s, o) = crossed \o waiting /\ Between(s, o)' = crossed2 \o waiting2
  BY DEF Between
<1>3. CASE Granted(s, o)
  <2>1. in_buffers[s] # << >> /\ h.output_deviceID = o
    BY <1>3 DEF Granted, Requests
  <2>2. h \in Packet /\ in_buffers[s][1] = h /\ 1 \in 1 .. Len(in_buffers[s])
    BY <1>1, <2>1, HeadTailProperties, LenProperties, EmptySeq
  <2>3. h \in To(o) /\ h \in From(s)
    BY <1>1, <2>1, <2>2 DEF To, From, OwnPackets
  <2>4. in_buffers'[s] = Tail(in_buffers[s])
    BY <1>1, <1>3 DEF RR_Advance
  <2>5. (CHOOSE n \in Nodes : Granted(n, o)) = s
    BY <1>1, <1>3, OneWinner
  <2>6. out_buffers'[o] = Append(out_buffers[o], h)
    BY <1>1, <1>3, <2>5 DEF RR_Advance
  <2>7. crossed2 = Append(crossed, h)
    <3>2. \A p \in Packet : Selected(Append(out_buffers[o], p), From(s)) =
             IF p \in From(s) THEN Append(crossed, p) ELSE crossed
      <4> TAKE p \in Packet
      <4>1. out_buffers[o] \in Seq(Packet)
        BY <1>1
      <4>. QED BY ONLY <4>1, p \in Packet, SelectedAppend, Zenon
    <3> HIDE DEF h, crossed
    <3>1. Selected(Append(out_buffers[o], h), From(s)) = Append(crossed, h)
      BY <2>2, <2>3, <3>2
    <3>. QED BY <2>3, <2>6, <3>1
  <2>8. waiting # << >> /\ Head(waiting) = h /\ waiting2 = Tail(waiting)
    BY <1>1, <2>1, <2>3, <2>4, SelectedTail
  <2>9. Append(crossed, h) \o Tail(waiting) = crossed \o waiting
    <3> HIDE DEF crossed, waiting, h
    <3>1. waiting = <<h>> \o Tail(waiting)
      BY <1>1, <2>8
    <3>2. Append(crossed, h) = crossed \o <<h>>
      BY <1>1
    <3>3. Tail(waiting) \in Seq(Packet) /\ <<h>> \in Seq(Packet)
      BY <1>1, <2>2, <2>8, HeadTailProperties
    <3>. QED BY <1>1, <3>1, <3>2, <3>3, ConcatAssociative
  <2>. QED BY <1>2, <2>7, <2>8, <2>9
<1>4. CASE ~Granted(s, o)
  <2>1. crossed2 = crossed
    <3>1. CASE \E n \in Nodes : Granted(n, o)
      <4> DEFINE w == CHOOSE n \in Nodes : Granted(n, o)
                 p == Head(in_buffers[w])
      <4>1. /\ w \in Nodes /\ Granted(w, o) /\ in_buffers[w] # << >> /\ p \in Packet
        BY <1>1, <3>1, WinnerRequests
      <4>2. out_buffers'[o] = Append(out_buffers[o], p)
        BY <1>1, <3>1 DEF RR_Advance
      <4> HIDE DEF w
      <4>3. Sender[p.data] = w
        <5>1. in_buffers[w] \in Seq(Packet) /\ in_buffers[w][1] = p
              /\ 1 \in 1 .. Len(in_buffers[w])
          BY <4>1, HeadTailProperties, LenProperties, EmptySeq DEF TypeOK
        <5>. QED BY <4>1, <5>1 DEF OwnPackets
      <4>4. p \notin From(s)
        BY <1>4, <4>1, <4>3 DEF From
      <4>. QED BY <1>1, <4>1, <4>2, <4>4, SelectedAppend
    <3>2. CASE ~\E n \in Nodes : Granted(n, o)
      BY <1>1, <3>2 DEF RR_Advance
    <3>. QED BY <3>1, <3>2
  <2>2. waiting2 = waiting
    <3>1. CASE \E q \in OutNodes : Granted(s, q)
      <4>1. PICK q \in OutNodes : Granted(s, q)
        BY <3>1
      <4>2. in_buffers[s] # << >> /\ h.output_deviceID = q /\ q # o
        BY <1>4, <4>1 DEF Granted, Requests
      <4>3. in_buffers'[s] = Tail(in_buffers[s])
        BY <1>1, <3>1 DEF RR_Advance
      <4>4. h \notin To(o)
        BY <4>2 DEF To
      <4>. QED BY <1>1, <4>2, <4>3, <4>4, SelectedTail
    <3>2. CASE ~\E q \in OutNodes : Granted(s, q)
      BY <1>1, <3>2 DEF RR_Advance
    <3>. QED BY <3>1, <3>2
  <2>. QED BY <1>2, <2>1, <2>2
<1>. QED BY <1>3, <1>4

(* Every step of the router is a step of the channels or none.             *)
Bar == [pair \in InNodes \X OutNodes |-> Between(pair[1], pair[2])]

LEMMA ChannelStep == TypeOK /\ OwnPackets /\ [Next]_vars => Channels!Next \/ Bar' = Bar
<1> SUFFICES ASSUME TypeOK, OwnPackets, [Next]_vars
             PROVE  Channels!Next \/ Bar' = Bar
  OBVIOUS
<1>0. /\ Bar' = [pair \in InNodes \X OutNodes |-> Between(pair[1], pair[2])']
      /\ \A s \in InNodes, o \in OutNodes : Bar[<<s, o>>] = Between(s, o)
  BY DEF Bar
<1>1. ASSUME NEW n \in InNodes, NEW packet \in Packet, PushSome(n, packet)
      PROVE  Channels!Next
  <2> DEFINE d == packet.output_deviceID
  <2>1. d \in OutNodes
    BY DEF Packet
  <2>2. \A s \in InNodes, o \in OutNodes :
           Between(s, o)' = IF s = n /\ o = d THEN Append(Between(s, o), packet) ELSE Between(s, o)
    BY <1>1, PushSends
  <2>3. Bar' = [Bar EXCEPT ![<<n, d>>] = Append(@, packet)]
    <3> HIDE DEF d
    <3>1. \A pair \in InNodes \X OutNodes : Between(pair[1], pair[2])' =
             IF pair = <<n, d>> THEN Append(Between(pair[1], pair[2]), packet)
                                ELSE Between(pair[1], pair[2])
      BY <2>2
    <3>. QED BY <1>0, <3>1, <2>1 DEF Bar
  <2>4. Channels!Send(n, d, packet)
    BY <2>3 DEF Channels!Send, Bar
  <2>. QED BY <2>1, <2>4 DEF Channels!Next
<1>2. ASSUME NEW n \in OutNodes, Pop(n)
      PROVE  Channels!Next \/ Bar' = Bar
  <2>1. CASE out_buffers[n] = << >>
    <3>1. in_buffers' = in_buffers /\ out_buffers' = out_buffers
      BY <1>2, <2>1, RouterAssumption DEF Pop, TypeOK
    <3>. QED BY <3>1 DEF Bar, Between
  <2>2. CASE out_buffers[n] # << >>
    <3> DEFINE w == Sender[Head(out_buffers[n]).data]
    <3>1. w \in InNodes
      <4>1. out_buffers[n] \in Seq(Packet)
        BY RouterAssumption DEF TypeOK
      <4>3. Head(out_buffers[n]) \in Packet
        BY <2>2, <4>1, HeadTailProperties
      <4>2. Head(out_buffers[n]).data \in Data
        BY <4>3 DEF Packet
      <4>. QED BY <4>2, RouterAssumption
    <3>2. \A s \in InNodes, o \in OutNodes :
             IF s = w /\ o = n
             THEN Between(s, o) # << >> /\ Between(s, o)' = Tail(Between(s, o))
             ELSE Between(s, o)' = Between(s, o)
      BY <1>2, <2>2, PopReceives
    <3> HIDE DEF w
    <3>3. Bar' = [Bar EXCEPT ![<<w, n>>] = Tail(@)]
      <4>1. \A pair \in InNodes \X OutNodes : Between(pair[1], pair[2])' =
               IF pair = <<w, n>> THEN Tail(Between(pair[1], pair[2]))
                                  ELSE Between(pair[1], pair[2])
        BY <3>2
      <4>. QED BY <1>0, <4>1, <3>1 DEF Bar
    <3>4. Bar[<<w, n>>] # << >>
      BY <1>0, <3>1, <3>2
    <3>5. Channels!Receive(w, n)
      BY <3>3, <3>4 DEF Channels!Receive, Bar
    <3>. QED BY <3>1, <3>5 DEF Channels!Next
  <2>. QED BY <2>1, <2>2
<1>3. ASSUME RR_Advance
      PROVE  Bar' = Bar
  <2>1. \A s \in InNodes, o \in OutNodes : Between(s, o)' = Between(s, o)
    BY <1>3, AdvanceIsHidden
  <2>2. \A pair \in InNodes \X OutNodes : Between(pair[1], pair[2])' = Between(pair[1], pair[2])
    BY <2>1
  <2>. QED BY <1>0, <2>2 DEF Bar
<1>4. ASSUME UNCHANGED vars
      PROVE  Bar' = Bar
  BY <1>4 DEF vars, Bar, Between
<1>. QED BY <1>1, <1>2, <1>3, <1>4 DEF Next

(* Seen from outside the router is one FIFO channel per pair of nodes      *)
(* (crossbar.cpp:49-114): for any number of nodes, any limits, any use of  *)
(* Push and Pop, and whatever the rotation decides.                        *)
THEOREM ChannelsCorrect == Spec => ImplementsChannels
<1>1. Init => Channels!Init
  <2> SUFFICES ASSUME Init PROVE Bar = [pair \in InNodes \X OutNodes |-> << >>]
    BY DEF Channels!Init, Bar
  <2>1. \A s \in InNodes, o \in OutNodes : Between(s, o) = << >>
    <3> TAKE s \in InNodes, o \in OutNodes
    <3>1. in_buffers[s] = << >> /\ out_buffers[o] = << >>
      BY RouterAssumption DEF Init
    <3>2. Selected(in_buffers[s], To(o)) = << >> /\ Selected(out_buffers[o], From(s)) = << >>
      BY <3>1, SelectedNothing
    <3>3. << >> \o << >> = << >>
      BY ConcatEmptySeq, EmptySeq
    <3>. QED BY <3>2, <3>3 DEF Between
  <2>. QED BY <2>1 DEF Bar
<1>2. Init => Inv /\ OwnPackets
  BY RouterAssumption DEF Init, Inv, TypeOK, RightPort, WithinLimits, Nodes, OwnPackets
<1>3. Inv /\ OwnPackets /\ [Next]_vars => (Inv /\ OwnPackets)'
  BY TypeStep, RightPortStep, LimitsStep, OwnStep DEF Inv
<1>4. Inv /\ OwnPackets /\ [Next]_vars =>
         [Channels!Next]_[pair \in InNodes \X OutNodes |-> Between(pair[1], pair[2])]
  BY ChannelStep DEF Inv, Bar
<1>. QED BY <1>1, <1>2, <1>3, <1>4, PTL DEF Spec, ImplementsChannels, Channels!Spec

----
(* The arbitration and the loop of RR_Advance.                             *)

(* The node of iteration i.                                                *)
Looked(i) == (i - 1 + next_node_id) % total_nodes

(* A function that does what the recursion of LoopAdvance says, up to n.   *)
Unrolled(f, n) ==
    f = [i \in 0 .. n |-> IF i = 0 THEN LoopStart ELSE LoopStep(f[i - 1], Looked(i))]

LEMMA UnrolledOnce ==
    ASSUME NEW n \in Nat, NEW f, Unrolled(f, n)
    PROVE  \E g : Unrolled(g, n + 1)
<1> DEFINE g == [i \in 0 .. n + 1 |-> IF i = n + 1 THEN LoopStep(f[n], Looked(n + 1)) ELSE f[i]]
<1>1. \A i \in 0 .. n : g[i] = f[i] /\ i \in 0 .. n + 1
  OBVIOUS
<1>2. \A i \in 0 .. n : f[i] = IF i = 0 THEN LoopStart ELSE LoopStep(f[i - 1], Looked(i))
  BY DEF Unrolled
<1>3. \A i \in 0 .. n + 1 :
         g[i] = IF i = 0 THEN LoopStart ELSE LoopStep(g[i - 1], Looked(i))
  <2> TAKE i \in 0 .. n + 1
  <2>1. CASE i = n + 1
    <3>1. g[i] = LoopStep(f[n], Looked(n + 1)) /\ g[n] = f[n] /\ i # 0 /\ i - 1 = n
      BY <2>1, <1>1
    <3> HIDE DEF g
    <3>. QED BY <2>1, <3>1
  <2>2. CASE i # n + 1
    <3>1. i \in 0 .. n /\ (i # 0 => i - 1 \in 0 .. n)
      BY <2>2
    <3> HIDE DEF g
    <3>. QED BY <3>1, <1>1, <1>2
  <2>. QED BY <2>1, <2>2
<1>4. g = [i \in 0 .. n + 1 |-> g[i]]
  OBVIOUS
<1>5. Unrolled(g, n + 1)
  <2> HIDE DEF g
  <2>. QED BY <1>3, <1>4 DEF Unrolled
<1>. QED BY <1>5

LEMMA LoopUnrolls ==
    /\ LoopAdvance[0] = LoopStart
    /\ \A i \in 1 .. total_nodes : LoopAdvance[i] = LoopStep(LoopAdvance[i - 1], Looked(i))
<1>1. \A n \in Nat : \E f : Unrolled(f, n)
  <2> DEFINE S == {n \in Nat : ~\E f : Unrolled(f, n)}
  <2>1. ASSUME S # {} PROVE FALSE
    <3>1. PICK x \in S : \A y \in S : x <= y
      BY <2>1, LeastOfNats
    <3>2. Unrolled([i \in 0 .. 0 |-> LoopStart], 0)
      BY DEF Unrolled
    <3>3. x \in Nat /\ x # 0 /\ ~\E f : Unrolled(f, x)
      BY <3>1, <3>2
    <3>4. x - 1 \in Nat /\ x - 1 \notin S /\ (x - 1) + 1 = x
      BY <3>1, <3>3
    <3>5. PICK f : Unrolled(f, x - 1)
      BY <3>4
    <3>6. \E g : Unrolled(g, (x - 1) + 1)
      BY <3>4, <3>5, UnrolledOnce
    <3>. QED BY <3>3, <3>4, <3>6
  <2>. QED BY <2>1
<1>2. \E f : f = [i \in 0 .. total_nodes |->
                    IF i = 0 THEN LoopStart
                    ELSE LoopStep(f[i - 1], (i - 1 + next_node_id) % total_nodes)]
  BY <1>1, RouterAssumption DEF Unrolled, Looked
<1>3. LoopAdvance = [i \in 0 .. total_nodes |->
                       IF i = 0 THEN LoopStart
                       ELSE LoopStep(LoopAdvance[i - 1], (i - 1 + next_node_id) % total_nodes)]
  BY <1>2, Zenon DEF LoopAdvance
<1>4. total_nodes \in Nat /\ 0 \in 0 .. total_nodes
      /\ \A i \in 1 .. total_nodes : i \in 0 .. total_nodes /\ i # 0
  BY RouterAssumption
<1>. QED BY <1>3, <1>4 DEF Looked

(* The loop looks at every node once: at node n in iteration Turn(n) + 1.  *)
LEMMA TurnFacts ==
    ASSUME TypeOK
    PROVE  /\ \A n \in Nodes : Turn(n) \in Nat /\ Turn(n) < total_nodes
           /\ \A m, n \in Nodes : Turn(m) = Turn(n) => m = n
           /\ \A i \in 1 .. total_nodes : Looked(i) \in Nodes /\ Turn(Looked(i)) = i - 1
<1>1. total_nodes \in Nat \ {0} /\ next_node_id \in 0 .. total_nodes - 1
  BY RouterAssumption DEF TypeOK, Nodes
<1>2. \A n \in Nodes : Turn(n) \in Nat /\ Turn(n) < total_nodes
  BY <1>1 DEF Turn, Nodes
<1>3. \A m, n \in Nodes : Turn(m) = Turn(n) => m = n
  BY <1>1 DEF Turn, Nodes
<1>4. ASSUME NEW i \in 1 .. total_nodes
      PROVE  Looked(i) \in Nodes /\ Turn(Looked(i)) = i - 1
  <2>1. CASE i - 1 + next_node_id < total_nodes
    <3>1. Looked(i) = i - 1 + next_node_id
      BY <1>1, <2>1 DEF Looked
    <3>. QED BY <1>1, <2>1, <3>1 DEF Turn, Nodes
  <2>2. CASE i - 1 + next_node_id >= total_nodes
    <3> DEFINE d == i - 1 + next_node_id - total_nodes
    <3>1. d \in Nat /\ d < total_nodes /\ i - 1 + next_node_id = d + total_nodes
      BY <1>1, <2>2
    <3>2. (d + total_nodes) % total_nodes = d
      <4> HIDE DEF d
      <4>. QED BY <1>1, <3>1
    <3>3. Looked(i) = d
      BY <3>1, <3>2 DEF Looked
    <3>4. d < next_node_id
      BY <1>1
    <3>5. Turn(d) = d + total_nodes - next_node_id
      BY <1>1, <3>1, <3>4 DEF Turn
    <3>6. d + total_nodes - next_node_id = i - 1
      BY <1>1
    <3>7. d \in Nodes
      BY <1>1, <3>1 DEF Nodes
    <3> HIDE DEF d
    <3>. QED BY <3>3, <3>5, <3>6, <3>7
  <2>. QED BY <1>1, <2>1, <2>2
<1>. QED BY <1>2, <1>3, <1>4

(* Of those that ask for an output with room the first to be looked at is  *)
(* granted it.                                                             *)
LEMMA FirstGranted ==
    ASSUME TypeOK, NEW o, Has_Buffer_Out(o), NEW m \in Nodes, Requests(m, o)
    PROVE  \E n \in Nodes : Granted(n, o) /\ Turn(n) <= Turn(m)
<1> DEFINE S == {Turn(n) : n \in {k \in Nodes : Requests(k, o)}}
<1>1. S \subseteq Nat /\ S # {}
  BY TurnFacts
<1>2. PICK x \in S : \A y \in S : x <= y
  <2> HIDE DEF S
  <2>. QED BY <1>1, LeastOfNats
<1>3. PICK n \in Nodes : Requests(n, o) /\ x = Turn(n)
  BY <1>2
<1>4. ASSUME NEW k \in Nodes \ {n}, Requests(k, o)
      PROVE  Turn(n) < Turn(k)
  <2>1. Turn(n) <= Turn(k)
    BY <1>2, <1>3, <1>4
  <2>2. Turn(n) # Turn(k) /\ Turn(n) \in Nat /\ Turn(k) \in Nat
    BY TurnFacts
  <2>. QED BY <2>1, <2>2
<1>5. Granted(n, o)
  BY <1>3, <1>4 DEF Granted
<1>6. Turn(n) <= Turn(m)
  BY <1>2, <1>3
<1>. QED BY <1>5, <1>6

(* Node n has been looked at in the first i iterations and was granted o.  *)
Moved(n, o, i) == Turn(n) < i /\ Granted(n, o)

(* What the loop has done after i iterations.                              *)
LoopInv(i) ==
    LET L == LoopAdvance[i]
    IN  /\ L.in = [n \in Nodes |-> IF \E o \in OutNodes : Moved(n, o, i)
                                   THEN Tail(in_buffers[n]) ELSE in_buffers[n]]
        /\ L.out = [o \in Nodes |->
              IF \E n \in Nodes : Moved(n, o, i)
              THEN Append(out_buffers[o],
                          Head(in_buffers[CHOOSE n \in Nodes : Granted(n, o)]))
              ELSE out_buffers[o]]
        /\ L.issued = {o \in OutNodes : \E n \in Nodes : Moved(n, o, i)}

(* The loop gives a packet away exactly if its node is granted the output. *)
LEMMA StepDecides ==
    ASSUME TypeOK, NEW i \in 1 .. total_nodes, LoopInv(i - 1),
           NEW n, n = Looked(i), in_buffers[n] # << >>,
           NEW o, o = Head(in_buffers[n]).output_deviceID
    PROVE  LET L == LoopAdvance[i - 1]
           IN  /\ n \in Nodes /\ o \in OutNodes /\ L.in[n] = in_buffers[n]
               /\ Granted(n, o) <=> Len(L.out[o]) + 1 <= out_buffer_limit /\ o \notin L.issued
               /\ o \notin L.issued => L.out[o] = out_buffers[o]
<1> DEFINE L == LoopAdvance[i - 1]
<1>1. n \in Nodes /\ Turn(n) = i - 1 /\ ~(Turn(n) < i - 1)
  BY TurnFacts
<1>2. in_buffers[n] \in Seq(Packet) /\ Head(in_buffers[n]) \in Packet
  BY <1>1, HeadTailProperties DEF TypeOK
<1>3. o \in OutNodes /\ o \in Nodes /\ Requests(n, o)
  BY <1>2, RouterAssumption DEF Packet, Requests
<1>4. L.in[n] = in_buffers[n]
  BY <1>1 DEF LoopInv, Moved
<1>5. o \in L.issued <=> \E m \in Nodes : Moved(m, o, i - 1)
  BY <1>3 DEF LoopInv
<1>6. o \notin L.issued => L.out[o] = out_buffers[o]
  BY <1>3, <1>5 DEF LoopInv
<1>7. ASSUME Granted(n, o) PROVE o \notin L.issued
  <2>1. \A m \in Nodes : Granted(m, o) => m = n
    BY <1>1, <1>7, OneWinner
  <2>. QED BY <1>1, <1>5, <2>1 DEF Moved
<1>8. ASSUME o \notin L.issued, Has_Buffer_Out(o) PROVE Granted(n, o)
  <2>1. PICK m \in Nodes : Granted(m, o) /\ Turn(m) <= Turn(n)
    BY <1>1, <1>3, <1>8, FirstGranted
  <2>2. ~(Turn(m) < i - 1)
    BY <1>5, <1>8, <2>1 DEF Moved
  <2>3. Turn(m) \in Nat /\ Turn(m) = Turn(n)
    BY <1>1, <2>1, <2>2, TurnFacts
  <2>. QED BY <1>1, <2>1, <2>3, TurnFacts
<1>9. Granted(n, o) <=> Has_Buffer_Out(o) /\ o \notin L.issued
  BY <1>7, <1>8 DEF Granted
<1>. QED BY <1>1, <1>3, <1>4, <1>6, <1>9 DEF Has_Buffer_Out

LEMMA LoopInvStep ==
    ASSUME TypeOK, NEW i \in 1 .. total_nodes, LoopInv(i - 1)
    PROVE  LoopInv(i)
<1> DEFINE L == LoopAdvance[i - 1]  n == Looked(i)
           p == Head(L.in[n])  o == p.output_deviceID
<1>1. LoopAdvance[i] = LoopStep(L, n)
  BY LoopUnrolls
<1>2. n \in Nodes /\ Turn(n) = i - 1
  BY TurnFacts
<1>3. \A m \in Nodes : Turn(m) < i <=> Turn(m) < i - 1 \/ m = n
  <2> TAKE m \in Nodes
  <2>1. Turn(m) \in Nat /\ (Turn(m) = i - 1 <=> m = n)
    BY <1>2, TurnFacts
  <2> HIDE DEF n
  <2>. QED BY <2>1
<1>4. \A m \in Nodes : \A q : Moved(m, q, i) <=> Moved(m, q, i - 1) \/ (m = n /\ Granted(n, q))
  BY <1>3 DEF Moved
<1>5. \A q : ~Moved(n, q, i - 1)
  BY <1>2 DEF Moved
<1>6. L.in[n] = in_buffers[n]
  BY <1>2, <1>5 DEF LoopInv
<1>0. ASSUME in_buffers[n] # << >>,
             NEW q, q = Head(in_buffers[n]).output_deviceID
      PROVE  /\ q \in OutNodes
             /\ Granted(n, q) <=> Len(L.out[q]) + 1 <= out_buffer_limit /\ q \notin L.issued
             /\ q \notin L.issued => L.out[q] = out_buffers[q]
  BY <1>0, StepDecides
<1> HIDE DEF n, L
<1>7. CASE ~\E q \in OutNodes : Granted(n, q)
  <2>1. LoopStep(L, n) = L
    <3>1. CASE in_buffers[n] = << >>
      BY <1>6, <3>1 DEF LoopStep
    <3>2. CASE in_buffers[n] # << >>
      <4>1. o \in OutNodes /\ ~(Len(L.out[o]) + 1 <= out_buffer_limit /\ o \notin L.issued)
            /\ (o \notin L.issued => Len(L.out[o]) \in Nat)
        <5>1. o \in OutNodes /\ ~(Len(L.out[o]) + 1 <= out_buffer_limit /\ o \notin L.issued)
          BY <1>0, <1>6, <1>7, <3>2
        <5>2. o \notin L.issued => L.out[o] = out_buffers[o]
          BY <1>0, <1>6, <3>2
        <5>3. Len(out_buffers[o]) \in Nat
          BY <5>1, RouterAssumption, LenProperties DEF TypeOK
        <5>. QED BY <5>1, <5>2, <5>3
      <4>2. o \in L.issued \/ Len(L.out[o]) + 1 > out_buffer_limit
        BY <4>1, RouterAssumption
      <4>. QED BY <4>2 DEF LoopStep
    <3>. QED BY <3>1, <3>2
  <2>2. \A m \in Nodes :
          (\E q \in OutNodes : Moved(m, q, i)) <=> (\E q \in OutNodes : Moved(m, q, i - 1))
    BY <1>4, <1>7
  <2>3. \A q : (\E m \in Nodes : Moved(m, q, i)) <=> (\E m \in Nodes : Moved(m, q, i - 1))
    <3>1. \A q : Granted(n, q) => q \in OutNodes
      <4>1. in_buffers[n] # << >> => Head(in_buffers[n]) \in Packet
        BY <1>2, HeadTailProperties DEF TypeOK
      <4>. QED BY <4>1 DEF Granted, Requests, Packet
    <3>. QED BY <1>4, <1>7, <3>1
  <2>4. LoopAdvance[i] = L
    BY <1>1, <2>1
  <2>5. L.in = [m \in Nodes |-> IF \E q \in OutNodes : Moved(m, q, i)
                                THEN Tail(in_buffers[m]) ELSE in_buffers[m]]
    BY <2>2 DEF LoopInv, L
  <2>6. L.out = [q \in Nodes |->
              IF \E m \in Nodes : Moved(m, q, i)
              THEN Append(out_buffers[q],
                          Head(in_buffers[CHOOSE m \in Nodes : Granted(m, q)]))
              ELSE out_buffers[q]]
    BY <2>3 DEF LoopInv, L
  <2>7. L.issued = {q \in OutNodes : \E m \in Nodes : Moved(m, q, i)}
    BY <2>3 DEF LoopInv, L
  <2>. QED BY <2>4, <2>5, <2>6, <2>7 DEF LoopInv
<1>8. CASE \E q \in OutNodes : Granted(n, q)
  <2>1. in_buffers[n] # << >> /\ p = Head(in_buffers[n]) /\ Granted(n, o)
    BY <1>6, <1>8 DEF Granted, Requests
  <2>2. o \in OutNodes /\ Len(L.out[o]) + 1 <= out_buffer_limit /\ o \notin L.issued
        /\ L.out[o] = out_buffers[o]
    <3>1. o = Head(in_buffers[n]).output_deviceID
      BY <2>1
    <3> HIDE DEF o, p
    <3>. QED BY <1>0, <2>1, <3>1
  <2>3. o \in Nodes /\ Len(out_buffers[o]) \in Nat
    BY <2>2, RouterAssumption, LenProperties DEF TypeOK
  <2>4. LoopStep(L, n) = [in |-> [L.in EXCEPT ![n] = Tail(@)],
                          out |-> [L.out EXCEPT ![o] = Append(@, p)],
                          issued |-> L.issued \union {o}]
    <3>1. ~(Len(L.out[o]) + 1 > out_buffer_limit)
      BY <2>2, <2>3, RouterAssumption
    <3>. QED BY <1>6, <2>1, <2>2, <3>1 DEF LoopStep
  <2>5. (CHOOSE m \in Nodes : Granted(m, o)) = n
    BY <1>2, <2>1, OneWinner
  <2>6. \A q : Granted(n, q) <=> q = o
    BY <2>1 DEF Granted, Requests
  <2> HIDE DEF p, o
  <2>7. LoopAdvance[i].in = [m \in Nodes |-> IF \E q \in OutNodes : Moved(m, q, i)
                                             THEN Tail(in_buffers[m]) ELSE in_buffers[m]]
    <3>1. L.in = [m \in Nodes |-> IF \E q \in OutNodes : Moved(m, q, i - 1)
                                  THEN Tail(in_buffers[m]) ELSE in_buffers[m]]
      BY DEF LoopInv, L
    <3>2. \A m \in Nodes : (\E q \in OutNodes : Moved(m, q, i)) <=>
                              m = n \/ \E q \in OutNodes : Moved(m, q, i - 1)
      BY <1>4, <2>2, <2>6
    <3>3. LoopAdvance[i].in = [L.in EXCEPT ![n] = Tail(@)]
      BY <1>1, <2>4
    <3>4. LoopAdvance[i].in = [m \in Nodes |-> IF m = n THEN Tail(in_buffers[n]) ELSE L.in[m]]
      BY <1>6, <3>1, <3>3
    <3>5. \A m \in Nodes : (IF m = n THEN Tail(in_buffers[n]) ELSE L.in[m]) =
             IF \E q \in OutNodes : Moved(m, q, i) THEN Tail(in_buffers[m]) ELSE in_buffers[m]
      BY <3>1, <3>2
    <3>. QED BY <3>4, <3>5
  <2>8. LoopAdvance[i].out = [q \in Nodes |->
              IF \E m \in Nodes : Moved(m, q, i)
              THEN Append(out_buffers[q],
                          Head(in_buffers[CHOOSE m \in Nodes : Granted(m, q)]))
              ELSE out_buffers[q]]
    <3>1. L.out = [q \in Nodes |->
              IF \E m \in Nodes : Moved(m, q, i - 1)
              THEN Append(out_buffers[q],
                          Head(in_buffers[CHOOSE m \in Nodes : Granted(m, q)]))
              ELSE out_buffers[q]]
      BY DEF LoopInv, L
    <3>2. \A q \in Nodes : (\E m \in Nodes : Moved(m, q, i)) <=>
                              q = o \/ \E m \in Nodes : Moved(m, q, i - 1)
      BY <1>2, <1>4, <2>6
    <3> DEFINE moved(q) == Append(out_buffers[q],
                                  Head(in_buffers[CHOOSE m \in Nodes : Granted(m, q)]))
    <3>3. LoopAdvance[i].out = [L.out EXCEPT ![o] = Append(@, p)]
      BY <1>1, <2>4
    <3>4. LoopAdvance[i].out = [q \in Nodes |-> IF q = o THEN moved(o) ELSE L.out[q]]
      BY <2>1, <2>2, <2>5, <3>1, <3>3
    <3>5. \A q \in Nodes : L.out[q] = IF \E m \in Nodes : Moved(m, q, i - 1)
                                      THEN moved(q) ELSE out_buffers[q]
      BY <3>1
    <3> HIDE DEF moved
    <3>6. \A q \in Nodes : (IF q = o THEN moved(o) ELSE L.out[q]) =
             IF \E m \in Nodes : Moved(m, q, i) THEN moved(q) ELSE out_buffers[q]
      BY <3>2, <3>5
    <3>. QED BY <3>4, <3>6 DEF moved
  <2>9. LoopAdvance[i].issued = {q \in OutNodes : \E m \in Nodes : Moved(m, q, i)}
    <3>1. L.issued = {q \in OutNodes : \E m \in Nodes : Moved(m, q, i - 1)}
      BY DEF LoopInv, L
    <3>2. \A q \in OutNodes : (\E m \in Nodes : Moved(m, q, i)) <=>
                              q = o \/ \E m \in Nodes : Moved(m, q, i - 1)
      BY <1>2, <1>4, <2>6
    <3>. QED BY <1>1, <2>2, <2>4, <3>1, <3>2
  <2>. QED BY <2>7, <2>8, <2>9 DEF LoopInv
<1>. QED BY <1>7, <1>8

LEMMA LoopInvAlways ==
    ASSUME TypeOK
    PROVE  LoopInv(total_nodes)
<1>1. LoopInv(0)
  <2>1. \A n \in Nodes : \A o : ~Moved(n, o, 0)
    BY TurnFacts DEF Moved
  <2>2. in_buffers = [n \in Nodes |-> in_buffers[n]]
        /\ out_buffers = [n \in Nodes |-> out_buffers[n]]
    BY DEF TypeOK
  <2>. QED BY <2>1, <2>2, LoopUnrolls DEF LoopInv, LoopStart
<1> DEFINE S == {i \in 0 .. total_nodes : ~LoopInv(i)}
<1>2. ASSUME S # {} PROVE FALSE
  <2>0. total_nodes \in Nat
    BY RouterAssumption
  <2>1. PICK x \in S : \A y \in S : x <= y
    <3>1. S \subseteq Nat
      BY <2>0
    <3> HIDE DEF S
    <3>. QED BY <1>2, <3>1, LeastOfNats
  <2>2. x \in 1 .. total_nodes /\ ~LoopInv(x)
    BY <1>1, <2>0, <2>1
  <2>3. x - 1 \in 0 .. total_nodes /\ ~(x <= x - 1)
    BY <2>0, <2>2
  <2>4. LoopInv(x - 1)
    BY <2>1, <2>3
  <2>. QED BY <2>2, <2>4, LoopInvStep
<1>. QED BY <1>2, RouterAssumption

(* The model's Advance, which says who wins and moves all packets at once, *)
(* is the loop of crossbar.cpp:88-114, which decides node by node with     *)
(* issued[] and the buffers it is changing: for any number of nodes, any   *)
(* limits and any contents of the buffers.                                 *)
THEOREM LoopCorrect == Spec => AdvanceIsTheLoop
<1>1. TypeOK /\ RR_Advance => /\ in_buffers' = LoopAdvance[total_nodes].in
                              /\ out_buffers' = LoopAdvance[total_nodes].out
  <2> SUFFICES ASSUME TypeOK, RR_Advance
               PROVE  /\ in_buffers' = LoopAdvance[total_nodes].in
                      /\ out_buffers' = LoopAdvance[total_nodes].out
    OBVIOUS
  <2>1. LoopInv(total_nodes)
    BY LoopInvAlways
  <2>2. \A n \in Nodes : \A o : Moved(n, o, total_nodes) <=> Granted(n, o)
    BY TurnFacts DEF Moved
  <2>. QED BY <2>1, <2>2 DEF LoopInv, RR_Advance
<1>2. TypeOK /\ [Next]_vars =>
         [RR_Advance => /\ in_buffers' = LoopAdvance[total_nodes].in
                        /\ out_buffers' = LoopAdvance[total_nodes].out]_vars
  BY <1>1
<1>. QED BY <1>2, RouterCorrect, PTL DEF Spec, AdvanceIsTheLoop
=============================================================================
