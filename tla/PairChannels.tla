---------------------------- MODULE PairChannels ----------------------------
(***************************************************************************)
(* What a network on chip promises, without saying how: for every source   *)
(* and sink a FIFO channel that neither loses nor copies nor reorders.     *)
(* The channels of different pairs are independent.                        *)
(***************************************************************************)
EXTENDS Sequences

CONSTANTS Sources, Sinks, Messages

VARIABLE chan  \* chan[<<s, o>>]: sent by s to o and not yet received

Init == chan = [pair \in Sources \X Sinks |-> << >>]

Send(s, o, m) == chan' = [chan EXCEPT ![<<s, o>>] = Append(@, m)]

Receive(s, o) ==
    /\ chan[<<s, o>>] # << >>
    /\ chan' = [chan EXCEPT ![<<s, o>>] = Tail(@)]

Next == \E s \in Sources, o \in Sinks :
            \/ \E m \in Messages : Send(s, o, m)
            \/ Receive(s, o)

Spec == Init /\ [][Next]_chan
=============================================================================
