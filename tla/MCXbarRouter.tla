---------------------------- MODULE MCXbarRouter ----------------------------
(***************************************************************************)
(* XbarRouter on four nodes, two of which ask for a buffer and one not.    *)
(***************************************************************************)
EXTENDS XbarRouter

MC_InNodes == {0, 1, 2}
MC_OutNodes == {2, 3}
MC_Asking == {1, 2}

(* Node 0 has two payloads, so that an overtaking would show.              *)
MC_Data == {"a", "b", "c", "d"}
MC_Sender == [d \in MC_Data |-> CASE d \in {"a", "b"} -> 0 [] d = "c" -> 1 [] d = "d" -> 2]
=============================================================================
