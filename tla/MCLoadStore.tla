----------------------------- MODULE MCLoadStore -----------------------------
(***************************************************************************)
(* LoadStore with five warps in three blocks, of which two are resident at *)
(* a time.  The first four warps meet in sector a: loads merge, more of    *)
(* them than an MSHR entry takes; a store or an atomic finds it valid or   *)
(* not.  The L1 holds one line, so that a and c evict each other.  The LDS *)
(* unit emits b of warp 1 while warp 2 wants the other bank.               *)
(***************************************************************************)
EXTENDS LoadStore

a == <<1, 0>>
b == <<1, 1>>
c == <<2, 0>>

Inst(kind, sectors, deps) == [kind |-> kind, sectors |-> sectors, deps |-> deps]

MC_Warps == 1 .. 5
MC_BlockOf == <<1, 1, 2, 2, 3>>
MC_Program ==
    << << Inst("LD", <<a, b>>, {}), Inst("ALU", << >>, {1}) >>,
       << Inst("LD", <<a>>, {}), Inst("ST", <<a, c>>, {}) >>,
       << Inst("LD", <<c, a>>, {}) >>,
       << Inst("ATOM", <<a, c>>, {}), Inst("LD", << >>, {1}) >>,
       << Inst("LD", <<c>>, {}) >> >>
MC_Sectors == {a, b, c}
MC_Banks == {0, 1}
MC_Subcores == {0, 1}
=============================================================================
