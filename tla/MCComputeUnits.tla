---- MODULE MCComputeUnits ----
(***************************************************************************)
(* Two subcores with the lanes each has in the configuration (gpu.config): *)
(* sixteen integer lanes, four LDS lanes, and one double lane for both.    *)
(* Three blocks, the first of two warps; those two run any two of the      *)
(* instructions that concern a unit, the others cross them.                *)
(***************************************************************************)
EXTENDS ComputeUnits, TLC

MCkinds == <<"DP_units", "INT_units", "LDS_units">>
MCwidth == [kind \in Kinds |->
    CASE kind = "DP_units" -> 1 [] kind = "INT_units" -> 32 [] kind = "LDS_units" -> 8]

MCWarps == 1 .. 4
MCBlockOf == <<1, 1, 2, 3>>

Timed(kind, latency) ==
    [unit |-> kind, act |-> "timed", latency |-> latency, sectors |-> << >>, deps |-> {}]
Memory(act, sectors) ==
    [unit |-> "LDS_units", act |-> act, latency |-> 0, sectors |-> sectors, deps |-> {}]

DADD == Timed("DP_units", 44)
IADD3 == Timed("INT_units", 4)
LDS == Timed("LDS_units", 8)
LDG == Memory("access", <<<<1, 0>>, <<2, 0>>>>)
ATOMG == Memory("atomic", <<<<1, 0>>, <<1, 1>>>>)

After(inst, c) == [inst EXCEPT !.deps = {c}]

Pairs == {<<a, b>> : a \in {DADD, LDG}, b \in {LDG, LDS}}
   \union {<<LDG, After(IADD3, 1)>>, <<ATOMG, After(DADD, 1)>>}

MCPrograms == {<<p, q, <<DADD, LDG>>, <<LDG, IADD3>>>> : p \in Pairs, q \in Pairs}
====
