----------------------------- MODULE MCArbLoop -----------------------------
(* A small instance: a token traded on two pools against LUNC, found from  *)
(* both of its assets, and two pools of LUNC and USTC.                     *)
EXTENDS ArbLoop

CONSTANTS LUNC, USTC, T, R1, R2, N1, N2

Pair(pool, a, b) ==
  {[pool |-> pool, in |-> a, out |-> b], [pool |-> pool, in |-> b, out |-> a]}

MCEdges == Pair(R1, LUNC, T) \cup Pair(R2, LUNC, T)
             \cup Pair(N1, LUNC, USTC) \cup Pair(N2, LUNC, USTC)

Hop(pool, a, b) == [pool |-> pool, in |-> a, out |-> b]

FromLunc == <<Hop(R1, LUNC, T), Hop(R2, T, LUNC)>>
FromT    == <<Hop(R2, T, LUNC), Hop(R1, LUNC, T)>>
Rebal    == <<Hop(N1, LUNC, USTC), Hop(N2, USTC, LUNC)>>
Back     == <<Hop(R2, LUNC, T), Hop(R1, T, LUNC)>>

MCViable  == {FromLunc, FromT, Rebal, Back}
MCDoomed  == {FromLunc, FromT}
MCSteady  == {Rebal}
MCNone    == {}
MCThree   == {FromLunc, FromT, Rebal}
=============================================================================
