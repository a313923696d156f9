------------------------------ MODULE MCPricing ------------------------------
EXTENDS PricingProps, TLC
CONSTANTS T, A, B, C
MCPoolList == <<A, B, C>>
MCPair == (A :> <<LUNC, T>> @@ B :> <<T, USTC>> @@ C :> <<LUNC, USTC>>)
Edge(p, i) == [pool |-> p, in |-> MCPair[p][i], out |-> MCPair[p][3 - i]]
Tri == <<Edge(A, 1), Edge(B, 1), Edge(C, 2)>>
Irt == <<Edge(C, 1), Edge(B, 2), Edge(A, 2)>>
Rot(c) == <<c[2], c[3], c[1]>>
MCCycles == {Tri, Rot(Tri), Rot(Rot(Tri)), Irt, Rot(Irt), Rot(Rot(Irt))}
MCCommission == (A :> 1 @@ B :> 1 @@ C :> 1)
MCTax == (LUNC :> [in |-> 1, out |-> 1] @@ USTC :> [in |-> 1, out |-> 1]
            @@ T :> [in |-> 0, out |-> 3])
Res(p, x, y) == (MCPair[p][1] :> x @@ MCPair[p][2] :> y)
Market(a, b, c) == (A :> Res(A, 400, a) @@ B :> Res(B, b, 400) @@ C :> Res(C, 400, c))
MCMarkets == {Market(200, 100, 200), Market(400, 200, 200), Market(400, 400, 100),
              Market(200, 100, 100), Market(400, 400, 380)}
(* A T is worth half a uusd. *)
MCCheap == {(A :> Res(A, 120, 400) @@ B :> Res(B, 400, 200) @@ C :> Res(C, 400, 200))}
MCWallets == {(LUNC :> 90 @@ T :> 90 @@ USTC :> 90),
              (LUNC :> 30 @@ T :> 60 @@ USTC :> 20)}
=============================================================================
