---------------------------- MODULE PricingProps ----------------------------
(***************************************************************************)
(* What pricing, sizing and planning promise about the trade that is       *)
(* finally made, or not made.                                              *)
(***************************************************************************)
EXTENDS Pricing

(* The shape of the state: what the trading thread holds in each phase.    *)
TypeOK ==
  /\ \A p \in Pools : {market[p], states[p]} \subseteq [{Pair[p][1], Pair[p][2]} -> Nat]
  /\ \A a \in Assets : wallet[a] \in Nat
  /\ pc \in {"idle", "candidate", "sized", "approved", "planned"}
  /\ (cycle = NoCycle) <=> (pc = "idle")
  /\ (sized # NoSize) <=> (pc \in {"sized", "approved", "planned"})
  /\ (plan # NoPlan) <=> (pc \in {"approved", "planned"})
  /\ drift \in 0..MaxDrift
  /\ orders \in 0..MaxOrders

-----------------------------------------------------------------------------
(* Sizing *)

(* The spread of a leg that sends something is under the ceiling, but for  *)
(* the unit that truncating its payout costs.                              *)
UnderCeiling(e, offer, s) ==
  LET in    == s[e.pool][e.in]
      out   == s[e.pool][e.out]
      taxed == Taxed(e, offer)
  IN  taxed > 0 => /\ in > 0 /\ out > 0
                   /\ ~SpreadTooWide(taxed, in, out, SwapAt(e, offer, s).paid + 1, Ceiling)

(* spread_cap_for_cycle finds one size that is safe, and the search and    *)
(* the target then prefer some smaller one.  That one is safe as well: the *)
(* legs of a smaller trade all offer less, and only the last unit of a     *)
(* payout, which truncation takes from a small leg as from a large one,    *)
(* can bring compute_leg_execution_params to refuse it.                    *)
SizedIsSafe ==
  pc = "sized" =>
    \A i \in DOMAIN cycle :
      Offers[i] > 0
        => UnderCeiling(cycle[i], Offers[i], states)

(* What the caps and the search make of each cycle at the market as it is. *)
LiveOffer(c) == MaxOffer(c, wallet[c[1].in], market)

(* Fourteen halvings leave the ceiling in steps of a 16384th.              *)
TightAt(c, ceiling, cap) ==
  /\ cap > 0 => Fits(c, cap, market, Ceiling)
  /\ cap \in 1..(ceiling - 1) =>
       \E over \in (cap + 1)..(cap + 1 + ceiling \div 16384) : ~Fits(c, over, market, Ceiling)

(* The bisection ends on an edge of what is safe: its answer is safe on    *)
(* every leg, and what exceeds it by one step is not.                      *)
CapIsTight ==
  pc = "idle" =>
    \A c \in Cycles : TightAt(c, LiveOffer(c).ceiling,
                              SpreadCap(c, LiveOffer(c).ceiling, market, Ceiling))

(* What the two truncations of every leg may be worth in the start asset.  *)
Truncations(c) ==
  LET worth(i) == CeilDiv(Price(c[i].out, market), Price(c[1].in, market))
      dearest  == CHOOSE i \in DOMAIN c : \A j \in DOMAIN c : worth(j) <= worth(i)
  IN  2 * Len(c) * worth(dearest)

Beats(c, cap, peak) == \E amount \in 1..cap : Profit(c, amount, market) > peak

PeakAt(c, cap) ==
  LET low  == Larger(1, cap \div 10000)
      gain == [amount \in low..cap |-> Profit(c, amount, market)]
  IN  cap > 0 => ~Beats(c, cap, gain[OptimalSize(gain, low, cap, 60)] + Truncations(c))

(* The ternary search finds the peak although truncation makes the profit  *)
(* a staircase: no size earns more than the one it returns by more than    *)
(* what is truncated on the way.                                           *)
SearchFindsPeak ==
  pc = "idle" =>
    \A c \in Cycles : PeakAt(c, SpreadCap(c, LiveOffer(c).ceiling, market, Ceiling))

MissedBy(c, price, gas, offer) ==
  /\ c[1].in = LUNC \/ price > 0
  /\ Passes(c, WithinCap(c, market, price, gas, SpreadCap(c, offer.ceiling, market, Ceiling)),
            price)
  /\ ~OptimisticallyPasses(c, [offer EXCEPT !.gain = @ + 1], gas, price)

(* The quick reject never skips a cycle that would have passed, but for    *)
(* the unit the probe's own truncation costs: the edge of a small probe    *)
(* bounds the profit of every larger offer (evaluate_cycle's comment).     *)
QuickRejectIsSound ==
  pc = "idle" =>
    \A c \in Cycles :
      LET price == Price(c[1].in, market)
      IN  ~MissedBy(c, price, FlatGas(c, Price(LUNC, market), price), LiveOffer(c))

-----------------------------------------------------------------------------
(* Plans *)

(* Nothing has moved the pools of the cycle since the snapshot. *)
Unmoved == \A i \in DOMAIN cycle : market[cycle[i].pool] = states[cycle[i].pool]

(* On pools that have not moved, whatever list of messages is adopted, one *)
(* trip, several, or split legs, is accepted message by message with the   *)
(* limits it carries, brings home the profit it was sized for, and leaves  *)
(* the wallet's other assets alone.                                        *)
PlanIsHonoured ==
  pc \in {"approved", "planned"} /\ Unmoved =>
    LET final == Outcome(plan.msgs, wallet, market)
    IN  /\ final.ok
        /\ final.wallet[Start] >= wallet[Start] + plan.gross
        /\ \A a \in Assets \ {Start} : final.wallet[a] >= wallet[a]

(* Trips are appended in decreasing order of profit, which is why the      *)
(* shrinking fallback drops the last one first.                            *)
RepeatsDiminish ==
  pc = "approved" =>
    \A n \in TripLimits :
      LET trips == Trips(n)
      IN  \A i \in 2..Len(trips) : trips[i].gross <= trips[i - 1].gross

(* What is approved is what is earned: a cycle from LUNC that lands on     *)
(* pools nobody moved leaves the wallet richer by the floor, after the gas *)
(* of however many messages were sent.                                     *)
LandedTradePays ==
  [][pc = "planned" /\ market' # market /\ orders' # orders /\ Unmoved /\ Start = LUNC
       => wallet'[LUNC] - wallet[LUNC] >= MinLunc]_vars

(* The pools before the i-th message, from these. *)
Before(msgs, s) ==
  LET before[i \in 1..(Len(msgs) + 1)] ==
        IF i = 1 THEN s
        ELSE LET m == msgs[i - 1]
                 r == before[i - 1]
             IN  Pays(r, m.edge, m.offer, SwapAt(m.edge, m.offer, r).paid)
  IN  [i \in DOMAIN msgs |-> before[i]]

(* The tolerance of the spot value of a message, what rounding up the      *)
(* spread and the belief price adds to it, and a unit.                     *)
Allowance(m, s) ==
  LET in    == s[m.edge.pool][m.edge.in]
      out   == s[m.edge.pool][m.edge.out]
      spot  == CeilDiv(m.offer * out, in)
  IN  CeilDiv(spot * TolBps, Unit) + CeilDiv(spot, Places) + CeilDiv(spot * out, 2 * in * Places) + 1

(* However the pools moved between the snapshot and the landing, no leg    *)
(* pays less than the snapshot promised by more than the tolerance: the    *)
(* limit of each message is that of its own leg, not the ceiling.          *)
LandedWithinTolerance ==
  [][pc = "planned" /\ market' # market /\ orders' # orders =>
       LET then == Before(plan.msgs, states)
           now  == Before(plan.msgs, market)
       IN  \A i \in DOMAIN plan.msgs :
             LET m == plan.msgs[i]
             IN  SwapAt(m.edge, m.offer, now[i]).paid
                   >= SwapAt(m.edge, m.offer, then[i]).paid - Allowance(m, then[i])]_vars

(* Real gas is taken off before the profit floor is judged, in the units   *)
(* of the asset the profit is counted in.                                  *)
ProfitIsNetOfGas ==
  pc = "approved" =>
    LET net == sized.gross - GasInAsset(Start, plan.gas, states)
    IN  ClearsMinProfit(Start, net, InUusd(net, Price(Start, states)))

(* sizing.py, liquidity_cap_for_cycle: the ceiling a candidate is sized    *)
(* under lets "no single leg of the cycle" offer more than its share of    *)
(* the reserve it goes into; "overshooting past a pool's real depth is     *)
(* not" fine.                                                              *)
DepthIsRespected ==
  pc = "candidate" =>
    LET ceiling == MaxOffer(cycle, balance, states).ceiling
    IN  TooDeep(cycle, LegOffers(cycle, ceiling, states), PoolShare, states) = {}
=============================================================================
