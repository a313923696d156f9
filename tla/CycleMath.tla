------------------------------ MODULE CycleMath ------------------------------
(***************************************************************************)
(* graph.py: what a cycle of swaps pays at a snapshot of the pools, the    *)
(* parameters its messages carry, and the plans built from them.  A        *)
(* snapshot maps each pool to its reserves of both its assets.  Prices in  *)
(* uusd are counted in 1/Scale, belief prices and spreads in 1/Places.     *)
(***************************************************************************)
EXTENDS Amm

CONSTANTS
  LUNC, USTC,   \* the natives gas and profits are priced with
  PoolList,     \* the pools, in the order they are built
  Pair,         \* the two assets of each pool
  Garuda,       \* the pools that take a minimum payout instead of a price
  Commission,   \* the commission rate of each pool
  TaxRate,      \* of each asset: what moving it in and out of the wallet costs
  Places,       \* 10^_DECIMAL_PLACES
  Scale,        \* the precision of a price in uusd
  TolBps,       \* SPREAD_TOLERANCE_BPS
  NoParams      \* no safe parameters: None

Pools == {PoolList[i] : i \in DOMAIN PoolList}
Assets == {Pair[p][i] : p \in Pools, i \in 1..2}

(* Rates are shares, a pool trades two different assets, and the tolerance *)
(* is a whole number of the places a limit is rounded to.                  *)
ASSUME CycleMathAssumption ==
  /\ PoolList \in Seq(Pools)
  /\ \A p \in Pools : Pair[p][1] # Pair[p][2]
  /\ Commission \in [Pools -> 0..Unit]
  /\ TaxRate \in [Assets -> [in : 0..Unit, out : 0..Unit]]
  /\ {Places, Scale} \subseteq Nat \ {0}
  /\ TolBps \in 0..Unit
  /\ (TolBps * Places) % Unit = 0

CeilDiv(a, b) == (a + b - 1) \div b

(* The tables of tax rates, a CW20's own by direction.    *)
RateFor(asset, direction) == TaxRate[asset][direction]

(* tax.calculate_tax with an uncapped rate; rounded away from zero. *)
Tax(asset, amount, direction) ==
  LET rate == RateFor(asset, direction)
  IN  IF amount >= 0 THEN CeilDiv(amount * rate, Unit)
                     ELSE -CeilDiv(-amount * rate, Unit)

Taxed(e, amount) == amount - Tax(e.in, amount, "out")

SwapAt(e, amount, s) == Swap(Taxed(e, amount), s[e.pool][e.in], s[e.pool][e.out],
                             Commission[e.pool])

(* Mutant: the tax on what comes in is forgotten. *)
UntaxedReceipt(e, amount, s) == SwapAt(e, amount, s).paid

(* What reaches the wallet when this amount leaves it through e. *)
Received(e, amount, s) ==
  LET paid == SwapAt(e, amount, s).paid IN paid - Tax(e.out, paid, "in")

(* The amounts that flow along a cycle, the last one back in the wallet. *)
Flow(c, start, s) ==
  LET flow[i \in 0..Len(c)] ==
        IF i = 0 THEN start
        ELSE LET amount == flow[i - 1]
             IN  IF amount <= 0 THEN 0 ELSE Received(c[i], amount, s)
  IN  [i \in 0..Len(c) |-> flow[i]]

SimulateCycle(c, start, s) == Flow(c, start, s)[Len(c)]

(* simulate_cycle_legs: the offer of each leg. *)
LegOffers(c, start, s) ==
  LET flow == Flow(c, start, s) IN [i \in DOMAIN c |-> flow[i - 1]]

-----------------------------------------------------------------------------
(* price_in_uusd: a pool with USTC, else the way through LUNC, else 0. *)
DirectPools(a, quote, s) ==
  {i \in DOMAIN PoolList :
     LET p == PoolList[i] IN {Pair[p][1], Pair[p][2]} = {a, quote} /\ s[p][a] > 0}

Ratio(a, quote, s) ==
  LET p == PoolList[CHOOSE i \in DirectPools(a, quote, s) :
                      \A j \in DirectPools(a, quote, s) : i <= j]
  IN  (s[p][quote] * Scale) \div s[p][a]

Price(a, s) ==
  IF a = USTC THEN Scale
  ELSE IF DirectPools(a, USTC, s) # {} THEN Ratio(a, USTC, s)
  ELSE IF DirectPools(a, LUNC, s) # {} /\ DirectPools(LUNC, USTC, s) # {}
       THEN (Ratio(a, LUNC, s) * Ratio(LUNC, USTC, s)) \div Scale
       ELSE 0

(* simulate_cycle_costs_uusd: commission and both taxes of every leg. *)
Costs(c, start, s) ==
  LET flow == Flow(c, start, s)
      cost[i \in 0..Len(c)] ==
        IF i = 0 THEN 0
        ELSE LET e    == c[i]
                 swap == SwapAt(e, flow[i - 1], s)
             IN  cost[i - 1] +
                   (IF flow[i - 1] <= 0 THEN 0
                    ELSE Tax(e.in, flow[i - 1], "out") * Price(e.in, s)
                           + (swap.commission + Larger(0, Tax(e.out, swap.paid, "in")))
                                * Price(e.out, s))
  IN  cost[Len(c)]

-----------------------------------------------------------------------------
(* Execution parameters.  At the spot price an offer is worth              *)
(* offer * out / in; the spread is what the pool pays short of that.       *)

(* Mutant: every leg is allowed the ceiling. *)
CeilingSpread(offer, in, out, paid) == Places

(* _fmt_decimal of the belief price, half up. *)
Belief(in, out) == (2 * in * Places + out) \div (2 * out)

(* max_spread, rounded up. *)
MaxSpread(offer, in, out, paid) ==
  LET shortfall == Larger(0, offer * out - paid * in)
  IN  CeilDiv(shortfall * Places, offer * out) + CeilDiv(TolBps * Places, Unit)

MinReceive(paid) == Larger(0, Truncated(paid * (Unit - TolBps), Unit))

(* The required spread of a taxed offer is above the ceiling. *)
SpreadTooWide(offer, in, out, paid, ceiling) ==
  Larger(0, offer * out - paid * in) * Unit + TolBps * offer * out
    > ceiling * offer * out

ParamsOf(pool, offer, in, out, paid) ==
  IF pool \in Garuda
  THEN [min |-> MinReceive(paid), belief |-> 0, spread |-> 0]
  ELSE [min |-> 0, belief |-> Belief(in, out), spread |-> MaxSpread(offer, in, out, paid)]

(* One leg against these reserves: unsafe without reserves, without a      *)
(* payout at spot, or beyond the ceiling.                                  *)
LegIsSafe(e, offer, in, out, ceiling) ==
  LET taxed == Taxed(e, offer)
      paid  == Swap(taxed, in, out, Commission[e.pool]).paid
  IN  in > 0 /\ out > 0 /\ taxed > 0 /\ ~SpreadTooWide(taxed, in, out, paid, ceiling)

LegParams(e, offer, in, out) ==
  LET taxed == Taxed(e, offer)
  IN  ParamsOf(e.pool, taxed, in, out, Swap(taxed, in, out, Commission[e.pool]).paid)

(* compute_leg_execution_params: a leg that offers nothing is let through. *)
ExecutionParams(c, offers, s, ceiling) ==
  IF \E i \in DOMAIN c :
       /\ offers[i] > 0
       /\ ~LegIsSafe(c[i], offers[i], s[c[i].pool][c[i].in], s[c[i].pool][c[i].out], ceiling)
  THEN NoParams
  ELSE [i \in DOMAIN c |->
          IF offers[i] <= 0 THEN [min |-> 0, belief |-> 0, spread |-> 0]
          ELSE LegParams(c[i], offers[i], s[c[i].pool][c[i].in], s[c[i].pool][c[i].out])]

-----------------------------------------------------------------------------
(* Splitting a leg into trips, and repeating a cycle *)

(* The i-th of n trips; the last takes the remainder. *)
TripOf(offer, n, i) == offer \div n + (IF i = n THEN offer % n ELSE 0)

(* The reserves before the i-th trip: each trip before it has added its    *)
(* whole offer and taken what the pool paid.                               *)
ReservesBefore(e, offer, n, s) ==
  LET before[i \in 1..(n + 1)] ==
        IF i = 1 THEN [in |-> s[e.pool][e.in], out |-> s[e.pool][e.out]]
        ELSE LET r   == before[i - 1]
                 amt == TripOf(offer, n, i - 1)
             IN  IF amt <= 0 \/ r.in <= 0 \/ r.out <= 0 THEN r
                 ELSE [in  |-> r.in + amt,
                       out |-> r.out - Swap(Taxed(e, amt), r.in, r.out,
                                            Commission[e.pool]).paid]
  IN  [i \in 1..n |-> before[i]]

(* _simulate_leg_net and simulate_leg_split: what n trips bring home. *)
NetOfTrip(e, amt, r) ==
  LET paid == Swap(Taxed(e, amt), r.in, r.out, Commission[e.pool]).paid
  IN  IF amt <= 0 \/ r.in <= 0 \/ r.out <= 0 THEN 0
      ELSE Larger(0, paid - Tax(e.out, paid, "in"))

SplitNet(e, offer, n, s) ==
  LET reserves == ReservesBefore(e, offer, n, s)
      net[i \in 0..n] ==
        IF i = 0 THEN 0 ELSE net[i - 1] + NetOfTrip(e, TripOf(offer, n, i), reserves[i])
  IN  IF offer <= 0 THEN 0 ELSE net[n]

(* find_optimal_leg_split *)
OptimalTrips(e, offer, gas, maxTrips, s) ==
  Best(1..maxTrips, [n \in 1..maxTrips |-> SplitNet(e, offer, n, s) - gas * n])

(* plan_leg_execution: a message per trip, or None when one is unsafe. *)
PlanLeg(e, offer, gas, maxTrips, s, ceiling) ==
  LET n        == OptimalTrips(e, offer, gas, maxTrips, s)
      reserves == ReservesBefore(e, offer, n, s)
      Safe(i)  == /\ TripOf(offer, n, i) > 0
                  /\ LegIsSafe(e, TripOf(offer, n, i), reserves[i].in, reserves[i].out, ceiling)
  IN  IF offer <= 0 \/ \E i \in 1..n : ~Safe(i) THEN NoParams
      ELSE [i \in 1..n |->
              [edge |-> e, offer |-> TripOf(offer, n, i),
               params |-> LegParams(e, TripOf(offer, n, i), reserves[i].in, reserves[i].out)]]

(* plan_cycle_execution: all or nothing; gas in the units of each leg. *)
GasInAsset(a, gas, s) ==
  IF a = LUNC THEN gas
  ELSE IF Price(a, s) > 0 THEN (gas * Price(LUNC, s)) \div Price(a, s) ELSE 0

PlanCycle(c, offers, gas, maxTrips, s, ceiling) ==
  LET priced == \A i \in DOMAIN c :
                  offers[i] > 0 /\ c[i].in # LUNC => Price(c[i].in, s) > 0 /\ Price(LUNC, s) > 0
      plan[i \in 0..Len(c)] ==
        IF i = 0 THEN <<>>
        ELSE LET sofar == plan[i - 1]
                 leg   == PlanLeg(c[i], offers[i], GasInAsset(c[i].in, gas, s), maxTrips, s, ceiling)
             IN  IF offers[i] <= 0 THEN sofar
                 ELSE IF sofar = NoParams \/ leg = NoParams THEN NoParams
                 ELSE sofar \o leg
  IN  IF ~priced \/ plan[Len(c)] = <<>> THEN NoParams ELSE plan[Len(c)]

(* Mutant: the sides of the pool are swapped. *)
SwappedSides(s, e, amount) ==
  [s EXCEPT ![e.pool][e.in] = Larger(0, @ - SwapAt(e, amount, s).paid),
            ![e.pool][e.out] = @ + amount]

(* The pool of e after this offer: credited with all of it. *)
AfterSwap(s, e, amount) ==
  [s EXCEPT ![e.pool][e.in] = @ + amount,
            ![e.pool][e.out] = Larger(0, @ - SwapAt(e, amount, s).paid)]

(* apply_cycle_trade_to_states *)
ApplyTrade(c, start, s) ==
  LET after[i \in 0..Len(c)] ==
        IF i = 0 THEN [amount |-> start, states |-> s]
        ELSE LET r == after[i - 1]
             IN  IF r.amount <= 0 THEN [r EXCEPT !.amount = 0]
                 ELSE [amount |-> Received(c[i], r.amount, r.states),
                       states |-> AfterSwap(r.states, c[i], r.amount)]
  IN  after[Len(c)].states
=============================================================================
