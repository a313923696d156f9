------------------------------- MODULE Decision -------------------------------
(***************************************************************************)
(* arbitrage_bot.py between a snapshot of the pools and a list of          *)
(* messages: the size and profit of a cycle (evaluate_cycle), the check    *)
(* against real gas (_prepare_execution), and the plans for more than one  *)
(* trip, which the code writes for any max_trips and calls with 1.         *)
(***************************************************************************)
EXTENDS Sizing

CONSTANTS
  GasPerHop,    \* GAS_UNITS_PER_HOP * GAS_PRICE
  MinTripGas,   \* MIN_TRIP_GAS_MULTIPLE
  Buffer,       \* SLIPPAGE_BUFFER_BPS
  Ceiling,      \* MAX_SPREAD_CEILING_BPS
  TargetLunc,   \* TARGET_TRIP_AMOUNT_ULUNA
  TargetUusd,   \* TARGET_TRIP_UUSD_EQUIV
  MinLunc,      \* MIN_PROFIT_ULUNA
  MinUusd,      \* MIN_PROFIT_UUSD
  Margin        \* MIN_PROFIT_MARGIN_MULTIPLE, in Units

ASSUME DecisionAssumption ==
  /\ {GasPerHop, MinTripGas, TargetLunc, TargetUusd, Margin} \subseteq Nat
  /\ {MinLunc, MinUusd} \subseteq Nat
  /\ Buffer \in 0..Unit
  /\ Ceiling \in 0..(Unit - 1)

-----------------------------------------------------------------------------
(* evaluate_cycle *)

Buffered(amount) == (amount * (Unit - Buffer)) \div Unit

(* clears_min_profit, of an amount of the start asset and its uusd value.  *)
ClearsMinProfit(asset, net, uusd) ==
  IF asset = LUNC THEN net >= MinLunc ELSE uusd >= MinUusd

InUusd(amount, price) == Truncated(amount * price, Scale)

(* _gas_cost_in_start_asset; a start asset without a price has none.       *)
FlatGas(c, luncP, price) ==
  IF c[1].in = LUNC THEN GasPerHop * Len(c)
                    ELSE (GasPerHop * Len(c) * luncP) \div price

(* profit_fn; no trade is worse than any. *)
Worst == -1000000000

Profit(c, amount, s) ==
  IF amount <= 0 THEN Worst ELSE Buffered(SimulateCycle(c, amount, s)) - amount

(* A trip is pushed up towards the target size, never past the cap. *)
Pushed(cap, best, target) == Smaller(cap, Larger(best, target))

Target(asset, price) ==
  IF asset = LUNC THEN TargetLunc
  ELSE IF price > 0 THEN (TargetUusd * Scale) \div price ELSE 0

NoTrade == [amount |-> 0, gross |-> 0, net |-> Worst]

(* Mutant: the gain of the probe itself is judged. *)
NotExtrapolated(c, offer, gas, price) ==
  LET net == offer.gain - gas IN ClearsMinProfit(c[1].in, net, InUusd(net, price))

(* The linear extrapolation of the probe's edge clears the floor. *)
OptimisticallyPasses(c, offer, gas, price) ==
  LET net == (offer.ceiling * offer.gain) \div offer.probe - gas
  IN  ClearsMinProfit(c[1].in, net, InUusd(net, price))

(* The size floor, in the gas of one trip. *)
TradeOf(c, s, gas, amount) ==
  IF amount < gas * MinTripGas THEN NoTrade
  ELSE [amount |-> amount, gross |-> Profit(c, amount, s), net |-> Profit(c, amount, s) - gas]

(* The size that earns most, or the target when that still earns. *)
PushedUp(c, s, price, gas, cap, best) ==
  LET target == Pushed(cap, best, Target(c[1].in, price))
  IN  TradeOf(c, s, gas,
              IF target > best /\ Profit(c, target, s) - gas > 0 THEN target ELSE best)

WithinCap(c, s, price, gas, cap) ==
  LET low  == Larger(1, cap \div 10000)
      gain == [amount \in low..cap |-> Profit(c, amount, s)]
  IN  IF cap <= 0 THEN NoTrade
      ELSE PushedUp(c, s, price, gas, cap, OptimalSize(gain, low, cap, 60))

FromOffer(c, s, price, gas, offer) ==
  IF \/ offer.ceiling <= 0
     \/ c[1].in # LUNC /\ price <= 0
     \/ ~OptimisticallyPasses(c, offer, gas, price)
  THEN NoTrade
  ELSE WithinCap(c, s, price, gas, SpreadCap(c, offer.ceiling, s, Ceiling))

EvaluateCycle(c, s, luncP, bal, price) ==
  FromOffer(c, s, price, FlatGas(c, luncP, price), MaxOffer(c, bal, s))

(* Sizeable, and above the flat floor. *)
Passes(c, e, price) ==
  e.amount > 0 /\ ClearsMinProfit(c[1].in, e.net, InUusd(e.net, price))

-----------------------------------------------------------------------------
(* Against the real gas *)

Message(e, offer, params) == [edge |-> e, offer |-> offer, params |-> params]

(* build_cycle_msgs *)
CycleMsgs(c, offers, params) ==
  [i \in DOMAIN c |-> Message(c[i], offers[i], params[i])]

(* Mutant: nothing is converted. *)
GasUnpriced(c, gas, s) == 0

(* The real gas as _prepare_execution and build_split_plan_for_execution   *)
(* subtract it from a gain in the start asset: priced in uusd for every    *)
(* start asset but LUNC.                                                   *)
RealGas(c, gas, s) ==
  IF c[1].in = LUNC THEN gas ELSE Truncated(gas * Price(LUNC, s), Scale)

(* The margin over commission, tax and gas. *)
ClearsMargin(c, amount, uusd, gas, s) ==
  uusd * Scale * Unit >= Margin * (Costs(c, amount, s) + gas * Price(LUNC, s))

(* Both gates. *)
Gates(c, amount, net, uusd, gas, s) ==
  ClearsMinProfit(c[1].in, net, uusd) /\ ClearsMargin(c, amount, uusd, gas, s)

RealPasses(c, sized, gas, s) ==
  LET net == sized.gross - RealGas(c, gas, s)
  IN  Gates(c, sized.amount, net, InUusd(net, Price(c[1].in, s)), gas, s)

-----------------------------------------------------------------------------
(* More trips through the same cycle *)

TripStates(c, amount, s) == ApplyTrade(c, amount, s)

(* One more trip, if e is one. *)
NextTrip(c, r, e, offers, params, gas) ==
  IF e.amount <= 0 \/ e.gross - gas <= 0 \/ params = NoParams
  THEN [r EXCEPT !.done = TRUE]
  ELSE [trips  |-> Append(r.trips, [amount |-> e.amount, gross |-> e.gross,
                                    msgs |-> CycleMsgs(c, offers, params)]),
        states |-> TripStates(c, e.amount, r.states),
        left   |-> Larger(0, r.left - e.amount),
        done   |-> FALSE]

Extended(c, r, e, gas) ==
  LET offers == LegOffers(c, e.amount, r.states)
  IN  NextTrip(c, r, e, offers, ExecutionParams(c, offers, r.states, Ceiling), gas)

(* plan_repeated_cycle_execution: one trip after the other, each priced    *)
(* against what the ones before it leave, until one does not pay for its   *)
(* gas or is unsafe.                                                       *)
RepeatedTrips(c, s, bal, luncP, price, gas, maxTrips) ==
  LET found[n \in 0..maxTrips] ==
        IF n = 0 THEN [trips |-> <<>>, states |-> s, left |-> bal, done |-> FALSE]
        ELSE LET r == found[n - 1]
             IN  IF r.done THEN r
                 ELSE Extended(c, r, EvaluateCycle(c, r.states, luncP, r.left, price), gas)
  IN  found[maxTrips].trips

(* What n trips offer, gain and send. *)
TotalOf(trips, field) ==
  LET sum[i \in 0..Len(trips)] == IF i = 0 THEN 0 ELSE sum[i - 1] + trips[i][field]
  IN  sum[Len(trips)]

TripMsgs(trips) ==
  LET msgs[i \in 0..Len(trips)] == IF i = 0 THEN <<>> ELSE msgs[i - 1] \o trips[i].msgs
  IN  msgs[Len(trips)]

(* _check_multi_trip_plan, with the prices _execute_winning_cycle took     *)
(* from the same snapshot: here the gas is converted to the start asset.   *)
MultiTripPasses(c, trips, gas, s) ==
  LET net == TotalOf(trips, "gross") - GasInAsset(c[1].in, gas, s)
  IN  /\ Len(trips) >= 2
      /\ c[1].in = LUNC \/ Price(c[1].in, s) > 0
      /\ Gates(c, TotalOf(trips, "amount"), net, InUusd(net, Price(c[1].in, s)), gas, s)
=============================================================================
