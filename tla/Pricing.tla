------------------------------- MODULE Pricing -------------------------------
(***************************************************************************)
(* From a snapshot of the pools to the broadcast: the trading thread of    *)
(* arbitrage_bot.py with atomic execution, live, while the pools are moved *)
(* by others between any two of its steps.                                 *)
(*                                                                         *)
(* The pools and the wallet are external: a pool pays by the formula the   *)
(* code believes in, is credited with the whole offer, and refuses a       *)
(* message whose own limit is not met.                                     *)
(***************************************************************************)
EXTENDS Decision

CONSTANTS
  Cycles,       \* sequences of [pool, in, out]
  Markets,      \* reserves the pools may start with
  Wallets,      \* balances the wallet may start with
  Trades,       \* offers by which others may move a pool
  MaxDrift,     \* bound: how often they do
  MaxOrders,    \* bound: how often the bot broadcasts
  Fees,         \* gas of one message, as simulate_fee may answer
  GasGuess,     \* the flat guess for a trip, GAS_ADJUSTMENT included
  TripLimits,   \* values of max_trips; the code passes 1
  NoCycle       \* no candidate is being worked on

VARIABLES
  market,       \* external: the reserves of the pools
  wallet,       \* external: the balances of the wallet
  states,       \* the snapshot the candidate is priced with
  luncPrice,    \* lunc_price_uusd of the snapshot the loop began with
  balance,      \* the balance the loop began with
  pc,           \* where the trading thread is
  cycle,        \* the candidate
  sized,        \* fresh_amount and fresh_gross
  plan,         \* the messages to broadcast, what they offer and gain, their gas
  drift,        \* how often others have moved a pool
  orders        \* how often the bot has broadcast

Edges ==
  {[pool |-> p, in |-> Pair[p][i], out |-> Pair[p][3 - i]] : p \in Pools, i \in 1..2}

(* What graph.find_cycles returns: hops that follow each other and close,  *)
(* no pool twice.                                                          *)
IsCycle(c) ==
  /\ c \in Seq(Edges)
  /\ Len(c) >= 2
  /\ c[Len(c)].out = c[1].in
  /\ \A i \in 2..Len(c) : c[i].in = c[i - 1].out
  /\ \A i, j \in DOMAIN c : i # j => c[i].pool # c[j].pool

(* Reserves of both assets of every pool. *)
IsSnapshot(s) ==
  /\ s = [p \in Pools |-> s[p]]
  /\ \A p \in Pools : s[p] \in [{Pair[p][1], Pair[p][2]} -> Nat]

ASSUME PricingAssumption ==
  /\ LUNC \in Assets
  /\ \A c \in Cycles : IsCycle(c)
  /\ NoCycle \notin Cycles
  /\ \A s \in Markets : IsSnapshot(s)
  /\ Wallets \subseteq [Assets -> Nat]
  /\ Trades \cup Fees \subseteq Nat
  /\ {MaxDrift, MaxOrders, GasGuess} \subseteq Nat
  /\ TripLimits \subseteq Nat \ {0}

external == <<market, wallet, drift>>
vars == <<external, states, luncPrice, balance, pc, cycle, sized, plan, orders>>

Start == cycle[1].in

-----------------------------------------------------------------------------
(* The pools, as the messages meet them *)

(* The pool's own check of a message's limit. *)
Accepts(m, s) ==
  LET offer == Taxed(m.edge, m.offer)
      paid  == SwapAt(m.edge, m.offer, s).paid
  IN  /\ offer > 0
      /\ paid > 0
      /\ IF m.edge.pool \in Garuda
         THEN paid >= m.params.min
         ELSE offer * Places - paid * m.params.belief <= m.params.spread * offer

(* What the wallet is credited with. *)
Delivered(e, paid) == paid - Tax(e.out, paid, "in")

(* The pool after a swap. *)
Pays(s, e, offer, paid) ==
  [s EXCEPT ![e.pool][e.in] = @ + offer, ![e.pool][e.out] = @ - paid]

(* The whole list of messages, on a scratch copy of wallet and pools. *)
Outcome(msgs, w, s) ==
  LET after[i \in 0..Len(msgs)] ==
        IF i = 0 THEN [ok |-> TRUE, wallet |-> w, market |-> s]
        ELSE LET r == after[i - 1]
                 m == msgs[i]
                 paid == SwapAt(m.edge, m.offer, r.market).paid
             IN  IF r.ok /\ r.wallet[m.edge.in] >= m.offer /\ Accepts(m, r.market)
                 THEN [ok     |-> TRUE,
                       wallet |-> [r.wallet EXCEPT
                                     ![m.edge.in]  = @ - m.offer,
                                     ![m.edge.out] = @ + Delivered(m.edge, paid)],
                       market |-> Pays(r.market, m.edge, m.offer, paid)]
                 ELSE [r EXCEPT !.ok = FALSE]
  IN  after[Len(msgs)]

(* Others trade. *)
Drift(e, offer) ==
  /\ drift < MaxDrift
  /\ drift' = drift + 1
  /\ market' = Pays(market, e, offer,
                    Swap(offer, market[e.pool][e.in], market[e.pool][e.out],
                         Commission[e.pool]).paid)
  /\ UNCHANGED <<wallet, states, luncPrice, balance, pc, cycle, sized, plan, orders>>

-----------------------------------------------------------------------------
(* The trading thread *)

NoSize == [amount |-> 0, gross |-> 0, net |-> 0]
NoPlan == [msgs |-> <<>>, offered |-> 0, gross |-> 0, gas |-> 0]

Init ==
  /\ market \in Markets
  /\ wallet \in Wallets
  /\ states = market
  /\ luncPrice = 0
  /\ balance = 0
  /\ pc = "idle"
  /\ cycle = NoCycle
  /\ sized = NoSize
  /\ plan = NoPlan
  /\ drift = 0
  /\ orders = 0

(* Mutant: the messages are kept. *)
KeepsPlan ==
  /\ pc' = "idle"
  /\ cycle' = NoCycle
  /\ sized' = NoSize
  /\ balance' = 0
  /\ luncPrice' = 0
  /\ UNCHANGED plan

GiveUp ==
  /\ pc' = "idle"
  /\ cycle' = NoCycle
  /\ sized' = NoSize
  /\ plan' = NoPlan
  /\ balance' = 0
  /\ luncPrice' = 0

(* run_once: pools and balances are read, and c is sizeable and passes.    *)
Found(c, luncP, bal, price) == Passes(c, EvaluateCycle(c, market, luncP, bal, price), price)

Discover(c) ==
  /\ pc = "idle"
  /\ orders < MaxOrders
  /\ Found(c, Price(LUNC, market), wallet[c[1].in], Price(c[1].in, market))
  /\ states' = market
  /\ luncPrice' = Price(LUNC, market)
  /\ balance' = wallet[c[1].in]
  /\ cycle' = c
  /\ pc' = "candidate"
  /\ UNCHANGED <<external, sized, plan, orders>>

(* _refresh_states_for_cycle: the pools of the cycle are read again, and   *)
(* one whose query fails keeps the state it had.                           *)
Fresh(failing) ==
  [p \in Pools |-> IF p \in {cycle[i].pool : i \in DOMAIN cycle} \ failing
                   THEN market[p] ELSE states[p]]

Resize(e, price) ==
  IF Passes(cycle, e, price)
  THEN /\ sized' = e
       /\ pc' = "sized"
       /\ UNCHANGED <<luncPrice, balance, cycle, plan>>
  ELSE GiveUp

Reprice(fresh, price) ==
  /\ states' = fresh
  /\ Resize(EvaluateCycle(cycle, fresh, luncPrice, balance, price), price)

Refresh(failing) ==
  /\ pc = "candidate"
  /\ Reprice(Fresh(failing), Price(Start, Fresh(failing)))
  /\ UNCHANGED <<external, orders>>

(* _prepare_execution *)
Offers == LegOffers(cycle, sized.amount, states)
Params == ExecutionParams(cycle, Offers, states, Ceiling)

(* simulate_fee runs the messages against the chain as it is. *)
Simulates(msgs) == Outcome(msgs, wallet, market).ok

Approve(fee) ==
  /\ pc = "sized"
  /\ Params # NoParams
  /\ LET msgs == CycleMsgs(cycle, Offers, Params)
         gas  == Len(msgs) * fee
     IN  /\ Simulates(msgs)
         /\ RealPasses(cycle, sized, gas, states)
         /\ plan' = [msgs |-> msgs, offered |-> sized.amount,
                     gross |-> sized.gross, gas |-> gas]
  /\ pc' = "approved"
  /\ UNCHANGED <<external, states, luncPrice, balance, cycle, sized, orders>>

Refuse(fee) ==
  /\ pc = "sized"
  /\ Params # NoParams => /\ Simulates(CycleMsgs(cycle, Offers, Params))
                         /\ ~RealPasses(cycle, sized, Len(cycle) * fee, states)
  /\ GiveUp
  /\ UNCHANGED <<external, states, orders>>

SimulationFails ==
  /\ pc = "sized"
  /\ Params # NoParams
  /\ ~Simulates(CycleMsgs(cycle, Offers, Params))
  /\ GiveUp
  /\ UNCHANGED <<external, states, orders>>

(* _execute_winning_cycle: as many trips as still pay for their gas, else  *)
(* the plan that splits legs, else the approved messages; a simulation     *)
(* that fails counts as not clearing.                                      *)
Trips(maxTrips) ==
  LET guess == GasInAsset(Start, GasGuess, states)
  IN  IF Start # LUNC /\ (Price(Start, states) <= 0 \/ Price(LUNC, states) <= 0)
      THEN <<>>
      ELSE RepeatedTrips(cycle, states, wallet[Start], Price(LUNC, states),
                         Price(Start, states), guess, maxTrips)

Bundle(trips, fee) ==
  LET msgs == TripMsgs(trips)
  IN  [msgs  |-> msgs, offered |-> TotalOf(trips, "amount"),
       gross |-> TotalOf(trips, "gross"), gas |-> Len(msgs) * fee]

(* build_split_plan_for_execution *)
SplitInto(msgs, fee) ==
  IF /\ msgs # NoParams
     /\ Simulates(msgs)
     /\ RealPasses(cycle, sized, Len(msgs) * fee, states)
  THEN [plan EXCEPT !.msgs = msgs, !.gas = Len(msgs) * fee]
  ELSE plan

Split(maxTrips, fee) ==
  SplitInto(PlanCycle(cycle, Offers, GasPerHop, maxTrips, states, Ceiling), fee)

Clears(trips, fee) ==
  Simulates(TripMsgs(trips)) /\ MultiTripPasses(cycle, trips, Bundle(trips, fee).gas, states)

Chosen(trips, maxTrips, fee) ==
  LET clearing == {n \in 2..Len(trips) : Clears(SubSeq(trips, 1, n), fee)}
      longest  == CHOOSE n \in clearing : \A m \in clearing : m <= n
  IN  IF clearing # {} THEN Bundle(SubSeq(trips, 1, longest), fee) ELSE Split(maxTrips, fee)

(* LUNC must cover the gas reserve, and of a cycle that starts in it the   *)
(* whole offer and its gas.                                                *)
Send(chosen) ==
  IF \/ wallet[LUNC] < GasReserve
     \/ Start = LUNC /\ chosen.offered + chosen.gas > wallet[LUNC]
  THEN GiveUp
  ELSE /\ plan' = chosen
       /\ pc' = "planned"
       /\ UNCHANGED <<luncPrice, balance, cycle, sized>>

Choose(maxTrips, fee) ==
  /\ pc = "approved"
  /\ Send(Chosen(Trips(maxTrips), maxTrips, fee))
  /\ UNCHANGED <<external, states, orders>>

(* The broadcast: every message takes effect, or none. *)
Lands ==
  /\ pc = "planned"
  /\ LET r == Outcome(plan.msgs, wallet, market)
     IN  /\ r.ok
         /\ r.wallet[LUNC] >= plan.gas
         /\ market' = r.market
         /\ wallet' = [r.wallet EXCEPT ![LUNC] = @ - plan.gas]
  /\ orders' = orders + 1
  /\ GiveUp
  /\ UNCHANGED <<drift, states>>

Reverts ==
  /\ pc = "planned"
  /\ wallet[LUNC] >= plan.gas
  /\ ~Outcome(plan.msgs, wallet, market).ok
  /\ wallet' = [wallet EXCEPT ![LUNC] = @ - plan.gas]
  /\ orders' = orders + 1
  /\ GiveUp
  /\ UNCHANGED <<market, drift, states>>

Next ==
  \/ \E c \in Cycles : Discover(c)
  \/ \E failing \in SUBSET Pools : Refresh(failing)
  \/ \E fee \in Fees : Approve(fee) \/ Refuse(fee)
  \/ SimulationFails
  \/ \E maxTrips \in TripLimits, fee \in Fees : Choose(maxTrips, fee)
  \/ Lands
  \/ Reverts
  \/ \E p \in Pools, i \in 1..2, offer \in Trades :
       Drift([pool |-> p, in |-> Pair[p][i], out |-> Pair[p][3 - i]], offer)

Spec == Init /\ [][Next]_vars
=============================================================================
