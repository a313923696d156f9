# A TLA+ model of tc_arb_bot

tc_arb_bot trades cyclic arbitrage on Terra Classic: it starts and ends in the
same asset, hopping over two to four pools.  This directory holds TLA+ modules
translated from its code, TLC configurations that check them on small
instances, and TLAPS proofs of the properties that matter most.  `PROJECT.json`
names, for every definition, the source lines it stands for.

Contents: [the system](#the-system) -
[modules](#modules-and-the-code-they-stand-for) - [runs](#runs) -
[properties](#the-properties-in-one-line-each) -
[bounds](#bounds-and-why-they-are-enough) - [fairness](#fairness) -
[proofs](#proofs) - [disagreements](#where-code-and-comments-disagree) -
[not modelled](#not-modelled).

## The system

One Python process.  One thread trades; a daemon thread reads the keyword of
the forced trade from stdin; another refreshes the pools' commission rates;
short-lived thread pools fetch states and balances; four worker threads run the
SDK calls that need a deadline.  Nothing is persisted: a restart (`run_bot.sh`)
starts from scratch, with the chain as the only memory.

| component | state | operations | talks to |
|---|---|---|---|
| `terra_client.TerraClient` | cached account number and sequence, time of the fetch; four deadline workers and their queue | `sign_and_broadcast`, `_wait_for_tx`, `get_account_number_and_sequence`, `simulate_fee`, `_call_with_deadline`, balances | LCD nodes (broadcast: the primary only; queries: with failover) |
| `executor` | none | build messages, `execute_leg`, `execute_cycle_atomic`, `execute_plan_atomic` | `TerraClient` |
| `arbitrage_bot._execute_winning_cycle` | leg, current amount, balances before | reserve check, split plan, balance-and-gas check, broadcast, measuring | `executor`, `TerraClient`, `graph` |
| `arbitrage_bot.evaluate_cycle`, `_prepare_execution`, multi-trip plans | none | size, profit, real gas, gates | `sizing`, `graph`, `TerraClient` |
| `arbitrage_bot.run_once` and `main` | last good states and balances, loop counter, failure cooldown, force event | fetch, discover, rank, forced trade, fall-back over candidates | all the others |
| `tax` | last rate and caps, their times, times of failures | `get_tax_rate`, `get_tax_cap`, `calculate_tax` | LCD treasury endpoints |
| `pool_client` | commission rates and when they were measured | `get_state`, commission refresh, failover | LCD nodes |
| `amm_math`, `sizing`, `graph` | memo tables of one loop | swap output, optimal size, caps, cycles, leg parameters, split plans | pure |
| `run_bot.sh` | count of fast restarts | restart with back-off, trap | the process |
| `config`, `assets` | constants | `validate` | - |

What is hard in this system, and what makes each part correct:

* **The fate of a broadcast is not known.**  The answer may be lost after the
  node took the transaction; polling may give up while it is still pending; a
  node may drop it.  The loop goes on regardless.  Correct means that the same
  trade is never executed twice and no second transaction becomes executable
  beside the first.
* **Balances are measured, not computed.**  A sequential leg is sized by a
  balance delta, read from nodes that may lag behind a block, corrected by a
  fee parsed from a result of varying shape.  Correct means that no leg offers
  more than the one before delivered, and none runs after one that did not
  deliver.
* **Check, then act.**  Balance and gas are compared, then a transaction is
  signed, with queries in between; the split planner replaces the gas estimate
  after the first check.
* **A cached sequence** is handed to gas simulation for loops after the
  transaction that consumed it.
* **Pools move** between the snapshot a candidate is sized on, the fresh one it
  is approved on, and the block it lands in.  Correct means that what lands
  pays what was approved but for the stated tolerance, and otherwise nothing
  lands.
* **Integers all the way.**  Every amount is truncated, every limit (belief
  price, spread, minimum) is rounded on its own, gas is in uluna, profit in the
  start asset, floors in uluna or uusd; searches and bisections run on
  staircases.  Correct means that a plan is accepted with its own limits, caps
  are neither unsafe nor needlessly small, and the quick reject loses nothing.
* **A cycle that looks best and always fails** would be tried in every loop and
  nothing else ever would; a cooldown is meant to prevent that.  The list of
  candidates is sorted, gated and abandoned early, and each step relies on the
  one before.
* **The treasury endpoints fail, and answer zero when they fail.**  Pricing a
  leg as tax free is the expensive mistake; asking a dead endpoint for every
  leg stalls the loop.
* **Contracts misreport their commission**, and votes change it while a query
  is under way.
* **An abandoned call keeps its worker**, or its place in an unlimited queue,
  after the caller has given up; callers after the outage must not wait for it.
* **A bot that dies at once** must not be restarted in a tight loop.
* **An operator's keyword** arrives at any moment and lifts the profit gate.

`PROJECT.json` lists these hazards at their lines, with the properties about
each, or why there is none.

## Modules and the code they stand for

`A <- B` reads: B extends A.

```
Chain <- TerraClient <- Execution <- ExecutionProps <- MCExecution
Trader ....INSTANCE, refinement.......^      ^
                                ExecutionProofs <- TraderProofs <- AmountProofs

Amm <- CycleMath <- Sizing <- Decision <- Pricing <- PricingProps <- MCPricing
                                                     PricingProps <- PricingProofs

Wrapper, Commission, Deadline <- Services <- MCServices
Commission <- CommissionProofs;  Services, CommissionProofs <- ServicesProofs

ArbLoop <- MCArbLoop            TaxCache <- MCTaxCache
ArbLoop <- ArbLoopProofs        TaxCache <- TaxProofs
```

### Execution

**Chain** is not in this repository.  It is what `terra_client.py` and
`executor.py` rely on: CheckTx compares the sequence with the committed one
advanced by what is pending; a block runs the messages of one transaction in
order on a scratch copy; either all of them take effect or only the fee does.
Prices are a premium: a swap pays its offer plus `Gain`, less a drift of up to
`MaxDrift`.  A transaction may be evicted, or its messages may fail for reasons
of their own, and the same account may be used from elsewhere (`OutsideTx`).
`lagging` is the wallet one commit ago.

**TerraClient** has one step for each point where the chain can move:
`CreateAndSign` (the SDK looks up the committed sequence), the broadcast
(accepted, rejected, or connection lost with or without effect), the polling
(`ConfirmSuccess`, `ConfirmFailure`, `GiveUpWaiting`) and the refresh of the
cached account after a confirmed success only (`RefreshAccount`).  `GetAccount`
is the once-per-loop look-up with its TTL; `SimulateSucceeds` is the node's
verdict on the sequence that was served.

**Execution** is `_execute_winning_cycle`, composed with the two above.  A job
is an approved candidate.  `pc` follows the function: reserve floor, measure,
split plan, check, send, wait, after.  In atomic mode (`mode.atomic`) the whole
cycle is one transaction; in sequential mode each leg is one, and the order of
check and measure differs, as in the code.  Every balance query reads one of
`Readings`: the committed balances or those of a node one block behind.
`quiet` records that the balance a first leg was checked or measured against
was the committed one, and that nobody else moved the wallet since the last
measurement; two properties about amounts are stated for that case, because
without it the code promises nothing.  `QueryRaises` is a query failing on
every endpoint: the exception ends in main's handler.  Split planning is
restricted to what the code can do: both planners are pinned to one trip, so
the plan keeps the messages and brings a second gas estimate.

**Trader** is the abstract specification of all that: orders are accepted one
at a time, an order has parts (none in a dry run, one for an atomic cycle, one
per leg otherwise), a part is issued only when its predecessor has been filled,
nothing else is owed, and it has not been filled before; what is owed is filled
or lost at a time nobody chooses, also after the order was settled; and the
verdict an order is settled with says something true of its parts.
`ImplementsTrader` in **ExecutionProps** is the refinement: an order is a job,
owed is what can still be included, filled is what landed, the verdict is the
report that was logged.  ExecutionProps holds the other properties as well, and
the strengthenings the proofs use.

### Pricing

**Amm** is `amm_math.py`: the constant-product output with its two truncations,
and the ternary search (60 rounds, then the scan).  **CycleMath** is the
arithmetic of `graph.py`: taxes on both sides of a leg, `simulate_cycle_legs`,
costs, prices, belief price and spread of a leg with their rounding, the fixed
minimum of a Garuda pool, leg splitting, and the projection of the pools after
a trade.  **Sizing** is `sizing.py`: probe, edge, fraction of the balance, depth
cap with its four corrections, spread cap by bisection.  **Decision** is
`evaluate_cycle`, the checks against real gas, and the plans for several trips,
written for any `max_trips` as in the code, which passes 1.  Decimal arithmetic
is exact, over the common denominators `Unit` (shares and basis points),
`Places` (places kept by a rounded limit) and `Scale` (places of a price).

**Pricing** is the trading thread over them, from a snapshot to the broadcast:
`Discover` sizes a cycle on the loop's snapshot, `Refresh` takes the fresh
one (a pool whose query fails keeps its older state), the real gas arrives,
plans are made and one is sent.  Others move the pools between any two of those
steps.  The pools are external: a pool pays by the formula the code believes
in and refuses a message whose limit is not met.  `TripLimits = {1, 2}` covers
the pinned value and the one the planner is written for.

### Loop, tax, services

**ArbLoop** is `run_once` and `main`'s loop up to the hand-over to
`_execute_winning_cycle`.  `Cycles` are the closed walks `find_cycles` returns
over the instance's graph.  `FetchStates` keeps the last good state of a
failing pool, or leaves the pool out if there is none; `Scanned` leaves out a
periodic pool in the loops between; `RankCandidates` marks those above the
floor and not cooling down, drops all-native ones when a token cycle passes,
and sorts by (passes, token, length) with ties (the profit) either way.  Then
the forced trade with its four outcomes, or the fall-back: `CandidateFails`
marks the cooldown, `CandidateWins` hands over, `NoSurvivor` is the early exit.
What a cycle is worth is open here (Pricing computes it): any subset of the
discoverable cycles may be sizeable, any subset of those above the floor,
except for cycles an instance declares `Steady` or `Doomed`.  The listener's
`is_set`/`clear` pair is one step: a keyword typed between them is the same as
one typed just before.  Nothing between the ranking and the hand-over raises
(the refresh and the simulation catch their errors), so an exception in
`run_once` appears only after the hand-over, in Execution.

**TaxCache** is `tax.py`.  The rate and each denom's cap are cached alike, so
`store` holds them under keys.  The five ways through a look-up (fresh, cooling
down, fetched, zero refused, failed) are `FromCache` ... `FetchFails`.  Pricing
a leg is two look-ups with time in between.  The endpoint answers the truth
while it works; otherwise it fails or answers zero.  Votes change the truth.
The tax of a CW20 leg is a table look-up without state and is in CycleMath.

**Wrapper** is `run_bot.sh`, with `config.validate` deciding whether a launched
bot dies at once: the operator edits `.env`, the bot crashes after any time,
and a signal arrives at any moment, also between two commands of the script,
where bash runs the trap.  **Commission** is the refresh thread of
`arbitrage_bot.py` over `pool_client.py`'s rates: rounds that end with their
slowest query, the TTL counted from before the query, the test of what an
answer may be, and the snapshots that carry a rate to the trading thread.
**Deadline** is `_call_with_deadline`: four workers, an unlimited queue, calls
given up on that keep their place, both callers' failover over endpoints, and
the interpreter waiting for all of them at exit.  The three share no state;
how the process ends, which concerns each, is left open in each of them.
**Services** puts them into one specification in which a behaviour takes the
steps of one, since interleaving them would only multiply their states.

## Runs

| run | asks | result |
|---|---|---|
| `execution_safety` | two jobs, atomic and sequential, dry and real, one outside transaction | `OneTxInFlight`, `NoDoubleSend`, `LegsInOrder`, `DryRunIsSilent`, `CompletionIsReal`, `LegSpendsOnlyProceeds` hold, and so does the refinement `ImplementsTrader` |
| `execution_liveness` | one job, two possible gas estimates, wallets holding intermediate assets, fairness of the bot's own steps | `BroadcastIsCovered`, `AtomicLossIsBounded`, `StaleSequenceHeals`, `ExecutionEnds` hold |
| `pricing` | six rotations and directions of a cycle of three pools, five markets, two wallets, pools moved between any two steps | `SizedIsSafe`, `CapIsTight`, `SearchFindsPeak`, `QuickRejectIsSound`, `PlanIsHonoured`, `RepeatsDiminish`, `LandedTradePays`, `LandedWithinTolerance` hold |
| `tax_cache` | an endpoint that breaks and recovers at any moment | `NeverUnderstated`, `RequestsAreSpaced`, `RealBeatsGuess`, `StaleOnlyWhileFailing`, `FollowsGovernance` hold |
| `loop_safety` | four cycles found in any combination, two flaky pools, a periodic one, two keywords | `NativesWaitForCalm`, `NoneOverlooked`, `OneTradePerArming` hold |
| `loop_liveness` | two doomed cycles ranked above a good one | `NoMonopoly`, `ArmingIsConsumed` hold |
| `services` | the wrapper, the commission refresh and the deadline workers, each with its failures | `BurstIsBounded`, `CommissionKeepsUp`, `RecoversAfterOutage` hold |
| `execution_final`, `execution_warn`, `loop_rotation`, `pricing_depth`, `pricing_gas` | five statements of comments and log lines | each violated, see [below](#where-code-and-comments-disagree) |

Each module's type invariant is checked along with the first run of its
component.  It says more than types where the code could go wrong: a leg's
offer is a natural number however the balances were measured, and a leg is
never priced with a value that was never known.  Every property has a mutant in
`PROJECT.json`: a plausible bug in one definition, under which TLC finds the
property violated.  The mutants' bodies stand beside the definitions, marked
*Mutant* where they are not named for what they forget.

### The properties in one line each

Execution:

* `OneTxInFlight` - at most one transaction of the wallet can still be included.
* `NoDoubleSend` - no leg and no atomic job lands twice.
* `LegsInOrder`, `CompletionIsReal` - landed legs are a prefix of the cycle, and
  an execution that ends without complaint landed all of them.
* `ImplementsTrader` - all of it is an implementation of the abstract trader.
* `LegSpendsOnlyProceeds` - a later leg offers at most what the leg before paid
  out, even when the node answering between them lags; after a leg into LUNC
  such a node makes the offer the fee, which is added back all the same.
* `BroadcastIsCovered` - from the check to the broadcast the balance covers
  offer and gas, with the second estimate if a split plan brought one.
* `AtomicLossIsBounded` - an atomic cycle that lands is worth the plan less one
  tolerance, and draws on intermediate holdings by at most one tolerance.
* `StaleSequenceHeals` - a wrong cached sequence is corrected or expires.
* `ExecutionEnds` - an execution ends whatever the chain does.

Pricing:

* `SizedIsSafe` - the size the search picks below the spread cap is itself
  under the ceiling on every leg, but for the unit a payout is truncated by.
  Without that unit it would be false: a cap is one safe size, and a smaller
  one may be refused.  With reserves 400/400, 400/400 and 400/100 along a cycle
  and a ceiling of 25, an offer of 39 fits and one of 35 does not, since a
  payout that is truncated just before the next unit makes the larger spread.
* `CapIsTight` - the spread cap fits on every leg, and a size that exceeds it by
  at most one step of the bisection (a 16384th of the ceiling) does not.
* `SearchFindsPeak` - no size beats the one the ternary search returns by more
  than what is truncated on the way.
* `QuickRejectIsSound` - the extrapolation of the probe rejects nothing that
  would pass, up to the unit by which the probe's own gain is truncated.
* `PlanIsHonoured` - on pools that did not move, every message of a plan is
  accepted with its own limits, the profit comes home, and the wallet's other
  assets are left alone.
* `RepeatsDiminish` - trips come in decreasing order of profit, which the
  fall-back that drops the last one relies on (written for any `max_trips`; the
  code passes 1).
* `LandedTradePays` - a LUNC cycle that lands on unmoved pools leaves the
  wallet richer by the profit floor, gas included.
* `LandedWithinTolerance` - on pools that did move, what lands pays on every leg
  what the snapshot promised, less the tolerance and the rounding of the limits.

Loop and tax:

* `NativesWaitForCalm` - in a loop where a token cycle passed, no all-native one
  is traded, not even after all token cycles failed, nor by force.
* `NoneOverlooked` - the early exit of the fall-back overlooks no passing cycle.
* `OneTradePerArming`, `ArmingIsConsumed` - a keyword forces at most one trade
  and is used up.
* `NoMonopoly` - a good cycle is traded again and again although better-ranked
  ones fail for ever.
* `NeverUnderstated` - no outage, and no zero, prices a leg below what the
  believable answers or the failsafes give.
* `RequestsAreSpaced` - two requests for a parameter are a cooldown apart.
* `RealBeatsGuess` - the rate and the cap a leg is in the end charged with are
  values that were answered.  The failsafe is charged only while there was no
  answer, or after a zero that is not confirmed: a cap of zero is cached even
  over a cap that was known, `calculate_tax` then does not apply it, and the
  leg is overstated until the next answer.  The property allows that, since the
  code does it on purpose; see [below](#where-code-and-comments-disagree).
* `StaleOnlyWhileFailing`, `FollowsGovernance` - an expired value is used only
  for the cooldown of a failure, and a recovered endpoint is believed again.

Services:

* `BurstIsBounded` - never `MAX_FAST_RESTARTS` launches in a row without a full
  window or a back-off between two of them.
* `CommissionKeepsUp` - a rate in use is charged, or was, or comes from a query
  sent, no longer ago than the TTL, a sleep, a round and a query, unless a
  refresh of its pool failed.  This includes rates nobody ever charged: a
  misread inside the sanity window is believed, and the property says for how
  long at most.  That it is not believed is no property of the code.
* `RecoversAfterOutage` - when the endpoints have been healthy for longer than a
  call can hang, no caller waits a tick for what the outage left behind.

## Bounds, and why they are enough

*Execution.*  Two cycles, one of two legs starting in LUNC and one of three
starting in a token, with LUNC in the middle and a Garuda pool, cover both gas
rules, both floors on a payout and a leg in the middle.  `MaxJobs = 2` lets an
abandoned transaction meet the next job's; a third meets nothing new, since at
most one is ever pending.  `MaxDrift = 2` against `Tolerance = 1` makes pools
both hold and break their limits.  `MaxOutside = 1` is one use of the account
from elsewhere.  `CacheTTL` is one tick (two in the liveness run, so that the
cache is hit when it is neither new nor expired).  The wallets are such that
offer and gas are just covered, or not after a fee; those of
`execution_liveness` also hold an intermediate asset (`MCScarce`).  That run
has two fees and, to stay small, one bound more: once the account was used
from elsewhere only the lower fee is in play, and the other way round
(`OneSurprise`).  It leaves each step of the bot an alternative, namely the
lower estimate, so that fairness means what it means without it; what it gives
up is the higher fee together with an outside transaction, about which
`BroadcastIsCovered` says nothing anyway (`quiet`), and for which
`AtomicLossIsBounded` is proved.  `jobs` is the only other counter and is
bounded by `MaxJobs`.

*Pricing.*  Three pools between three assets give every rotation and direction
of a cycle; one is a Garuda pool, so both kinds of limit occur; one asset has a
price of its own, so all three conversions of gas do.  The five markets are a
good edge, a wide one, a thin one, and two that do not pay.  Reserves are a few
hundred units, and the shares are scaled so that each cap binds in some market:
`PoolShare = 30`, `Ceiling = 45`, `FloorShare = 5`.  `Unit`, `Places` and
`Scale` are 100 where the code has 10000 and more, which makes every rounding
coarser than in the code; an allowance in a property counts those roundings.
One trade by others of a size that breaks limits (`Trades = {30}`,
`MaxDrift = 1`), between any two steps, is enough to meet every check with a
state it was not made on; one broadcast (`MaxOrders = 1`), since a second
starts from a state that is as good as an initial one.  No pool pays more than
four units for one, which is where a price in hundredths is still resolved to
within the tolerance of two hundredths; with one that pays eight the plan is
refused by the reserves it was computed from (see [below](#where-code-and-comments-disagree)).

*TaxCache.*  Two denoms, one with a confirmed zero cap and one without; two
rates; caps of zero and of two, so that a zero can displace a cap that was
known, against a failsafe cap of five; a TTL longer than the cooldown; one
vote.  `MCInit` fixes two of the three parameters at the start, which the vote
may change.  The proofs are for all rates and caps.

*ArbLoop.*  A token on two pools against LUNC, found from both of its assets
and in both directions, and two LUNC/USTC pools, one periodic.  `MaxTried = 2`
is below the number of passing cycles, so the limit is reached.  In the
liveness run `MaxTried = 1`: each loop tries one doomed cycle.  `Viable` leaves
out cycles that never show an edge.

`NoMonopoly` is relative to a condition on the constants that the run meets and
the code does not enforce: the cooldown must outlast the loops it takes to try
all doomed cycles once, counted in the loops in which the good one is
discoverable, i.e. `Cooldown > Slow * Interval * Doomed / MaxTried` in the
instance's units.  With `Cooldown = 7` in place of 9 the property fails there.
With the defaults (60 s, interval 5, about 15 s per loop, 20 candidates per
loop) the interval alone is longer than the cooldown; what saves the default
configuration is that 20 candidates are tried in one loop, so that only an
all-native cycle over the periodic pool could be kept out by the gate.

*Services.*  `MaxFast = 3` restarts within `Window = 3` ticks against a
`Backoff` of 5; four environments, one with a missing value, one with two pools
at one address.  Four pools, two of them pinned, one of those mislabelled;
`TTL = 4`, queries of up to one tick, two rates, the kinds of wrong answer the
comments describe (orders of magnitude too low, a fee on a tiny probe, no
output), and two that pass the sanity test: a rate nobody charges, and the
wrong one of those that are.  `CommissionKeepsUp` counts with `Refreshers`, which the run
has at 1; it also holds with 2.  Two workers, two endpoints, calls that hang up
to five ticks against a limit of two: both workers and the queue are full of
abandoned calls when the outage ends.  `QueueBound = 4` is reached only in an
outage; the proof is for every bound.

## Fairness

* Execution: `WF(Trade)`, `WF(Client)`, `WF(Clock)`.  These are the process's
  own steps; every network call has a timeout and polling gives up, so each
  step ends.  Nothing is assumed of the chain (`World` has no fairness): it may
  never include anything.
* TaxCache: `WF(Calculate)` (every loop prices legs) and `WF(Tick)`.  The
  endpoint has none; `FollowsGovernance` assumes in its premise that it works
  again for good.
* ArbLoop: `WF(Loop)`: main's `while True`.  Which way a loop goes is never
  assumed; the keyword is never assumed.
* Pricing and the services: none.  What must happen in time is stated there
  with ages and waiting times, as safety.

## Proofs

All theorems are of the form `Spec => ...`, some under a named hypothesis that is
stated with them, and hold for every value of the constants under the named
assumptions of the modules (finite sets and positive numbers, rates that are
shares, a cycle's end equal to its start, no two neighbours equal).

`ExecutionProofs`: type correctness, `OneTxInFlight`, `NoDoubleSend`,
`DryRunIsSilent`, `BroadcastIsCovered`.

* `OneSlot` strengthens `OneTxInFlight`: nothing in the mempool, and nothing
  signed, carries a sequence above the committed one.  `OneTxInFlight` alone is
  not inductive, because a signed transaction with a later sequence could be
  admitted beside a pending one.
* `CallOfJob` ties the call under way to the job and leg under way, and
  `FreshTag` orders everything ever broadcast for the present job before the
  present leg.  Together they give `NoDoubleSend`: when a broadcast is made,
  its tag is new.
* `StillCovered` carries the checked balance from the check to the broadcast;
  only a transaction of this wallet or of somebody else could lower it, and the
  first is excluded by the order of the steps, the second by `quiet`.

`TraderProofs`: `LegsInOrder`, `CompletionIsReal` and the refinement
`ImplementsTrader`.  `InStep` adds where the trading thread is to what has
landed: the legs behind the present one (`LegsBehind`), the predecessor of
whatever a node knows (`KnownInOrder`), and the call that was confirmed
(`Confirmed`).  `BroadcastPart` says what a broadcast may contain,
`PartsLanded` and `TradeVerdicts` what a report is backed by; then
each kind of step is mapped to a step of the trader or to none (`RefineTrade`,
`RefineClient`, `RefineWorld`).

`AmountProofs`: `AtomicLossIsBounded`, for cycles that touch no asset twice
before they close (`SimpleCycles`).  `Planned` says that whatever is signed or
pending for a whole cycle is `Chained`: each message offers what the one before
was planned to deliver and demands that but for the tolerance.  `Scratch` bounds the scratch
balances after k messages by `Floor`, leg by leg; `ScratchMoves` is the step.
The condition is needed: `find_cycles` only forbids using a pool twice, and on
a walk that passes through one asset twice the tolerances of two legs add up.

`LegSpendsOnlyProceeds`, in the same module, needs another chain of invariants,
which follows one leg: what was measured before it is no less than what the wallet holds
(`Measured`) because between two legs a lagging node can only show more of any
asset but the one just received (`Sunk`); when its one message has landed
nothing of the wallet is pending (`Settled`), and the difference on either node
is within its proceeds (`Within`).

`TaxProofs`: type correctness and the four safety properties, from `TaxInv`:
what is stored was once answered (`Learned`), a cached rate is believable, and
the ages in the store bound the time since the last request from below
(`Spaced`).  `LookupStep` states once what a look-up returns and does to the
store; the rate carried from the first look-up to the second stays believable
because the set of believable answers only grows.  `RealBeatsGuess` is about
what is charged, so `CarriedIsCharged` follows the rate from its look-up to the
end of the leg, and `CapIsCharged` takes a looked-up cap through
`EffectiveCap`.

`ArbLoopProofs`: type correctness, `NativesWaitForCalm`, `NoneOverlooked`,
`OneTradePerArming`.  The queue is followed from the sort to the end of the
loop: passing candidates stay in front (`Ordered`), no all-native one is in it
while a token cycle passes (`Gated`), and each passing candidate is in it or
cooling down (`Accounted`).  `SortedQueue` is the lemma on the sort.

`CommissionProofs`: `CommissionKeepsUp`, for every list of pools, number of
refresh threads, TTL, sleep and query time.  The bound cannot be read off any
one step: a rate is old when its pool waits for others, so the invariant
counts *work*.  `Work(p)` is the set of query ticks the others still need
before `p` is asked, and `Room(p, work)` says that this much work, shared by
all threads, ends before `p`'s rate is too old.  `InTime` states it for each
place a pool can be in: waiting in this round (`WaitingInTime`), asked
(`AskedInTime`), done and waiting for the slowest query of the round
(`DoneInTime`), asleep (`AsleepInTime`).  A tick of all threads takes
`Refreshers` off the work of everyone who waits while a thread is idle for
nobody; `RoundsAreOrderly` (the queue is served in order, and no thread is idle
while somebody waits) makes that so.  `AnswersAge` says that an answer under way
is no older than its query.  One hypothesis remains, about the deployment: a
query with its failover is shorter than the TTL (`QueriesAreShort`; otherwise a
rate expires while it is asked for).  Of what contracts answer nothing is
assumed: `behind` counts, pool by pool, from the moment the rate in use was
last the one charged, or its query was sent, whether or not it ever was a real
one (`BehindGrowsByTicks`, `AcceptedIsFresh`).  What the sanity test itself
ensures is `RatesStaySane`, without any hypothesis: a rate in use is the
default, or at most the ceiling and above the default's twentieth less one.

`ServicesProofs`: the composition (`ServicesAreServices`) and the types of all
three.  *Wrapper*: `BurstIsBounded`.  `Paced`
relates the script's counter to the history: while the bot runs it is at least
the number of launches that followed each other without a long gap.
*Deadline*: `RecoversAfterOutage`.  `HangsAreOld` says that a hung call is at
least as old as the endpoints have been healthy, `CallIsSomewhere` that the call
waited for is queued or in a worker, and `NotWaiting` that a caller who is not
calling has waited for nothing; together they exclude a healthy caller behind a
worker that hangs for longer than a call can.

`PricingProofs`: types, `CapIsTight`, `SizedIsSafe`, `PlanIsHonoured`,
`LandedTradePays` and `LandedWithinTolerance`, for every set of pools, assets
and cycles, every reserve, tax rate, commission, tolerance, ceiling and
`max_trips` the assumptions of CycleMath, Decision and Pricing allow: rates are
shares, a pool trades two different assets, the tolerance is a whole number of
the places a limit is rounded to, the ceiling is below the whole, a planner is
asked for at least one trip, and a cycle is one `find_cycles` returns.  The code
passes `max_trips = 1`; the theorems also cover the bundles of several trips and
the split legs it would plan with more.  The numbers are built from below:

* *Rounding.*  `Division`, `Truncation`, `RoundedUp`, `CeilCovers` bound each
  quotient by products; `Monotone` and `Cancels` are nearly all the nonlinear
  reasoning the provers need beyond that.
* *A pool* never pays more than the spot price of what it is offered, strictly
  less when it is offered anything, nor its whole reserve (`SwapBounds`); a tax
  takes between nothing and everything, in either direction (`TaxIsAShare`).
* *What is computed step by step.*  The flow of a cycle, the bisection, the
  ternary search, the scratch pools of a transaction, the trips of a bundle, the
  parts of a split leg are functions defined by their previous value.  That such
  a function exists, and stays where its step stays, is proved once
  (`StepByStep`, `StaysIn`), from the least number of a set, and used for
  each: `FlowUnfolds`, `Bisection`, `OptimalSizeIsWithin`, `OutcomeUnfolds`,
  `TripsAreChained`.
* *The bisection* keeps its lower end safe and its upper end not
  (`HalfStepNarrows`), and halves what is between, fourteen times: `CapsAreTight`.
* *Below the cap.*  That a size under a safe one is safe as well is no property
  of the comparison in the code, which is on truncated payouts.  `Shallow` is
  the same bound on the exact payout: `SafeIsShallow` and `ShallowIsSafe` relate
  the two within one unit, `LessIsShallower` is monotone in the offer.  The
  offer of a later leg is what the earlier ones pay and tax (`HopGrows`), so
  what a pool pays must grow with its offer, and it only does while the spread
  is below one half: `PayGrows`, and the hypothesis `ModerateCeiling` of
  `SizesAreSafe`.  The code's default ceiling is 1000 of 10000 basis points.
* *A list of messages.*  `Carry(msgs, c, s, t, x)` says that the messages lead
  from the pools `s` to the pools `t`, each with the limits computed at its own
  turn, and that the wallet gains at least `x`, asset by asset.  Lists that
  carry can be appended (`ListsJoin`).  One trip carries its buffered profit
  because no pool comes twice in a cycle, so each message meets its pool as it
  was before the first (`TripCarries`); the trips of a bundle do because each is
  priced against what the ones before leave (`TripsCarry`); and a leg
  split into parts pays no less than the leg at once (`LegCarries`), so that a
  split plan carries what the cycle was sized for (`PlanCarries`).
* *The thread.*  `PricingInv` says what it holds: reserves and balances are
  numbers (`Holding`); a candidate is a known cycle and its size and gross are
  what `evaluate_cycle` makes of the snapshot at hand (`Stages`); whatever is
  adopted carries what it was adopted for, and is accepted on the pools of the
  snapshot (`Adopted`).  `TypeOK` is not inductive without it: a reserve stays a
  natural number because a pool pays less than it has, a balance because the
  list was simulated.
* *What was simulated stays true.*  A list is simulated on the pools as they
  are, and may be sent after they moved and came to be what they were.  They
  cannot: each swap makes the product of a pool's reserves grow, or leaves the
  product and makes their sum grow (`Further`), so a pool that left the snapshot
  never returns to it (`PoolsNeverReturn`, `Apart`).  Hence on pools equal to
  the snapshot the simulation was of these very pools, the outcome is the same
  (`SameOutcome`), and what is accepted brings home what it carries
  (`CarriedHome`): `PlansAreHonoured`, `LandedTradesPay`.
* *Limits.*  `BeliefLimits` and `MinimumLimits`: whatever a pool has become, a
  message it accepts pays what its limits were computed from, but for the
  tolerance and the roundings that `Allowance` lists.

`LandedTradesPay` and `LandingsStayWithinTolerance` are action properties; all
but `SizesAreSafe` are stated without a hypothesis.

Only model-checked, in Pricing: `SearchFindsPeak`, `QuickRejectIsSound` and
`RepeatsDiminish`.  Each compares amounts
or profits at different sizes or on different pools, as if what a cycle pays
were concave; it is so only up to the truncations, and how these add up along a
cycle has no bound that holds for all constants (the bounds in the properties
are those of the instance's rates).  Only model-checked for good: everything under fairness
(`StaleSequenceHeals`, `ExecutionEnds`, `FollowsGovernance`, `NoMonopoly`,
`ArmingIsConsumed`), since liveness and ENABLED are out of the prover's reach.

## Where code and comments disagree

1. `execution_final`: a failed broadcast is logged with "No funds moved beyond
   gas"; after a timeout or a lost answer the transaction may still land.
2. `execution_warn`: a net gain is compared with offer plus profit, so a
   perfect trade is warned about as under 70%.
3. `loop_rotation`: the cooldown is said to survive rediscovery from another
   start asset; its key is the ordered tuple of edges, and it does not.
4. `pricing_depth`: `liquidity_cap_for_cycle` is said to size a cycle "so that
   no single leg of the cycle ever offers more than" its share of the pool,
   "overshooting past a pool's real depth is not" fine.  When a later leg binds
   its four corrections approach that share from above and stop there: in the
   run the third leg may offer 40 of a share of 39.  The spread cap and the
   search come after it and may cut the size again.
5. `pricing_gas`: the profit is said to be net of real gas; for a start asset
   other than LUNC the gas is converted to uusd and subtracted from an amount of
   the start asset.

Also seen while modelling, and without a run of its own:

* `compute_leg_execution_params` says that the direction a belief price is
  rounded in does not matter.  It is kept to six places, so on a pool whose
  reserves differ by more than 10^4 (usdc into LUNC) half of its last place is
  more than the tolerance of 50 basis points: rounded down, the leg is refused
  with its own limit although nothing has moved, which the simulation before a
  send discovers (`PlanIsHonoured` holds because of that simulation, not because
  of the rounding); rounded up, it may pay less than the tolerance allows
  (`Allowance` in `LandedWithinTolerance`).
* The cached sequence is refreshed only after a confirmed success, so
  `simulate_fee` is refused for the loops after any other end of a broadcast,
  until the TTL runs out (`StaleSequenceHeals`).
* After a leg into LUNC a node that has not seen the block shows no proceeds,
  and the fee added back becomes the next leg's offer.
* A candidate that is refused or reverts after its approval leaves no cooldown,
  so the same one may be picked in every loop.
* `last_good_states` is said to be "stale by one loop" and may be older without
  limit.  An armed keyword may fire many loops later when the loops in between
  find no candidate, although the listener promises the next one.
* `tax.py` says that the failsafes are used "only if NO fetch has EVER
  succeeded" (27-33).  A cap of zero answered with a 200 is cached over the cap
  known before (222-225), and for a denom whose zero is not confirmed
  `calculate_tax` then charges the failsafe cap (284-292), although a real cap
  is known.  It errs on the side the module prefers (`RealBeatsGuess` and
  `NeverUnderstated` hold with it).
* `spread_cap_for_cycle` answers 0 when its floor (the ceiling's hundred
  thousandth) does not fit, although another size might.
* `find_optimal_leg_split` subtracts gas in units of the leg's input from a
  gain in units of its output; harmless while it is pinned to one trip.
* `max_offer_for_cycle` may exceed the balance of a start asset other than LUNC
  (the multiplier is applied after the fraction); the chain then refuses.
* "Never wrongly skip" of the quick reject holds up to the unit the probe's gain
  is truncated by.
* "Any pool probed with a native offer asset will trip this every time" (of the
  anomaly check, `pool_client.py` 535-536) holds for prices orders of magnitude
  from one.  A fee on the input at a price near one falls inside the sanity
  window and is believed, as the docstring's own warning (456-471) suggests;
  `Misreads` contains such answers.
* The queue before the deadline workers has no limit, and at exit the
  interpreter drains it.  A TERM to the wrapper does not reach the running bot:
  bash runs the trap when the bot has ended.

## Not modelled

| part | why |
|---|---|
| last known balances; the forced trade and DRY_RUN inside Pricing; shadow statistics | the first two are in ArbLoop and Execution, where sizes are open; the statistics only log |
| the composition of ArbLoop with Pricing | the loop is checked for every combination of sizes and floors, of which Pricing computes some |
| HTTP sessions, retries inside one query, JSON shapes | I/O; what reaches the callers (an answer, a late one, none, a lagging one) is modelled |
| the probe cache and memo tables | they save recomputation within one call tree and do not outlive a snapshot |
| `config`'s tables, `assets`, the hash shim | tables and value types; numbers the code branches on are CONSTANTS |
| smoke tests, probes, inspection scripts | run by hand against the live chain, never imported |
