----------------------------- MODULE Execution -----------------------------
(***************************************************************************)
(* arbitrage_bot._execute_winning_cycle, from the moment a candidate has   *)
(* been approved by _prepare_execution until the function returns or its   *)
(* exception reaches main's loop, composed with the client and the chain.  *)
(*                                                                         *)
(* An approved candidate is a job: a cycle of assets, the offer, and the   *)
(* gas simulate_fee estimated.  In atomic mode the whole cycle is one      *)
(* transaction; in sequential mode every leg is one, sized by what the     *)
(* leg before it was measured to deliver.                                  *)
(***************************************************************************)
EXTENDS TerraClient

CONSTANTS
  Cycles,       \* sequences of assets, the last equal to the first
  Garuda,       \* the pairs <<in, out>> swapped on a Garuda pool
  Amounts,      \* offers the sizing may choose
  Tolerance,    \* SPREAD_TOLERANCE_BPS: room left below the planned payout
  Reserve,      \* GAS_RESERVE_ULUNA
  MaxJobs,      \* bound: approved candidates in one behaviour
  StartWallets, \* balances the wallet may start with
  NoJob         \* no candidate is being executed

Legs(c) == 1..(Len(c) - 1)

ASSUME ExecutionAssumption ==
  /\ Cycles \subseteq Seq(Assets)
  /\ \A c \in Cycles :
       /\ Len(c) \in Nat
       /\ Len(c) >= 3
       /\ c[1] = c[Len(c)]
       /\ \A i \in Legs(c) : c[i] # c[i + 1]
  /\ Garuda \subseteq Assets \X Assets
  /\ Amounts \subseteq Nat \ {0}
  /\ Tolerance \in Nat
  /\ Reserve \in Nat
  /\ MaxJobs \in Nat
  /\ StartWallets \subseteq [Assets -> Nat]

VARIABLES
  mode,         \* DRY_RUN and ATOMIC_EXECUTION, read once at start-up
  pc,           \* where the trading thread is
  job,          \* the approved candidate
  jobs,         \* how many candidates have been approved so far
  leg,          \* the leg being executed (sequential mode)
  current,      \* current_amount: the offer of that leg
  before,       \* balances measured before the swap
  report,       \* how the last execution ended, as it was logged
  quiet         \* history: what was measured last was the committed balance,
                \* and nobody else has moved the wallet since

execVars == <<mode, pc, job, jobs, leg, current, before, report, quiet>>
vars == <<chainVars, clientVars, execVars>>

Places == {"idle", "loop", "reserve", "before", "plan", "check", "send", "wait",
           "after"}
Outcomes == {"none", "dry", "refused", "failed", "raised", "noproceeds",
             "complete", "underperformed"}
Job == [cycle : Cycles, amount : Amounts, gas : Fees]

ASSUME NoJobAssumption == NoJob \notin Job

LegIn  == job.cycle[leg]
LegOut == job.cycle[leg + 1]
Start  == job.cycle[1]
Last   == Len(job.cycle) - 1

(* simulate_cycle_legs: leg i is planned to offer what the legs before it  *)
(* are planned to deliver.                                                 *)
PlannedOffer(i) == job.amount + (i - 1) * Gain

(* Mutants: every leg a copy of the first offer; no floor on the payout.   *)
FirstOffer(i) == job.amount
NoFloor(i, offer) == 0

(* compute_leg_execution_params: a Garuda leg demands a fixed amount, the  *)
(* planned payout less the tolerance; the other pools a price, so that the *)
(* demand follows the amount really offered.                               *)
MinPayout(i, offer) ==
  LET base == IF <<job.cycle[i], job.cycle[i + 1]>> \in Garuda
                THEN PlannedOffer(i)
                ELSE offer
  IN  IF base + Gain > Tolerance THEN base + Gain - Tolerance ELSE 0

SwapMsg(i, offer) == [in |-> job.cycle[i], out |-> job.cycle[i + 1],
                      offer |-> offer, min |-> MinPayout(i, offer)]

LegOffer(i) == PlannedOffer(i)

(* One transaction for the whole cycle, or one for this leg. *)
Messages ==
  IF mode.atomic THEN [i \in 1..Last |-> SwapMsg(i, LegOffer(i))]
                 ELSE <<SwapMsg(leg, current)>>

CallTag == [job |-> jobs, leg |-> IF mode.atomic THEN 0 ELSE leg]

-----------------------------------------------------------------------------
Init ==
  /\ wallet \in StartWallets
  /\ lagging = wallet
  /\ chainSeq = 0
  /\ mempool = {}
  /\ block = NoBlock
  /\ landed = {}
  /\ reverted = {}
  /\ proceeds = 0
  /\ outside = 0
  /\ call = NoCall
  /\ cachedSeq = NoSeq
  /\ cacheAge = 0
  /\ served = NoSeq
  /\ mode \in [dry : BOOLEAN, atomic : BOOLEAN]
  /\ pc = "idle"
  /\ job = NoJob
  /\ jobs = 0
  /\ leg = 1
  /\ current = 0
  /\ before = [a \in Assets |-> 0]
  /\ report = [outcome |-> "none", job |-> 0]
  /\ quiet = TRUE

(* The function returns, or raises into main's handler: its local state is *)
(* gone, the loop goes on.                                                 *)
Finish(outcome) ==
  /\ pc' = "idle"
  /\ report' = [outcome |-> outcome, job |-> jobs]
  /\ job' = NoJob
  /\ leg' = 1
  /\ current' = 0
  /\ before' = [a \in Assets |-> 0]
  /\ call' = NoCall
  /\ UNCHANGED <<chainVars, cachedSeq, cacheAge, served, mode, jobs, quiet>>

Step(place) ==
  /\ pc' = place
  /\ UNCHANGED <<mode, job, jobs, leg, current, report>>

(* run_once fetches the account once, before any candidate is looked at. *)
StartLoop ==
  /\ pc = "idle"
  /\ GetAccount
  /\ Step("loop")
  /\ UNCHANGED <<chainVars, call, before, quiet>>

NoCandidate ==
  /\ pc = "loop"
  /\ Step("idle")
  /\ UNCHANGED <<chainVars, clientVars, before, quiet>>

(* A candidate passes every check of _prepare_execution, the last of which *)
(* is a successful simulate_fee with the sequence served to this loop.     *)
Approve(c, amount, gas) ==
  /\ pc = "loop"
  /\ jobs < MaxJobs
  /\ SimulateSucceeds
  /\ pc' = "reserve"
  /\ job' = [cycle |-> c, amount |-> amount, gas |-> gas]
  /\ jobs' = jobs + 1
  /\ leg' = 1
  /\ current' = amount
  /\ UNCHANGED <<chainVars, clientVars, mode, before, report, quiet>>

(* Balance queries fail over between nodes: right after an included        *)
(* transaction the one that answers may still lag behind it.               *)
Readings == {wallet, lagging}

(* The flat LUNC gas reserve floor.  In DRY_RUN nothing is queried. *)
ReservePasses ==
  /\ pc = "reserve"
  /\ mode.dry \/ \E balance \in Readings : balance[LUNC] >= Reserve
  /\ Step(IF mode.atomic THEN "before" ELSE "check")
  /\ UNCHANGED <<chainVars, clientVars, before, quiet>>

ReserveRefuses ==
  /\ pc = "reserve"
  /\ ~mode.dry
  /\ \E balance \in Readings : balance[LUNC] < Reserve
  /\ Finish("refused")

(* Mutant: the gas is left out of the sum. *)
OfferAlone == job.amount

(* What this broadcast takes out of a LUNC balance. *)
Required == job.amount + job.gas

MustCover == ~mode.dry /\ Start = LUNC

(* The hard pre-broadcast check, against a balance fetched just now. *)
CheckPasses ==
  /\ pc = "check"
  /\ \E balance \in Readings :
       /\ MustCover => Required <= balance[LUNC]
       /\ quiet' = (balance = wallet)
  /\ Step(IF mode.atomic THEN "send" ELSE "before")
  /\ UNCHANGED <<chainVars, clientVars, before>>

CheckRefuses ==
  /\ pc = "check"
  /\ MustCover
  /\ \E balance \in Readings : Required > balance[LUNC]
  /\ Finish("refused")

(* balances_before of the whole cycle, or balance_before of this leg. *)
MeasureBefore ==
  /\ pc = "before"
  /\ IF mode.dry THEN before' = before ELSE before' \in Readings
  /\ quiet' = (mode.atomic \/ leg > 1 \/ (quiet /\ before' = wallet))
  /\ Step(IF mode.atomic THEN "plan" ELSE "send")
  /\ UNCHANGED <<chainVars, clientVars>>

(* Atomic mode looks for a split plan.  Both planners are pinned to one    *)
(* trip (max_trips, max_trips_per_leg), so that its messages are those of  *)
(* the approved plan; what it brings is a second gas estimate, which       *)
(* supersedes the first in the check below.                                *)
SplitPlan(gas) ==
  /\ pc = "plan"
  /\ SimulateSucceeds
  /\ job' = [job EXCEPT !.gas = gas]
  /\ pc' = "check"
  /\ UNCHANGED <<chainVars, clientVars, mode, jobs, leg, current, before, report,
                 quiet>>

(* The split plan does not clear, or leg splitting is off: the approved    *)
(* plan stays.                                                             *)
KeepPlan ==
  /\ pc = "plan"
  /\ Step("check")
  /\ UNCHANGED <<chainVars, clientVars, before, quiet>>

(* Mutant: the executor forgets that this is a dry run. *)
NeverDry == FALSE

(* execute_leg and execute_cycle_atomic return before sign_and_broadcast   *)
(* in DRY_RUN.                                                             *)
SkipsBroadcast == mode.dry

Send ==
  /\ pc = "send"
  /\ ~SkipsBroadcast
  /\ StartCall(Messages, CallTag)
  /\ Step("wait")
  /\ UNCHANGED <<chainVars, cachedSeq, cacheAge, served, before, quiet>>

SendDry ==
  /\ pc = "send"
  /\ SkipsBroadcast
  /\ Step("after")
  /\ UNCHANGED <<chainVars, clientVars, before, quiet>>

SendReturns ==
  /\ pc = "wait"
  /\ call.stage = "ok"
  /\ Step("after")
  /\ UNCHANGED <<chainVars, clientVars, before, quiet>>

(* Atomic mode logs "no funds moved beyond gas" and returns; in sequential *)
(* mode nothing catches the exception before main's loop.                  *)
SendRaises ==
  /\ pc = "wait"
  /\ call.stage = "raised"
  /\ Finish(IF mode.atomic THEN "failed" ELSE "raised")

NextLeg(offer) ==
  /\ leg' = leg + 1
  /\ current' = offer
  /\ pc' = "before"
  /\ call' = NoCall
  /\ UNCHANGED <<chainVars, cachedSeq, cacheAge, served, mode, job, jobs, before,
                 report, quiet>>

(* Mutant: the fee is added back whatever the swap paid out. *)
DeltaPlusFee(asset, balance, fee) == balance[asset] - before[asset] + fee

(* The measured proceeds: the balance delta, corrected by the fee as       *)
(* parsed from the result when it is LUNC that was paid out.               *)
Received(asset, balance, fee) ==
  balance[asset] - before[asset] + (IF asset = LUNC THEN fee ELSE 0)

(* The fee is parsed from the transaction result, or 0 if it has no shape  *)
(* the parser knows.                                                       *)
ParsedFees == {call.tx.gas, 0}

(* The realized-vs-predicted check: less than 70% of the prediction.       *)
GrossProfit == Last * Gain

Underperformed(received) == 100 * received < 70 * (job.amount + GrossProfit)

AfterAtomic ==
  /\ pc = "after"
  /\ mode.atomic
  /\ ~mode.dry
  /\ \E balance \in Readings, fee \in ParsedFees :
       Finish(IF Underperformed(Received(Start, balance, fee))
                THEN "underperformed" ELSE "complete")

(* Mutant: a leg that delivered nothing is followed by the next one. *)
Unchecked(received) == FALSE

NoProceeds(received) == received <= 0

(* current_amount = received; the planned amounts are only used dry. *)
OfferNext(received) == received

LegDelivered ==
  /\ pc = "after"
  /\ ~mode.atomic
  /\ ~mode.dry
  /\ \E balance \in Readings, fee \in ParsedFees :
       LET received == Received(LegOut, balance, fee) IN
         IF NoProceeds(received) THEN Finish("noproceeds")
         ELSE IF leg < Last THEN NextLeg(OfferNext(received))
         ELSE Finish("complete")

AfterDry ==
  /\ pc = "after"
  /\ mode.dry
  /\ IF mode.atomic \/ leg = Last THEN Finish("dry")
                                  ELSE NextLeg(PlannedOffer(leg + 1))

(* A balance query fails on every endpoint: the exception reaches main. *)
QueryRaises ==
  /\ pc \in {"reserve", "check", "before", "after"}
  /\ ~mode.dry
  /\ pc = "check" => MustCover
  /\ Finish("raised")

-----------------------------------------------------------------------------
Trade ==
  \/ StartLoop \/ NoCandidate
  \/ \E c \in Cycles, amount \in Amounts, gas \in Fees : Approve(c, amount, gas)
  \/ ReservePasses \/ ReserveRefuses
  \/ CheckPasses \/ CheckRefuses
  \/ MeasureBefore
  \/ (\E gas \in Fees : SplitPlan(gas)) \/ KeepPlan
  \/ Send \/ SendDry \/ SendReturns \/ SendRaises
  \/ AfterAtomic \/ LegDelivered \/ AfterDry
  \/ QueryRaises

Client == SignAndBroadcast /\ UNCHANGED execVars

(* The wallet was moved by something other than the call under way. *)
OwnTxIncluded == call.tx \in (landed' \cup reverted') \ (landed \cup reverted)

Disturbs == wallet' # wallet /\ ~OwnTxIncluded

World ==
  /\ ChainNext
  /\ quiet' = (quiet /\ ~Disturbs)
  /\ UNCHANGED <<clientVars, mode, pc, job, jobs, leg, current, before, report>>

Clock == Tick /\ UNCHANGED execVars

Next == Trade \/ Client \/ World \/ Clock

Spec == Init /\ [][Next]_vars

(* Every step the bot's own code takes is taken eventually; polling gives  *)
(* up by itself, so nothing is assumed about the chain.                    *)
FairSpec == Spec /\ WF_vars(Trade) /\ WF_vars(Client) /\ WF_vars(Clock)
=============================================================================
