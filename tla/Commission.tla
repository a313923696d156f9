----------------------------- MODULE Commission -----------------------------
(***************************************************************************)
(* pool_client's pools and arbitrage_bot.commission_refresh_loop: a thread *)
(* that asks every pool's contract, when its last answer has aged, what    *)
(* commission it charges, while the main thread takes snapshots of the     *)
(* pools with whatever rate is known at that moment.                       *)
(*                                                                         *)
(* Rates are basis points.  A governance vote changes what every pool      *)
(* charges; contracts also misreport it (module constant Misreads), the    *)
(* fee-on-input answer that passes the sanity checks included.  Time is    *)
(* counted in ticks; what a thread does without waiting takes none.        *)
(***************************************************************************)
EXTENDS Integers, Sequences, FiniteSets

CONSTANTS
  PoolList,     \* the pools in their order
  Pinned,       \* Garuda pools and COMMISSION_SIMULATION_PARKED
  Mislabelled,  \* Garuda pools whose configured assets are not the chain's
  Refreshers,   \* worker threads of the refresh loop
  TTL,          \* _COMMISSION_TTL_SECONDS
  Every,        \* interval_seconds of the refresh loop
  QueryLimit,   \* bound: ticks one query may take, fail-over included
  Default,      \* default_commission of every pool
  Rates,        \* bound: what a pool may really charge
  Misreads,     \* wrong answers, [fee, raw]: fee charged on raw output
  None          \* no snapshot, no query

Pools == {PoolList[i] : i \in DOMAIN PoolList}

ASSUME CommissionAssumption ==
  /\ PoolList \in Seq(Pools) /\ Pools # {}
  /\ \A i, k \in DOMAIN PoolList : PoolList[i] = PoolList[k] => i = k
  /\ Pinned \subseteq Pools /\ Mislabelled \subseteq Pinned
  /\ Refreshers \in Nat \ {0}
  /\ TTL \in Nat \ {0} /\ Every \in Nat \ {0} /\ QueryLimit \in Nat
  /\ Default \in Nat /\ Rates \subseteq Nat
  /\ \A m \in Misreads : m.fee \in Nat /\ m.raw \in Nat /\ m.fee <= m.raw
  /\ None \notin Nat

VARIABLES
  charged,    \* the rate governance has set
  rate,       \* commission_rate of each pool
  resolved,   \* age of _commission_resolved_at up to TTL, or Never
  job,        \* each pool in this round: "waiting", "asking", "done"
  asked,      \* age of the query under way, and the rate when it was sent
  nap,        \* ticks the thread still sleeps; 0 in a round
  served,     \* last_good_states: the rate in each pool's last snapshot
  missed,     \* history: a refresh has failed since the last that did not
  behind      \* history of a pool that is asked: ticks since its rate was
              \* last the one charged, or the query it is from was sent;
              \* up to Old

commissionVars ==
  <<charged, rate, resolved, job, asked, nap, served, missed, behind>>

Never == TTL + 1
BPS == 10000
Ceiling == 2000          \* 0.20
AnomalyFactor == 20

Live == Pools \ Pinned

(* Between two looks at a pool come the queries of the others, in the rest *)
(* of one round and the start of the next; Refreshers - 1 of them may be   *)
(* under way already.  So old can a rate get that is always refreshed.     *)
OthersTime ==
  QueryLimit *
    ((Cardinality(Live) - 1 + 3 * (Refreshers - 1)) \div Refreshers)
KeepUp == TTL - 1 + OthersTime + Every + QueryLimit
Old == KeepUp + 1

FreshPools ==
  /\ rate = [p \in Pools |-> Default]
  /\ resolved = [p \in Pools |-> Never]
  /\ job = [p \in Pools |-> "waiting"]
  /\ asked = [p \in Pools |-> None]
  /\ nap = 0
  /\ served = [p \in Pools |-> None]
  /\ missed = [p \in Pools |-> FALSE]

CommissionInit ==
  /\ charged \in Rates
  /\ behind = [p \in Live |-> IF Default = charged THEN 0 ELSE Old]
  /\ FreshPools

(* The simulation's answer when the contract reports what it charges: one  *)
(* fee, or White Whale's three, over the output before fees.               *)
Honest(r) == [fee |-> r, raw |-> BPS]

RateOf(a) == (a.fee * BPS) \div a.raw

(* Zero output, over twenty times below the default, or over the sanity    *)
(* ceiling: the previous rate is kept.                                     *)
Believable(a) ==
  /\ a.raw > 0
  /\ Default > 0 => AnomalyFactor * a.fee * BPS >= Default * a.raw
  /\ a.fee * BPS <= Ceiling * a.raw

Asking == {p \in Pools : job[p] = "asking"}

(* executor.map hands the pools out in their order.                        *)
NextUp(p) ==
  /\ nap = 0 /\ job[p] = "waiting"
  /\ \E i \in DOMAIN PoolList :
       /\ PoolList[i] = p
       /\ \A k \in 1..(i - 1) : job[PoolList[k]] # "waiting"
  /\ Cardinality(Asking) < Refreshers

Due(p) == p \notin Pinned /\ resolved[p] >= TTL

(* refresh_commission_if_due: pinned, or not yet due.                      *)
Skip(p) ==
  /\ NextUp(p) /\ ~Due(p)
  /\ job' = [job EXCEPT ![p] = "done"]
  /\ UNCHANGED <<charged, rate, resolved, asked, nap, served, missed, behind>>

(* `now` is taken and the simulation query sent.                           *)
Ask(p) ==
  /\ NextUp(p) /\ Due(p)
  /\ job' = [job EXCEPT ![p] = "asking"]
  /\ asked' = [asked EXCEPT ![p] = [age |-> 0, rate |-> charged]]
  /\ UNCHANGED <<charged, rate, resolved, nap, served, missed, behind>>

Done(p) ==
  /\ job' = [job EXCEPT ![p] = "done"]
  /\ asked' = [asked EXCEPT ![p] = None]

(* What the contract may answer: it ran the query when it was sent, or     *)
(* just now, or it misreports.                                             *)
Answers(p) == {Honest(asked[p].rate), Honest(charged)} \cup Misreads

AnsweredNow(p) == 0

(* The time of resolution is the one taken before the query.               *)
ResolvedAt(p) == IF asked[p].age < TTL THEN asked[p].age ELSE TTL

Accepted(p) ==
  /\ job[p] = "asking"
  /\ \E a \in Answers(p) :
       /\ Believable(a)
       /\ rate' = [rate EXCEPT ![p] = RateOf(a)]
       /\ behind' = [behind EXCEPT ![p] =
                      IF RateOf(a) = charged THEN 0 ELSE asked[p].age]
  /\ resolved' = [resolved EXCEPT ![p] = ResolvedAt(p)]
  /\ missed' = [missed EXCEPT ![p] = FALSE]
  /\ Done(p)
  /\ UNCHANGED <<charged, nap, served>>

(* No answer, an unknown shape, or one that is not believed.               *)
Kept(p) ==
  /\ job[p] = "asking"
  /\ missed' = [missed EXCEPT ![p] = TRUE]
  /\ Done(p)
  /\ UNCHANGED <<charged, rate, resolved, nap, served, behind>>

(* The with-block waits for the whole round, then the thread sleeps.       *)
RoundEnds ==
  /\ nap = 0 /\ \A p \in Pools : job[p] = "done"
  /\ nap' = Every
  /\ UNCHANGED
       <<charged, rate, resolved, job, asked, served, missed, behind>>

(* get_state, by the main thread: the reserves are fetched and the rate    *)
(* known at that moment goes into the snapshot.  A Garuda pool that is not *)
(* the configured one raises, like a query that fails: run_once then goes  *)
(* on with the last good snapshot, or without the pool.                    *)
GetState(p) ==
  /\ p \notin Mislabelled
  /\ served[p] # rate[p]
  /\ served' = [served EXCEPT ![p] = rate[p]]
  /\ UNCHANGED <<charged, rate, resolved, job, asked, nap, missed, behind>>

GovernanceSets ==
  /\ charged' \in Rates \ {charged}
  /\ behind' = [p \in Live |-> IF rate[p] = charged' THEN 0 ELSE behind[p]]
  /\ UNCHANGED <<rate, resolved, job, asked, nap, served, missed>>

(* The process ends and the next one knows nothing.                        *)
Restart ==
  /\ rate' = [p \in Pools |-> Default]
  /\ resolved' = [p \in Pools |-> Never]
  /\ job' = [p \in Pools |-> "waiting"]
  /\ asked' = [p \in Pools |-> None]
  /\ nap' = 0
  /\ served' = [p \in Pools |-> None]
  /\ missed' = [p \in Pools |-> FALSE]
  /\ behind' = [p \in Live |-> IF Default = charged THEN 0 ELSE Old]
  /\ UNCHANGED charged

OlderStill(n) == n + 1

Aged(n) == IF n = Never \/ n = TTL THEN n ELSE n + 1

(* Nothing a thread can do at once is left undone, no query is overdue;    *)
(* when the sleep ends every pool is in the next round.                    *)
CommissionTick ==
  /\ \A p \in Pools : ~NextUp(p)
  /\ nap = 0 => Asking # {}
  /\ \A p \in Asking : asked[p].age < QueryLimit
  /\ resolved' = [p \in Pools |-> Aged(resolved[p])]
  /\ asked' = [p \in Pools |-> IF p \in Asking
                               THEN [asked[p] EXCEPT !.age = @ + 1] ELSE None]
  /\ nap' = IF nap > 0 THEN nap - 1 ELSE 0
  /\ job' = IF nap = 1 THEN [p \in Pools |-> "waiting"] ELSE job
  /\ behind' = [p \in Live |-> IF rate[p] = charged THEN 0
                               ELSE IF behind[p] < Old THEN behind[p] + 1 ELSE Old]
  /\ UNCHANGED <<charged, rate, served, missed>>

CommissionNext ==
  \/ \E p \in Pools :
       \/ Skip(p) \/ Ask(p) \/ Accepted(p) \/ Kept(p) \/ GetState(p)
  \/ RoundEnds \/ GovernanceSets \/ Restart \/ CommissionTick

CommissionSpec == CommissionInit /\ [][CommissionNext]_commissionVars

-----------------------------------------------------------------------------

CommissionTypeOK ==
  /\ charged \in Rates
  /\ rate \in [Pools -> Nat]
  /\ resolved \in [Pools -> 0..Never]
  /\ job \in [Pools -> {"waiting", "asking", "done"}]
  /\ asked \in [Pools -> [age : 0..QueryLimit, rate : Rates] \cup {None}]
  /\ nap \in 0..Every
  /\ served \in [Pools -> Nat \cup {None}]
  /\ missed \in [Pools -> BOOLEAN]
  /\ behind \in [Live -> 0..Old]

(* A rate in use is the one governance has set, or comes from a query that *)
(* was sent, or was still right, no longer ago than the TTL, a sleep, a    *)
(* round and a query (get_state's "at most one background-refresh-interval *)
(* stale, well within the staleness the 600s TTL already tolerated"),      *)
(* unless a refresh of that pool has failed in between: neither the        *)
(* round's barrier nor a query that changes hands mid-vote adds to it.  So *)
(* long, too, may a pool be priced with a fee-on-input answer that fell    *)
(* inside the sanity checks' window before its contract is asked again.    *)
CommissionKeepsUp ==
  \A p \in Live :
    resolved[p] # Never /\ ~missed[p] => behind[p] <= KeepUp
=============================================================================
