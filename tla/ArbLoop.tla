------------------------------ MODULE ArbLoop ------------------------------
(***************************************************************************)
(* arbitrage_bot.run_once and main's loop around it: fetching pool states, *)
(* discovering and ranking cycles, the forced test trade, and the fall-back*)
(* over candidates with its failure cooldown, up to the cycle handed to    *)
(* _execute_winning_cycle (module Execution).                              *)
(*                                                                         *)
(* What a cycle is worth is not modelled: whether it is sizeable, clears   *)
(* the flat floor and passes its real check is open, except for the cycles *)
(* an instance declares Steady or Doomed.  Time is counted in ticks and    *)
(* passes at the end of a loop; a loop takes up to Slow of them.           *)
(***************************************************************************)
EXTENDS Integers, Sequences, FiniteSets

CONSTANTS
  Edges,        \* [pool, in, out]: build_edges, both directions of each pool
  Natives,      \* the native assets
  StartAssets,  \* assets_to_check
  MaxHops,      \* max_hops of find_cycles
  Flaky,        \* pools whose state query may fail
  Periodic,     \* pools with a scan_interval of Interval loops
  Interval,     \* PERIODIC_POOL_SCAN_INTERVAL
  Viable,       \* bound: the cycles that can show an edge at all
  Steady,       \* cycles that are always sizeable and pass every check
  Doomed,       \* cycles that always look good and fail their real check
  MaxTried,     \* MAX_CANDIDATES_PER_LOOP
  Cooldown,     \* CYCLE_FAIL_COOLDOWN_SECONDS, in ticks
  Slow,         \* bound: ticks one loop may take
  MaxArms,      \* bound: how often the operator types the keyword
  NoCycle       \* no cycle was handed over in this loop

Pools == {e.pool : e \in Edges}

(* find_cycles: closed walks of 2..MaxHops edges that use no pool twice,   *)
(* from each asset the bot looks at.                                       *)
IsCycle(s) ==
  /\ s[1].in \in StartAssets
  /\ \A i \in DOMAIN s : s[i].out = s[IF i = Len(s) THEN 1 ELSE i + 1].in
  /\ \A i, j \in DOMAIN s : s[i].pool = s[j].pool => i = j

Cycles == {s \in UNION {[1..n -> Edges] : n \in 2..MaxHops} : IsCycle(s)}

PoolsOf(c) == {c[i].pool : i \in DOMAIN c}

(* cycle_touches_a_token *)
Token(c) == \E i \in DOMAIN c : {c[i].in, c[i].out} \ Natives # {}

(* The same pools in the same directions, whatever asset they start from.  *)
Rotations(c) ==
  {d \in Cycles : {d[i] : i \in DOMAIN d} = {c[i] : i \in DOMAIN c}}

ASSUME LoopAssumption ==
  /\ Interval \in Nat \ {0}
  /\ Viable \subseteq Cycles
  /\ IsFiniteSet(Viable)
  /\ Steady \cup Doomed \subseteq Viable
  /\ Steady \cap Doomed = {}
  /\ MaxTried \in Nat \ {0}
  /\ Cooldown \in Nat
  /\ Slow \in Nat \ {0}
  /\ MaxArms \in Nat
  /\ NoCycle \notin Cycles

VARIABLES
  known,        \* last_good_states: the pools it has a state of
  turn,         \* loop_counter, modulo Interval
  cool,         \* _recent_real_check_failures: ticks of cooldown left
  pc,           \* where run_once is
  queue,        \* candidates_sorted, without those already tried
  passes,       \* the candidates whose flag passes is set
  tried,        \* real checks made in this loop
  armed,        \* force_trade_event
  handed,       \* the cycle handed to _execute_winning_cycle in this loop
  forced,       \* whether it was handed over by the forced trade
  arms,         \* history: how often the keyword was typed
  forcedRuns    \* history: how many forced trades were handed over

market == <<known, turn>>
ranking == <<queue, passes, tried>>
outcome == <<handed, forced, forcedRuns>>
vars == <<market, cool, pc, ranking, armed, arms, outcome>>

-----------------------------------------------------------------------------
Init ==
  /\ known = {}
  /\ turn = 0
  /\ cool = [c \in Viable |-> 0]
  /\ pc = "fetch"
  /\ queue = <<>>
  /\ passes = {}
  /\ tried = 0
  /\ armed = FALSE
  /\ handed = NoCycle
  /\ forced = FALSE
  /\ arms = 0
  /\ forcedRuns = 0

(* Every pool is queried; one that fails keeps its last good state, or is  *)
(* left out of this loop if it never had one.                              *)
FetchStates(failing) ==
  /\ pc = "fetch"
  /\ known' = known \cup (Pools \ failing)
  /\ pc' = "rank"
  /\ UNCHANGED <<turn, cool, ranking, armed, arms, outcome>>

(* _cycle_in_cooldown: keyed by the exact sequence of edges. *)
InCooldown(c) == cool[c] > 0

(* Pools with a scan interval feed cycle generation on its multiples only. *)
Scanned(p) == p \in known /\ (p \in Periodic => turn = 0)

Discoverable == {c \in Viable : \A p \in PoolsOf(c) : Scanned(p)}

(* Mutant: the flag passes is no part of the order. *)
RankIgnoringPasses(c, clear) == <<0, IF Token(c) THEN 0 ELSE 1, Len(c)>>

(* The sort key, but for the profit, which breaks ties: either way here. *)
Rank(c, clear) ==
  <<IF c \in clear THEN 0 ELSE 1, IF Token(c) THEN 0 ELSE 1, Len(c)>>

Precedes(r, s) ==
  \/ r[1] < s[1]
  \/ r[1] = s[1] /\ r[2] < s[2]
  \/ r[1] = s[1] /\ r[2] = s[2] /\ r[3] < s[3]

Sorted(found, clear) ==
  {s \in [1..Cardinality(found) -> found] :
     /\ \A c \in found : \E i \in DOMAIN s : s[i] = c
     /\ \A i, j \in DOMAIN s : i < j => ~Precedes(Rank(s[j], clear), Rank(s[i], clear))}

(* Mutants: all-native cycles stay in the running; they are dropped without*)
(* a token cycle to wait for.                                              *)
KeepNatives(found, clear) == found
DropNatives(found, clear) == {c \in found : Token(c)}

(* When any token cycle passes, all-native ones are not considered; what   *)
(* remains keeps its order.                                                *)
TokenGate(found, clear) ==
  IF \E c \in clear : Token(c) THEN {c \in found : Token(c)} ELSE found

NothingFound ==
  /\ pc = "rank"
  /\ (Steady \cup Doomed) \cap Discoverable = {}
  /\ pc' = "sleep"
  /\ UNCHANGED <<market, cool, ranking, armed, arms, outcome>>

(* Discovery finds some cycles sizeable and some of those above the floor; *)
(* those cooling down do not count as passing.                             *)
RankCandidates(found, above) ==
  /\ pc = "rank"
  /\ found # {}
  /\ (Steady \cup Doomed) \cap Discoverable \subseteq above
  /\ passes' = {c \in above : ~InCooldown(c)}
  /\ queue' \in Sorted(TokenGate(found, passes'), passes')
  /\ tried' = 0
  /\ pc' = "force"
  /\ UNCHANGED <<market, cool, armed, arms, outcome>>

HandOver(c, byForce) ==
  /\ handed' = c
  /\ forced' = byForce
  /\ pc' = "execute"

(* Mutant: the request stays armed. *)
StayArmed == armed' = armed

Disarm == armed' = FALSE

(* The request is consumed, the probe amount is positive, and the best     *)
(* candidate passes its real check without the profit gate.                *)
ForcedTrade ==
  /\ pc = "force"
  /\ armed
  /\ Disarm
  /\ HandOver(Head(queue), TRUE)
  /\ forcedRuns' = forcedRuns + 1
  /\ UNCHANGED <<market, cool, ranking, arms>>

(* The probe amount is zero: this loop goes on as usual. *)
ForcedTooSmall ==
  /\ pc = "force"
  /\ armed
  /\ Disarm
  /\ pc' = IF Head(queue) \in passes THEN "try" ELSE "sleep"
  /\ UNCHANGED <<market, cool, ranking, arms, outcome>>

(* The real check fails: the loop is over. *)
ForcedRefused ==
  /\ pc = "force"
  /\ armed
  /\ Disarm
  /\ pc' = "sleep"
  /\ UNCHANGED <<market, cool, ranking, arms, outcome>>

NotForced ==
  /\ pc = "force"
  /\ ~armed
  /\ pc' = IF Head(queue) \in passes THEN "try" ELSE "sleep"
  /\ UNCHANGED <<market, cool, ranking, armed, arms, outcome>>

(* The fall-back loop goes on to the next candidate. *)
HasTurn == queue # <<>> /\ Head(queue) \in passes /\ tried < MaxTried

(* Mutant: a failed real check leaves no trace. *)
NoMark(c) == cool

(* _mark_cycle_real_check_failed *)
Mark(c) == [cool EXCEPT ![c] = Cooldown]

(* The candidate no longer stands after the refresh of its pools, or       *)
(* _prepare_execution returns None.                                        *)
CandidateFails ==
  /\ pc = "try"
  /\ HasTurn
  /\ Head(queue) \notin Steady
  /\ cool' = Mark(Head(queue))
  /\ queue' = Tail(queue)
  /\ tried' = tried + 1
  /\ UNCHANGED <<market, pc, passes, armed, arms, outcome>>

CandidateWins ==
  /\ pc = "try"
  /\ HasTurn
  /\ Head(queue) \notin Doomed
  /\ HandOver(Head(queue), FALSE)
  /\ queue' = Tail(queue)
  /\ tried' = tried + 1
  /\ UNCHANGED <<market, cool, passes, armed, arms, forcedRuns>>

(* A candidate that does not pass, the limit, or the end of the list. *)
NoSurvivor ==
  /\ pc = "try"
  /\ ~HasTurn
  /\ pc' = "sleep"
  /\ UNCHANGED <<market, cool, ranking, armed, arms, outcome>>

(* _execute_winning_cycle returns or raises; neither marks the cycle. *)
Execute ==
  /\ pc = "execute"
  /\ pc' = "sleep"
  /\ UNCHANGED <<market, cool, ranking, armed, arms, outcome>>

(* The loop is over; main sleeps and starts the next. *)
Sleep(ticks) ==
  /\ pc = "sleep"
  /\ cool' = [c \in Viable |-> IF cool[c] > ticks THEN cool[c] - ticks ELSE 0]
  /\ turn' = (turn + 1) % Interval
  /\ pc' = "fetch"
  /\ queue' = <<>>
  /\ passes' = {}
  /\ tried' = 0
  /\ handed' = NoCycle
  /\ forced' = FALSE
  /\ UNCHANGED <<known, armed, arms, forcedRuns>>

(* force_trade_listener, in its own thread. *)
Arm ==
  /\ arms < MaxArms
  /\ armed' = TRUE
  /\ arms' = arms + 1
  /\ UNCHANGED <<market, cool, pc, ranking, outcome>>

Loop ==
  \/ \E failing \in SUBSET Flaky : FetchStates(failing)
  \/ NothingFound
  \/ \E found \in SUBSET Discoverable :
       \E above \in SUBSET found : RankCandidates(found, above)
  \/ ForcedTrade \/ ForcedTooSmall \/ ForcedRefused \/ NotForced
  \/ CandidateFails \/ CandidateWins \/ NoSurvivor
  \/ Execute
  \/ \E ticks \in 1..Slow : Sleep(ticks)

Next == Loop \/ Arm

Spec == Init /\ [][Next]_vars

(* main's loop never stops. *)
FairSpec == Spec /\ WF_vars(Loop)

-----------------------------------------------------------------------------
(* The types of the variables. *)
TypeOK ==
  /\ known \subseteq Pools
  /\ turn \in 0..(Interval - 1)
  /\ cool \in [Viable -> 0..Cooldown]
  /\ pc \in {"fetch", "rank", "force", "try", "execute", "sleep"}
  /\ queue \in Seq(Viable)
  /\ pc = "force" => queue # <<>>
  /\ passes \subseteq Viable
  /\ tried \in 0..MaxTried
  /\ armed \in BOOLEAN
  /\ handed \in Viable \cup {NoCycle}
  /\ forced \in BOOLEAN
  /\ arms \in 0..MaxArms
  /\ forcedRuns \in Nat

(* The hard gate of run_once: a loop in which some token cycle passed never*)
(* trades an all-native one, not even after every token cycle has failed   *)
(* its real check, and not by force.                                       *)
NativesWaitForCalm ==
  (handed # NoCycle /\ \E c \in passes : Token(c)) => Token(handed)

(* The fall-back loop stops at the first candidate that does not pass.     *)
(* Even so, a loop that ends without a trade has given every passing       *)
(* candidate its real check, or reached the limit; all-native ones are     *)
(* passed over only for a token cycle.                                     *)
Considered(c) == Token(c) \/ ~\E d \in passes : Token(d)

NoneOverlooked ==
  (pc = "try" /\ ~HasTurn /\ tried < MaxTried)
    => \A c \in passes : Considered(c) => cool[c] = Cooldown

(* One typed keyword forces at most one trade, however the listener and    *)
(* the loop interleave.                                                    *)
OneTradePerArming == forcedRuns + (IF armed THEN 1 ELSE 0) <= arms

(* A cycle whose real check keeps failing cannot keep the others out: a    *)
(* steady cycle whose pools have been seen is traded again and again.      *)
Known(c) == PoolsOf(c) \subseteq known

NoMonopoly == \A c \in Steady : Known(c) ~> handed = c

(* The keyword, typed at any moment, takes effect at some later loop, and  *)
(* then is used up.                                                        *)
ArmingIsConsumed == armed ~> ~armed

-----------------------------------------------------------------------------
(* What comments in the code say, and the code does not do. *)

(* arbitrage_bot.py, on the cooldown: the key is such that "this survives  *)
(* being rediscovered from a different start asset" -- no rotation of a    *)
(* cycle that is cooling down is ranked as passing.                        *)
CooldownSurvivesRotation ==
  pc = "force" =>
    \A c \in passes : \A d \in Rotations(c) \cap Viable : cool[d] = 0
=============================================================================
