------------------------------ MODULE TaxCache ------------------------------
(***************************************************************************)
(* tax.py: the stability tax of a native leg, and the cache of the on-chain*)
(* parameters it is computed from.  The rate and the per-denom caps are    *)
(* cached alike, so one store holds them under the keys RateKey and the    *)
(* denoms: the last value believed, its age, and how long ago a fetch was  *)
(* last refused.                                                           *)
(*                                                                         *)
(* calculate_tax looks up the rate, then the cap; each lookup may be a     *)
(* request that takes seconds, so they are separate steps and time passes  *)
(* between them.  The endpoint (external) answers with the chain's value   *)
(* while it works; while it does not, it fails or answers zero.            *)
(***************************************************************************)
EXTENDS Integers, FiniteSets

CONSTANTS
  Denoms,           \* native denoms a leg may move
  RateKey,          \* the key of the tax rate
  CapZeroConfirmed, \* TAX_CAP_ZERO_CONFIRMED_DENOMS
  RateZeroConfirmed,\* TAX_RATE_ZERO_CONFIRMED
  Rates, Caps,      \* values governance may choose
  Unit,             \* what a rate is a fraction of
  FailsafeRate,     \* TAX_RATE_FAILSAFE_DEFAULT
  FailsafeCap,      \* TAX_CAP_FAILSAFE_DEFAULT
  TTL,              \* _CACHE_TTL, in ticks
  Retry,            \* _FAIL_RETRY_INTERVAL, in ticks
  MaxVotes,         \* bound: governance changes in one behaviour
  Unknown           \* never fetched, or no leg being priced

Keys == Denoms \cup {RateKey}

(* What governance may set a parameter to.                                 *)
Settings(k) == IF k = RateKey THEN Rates ELSE Caps

Failsafe(k) == IF k = RateKey THEN FailsafeRate ELSE FailsafeCap

ASSUME TaxAssumption ==
  /\ RateKey \notin Denoms
  /\ CapZeroConfirmed \subseteq Denoms
  /\ RateZeroConfirmed \in BOOLEAN
  /\ Rates \subseteq Nat
  /\ Caps \subseteq Nat
  /\ Unit \in Nat \ {0}
  /\ FailsafeRate \in Nat \ {0}
  /\ FailsafeCap \in Nat \ {0}
  /\ Retry \in Nat \ {0}
  /\ TTL \in Nat
  /\ TTL >= Retry
  /\ MaxVotes \in Nat
  /\ Unknown \notin Nat \cup Denoms

VARIABLES
  store,        \* _cache
  leg,          \* the native leg being priced: stage, denom and rate so far
  priced,       \* rate and cap the last leg was priced with
  truth,        \* external: the chain's parameters
  up,           \* external: whether the endpoint works
  votes,        \* how often governance has changed a parameter
  answered,     \* history: the believed answers of each key so far
  since         \* history: ticks since each key was last requested

chain == <<truth, up, votes>>
history == <<answered, since>>
vars == <<store, leg, priced, chain, history>>

NoPrice == [denom |-> Unknown, rate |-> Unknown, cap |-> Unknown]
NoLeg   == [stage |-> "idle", denom |-> Unknown, rate |-> Unknown]

(* Whatever a lookup could return, None included. *)
Values  == {Unknown, 0, FailsafeRate, FailsafeCap} \cup Rates \cup Caps

Younger(n, limit) == IF n < limit THEN n + 1 ELSE n

-----------------------------------------------------------------------------
Init ==
  /\ store = [k \in Keys |-> [value |-> Unknown, age |-> TTL, fail |-> Retry]]
  /\ leg = NoLeg
  /\ priced = NoPrice
  /\ truth \in [Keys -> Rates \cup Caps]
  /\ \A k \in Keys : truth[k] \in Settings(k)
  /\ up \in BOOLEAN
  /\ votes = 0
  /\ answered = [k \in Keys |-> {}]
  /\ since = [k \in Keys |-> Retry]

(* Mutant: a value once fetched never expires. *)
NeverExpires(k) == store[k].value # Unknown

(* _rate_fresh, _cap_fresh *)
Fresh(k) == store[k].value # Unknown /\ store[k].age < TTL

(* _rate_recently_failed, _cap_recently_failed *)
RecentlyFailed(k) == store[k].fail < Retry

(* Mutants: the failsafe whatever is known; the last value even when none  *)
(* is known.                                                               *)
GuessFirst(k) == Failsafe(k)
LastKnown(k) == store[k].value

(* Stale but real beats a guess; the failsafe only when nothing is known. *)
Fallback(k) == IF store[k].value # Unknown THEN store[k].value ELSE Failsafe(k)

Answers(k) == IF up THEN {truth[k]} ELSE {0}

(* Mutants: any zero rate is believed; a refused zero starts no cooldown;  *)
(* every use of the fallback renews the cooldown.                          *)
AnyAnswer(k, answer) == TRUE
NoCooldown(k) == store

(* A zero rate is suspicious until confirmed.  A zero cap is cached, and   *)
(* judged by Tax.                                                          *)
Believed(k, answer) == k = RateKey /\ answer = 0 => RateZeroConfirmed

Refused(k) == [store EXCEPT ![k] = [value |-> @.value, age |-> @.age, fail |-> 0]]

RenewCooldown(k) == store' = Refused(k)
DuringCooldown(k) == UNCHANGED store

(* get_tax_rate and get_tax_cap: a lookup of key k that returns value v. *)
FromCache(k, v) ==
  /\ Fresh(k)
  /\ v = store[k].value
  /\ UNCHANGED <<store, history>>

CoolingDown(k, v) ==
  /\ ~Fresh(k)
  /\ RecentlyFailed(k)
  /\ v = Fallback(k)
  /\ DuringCooldown(k)
  /\ UNCHANGED history

Fetched(k, v) ==
  /\ ~Fresh(k)
  /\ ~RecentlyFailed(k)
  /\ v \in Answers(k)
  /\ Believed(k, v)
  /\ store' = [store EXCEPT ![k] = [value |-> v, age |-> 0, fail |-> @.fail]]
  /\ answered' = [answered EXCEPT ![k] = @ \cup {v}]
  /\ since' = [since EXCEPT ![k] = 0]

ZeroRefused(k, v) ==
  /\ ~Fresh(k)
  /\ ~RecentlyFailed(k)
  /\ \E answer \in Answers(k) : ~Believed(k, answer)
  /\ v = Fallback(k)
  /\ store' = Refused(k)
  /\ since' = [since EXCEPT ![k] = 0]
  /\ UNCHANGED answered

FetchFails(k, v) ==
  /\ ~Fresh(k)
  /\ ~RecentlyFailed(k)
  /\ ~up
  /\ v = Fallback(k)
  /\ store' = Refused(k)
  /\ since' = [since EXCEPT ![k] = 0]
  /\ UNCHANGED answered

Lookup(k, v) ==
  \/ FromCache(k, v) \/ CoolingDown(k, v)
  \/ Fetched(k, v) \/ ZeroRefused(k, v) \/ FetchFails(k, v)

-----------------------------------------------------------------------------
(* calculate_tax of a native leg *)

StartLeg(d) ==
  /\ leg.stage = "idle"
  /\ leg' = [stage |-> "rate", denom |-> d, rate |-> Unknown]
  /\ priced' = NoPrice
  /\ UNCHANGED <<store, chain, history>>

GetTaxRate(v) ==
  /\ leg.stage = "rate"
  /\ Lookup(RateKey, v)
  /\ leg' = [stage |-> "cap", denom |-> leg.denom, rate |-> v]
  /\ UNCHANGED <<priced, chain>>

GetTaxCap(v) ==
  /\ leg.stage = "cap"
  /\ Lookup(leg.denom, v)
  /\ priced' = [denom |-> leg.denom, rate |-> leg.rate, cap |-> v]
  /\ leg' = NoLeg
  /\ UNCHANGED chain

CeilDiv(a, b) == (a + b - 1) \div b

(* Mutant: a zero cap is an exemption for every denom. *)
AnyCap(denom, cap) == cap

(* A zero cap counts only for denoms where it has been confirmed. *)
EffectiveCap(denom, cap) ==
  IF cap = 0 /\ denom \notin CapZeroConfirmed THEN FailsafeCap ELSE cap

(* What moving this amount costs. *)
Tax(amount, denom, rate, cap) ==
  LET tax   == CeilDiv(amount * rate, Unit)
      limit == EffectiveCap(denom, cap)
  IN  IF rate <= 0 THEN 0 ELSE IF tax <= limit THEN tax ELSE limit

-----------------------------------------------------------------------------
(* Time and the chain *)

Tick ==
  /\ store' = [k \in Keys |-> [value |-> store[k].value,
                               age   |-> Younger(store[k].age, TTL),
                               fail  |-> Younger(store[k].fail, Retry)]]
  /\ since' = [k \in Keys |-> Younger(since[k], Retry)]
  /\ UNCHANGED <<leg, priced, chain, answered>>

Vote(k, v) ==
  /\ votes < MaxVotes
  /\ v \in Settings(k)
  /\ v # truth[k]
  /\ truth' = [truth EXCEPT ![k] = v]
  /\ votes' = votes + 1
  /\ UNCHANGED <<store, leg, priced, up, history>>

EndpointFlips ==
  /\ up' = ~up
  /\ UNCHANGED <<store, leg, priced, truth, votes, history>>

Calculate ==
  \/ \E d \in Denoms : StartLeg(d)
  \/ \E v \in Values : GetTaxRate(v) \/ GetTaxCap(v)

Next ==
  \/ Calculate
  \/ Tick
  \/ \E k \in Keys, v \in Rates \cup Caps : Vote(k, v)
  \/ EndpointFlips

Spec == Init /\ [][Next]_vars

(* Every loop prices legs, and time passes. *)
FairSpec == Spec /\ WF_vars(Calculate) /\ WF_vars(Tick)

-----------------------------------------------------------------------------
(* The types of the variables. *)
TypeOK ==
  /\ store \in [Keys -> [value : Nat \cup {Unknown}, age : 0..TTL, fail : 0..Retry]]
  /\ leg \in [stage : {"idle", "rate", "cap"}, denom : Denoms \cup {Unknown},
              rate : Nat \cup {Unknown}]
  /\ leg.stage # "idle" => leg.denom \in Denoms
  /\ leg.stage = "cap" => leg.rate \in Nat
  /\ priced \in [denom : Denoms \cup {Unknown}, rate : Nat \cup {Unknown},
                 cap : Nat \cup {Unknown}]
  /\ priced.denom # Unknown =>
       priced.denom \in Denoms /\ priced.rate \in Nat /\ priced.cap \in Nat
  /\ truth \in [Keys -> Nat]
  /\ up \in BOOLEAN
  /\ votes \in 0..MaxVotes
  /\ answered \in [Keys -> SUBSET Nat]
  /\ since \in [Keys -> 0..Retry]

(* No outage, and no zero the endpoint answers during one, prices a leg    *)
(* below what the most favourable believable answers so far, or the        *)
(* failsafes, would: understating the tax is the expensive mistake.        *)
ZeroConfirmed(k) == IF k = RateKey THEN RateZeroConfirmed ELSE k \in CapZeroConfirmed

Real(k) == {v \in answered[k] : v = 0 => ZeroConfirmed(k)}

Believable(k) == {Failsafe(k)} \cup Real(k)

NeverUnderstated ==
  priced.denom # Unknown =>
    \E r \in Believable(RateKey), c \in Believable(priced.denom) :
      \A amount \in {1, Unit} :
        Tax(amount, priced.denom, priced.rate, priced.cap)
          >= Tax(amount, priced.denom, r, c)

(* A dead endpoint costs one slow lookup per cooldown window: two requests *)
(* for the same parameter are at least Retry apart, whether the endpoint   *)
(* fails or answers a zero nobody believes (tax.py, _FAIL_RETRY_INTERVAL). *)
Requested(k) ==
  \E v \in Values : Fetched(k, v) \/ ZeroRefused(k, v) \/ FetchFails(k, v)

RequestsAreSpaced ==
  [][\A k \in Keys : Requested(k) => since[k] >= Retry]_vars

(* Stale but real beats a guess.  What a leg is charged with, the rate and *)
(* the cap in the end applied, is a value that was answered, whatever has  *)
(* failed or expired since.  The failsafe takes its place only while there *)
(* was no answer, or after a zero nobody has confirmed: a cap of zero is   *)
(* cached over the cap known before, and EffectiveCap then does not apply  *)
(* it.                                                                     *)
Charged(k, v) ==
  \/ v \in Real(k)
  \/ v = Failsafe(k) /\ (answered[k] = {} \/ answered[k] \ Real(k) # {})

RealBeatsGuess ==
  priced.denom # Unknown =>
    /\ Charged(RateKey, priced.rate)
    /\ Charged(priced.denom, EffectiveCap(priced.denom, priced.cap))

(* The lookup of k that this step completes returns v. *)
Returns(k, v) ==
  \/ leg.stage = "rate" /\ leg'.stage = "cap" /\ k = RateKey /\ v = leg'.rate
  \/ leg.stage = "cap" /\ leg'.stage = "idle" /\ k = leg.denom /\ v = priced'.cap

(* A parameter past its TTL is used only while the endpoint is known to    *)
(* have failed within the cooldown.                                        *)
StaleOnlyWhileFailing ==
  [][\A k \in Keys, v \in Values :
       Returns(k, v) => store'[k].age < TTL \/ store'[k].fail < Retry]_vars

(* When the endpoint works again for good, the cache follows the rate that *)
(* governance set: no cooldown lasts for ever.                             *)
FollowsGovernance ==
  \A r \in Rates \ {0} :
    <>[](up /\ truth[RateKey] = r) => <>[](store[RateKey].value = r)
=============================================================================
