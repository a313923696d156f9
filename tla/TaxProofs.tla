----------------------------- MODULE TaxProofs -----------------------------
(***************************************************************************)
(* For every TTL, cooldown, denom and setting: an outage never makes a leg *)
(* look cheaper than what was believably answered, a leg is charged with   *)
(* what was answered wherever that may be applied, a value past its TTL is *)
(* used only during a cooldown, and the endpoint is asked at most once per *)
(* cooldown window.                                                        *)
(***************************************************************************)
EXTENDS TaxCache, TLAPS

(* What is stored was answered, and something was answered exactly when    *)
(* something is stored.                                                    *)
Learned ==
  \A k \in Keys :
    IF store[k].value = Unknown THEN answered[k] = {}
                                ELSE store[k].value \in answered[k]

(* A zero rate is only ever learned when it is confirmed.                  *)
RateIsBelievable ==
  \A v \in answered[RateKey] : v = 0 => RateZeroConfirmed

(* Since the last request of a key, its cooldown or its TTL has been       *)
(* running: neither is older than that request.                            *)
Spaced ==
  \A k \in Keys :
    since[k] < Retry =>
      \/ store[k].fail <= since[k]
      \/ store[k].value # Unknown /\ store[k].age <= since[k]

(* The rate carried from the first lookup to the second is believable, and *)
(* so is what the last leg was priced with, but for a cap of zero that     *)
(* EffectiveCap does not accept.                                           *)
CarriedIsBelievable ==
  leg.stage = "cap" => leg.rate \in Believable(RateKey)

PricedIsBelievable ==
  priced.denom # Unknown =>
    /\ priced.rate \in Believable(RateKey)
    /\ \/ priced.cap \in Believable(priced.denom)
       \/ priced.cap = 0 /\ priced.denom \notin CapZeroConfirmed

(* The rate carried is charged for what has been answered so far; while a  *)
(* leg is being priced no other one is.                                    *)
CarriedIsCharged ==
  /\ leg.stage = "cap" => Charged(RateKey, leg.rate)
  /\ leg.stage # "idle" => priced = NoPrice

TaxInv ==
  /\ TypeOK
  /\ Learned
  /\ RateIsBelievable
  /\ Spaced
  /\ CarriedIsBelievable
  /\ PricedIsBelievable
  /\ CarriedIsCharged
  /\ RealBeatsGuess

Store == [Keys -> [value : Nat \cup {Unknown}, age : 0..TTL, fail : 0..Retry]]

-----------------------------------------------------------------------------
(* A lookup keeps the cache well formed, forgets nothing that was answered,*)
(* and returns what was answered if anything was, the failsafe otherwise.  *)
LEMMA LookupStep ==
  ASSUME TaxInv, NEW k \in Keys, NEW v \in Values, Lookup(k, v)
  PROVE  /\ store' \in Store
         /\ answered' \in [Keys -> SUBSET Nat]
         /\ since' \in [Keys -> 0..Retry]
         /\ v \in Nat
         /\ Learned' /\ RateIsBelievable' /\ Spaced'
         /\ \A j \in Keys : answered[j] \subseteq answered'[j]
         /\ \A j \in Keys \ {k} : answered'[j] = answered[j]
         /\ IF answered'[k] = {} THEN v = Failsafe(k) ELSE v \in answered'[k]
         /\ store'[k].age < TTL \/ store'[k].fail < Retry
  <1>a. /\ Retry \in Nat \ {0} /\ TTL \in Nat /\ TTL >= Retry
        /\ FailsafeRate \in Nat /\ FailsafeCap \in Nat
        /\ Rates \subseteq Nat /\ Caps \subseteq Nat /\ Unknown \notin Nat
    BY TaxAssumption
  <1>b. Failsafe(k) \in Nat
    BY <1>a DEF Failsafe
  <1>c. /\ store \in Store /\ answered \in [Keys -> SUBSET Nat]
        /\ since \in [Keys -> 0..Retry]
        /\ Learned /\ RateIsBelievable /\ Spaced
    BY DEF TaxInv, TypeOK, Store
  <1>d. /\ store[k].value \in Nat \cup {Unknown}
        /\ store[k].age \in 0..TTL /\ store[k].fail \in 0..Retry
    BY <1>c DEF Store
  <1>e. /\ Fallback(k) \in Nat
        /\ IF answered[k] = {} THEN Fallback(k) = Failsafe(k)
                               ELSE Fallback(k) \in answered[k]
    BY <1>b, <1>c, <1>d DEF Fallback, Learned
  <1>1. CASE FromCache(k, v)
    <2>1. UNCHANGED <<store, answered, since>>
      BY <1>1 DEF FromCache, history
    <2>2. /\ store[k].value # Unknown /\ store[k].age < TTL
          /\ v = store[k].value
      BY <1>1 DEF FromCache, Fresh
    <2>3. v \in Nat /\ v \in answered[k]
      BY <1>c, <1>d, <2>2 DEF Learned
    <2> QED BY <1>c, <2>1, <2>2, <2>3 DEF Learned, RateIsBelievable, Spaced
  <1>2. CASE CoolingDown(k, v)
    <2>1. UNCHANGED <<store, answered, since>>
      BY <1>2 DEF CoolingDown, DuringCooldown, history
    <2>2. store[k].fail < Retry /\ v = Fallback(k)
      BY <1>2 DEF CoolingDown, RecentlyFailed
    <2> QED BY <1>c, <1>e, <2>1, <2>2 DEF Learned, RateIsBelievable, Spaced
  <1>3. CASE Fetched(k, v)
    <2>1. /\ store' = [store EXCEPT ![k] = [value |-> v, age |-> 0, fail |-> store[k].fail]]
          /\ answered' = [answered EXCEPT ![k] = answered[k] \cup {v}]
          /\ since' = [since EXCEPT ![k] = 0]
          /\ Believed(k, v)
          /\ v \in Answers(k)
      BY <1>3 DEF Fetched
    <2>2. v \in Nat
      <3>1. truth[k] \in Nat
        BY DEF TaxInv, TypeOK
      <3> QED BY <2>1, <3>1 DEF Answers
    <2>3. [value |-> v, age |-> 0, fail |-> store[k].fail]
            \in [value : Nat \cup {Unknown}, age : 0..TTL, fail : 0..Retry]
      BY <1>a, <1>d, <2>2
    <2>4. store' \in Store
      BY <1>c, <2>1, <2>3 DEF Store
    <2>5. answered' \in [Keys -> SUBSET Nat] /\ since' \in [Keys -> 0..Retry]
      BY <1>a, <1>c, <2>1, <2>2
    <2>6. /\ store'[k].value = v /\ store'[k].age = 0
          /\ answered'[k] = answered[k] \cup {v} /\ since'[k] = 0
          /\ \A j \in Keys \ {k} : /\ store'[j] = store[j]
                                   /\ answered'[j] = answered[j]
                                   /\ since'[j] = since[j]
      BY <1>c, <2>1 DEF Store
    <2>7. Learned'
      BY <1>a, <1>c, <2>2, <2>6 DEF Learned
    <2>8. RateIsBelievable'
      <3>1. CASE k = RateKey
        BY <1>c, <2>1, <2>6, <3>1 DEF RateIsBelievable, Believed
      <3>2. CASE k # RateKey
        BY <1>c, <2>6, <3>2 DEF RateIsBelievable, Keys
      <3> QED BY <3>1, <3>2
    <2>9. Spaced'
      BY <1>a, <1>c, <2>2, <2>6 DEF Spaced
    <2>10. \A j \in Keys : answered[j] \subseteq answered'[j]
      BY <2>6
    <2>11. 0 < TTL
      BY <1>a
    <2> QED BY <2>2, <2>4, <2>5, <2>6, <2>7, <2>8, <2>9, <2>10, <2>11
  <1>4. CASE ZeroRefused(k, v) \/ FetchFails(k, v)
    <2>1. /\ store' = [store EXCEPT ![k] = [value |-> store[k].value,
                                            age |-> store[k].age, fail |-> 0]]
          /\ since' = [since EXCEPT ![k] = 0]
          /\ answered' = answered
          /\ v = Fallback(k)
      BY <1>4 DEF ZeroRefused, FetchFails, Refused
    <2>2. [value |-> store[k].value, age |-> store[k].age, fail |-> 0]
            \in [value : Nat \cup {Unknown}, age : 0..TTL, fail : 0..Retry]
      BY <1>a, <1>d
    <2>3. store' \in Store
      BY <1>c, <2>1, <2>2 DEF Store
    <2>4. since' \in [Keys -> 0..Retry]
      BY <1>a, <1>c, <2>1
    <2>5. /\ store'[k].value = store[k].value /\ store'[k].fail = 0 /\ since'[k] = 0
          /\ \A j \in Keys \ {k} : store'[j] = store[j] /\ since'[j] = since[j]
      BY <1>c, <2>1 DEF Store
    <2>6. Learned' /\ RateIsBelievable'
      BY <1>c, <2>1, <2>5 DEF Learned, RateIsBelievable
    <2>7. Spaced'
      BY <1>a, <1>c, <2>5 DEF Spaced
    <2>8. 0 < Retry
      BY <1>a
    <2> QED BY <1>c, <1>e, <2>1, <2>3, <2>4, <2>5, <2>6, <2>7, <2>8
  <1> QED BY <1>1, <1>2, <1>3, <1>4 DEF Lookup

(* A request is made only when neither the TTL nor the cooldown runs.      *)
LEMMA RequestStep ==
  ASSUME TaxInv, NEW k \in Keys, Requested(k)
  PROVE  since[k] >= Retry
  <1>a. Retry \in Nat /\ TTL \in Nat /\ TTL >= Retry
    BY TaxAssumption
  <1>1. ~Fresh(k) /\ ~RecentlyFailed(k)
    BY DEF Requested, Fetched, ZeroRefused, FetchFails
  <1>2. /\ since[k] \in 0..Retry
        /\ store[k].age \in 0..TTL /\ store[k].fail \in 0..Retry
    BY DEF TaxInv, TypeOK
  <1>3. since[k] < Retry =>
          \/ store[k].fail <= since[k]
          \/ store[k].value # Unknown /\ store[k].age <= since[k]
    BY DEF TaxInv, Spaced
  <1> QED BY <1>a, <1>1, <1>2, <1>3 DEF Fresh, RecentlyFailed

(* Believability only grows.                                               *)
LEMMA BelievableGrows ==
  ASSUME NEW k \in Keys, answered[k] \subseteq answered'[k]
  PROVE  Believable(k) \subseteq Believable(k)'
  BY DEF Believable, Real, Failsafe, ZeroConfirmed

-----------------------------------------------------------------------------
LEMMA InitTaxInv ==
  ASSUME Init
  PROVE  TaxInv
  <1>a. /\ Retry \in Nat \ {0} /\ TTL \in Nat /\ MaxVotes \in Nat
        /\ Rates \subseteq Nat /\ Caps \subseteq Nat
    BY TaxAssumption
  <1>1. TypeOK
    <2>1. truth \in [Keys -> Nat]
      BY <1>a DEF Init
    <2>2. store \in Store /\ since \in [Keys -> 0..Retry]
      BY <1>a DEF Init, Store
    <2>3. answered \in [Keys -> SUBSET Nat] /\ votes \in 0..MaxVotes /\ up \in BOOLEAN
      BY <1>a DEF Init
    <2>4. leg = NoLeg /\ priced = NoPrice
      BY DEF Init
    <2> QED BY <2>1, <2>2, <2>3, <2>4 DEF TypeOK, Store, NoLeg, NoPrice
  <1>2. Learned /\ RateIsBelievable
    BY DEF Init, Learned, RateIsBelievable, Keys
  <1>3. Spaced
    BY <1>a DEF Init, Spaced
  <1>4. CarriedIsBelievable /\ PricedIsBelievable
    BY DEF Init, NoLeg, NoPrice, CarriedIsBelievable, PricedIsBelievable
  <1>5. CarriedIsCharged /\ RealBeatsGuess
    BY DEF Init, NoLeg, NoPrice, CarriedIsCharged, RealBeatsGuess
  <1> QED BY <1>1, <1>2, <1>3, <1>4, <1>5 DEF TaxInv

(* Time passing ages everything alike, up to the two limits.               *)
LEMMA TickStep ==
  ASSUME TaxInv, Tick
  PROVE  TaxInv'
  <1>a. Retry \in Nat \ {0} /\ TTL \in Nat /\ TTL >= Retry
    BY TaxAssumption
  <1>b. \A k \in Keys : /\ store[k].value \in Nat \cup {Unknown}
                        /\ store[k].age \in 0..TTL /\ store[k].fail \in 0..Retry
                        /\ since[k] \in 0..Retry
    BY DEF TaxInv, TypeOK
  <1>c. UNCHANGED <<leg, priced, truth, up, votes, answered>>
    BY DEF Tick, chain
  <1>d. /\ store' = [k \in Keys |-> [value |-> store[k].value,
                                     age   |-> Younger(store[k].age, TTL),
                                     fail  |-> Younger(store[k].fail, Retry)]]
        /\ since' = [k \in Keys |-> Younger(since[k], Retry)]
    BY DEF Tick
  <1>1. store' \in Store /\ since' \in [Keys -> 0..Retry]
    BY <1>a, <1>b, <1>d DEF Store, Younger
  <1>2. TypeOK'
    BY <1>c, <1>1 DEF TaxInv, TypeOK, Store
  <1>3. Learned' /\ RateIsBelievable'
    BY <1>c, <1>d DEF TaxInv, Learned, RateIsBelievable
  <1>4. Spaced'
    BY <1>a, <1>b, <1>d DEF TaxInv, Spaced, Younger
  <1>5. CarriedIsBelievable' /\ PricedIsBelievable'
    BY <1>c DEF TaxInv, CarriedIsBelievable, PricedIsBelievable, Believable, Real,
                Failsafe, ZeroConfirmed
  <1>6. CarriedIsCharged' /\ RealBeatsGuess'
    BY <1>c DEF TaxInv, CarriedIsCharged, RealBeatsGuess, Charged, Real, Failsafe,
                ZeroConfirmed, EffectiveCap
  <1> QED BY <1>2, <1>3, <1>4, <1>5, <1>6 DEF TaxInv

LEMMA GetTaxRateStep ==
  ASSUME TaxInv, NEW v \in Values, GetTaxRate(v)
  PROVE  TaxInv'
  <1>a. RateKey \in Keys
    BY DEF Keys
  <1>b. Lookup(RateKey, v)
    BY DEF GetTaxRate
  <1>c. /\ store' \in Store
        /\ answered' \in [Keys -> SUBSET Nat]
        /\ since' \in [Keys -> 0..Retry]
        /\ v \in Nat
        /\ Learned' /\ RateIsBelievable' /\ Spaced'
        /\ \A j \in Keys : answered[j] \subseteq answered'[j]
        /\ IF answered'[RateKey] = {} THEN v = Failsafe(RateKey)
                                      ELSE v \in answered'[RateKey]
    BY <1>a, <1>b, LookupStep
  <1>d. /\ UNCHANGED <<priced, truth, up, votes>>
        /\ leg.stage = "rate"
        /\ leg' = [stage |-> "cap", denom |-> leg.denom, rate |-> v]
    BY DEF GetTaxRate, chain
  <1>1. TypeOK'
    BY <1>c, <1>d DEF TaxInv, TypeOK, Store
  <1>2. CarriedIsBelievable'
    BY <1>c, <1>d DEF CarriedIsBelievable, RateIsBelievable, Believable, Real,
                      ZeroConfirmed, Failsafe
  <1>3. PricedIsBelievable'
    <2>1. priced.denom # Unknown => priced.denom \in Keys
      BY DEF TaxInv, TypeOK, Keys
    <2>2. \A k \in Keys : Believable(k) \subseteq Believable(k)'
      BY <1>c, BelievableGrows
    <2> QED BY <1>a, <1>d, <2>1, <2>2 DEF TaxInv, PricedIsBelievable
  <1>4. CarriedIsCharged' /\ RealBeatsGuess'
    <2>1. priced = NoPrice /\ priced' = NoPrice
      BY <1>d DEF TaxInv, CarriedIsCharged
    <2>2. Charged(RateKey, v)'
      BY <1>c DEF RateIsBelievable, Charged, Real, ZeroConfirmed, Failsafe
    <2> QED BY <1>d, <2>1, <2>2 DEF CarriedIsCharged, RealBeatsGuess, NoPrice, Charged,
               Real, ZeroConfirmed, Failsafe
  <1> QED BY <1>c, <1>1, <1>2, <1>3, <1>4 DEF TaxInv

(* What a lookup of a cap returns is charged as EffectiveCap makes it.     *)
LEMMA CapIsCharged ==
  ASSUME NEW d \in Denoms, NEW v,
         IF answered'[d] = {} THEN v = Failsafe(d) ELSE v \in answered'[d]
  PROVE  Charged(d, EffectiveCap(d, v))'
  <1>1. Failsafe(d) = FailsafeCap /\ FailsafeCap # 0
        /\ (ZeroConfirmed(d) <=> d \in CapZeroConfirmed)
    BY TaxAssumption DEF Failsafe, ZeroConfirmed
  <1>2. CASE v = 0 /\ d \notin CapZeroConfirmed
    <2>1. EffectiveCap(d, v) = Failsafe(d)
      BY <1>1, <1>2 DEF EffectiveCap
    <2>2. answered'[d] = {} \/ answered'[d] \ Real(d)' # {}
      BY <1>1, <1>2 DEF Real
    <2> QED BY <2>1, <2>2 DEF Charged, EffectiveCap, Failsafe
  <1>3. CASE ~(v = 0 /\ d \notin CapZeroConfirmed)
    <2>1. EffectiveCap(d, v) = v
      BY <1>3 DEF EffectiveCap
    <2>2. v \in answered'[d] => v \in Real(d)'
      BY <1>1, <1>3 DEF Real
    <2> QED BY <2>1, <2>2 DEF Charged, EffectiveCap, Failsafe
  <1> QED BY <1>2, <1>3

LEMMA GetTaxCapStep ==
  ASSUME TaxInv, NEW v \in Values, GetTaxCap(v)
  PROVE  TaxInv'
  <1>d. /\ UNCHANGED <<truth, up, votes>>
        /\ leg.stage = "cap"
        /\ Lookup(leg.denom, v)
        /\ leg' = NoLeg
        /\ priced' = [denom |-> leg.denom, rate |-> leg.rate, cap |-> v]
    BY DEF GetTaxCap, chain
  <1>a. /\ leg.denom \in Denoms /\ leg.denom \in Keys /\ leg.denom # RateKey
        /\ leg.denom # Unknown /\ leg.rate \in Nat /\ RateKey \in Keys
    BY <1>d, TaxAssumption DEF TaxInv, TypeOK, Keys
  <1>c. /\ store' \in Store
        /\ answered' \in [Keys -> SUBSET Nat]
        /\ since' \in [Keys -> 0..Retry]
        /\ v \in Nat
        /\ Learned' /\ RateIsBelievable' /\ Spaced'
        /\ \A j \in Keys : answered[j] \subseteq answered'[j]
        /\ \A j \in Keys \ {leg.denom} : answered'[j] = answered[j]
        /\ IF answered'[leg.denom] = {} THEN v = Failsafe(leg.denom)
                                        ELSE v \in answered'[leg.denom]
    BY <1>a, <1>d, LookupStep
  <1>1. TypeOK'
    BY <1>a, <1>c, <1>d DEF TaxInv, TypeOK, Store, NoLeg
  <1>2. CarriedIsBelievable'
    BY <1>d DEF CarriedIsBelievable, NoLeg
  <1>3. PricedIsBelievable'
    <2>1. \A r : r = leg.rate => r \in Believable(RateKey)'
      BY <1>a, <1>c, <1>d, BelievableGrows DEF TaxInv, CarriedIsBelievable
    <2>2. PICK d \in Denoms : d = leg.denom
      BY <1>a
    <2>3. \/ v \in Believable(d)'
          \/ v = 0 /\ d \notin CapZeroConfirmed
      <3>1. d # RateKey
        BY <1>a, <2>2
      <3>2. IF answered'[d] = {} THEN v = Failsafe(d) ELSE v \in answered'[d]
        BY <1>c, <2>2
      <3> QED BY <3>1, <3>2 DEF Believable, Real, ZeroConfirmed, Failsafe
    <2>4. priced'.denom = d /\ priced'.rate = leg.rate /\ priced'.cap = v
      BY <1>d, <2>2
    <2>5. PICK r : r = leg.rate /\ r \in Believable(RateKey)'
      BY <2>1, <1>a
    <2> QED BY <2>3, <2>4, <2>5 DEF PricedIsBelievable, Believable, Real,
               ZeroConfirmed, Failsafe
  <1>4. CarriedIsCharged'
    BY <1>d DEF CarriedIsCharged, NoLeg
  <1>5. RealBeatsGuess'
    <2>1. Charged(RateKey, leg.rate) /\ answered'[RateKey] = answered[RateKey]
      BY <1>a, <1>c, <1>d DEF TaxInv, CarriedIsCharged
    <2>2. PICK r : r = leg.rate
      OBVIOUS
    <2>3. PICK d \in Denoms : d = leg.denom
      BY <1>a
    <2>4. Charged(RateKey, r)'
      BY <2>1, <2>2 DEF Charged, Real, ZeroConfirmed, Failsafe
    <2>5. Charged(d, EffectiveCap(d, v))'
      <3>1. IF answered'[d] = {} THEN v = Failsafe(d) ELSE v \in answered'[d]
        BY <1>c, <2>3
      <3> QED BY <3>1, CapIsCharged
    <2>6. priced'.denom = d /\ priced'.rate = r /\ priced'.cap = v
      BY <1>d, <2>2, <2>3
    <2> QED BY <2>4, <2>5, <2>6 DEF RealBeatsGuess, Charged, Real, EffectiveCap,
               ZeroConfirmed, Failsafe
  <1> QED BY <1>c, <1>1, <1>2, <1>3, <1>4, <1>5 DEF TaxInv

LEMMA NextTaxInv ==
  ASSUME TaxInv, [Next]_vars
  PROVE  TaxInv'
  <1>1. ASSUME NEW d \in Denoms, StartLeg(d)
        PROVE  TaxInv'
    <2>1. /\ UNCHANGED <<store, truth, up, votes, answered, since>>
          /\ leg' = [stage |-> "rate", denom |-> d, rate |-> Unknown]
          /\ priced' = NoPrice
      BY <1>1 DEF StartLeg, chain, history
    <2> QED BY <2>1 DEF TaxInv, TypeOK, Learned, RateIsBelievable, Spaced,
               CarriedIsBelievable, PricedIsBelievable, CarriedIsCharged,
               RealBeatsGuess, NoPrice
  <1>2. ASSUME NEW v \in Values, GetTaxRate(v) \/ GetTaxCap(v)
        PROVE  TaxInv'
    BY <1>2, GetTaxRateStep, GetTaxCapStep
  <1>3. CASE Tick
    BY <1>3, TickStep
  <1>4. ASSUME NEW k \in Keys, NEW v \in Rates \cup Caps, Vote(k, v)
        PROVE  TaxInv'
    <2>1. /\ UNCHANGED <<store, leg, priced, up, answered, since>>
          /\ truth' = [truth EXCEPT ![k] = v] /\ votes' = votes + 1
          /\ votes < MaxVotes
      BY <1>4 DEF Vote, history
    <2>2. v \in Nat /\ MaxVotes \in Nat
      BY TaxAssumption
    <2> QED BY <2>1, <2>2 DEF TaxInv, TypeOK, Learned, RateIsBelievable, Spaced,
               CarriedIsBelievable, PricedIsBelievable, CarriedIsCharged,
               RealBeatsGuess, Charged, Believable, Real, EffectiveCap,
               ZeroConfirmed, Failsafe
  <1>5. CASE EndpointFlips
    BY <1>5 DEF EndpointFlips, history, TaxInv, TypeOK, Learned, RateIsBelievable,
       Spaced, CarriedIsBelievable, PricedIsBelievable, CarriedIsCharged,
       RealBeatsGuess, Charged, Believable, Real, EffectiveCap, ZeroConfirmed, Failsafe
  <1>6. CASE UNCHANGED vars
    BY <1>6 DEF vars, chain, history, TaxInv, TypeOK, Learned, RateIsBelievable,
       Spaced, CarriedIsBelievable, PricedIsBelievable, CarriedIsCharged,
       RealBeatsGuess, Charged, Believable, Real, EffectiveCap, ZeroConfirmed, Failsafe
  <1> QED BY <1>1, <1>2, <1>3, <1>4, <1>5, <1>6 DEF Next, Calculate

LEMMA TaxInvHolds == Spec => []TaxInv
  <1>1. Init => TaxInv
    BY InitTaxInv
  <1>2. TaxInv /\ [Next]_vars => TaxInv'
    BY NextTaxInv
  <1> QED BY <1>1, <1>2, PTL DEF Spec

-----------------------------------------------------------------------------
(* The cache and what is priced with it stay well typed.                   *)
THEOREM TaxTypeCorrect == Spec => []TypeOK
  <1>1. TaxInv => TypeOK
    BY DEF TaxInv
  <1> QED BY <1>1, TaxInvHolds, PTL

(* tax.py: "understating tax is the expensive mistake": no leg is priced   *)
(* below what the most favourable believable answers would make of it.     *)
THEOREM NeverUnderstatedHolds == Spec => []NeverUnderstated
  <1>1. ASSUME TaxInv
        PROVE  NeverUnderstated
    <2> SUFFICES ASSUME priced.denom # Unknown
                 PROVE  \E r \in Believable(RateKey), c \in Believable(priced.denom) :
                          \A amount \in {1, Unit} :
                            Tax(amount, priced.denom, priced.rate, priced.cap)
                              >= Tax(amount, priced.denom, r, c)
      BY DEF NeverUnderstated
    <2>a. /\ Unit \in Nat \ {0} /\ FailsafeCap \in Nat \ {0}
          /\ RateKey \notin Denoms
      BY TaxAssumption
    <2>b. /\ priced.denom \in Denoms
          /\ priced.rate \in Nat /\ priced.cap \in Nat
      BY <1>1 DEF TaxInv, TypeOK
    <2>c. PricedIsBelievable
      BY <1>1 DEF TaxInv
    <2>1. PICK c \in Believable(priced.denom) :
            EffectiveCap(priced.denom, priced.cap) = EffectiveCap(priced.denom, c)
      <3>1. CASE priced.cap \in Believable(priced.denom)
        BY <3>1
      <3>2. CASE priced.cap = 0 /\ priced.denom \notin CapZeroConfirmed
        <4>1. FailsafeCap \in Believable(priced.denom)
          BY <2>a, <2>b DEF Believable, Failsafe
        <4> QED BY <2>a, <3>2, <4>1 DEF EffectiveCap
      <3> QED BY <2>c, <3>1, <3>2 DEF PricedIsBelievable
    <2>2. priced.rate \in Believable(RateKey)
      BY <2>c DEF PricedIsBelievable
    <2>3. EffectiveCap(priced.denom, priced.cap) \in Nat
      BY <2>a, <2>b DEF EffectiveCap
    <2>4. \A amount \in {1, Unit} :
            /\ Tax(amount, priced.denom, priced.rate, priced.cap) \in Int
            /\ Tax(amount, priced.denom, priced.rate, priced.cap)
                 = Tax(amount, priced.denom, priced.rate, c)
      <3> SUFFICES ASSUME NEW amount \in {1, Unit}
                   PROVE  /\ Tax(amount, priced.denom, priced.rate, priced.cap) \in Int
                          /\ Tax(amount, priced.denom, priced.rate, priced.cap)
                               = Tax(amount, priced.denom, priced.rate, c)
        OBVIOUS
      <3>1. amount * priced.rate \in Nat
        BY <2>a, <2>b
      <3>2. CeilDiv(amount * priced.rate, Unit) \in Int
        BY <2>a, <3>1 DEF CeilDiv
      <3> QED BY <2>1, <2>3, <3>2 DEF Tax
    <2>5. \A amount \in {1, Unit} :
            Tax(amount, priced.denom, priced.rate, priced.cap)
              >= Tax(amount, priced.denom, priced.rate, c)
      BY <2>4
    <2> QED BY <2>2, <2>5
  <1> QED BY <1>1, TaxInvHolds, PTL

(* A dead endpoint is asked at most once per cooldown window.              *)
THEOREM RequestsAreSpacedHolds == Spec => RequestsAreSpaced
  <1>1. TaxInv /\ [Next]_vars
          => [\A k \in Keys : Requested(k) => since[k] >= Retry]_vars
    BY RequestStep
  <1> QED BY <1>1, TaxInvHolds, PTL DEF Spec, RequestsAreSpaced

(* Which key a step completes the lookup of, and what it returns.          *)
LEMMA ReturnsIsLookup ==
  ASSUME TaxInv, [Next]_vars, NEW k \in Keys, NEW v \in Values, Returns(k, v)
  PROVE  Lookup(k, v)
  <1>1. leg.stage # "idle" /\ leg' # leg
    BY DEF Returns
  <1>2. ASSUME NEW d \in Denoms, StartLeg(d)
        PROVE  FALSE
    BY <1>1, <1>2 DEF StartLeg
  <1>3. CASE Tick \/ EndpointFlips \/ UNCHANGED vars
    BY <1>1, <1>3 DEF Tick, EndpointFlips, vars
  <1>4. ASSUME NEW j \in Keys, NEW w \in Rates \cup Caps, Vote(j, w)
        PROVE  FALSE
    BY <1>1, <1>4 DEF Vote
  <1>5. ASSUME NEW w \in Values, GetTaxRate(w)
        PROVE  Lookup(k, v)
    BY <1>5 DEF GetTaxRate, Returns
  <1>6. ASSUME NEW w \in Values, GetTaxCap(w)
        PROVE  Lookup(k, v)
    BY <1>6 DEF GetTaxCap, Returns
  <1> QED BY <1>2, <1>3, <1>4, <1>5, <1>6 DEF Next, Calculate

(* Stale but real beats a guess in what a leg is in the end charged with,  *)
(* after any history of answers, refusals, failures and expiry.            *)
THEOREM RealBeatsGuessHolds == Spec => []RealBeatsGuess
  <1>1. TaxInv => RealBeatsGuess
    BY DEF TaxInv
  <1> QED BY <1>1, TaxInvHolds, PTL

(* A value past its TTL is used only while a cooldown runs.                *)
THEOREM StaleOnlyWhileFailingHolds == Spec => StaleOnlyWhileFailing
  <1>1. TaxInv /\ [Next]_vars
          => [\A k \in Keys, v \in Values :
                Returns(k, v) => store'[k].age < TTL \/ store'[k].fail < Retry]_vars
    BY ReturnsIsLookup, LookupStep
  <1> QED BY <1>1, TaxInvHolds, PTL DEF Spec, StaleOnlyWhileFailing
=============================================================================
