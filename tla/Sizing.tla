-------------------------------- MODULE Sizing --------------------------------
(***************************************************************************)
(* sizing.py: how much of the wallet a cycle may be offered.  A small      *)
(* probe measures the edge, the edge chooses a fraction of the balance,    *)
(* and the depth of the pools and the spread ceiling cut that down.        *)
(***************************************************************************)
EXTENDS CycleMath

CONSTANTS
  MinFraction, MaxFraction, \* BALANCE_FRACTION_MIN and _MAX, in Units
  EdgeLow, EdgeHigh,        \* EDGE_LOW_BPS and EDGE_HIGH_BPS, in Units
  ProbeFraction,            \* PROBE_FRACTION, in Units
  MinProbe,                 \* MIN_PROBE_AMOUNT
  ProbeShare,               \* PROBE_MAX_POOL_RESERVE_FRACTION, in Units
  PoolShare,                \* MAX_POOL_RESERVE_FRACTION * TRADE_SIZE_MULTIPLIER
  SizeMultiplier,           \* SINGLE_TRIP_SIZE_MULTIPLIER
  GasReserve,               \* GAS_RESERVE_ULUNA
  FloorShare                \* what spread_cap_for_cycle divides the ceiling by

ASSUME SizingAssumption ==
  /\ {MinFraction, MaxFraction, EdgeLow, EdgeHigh} \subseteq Nat
  /\ 0 < MinFraction /\ MinFraction <= MaxFraction /\ MaxFraction <= Unit
  /\ 0 < EdgeLow /\ EdgeLow < EdgeHigh
  /\ {ProbeFraction, MinProbe, ProbeShare, PoolShare, GasReserve} \subseteq Nat
  /\ SizeMultiplier \in Nat \ {0}
  /\ FloorShare \in Nat \ {0}

(* int(x * edge_to_fraction(edge)), the edge being the ratio n / d Units. *)
FractionOf(x, n, d) ==
  IF n <= 0 THEN 0
  ELSE IF n <= EdgeLow * d THEN (x * MinFraction) \div Unit
  ELSE IF n >= EdgeHigh * d THEN (x * MaxFraction) \div Unit
  ELSE (x * (MinFraction * (EdgeHigh - EdgeLow) * d
               + (n - EdgeLow * d) * (MaxFraction - MinFraction)))
         \div (Unit * (EdgeHigh - EdgeLow) * d)

(* probe_amount_for *)
ProbeAmount(balance) ==
  IF balance > 0
  THEN Larger((balance * ProbeFraction) \div Unit, Smaller(MinProbe, balance))
  ELSE 0

(* A share of the reserve e goes into. *)
ShareOf(e, share, s) == (s[e.pool][e.in] * share) \div Unit

(* The legs that offer more than this share of the reserve they go into;   *)
(* a pool too small to have a share is not looked at.                      *)
TooDeep(c, offers, share, s) ==
  {i \in DOMAIN c :
     /\ offers[i] > 0
     /\ ShareOf(c[i], share, s) > 0
     /\ offers[i] > ShareOf(c[i], share, s)}

(* The amount scaled down by the tightest of them. *)
ScaledTo(c, amount, offers, share, s) ==
  LET deep     == TooDeep(c, offers, share, s)
      tightest == CHOOSE i \in deep : \A j \in deep :
                    ShareOf(c[i], share, s) * offers[j] <= ShareOf(c[j], share, s) * offers[i]
  IN  IF deep = {} THEN amount
      ELSE (amount * ShareOf(c[tightest], share, s)) \div offers[tightest]

ScaledDown(c, amount, share, s) == ScaledTo(c, amount, LegOffers(c, amount, s), share, s)

(* Scaling the first offer does not scale the others in proportion, so it  *)
(* is repeated.                                                            *)
Shrunk(c, amount, share, s, times) ==
  LET step[n \in 0..times] ==
        IF n = 0 THEN amount
        ELSE LET last == step[n - 1]
             IN  IF last <= 0 THEN 0 ELSE ScaledDown(c, last, share, s)
  IN  step[times]

(* probe_amount_for_cycle and liquidity_cap_for_cycle, iterations = 4 *)
CycleProbe(c, balance, s) == Shrunk(c, ProbeAmount(balance), ProbeShare, s, 4)

LiquidityCap(c, ceiling, s) == Larger(0, Shrunk(c, ceiling, PoolShare, s, 4))

(* A cycle that starts in LUNC leaves the gas reserve alone. *)
WithinHeadroom(asset, balance, offer) ==
  IF asset = LUNC THEN Smaller(offer, Larger(0, balance - GasReserve)) ELSE offer

(* max_offer_for_cycle: the ceiling, and the gain and size of the probe    *)
(* that measured the edge; no probe or no edge is a ceiling of 0.          *)
NoOffer == [ceiling |-> 0, gain |-> 0, probe |-> 1]

OfferOn(c, balance, s, probe, gain) ==
  LET offer == SizeMultiplier * FractionOf(balance, gain * Unit, probe)
  IN  IF gain <= 0 THEN NoOffer
      ELSE [ceiling |-> LiquidityCap(c, WithinHeadroom(c[1].in, balance, offer), s),
            gain |-> gain, probe |-> probe]

Probed(c, balance, s, probe) ==
  IF probe <= 0 THEN NoOffer
  ELSE OfferOn(c, balance, s, probe, SimulateCycle(c, probe, s) - probe)

MaxOffer(c, balance, s) ==
  IF balance <= 0 THEN NoOffer ELSE Probed(c, balance, s, CycleProbe(c, balance, s))

(* Every leg of the cycle is safe at this size. *)
Fits(c, amount, s, limit) ==
  amount > 0 /\ ExecutionParams(c, LegOffers(c, amount, s), s, limit) # NoParams

(* Mutant: the half that does not fit is kept. *)
WrongHalf(fits, mid, range) ==
  IF fits THEN [range EXCEPT !.hi = mid] ELSE [range EXCEPT !.lo = mid]

Halved(fits, mid, range) ==
  IF fits THEN [range EXCEPT !.lo = mid] ELSE [range EXCEPT !.hi = mid]

(* Mutant: the depth of the pools is taken for enough. *)
NoSpreadCap(c, ceiling, s, limit) == ceiling

(* spread_cap_for_cycle: bisection between a floor that fits and a ceiling *)
(* that does not.                                                          *)
SpreadCap(c, ceiling, s, limit) ==
  LET floor == Larger(1, ceiling \div FloorShare)
      range[n \in 0..14] ==
        IF n = 0 THEN [lo |-> floor, hi |-> ceiling]
        ELSE LET last == range[n - 1]
                 mid  == (last.lo + last.hi) \div 2
             IN  IF mid = last.lo THEN last ELSE Halved(Fits(c, mid, s, limit), mid, last)
  IN  IF ceiling <= 0 THEN 0
      ELSE IF Fits(c, ceiling, s, limit) THEN ceiling
      ELSE IF ~Fits(c, floor, s, limit) THEN 0
      ELSE range[14].lo
=============================================================================
