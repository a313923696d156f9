--------------------------------- MODULE Amm ---------------------------------
(***************************************************************************)
(* amm_math.py: what a constant-product pool pays by the contract's own    *)
(* formula, and the search for the offer that earns most.  Decimal         *)
(* arithmetic is exact here; a rate is a number of Units.                  *)
(***************************************************************************)
EXTENDS Integers, Sequences, FiniteSets

CONSTANT
  Unit          \* what rates, fractions and spreads are fractions of

ASSUME UnitAssumption == Unit \in Nat \ {0}

(* int(n / d): towards zero. *)
Truncated(n, d) == IF n >= 0 THEN n \div d ELSE -((-n) \div d)

(* simulate_swap: the raw return out * offer / (in + offer), less the      *)
(* spread, which is what the spot price would have paid on top of it, less *)
(* the commission on the raw return.                                       *)
Swap(offer, in, out, rate) ==
  IF offer <= 0 \/ in <= 0 \/ out <= 0
  THEN [paid |-> 0, commission |-> 0]
  ELSE [paid       |-> Truncated(offer * out * ((2 * Unit - rate) * in - Unit * (in + offer)),
                                 Unit * in * (in + offer)),
        commission |-> (offer * out * rate) \div (Unit * (in + offer))]

Larger(a, b)  == IF a > b THEN a ELSE b
Smaller(a, b) == IF a < b THEN a ELSE b

(* The first of the candidates that earns most. *)
Best(candidates, profit) ==
  CHOOSE x \in candidates :
    \A y \in candidates :
      \/ profit[y] < profit[x]
      \/ profit[y] = profit[x] /\ x <= y

(* Mutant: the better third is thrown away. *)
WrongThird(range, profit) ==
  LET third == (range.hi - range.lo) \div 3
  IN  IF range.hi - range.lo < 2 THEN range
      ELSE IF profit[range.lo + third] < profit[range.hi - third]
           THEN [range EXCEPT !.hi = range.hi - third]
           ELSE [range EXCEPT !.lo = range.lo + third]

(* One iteration of the ternary search. *)
Thirds(range, profit) ==
  LET third == (range.hi - range.lo) \div 3
  IN  IF range.hi - range.lo < 2 THEN range
      ELSE IF profit[range.lo + third] < profit[range.hi - third]
           THEN [range EXCEPT !.lo = range.lo + third]
           ELSE [range EXCEPT !.hi = range.hi - third]

(* find_optimal_trade_size: the best of the neighbourhood that the search  *)
(* converges to.                                                           *)
OptimalSize(profit, low, high, iterations) ==
  LET narrowed[n \in 0..iterations] ==
        IF n = 0 THEN [lo |-> low, hi |-> high]
                 ELSE LET range == narrowed[n - 1] IN Thirds(range, profit)
      range == narrowed[iterations]
  IN  IF high <= low THEN low
      ELSE Best(Larger(low, range.lo - 2)..Smaller(high, range.hi + 2), profit)
=============================================================================
