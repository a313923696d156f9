---------------------------- MODULE PricingProofs ----------------------------
(***************************************************************************)
(* What the arithmetic of amm_math, graph and sizing promises about a      *)
(* trade, for every pool, wallet, tax, commission, tolerance and cycle.    *)
(***************************************************************************)
EXTENDS PricingProps, WellFoundedInduction, TLAPS

-----------------------------------------------------------------------------
(* Whole numbers *)

LEMMA Monotone ==
  ASSUME NEW a \in Int, NEW b \in Int, NEW k \in Nat, a <= b
  PROVE  a * k <= b * k
OBVIOUS

LEMMA Cancels ==
  ASSUME NEW a \in Int, NEW b \in Int, NEW k \in Nat \ {0}, a * k <= b * k
  PROVE  a <= b
<1>1. ASSUME b < a PROVE FALSE
  <2>1. b + 1 <= a
    BY <1>1
  <2>2. (b + 1) * k <= a * k
    BY <2>1, Monotone
  <2>3. (b + 1) * k = b * k + k
    OBVIOUS
  <2> QED BY <2>2, <2>3
<1> QED BY <1>1

LEMMA Division ==
  ASSUME NEW a \in Int, NEW d \in Nat \ {0}
  PROVE  /\ a \div d \in Int
         /\ (a \div d) * d <= a
         /\ a < (a \div d) * d + d
         /\ a >= 0 => a \div d \in Nat
<1>1. a = d * (a \div d) + (a % d) /\ a \div d \in Int /\ a % d \in 0..(d - 1)
  OBVIOUS
<1>2. d * (a \div d) = (a \div d) * d
  BY <1>1
<1> QED BY <1>1, <1>2

LEMMA RoundedUp ==
  ASSUME NEW a \in Int, NEW d \in Nat \ {0}
  PROVE  /\ CeilDiv(a, d) \in Int
         /\ a <= CeilDiv(a, d) * d
         /\ CeilDiv(a, d) * d <= a + d - 1
<1>1. a + d - 1 \in Int
  OBVIOUS
<1> QED BY <1>1, Division DEF CeilDiv

LEMMA Truncation ==
  ASSUME NEW a \in Int, NEW d \in Nat \ {0}
  PROVE  /\ Truncated(a, d) \in Int
         /\ a >= 0 => /\ Truncated(a, d) \in Nat
                      /\ Truncated(a, d) * d <= a
                      /\ a < Truncated(a, d) * d + d
         /\ a <= 0 => Truncated(a, d) <= 0
<1>1. CASE a >= 0
  BY <1>1, Division DEF Truncated
<1>2. CASE a < 0
  <2>1. (-a) \div d \in Nat
    BY <1>2, Division
  <2> QED BY <1>2, <2>1 DEF Truncated
<1> QED BY <1>1, <1>2

-----------------------------------------------------------------------------
(* Constant-product pools *)

(* A pool always pays less than the raw return, whichever commission.      *)
LEMMA SwapPays ==
  ASSUME NEW o \in Nat \ {0}, NEW I \in Nat \ {0}, NEW O \in Nat \ {0}, NEW rate \in 0..Unit
  PROVE  LET paid == Swap(o, I, O, rate).paid IN
         paid \in Int /\ paid * (I + o) < o * O
<1> USE UnitAssumption
<1> DEFINE k == (2 * Unit - rate) * I - Unit * (I + o)
           num == o * O * k
           den == Unit * I * (I + o)
           paid == Truncated(num, den)
<1>1. /\ k \in Int /\ o * O \in Nat \ {0} /\ num \in Int /\ Unit * I \in Nat \ {0}
      /\ den \in Nat \ {0} /\ I + o \in Nat
  OBVIOUS
<1>2. Swap(o, I, O, rate).paid = paid
  BY DEF Swap
<1>3. k <= Unit * I - 1
  <2> DEFINE x == rate * I
             y == Unit * o
             z == Unit * I
  <2>1. x \in Nat /\ y \in Nat \ {0} /\ z \in Nat /\ k = z - x - y
    OBVIOUS
  <2> HIDE DEF x, y, z, k
  <2>2. k <= z - 1
    BY <2>1
  <2> QED BY <2>2 DEF z
<1>4. num < o * O * (Unit * I)
  <2> DEFINE x == o * O
             z == Unit * I
  <2>1. x \in Nat \ {0} /\ z \in Nat \ {0} /\ num = k * x /\ k <= z - 1
    BY <1>1, <1>3
  <2> HIDE DEF x, z, k, num
  <2>2. k * x <= (z - 1) * x
    BY <1>1, <2>1, Monotone
  <2>3. (z - 1) * x < x * z
    BY <2>1
  <2>4. num < x * z
    BY <1>1, <2>1, <2>2, <2>3
  <2> QED BY <2>4 DEF x, z
<1>5. den = (I + o) * (Unit * I)
  OBVIOUS
<1> HIDE DEF k, num, den
<1>6. paid \in Int
  BY <1>1, Truncation
<1>7. CASE num >= 0
  <2>1. paid * den <= num
    BY <1>1, <1>7, Truncation
  <2> HIDE DEF paid
  <2>2. paid * den = (paid * (I + o)) * (Unit * I)
    BY <1>1, <1>5, <1>6
  <2>3. (paid * (I + o)) * (Unit * I) < (o * O) * (Unit * I)
    BY <1>1, <1>4, <1>6, <2>1, <2>2
  <2>4. paid * (I + o) \in Int
    BY <1>1, <1>6
  <2>5. ~(o * O <= paid * (I + o))
    <3> DEFINE x == o * O
               y == paid * (I + o)
               z == Unit * I
    <3>1. x \in Int /\ y \in Int /\ z \in Nat /\ y * z < x * z
      BY <1>1, <2>3, <2>4
    <3> HIDE DEF x, y, z
    <3>2. ~(x <= y)
      BY <3>1, Monotone
    <3> QED BY <3>2 DEF x, y
  <2>6. paid * (I + o) < o * O
    BY <1>1, <2>4, <2>5
  <2> QED BY <1>2, <1>6, <2>6
<1>8. CASE num <= 0
  <2>1. paid <= 0
    BY <1>1, <1>8, Truncation
  <2> HIDE DEF paid
  <2>2. paid * (I + o) <= 0 * (I + o)
    BY <1>1, <1>6, <2>1, Monotone
  <2> QED BY <1>1, <1>2, <1>6, <2>2
<1> QED BY <1>1, <1>7, <1>8

LEMMA SwapBounds ==
  ASSUME NEW o \in Int, NEW I \in Nat, NEW O \in Nat, NEW rate \in 0..Unit
  PROVE  LET paid == Swap(o, I, O, rate).paid IN
         /\ paid \in Int
         /\ paid <= O
         /\ paid > 0 => o > 0 /\ I > 0 /\ O > 0
         /\ o > 0 => paid * I <= o * O
<1> DEFINE paid == Swap(o, I, O, rate).paid
<1>1. CASE o > 0 /\ I > 0 /\ O > 0
  <2>1. paid \in Int /\ paid * (I + o) <= o * O
    <3>1. paid \in Int /\ paid * (I + o) < o * O
      BY <1>1, SwapPays
    <3> HIDE DEF paid
    <3> QED BY <1>1, <3>1
  <2> HIDE DEF paid
  <2>2. paid * (I + o) <= O * (I + o)
    BY <1>1, <2>1
  <2>3. paid <= O
    BY <1>1, <2>1, <2>2, Cancels
  <2>4. paid * I <= o * O
    <3>1. CASE paid >= 0
      <4>1. paid * (I + o) = paid * I + paid * o /\ paid * o >= 0 /\ paid * I \in Int
        BY <1>1, <2>1, <3>1
      <4> QED BY <1>1, <2>1, <4>1
    <3>2. CASE paid <= 0
      <4>1. paid * I <= 0 * I
        BY <2>1, <3>2, Monotone
      <4>2. 0 * I = 0 /\ o * O >= 0
        BY <1>1
      <4> QED BY <2>1, <4>1, <4>2
    <3> QED BY <2>1, <3>1, <3>2
  <2> QED BY <1>1, <2>1, <2>3, <2>4 DEF paid
<1>2. CASE ~(o > 0 /\ I > 0 /\ O > 0)
  <2>1. paid = 0
    BY <1>2 DEF Swap
  <2>2. o > 0 => o * O >= 0
    OBVIOUS
  <2> QED BY <2>1, <2>2
<1> QED BY <1>1, <1>2

-----------------------------------------------------------------------------
(* Taxes and hops *)

LEMMA Hop ==
  ASSUME NEW e \in Edges
  PROVE  /\ e.pool \in Pools
         /\ {e.in, e.out} = {Pair[e.pool][1], Pair[e.pool][2]}
         /\ {e.in, e.out} \subseteq Assets
         /\ e.in # e.out
<1>1. PICK p \in Pools, i \in 1..2 :
        e = [pool |-> p, in |-> Pair[p][i], out |-> Pair[p][3 - i]]
  BY DEF Edges
<1>2. Pair[p][1] # Pair[p][2]
  BY CycleMathAssumption
<1>3. i = 1 \/ i = 2
  BY <1>1
<1> QED BY <1>1, <1>2, <1>3 DEF Assets

LEMMA TaxIsAShare ==
  ASSUME NEW a \in Assets, NEW x \in Int, NEW direction \in {"in", "out"}
  PROVE  /\ Tax(a, x, direction) \in Int
         /\ x >= 0 => x - Tax(a, x, direction) \in 0..x
         /\ x <= 0 => x - Tax(a, x, direction) <= 0
<1> DEFINE rate == RateFor(a, direction)
<1>1. rate \in 0..Unit /\ Unit \in Nat \ {0}
  BY CycleMathAssumption, UnitAssumption DEF RateFor
<1> HIDE DEF rate
<1>2. ASSUME NEW y \in Nat PROVE CeilDiv(y * rate, Unit) \in 0..y
  <2>1. /\ y * rate \in Nat /\ y * rate <= y * Unit
    BY <1>1
  <2>2. /\ CeilDiv(y * rate, Unit) \in Int
        /\ y * rate <= CeilDiv(y * rate, Unit) * Unit
        /\ CeilDiv(y * rate, Unit) * Unit <= y * rate + Unit - 1
    BY <1>1, <2>1, RoundedUp
  <2> DEFINE t == CeilDiv(y * rate, Unit)
  <2> HIDE DEF t
  <2>3. t >= 0
    <3>1. 0 * Unit <= t * Unit
      BY <1>1, <2>1, <2>2 DEF t
    <3> QED BY <1>1, <2>2, <3>1, Cancels DEF t
  <2>4. t <= y
    <3>1. (t - 1) * Unit <= y * Unit - 1
      BY <1>1, <2>1, <2>2 DEF t
    <3>2. ASSUME t - 1 >= y PROVE FALSE
      <4>1. y * Unit <= (t - 1) * Unit
        BY <1>1, <2>2, <3>2, Monotone DEF t
      <4> QED BY <1>1, <2>2, <3>1, <4>1 DEF t
    <3> QED BY <2>2, <3>2 DEF t
  <2> QED BY <2>2, <2>3, <2>4 DEF t
<1>3. Tax(a, x, direction) =
        IF x >= 0 THEN CeilDiv(x * rate, Unit) ELSE -CeilDiv(-x * rate, Unit)
  BY DEF Tax, rate
<1>4. CASE x >= 0
  BY <1>2, <1>3, <1>4
<1>5. CASE x < 0
  <2>1. -x \in Nat /\ -x * rate = (-x) * rate
    BY <1>1, <1>5
  <2>2. CeilDiv((-x) * rate, Unit) \in 0..(-x)
    BY <1>2, <2>1
  <2> QED BY <1>3, <1>5, <2>1, <2>2
<1> QED BY <1>4, <1>5

LEMMA TaxedOffer ==
  ASSUME NEW e \in Edges, NEW x \in Int
  PROVE  /\ Taxed(e, x) \in Int
         /\ x >= 0 => Taxed(e, x) \in 0..x
         /\ x <= 0 => Taxed(e, x) <= 0
<1>1. e.in \in Assets
  BY Hop
<1> QED BY <1>1, TaxIsAShare DEF Taxed

LEMMA DeliveredPay ==
  ASSUME NEW e \in Edges, NEW paid \in Int
  PROVE  /\ Delivered(e, paid) \in Int
         /\ paid >= 0 => Delivered(e, paid) \in 0..paid
         /\ paid <= 0 => Delivered(e, paid) <= 0
<1>1. e.out \in Assets
  BY Hop
<1> QED BY <1>1, TaxIsAShare DEF Delivered

LEMMA Reserves ==
  ASSUME NEW e \in Edges, NEW s, IsSnapshot(s)
  PROVE  s[e.pool][e.in] \in Nat /\ s[e.pool][e.out] \in Nat
         /\ Commission[e.pool] \in 0..Unit
<1>1. e.pool \in Pools /\ {e.in, e.out} = {Pair[e.pool][1], Pair[e.pool][2]}
  BY Hop
<1>2. s[e.pool] \in [{e.in, e.out} -> Nat]
  BY <1>1 DEF IsSnapshot
<1> QED BY <1>1, <1>2, CycleMathAssumption

LEMMA SwapAtBounds ==
  ASSUME NEW e \in Edges, NEW x \in Int, NEW s, IsSnapshot(s)
  PROVE  LET I == s[e.pool][e.in]
             O == s[e.pool][e.out]
             o == Taxed(e, x)
             paid == SwapAt(e, x, s).paid
         IN  /\ paid \in Int
             /\ paid <= O
             /\ paid > 0 => x > 0 /\ o > 0 /\ I > 0 /\ O > 0
             /\ o > 0 => paid * I <= o * O
<1>1. Taxed(e, x) \in Int /\ (x <= 0 => Taxed(e, x) <= 0)
  BY TaxedOffer
<1>2. s[e.pool][e.in] \in Nat /\ s[e.pool][e.out] \in Nat /\ Commission[e.pool] \in 0..Unit
  BY Reserves
<1>3. SwapAt(e, x, s) = Swap(Taxed(e, x), s[e.pool][e.in], s[e.pool][e.out], Commission[e.pool])
  BY DEF SwapAt
<1> DEFINE paid == SwapAt(e, x, s).paid
<1>4. /\ paid \in Int
      /\ paid <= s[e.pool][e.out]
      /\ paid > 0 => Taxed(e, x) > 0 /\ s[e.pool][e.in] > 0 /\ s[e.pool][e.out] > 0
      /\ Taxed(e, x) > 0 => paid * s[e.pool][e.in] <= Taxed(e, x) * s[e.pool][e.out]
  BY <1>1, <1>2, <1>3, SwapBounds
<1>5. paid > 0 => x > 0
  BY <1>1, <1>4
<1> QED BY <1>4, <1>5

LEMMA ReceivedPay ==
  ASSUME NEW e \in Edges, NEW x \in Int, NEW s, IsSnapshot(s)
  PROVE  /\ Received(e, x, s) = Delivered(e, SwapAt(e, x, s).paid)
         /\ Received(e, x, s) \in Int
BY SwapAtBounds, DeliveredPay DEF Received, Delivered

-----------------------------------------------------------------------------
(* Counting, and what is computed step by step *)

LEMMA LeastNumber ==
  ASSUME NEW S, S \subseteq Nat, S # {}
  PROVE  \E x \in S : \A y \in S : x <= y
<1>1. PICK x \in S : \A y \in S : <<y, x>> \notin OpToRel(<, Nat)
  BY NatLessThanWellFounded, WFMin
<1>2. ASSUME NEW y \in S PROVE x <= y
  <2>1. <<y, x>> \in Nat \X Nat
    OBVIOUS
  <2> QED BY <1>1, <2>1 DEF OpToRel
<1> QED BY <1>2

LEMMA CountingUp ==
  ASSUME NEW S, 0 \in S, \A n \in Nat : n \in S => n + 1 \in S
  PROVE  Nat \subseteq S
<1> SUFFICES ASSUME Nat \ S # {} PROVE FALSE
  OBVIOUS
<1>1. PICK x \in Nat \ S : \A y \in Nat \ S : x <= y
  BY LeastNumber
<1>2. x # 0 /\ x - 1 \in Nat
  BY <1>1
<1>3. x - 1 \in S
  BY <1>1, <1>2
<1>4. (x - 1) + 1 = x
  BY <1>1
<1> QED BY <1>1, <1>2, <1>3, <1>4

(* A function defined by its previous value exists, and stays in any set   *)
(* its step stays in.                                                      *)
Iterates(f, n, base, G) ==
  f = [i \in 0..n |-> IF i = 0 THEN base ELSE G[<<i, f[i - 1]>>]]

LEMMA StepByStep ==
  ASSUME NEW n \in Nat, NEW S, NEW base \in S, NEW G \in [(1..n) \X S -> S]
  PROVE  \E f \in [0..n -> S] : Iterates(f, n, base, G)
<1> USE DEF Iterates
<1> DEFINE Is(f, m) == Iterates(f, m, base, G)
           Done == {m \in Nat : m <= n => \E f \in [0..m -> S] : Is(f, m)}
<1>1. 0 \in Done
  <2> DEFINE f == [i \in 0..0 |-> base]
  <2>1. f \in [0..0 -> S] /\ Is(f, 0)
    OBVIOUS
  <2> QED BY <2>1
<1>2. ASSUME NEW m \in Nat, m \in Done PROVE m + 1 \in Done
  <2> SUFFICES ASSUME m + 1 <= n PROVE \E f \in [0..(m + 1) -> S] : Is(f, m + 1)
    OBVIOUS
  <2>1. PICK f \in [0..m -> S] : Is(f, m)
    BY <1>2
  <2> DEFINE g == [i \in 0..(m + 1) |-> IF i = m + 1 THEN G[<<m + 1, f[m]>>] ELSE f[i]]
  <2>2. G[<<m + 1, f[m]>>] \in S
    <3>1. f[m] \in S /\ m + 1 \in 1..n
      OBVIOUS
    <3> QED BY <3>1
  <2>3. g \in [0..(m + 1) -> S]
    BY <2>2
  <2>4. \A i \in 0..(m + 1) : i # 0 => i - 1 \in 0..m /\ i - 1 # m + 1 /\ g[i - 1] = f[i - 1]
    OBVIOUS
  <2>5. \A i \in 0..(m + 1) : g[i] = IF i = 0 THEN base ELSE G[<<i, g[i - 1]>>]
    <3>1. ASSUME NEW i \in 0..(m + 1), i # m + 1
          PROVE  g[i] = IF i = 0 THEN base ELSE G[<<i, g[i - 1]>>]
      <4>1. i \in 0..m /\ g[i] = f[i]
        BY <3>1
      <4>2. f[i] = IF i = 0 THEN base ELSE G[<<i, f[i - 1]>>]
        BY <2>1, <4>1
      <4> QED BY <2>4, <4>1, <4>2
    <3>2. g[m + 1] = G[<<m + 1, g[m]>>]
      <4>1. m + 1 \in 0..(m + 1) /\ m + 1 # 0 /\ (m + 1) - 1 = m
        OBVIOUS
      <4> HIDE DEF g
      <4>2. g[m] = f[m]
        BY <2>4, <4>1
      <4> QED BY <4>1, <4>2 DEF g
    <3> HIDE DEF g
    <3> QED BY <3>1, <3>2
  <2>6. Is(g, m + 1)
    BY <2>5
  <2> QED BY <2>3, <2>6
<1>3. Nat \subseteq Done
  <2> HIDE DEF Done
  <2> QED BY <1>1, <1>2, CountingUp
<1> QED BY <1>3

LEMMA StaysIn ==
  ASSUME NEW n \in Nat, NEW S, NEW h, h[0] \in S,
         \A i \in 1..n : h[i - 1] \in S => h[i] \in S
  PROVE  \A i \in 0..n : h[i] \in S
<1> DEFINE Done == {m \in Nat : m <= n => h[m] \in S}
<1>1. 0 \in Done
  OBVIOUS
<1>2. ASSUME NEW m \in Nat, m \in Done PROVE m + 1 \in Done
  <2>1. m + 1 <= n => m + 1 \in 1..n /\ (m + 1) - 1 = m /\ m <= n
    OBVIOUS
  <2> QED BY <1>2, <2>1
<1>3. Nat \subseteq Done
  <2> HIDE DEF Done
  <2> QED BY <1>1, <1>2, CountingUp
<1> QED BY <1>3

LEMMA UpTo ==
  ASSUME NEW n \in Nat, NEW D, 0 \in D, \A i \in 1..n : i - 1 \in D => i \in D
  PROVE  \A i \in 0..n : i \in D
<1> DEFINE h == [i \in 0..n |-> i]
<1>1. h[0] \in D /\ \A i \in 1..n : h[i - 1] \in D => h[i] \in D
  OBVIOUS
<1>2. \A i \in 0..n : h[i] = i
  OBVIOUS
<1> HIDE DEF h
<1>3. \A i \in 0..n : h[i] \in D
  BY <1>1, StaysIn
<1> QED BY <1>2, <1>3

-----------------------------------------------------------------------------
(* What flows along a cycle *)

LEMMA Legs ==
  ASSUME NEW c \in Seq(Edges)
  PROVE  /\ Len(c) \in Nat
         /\ DOMAIN c = 1..Len(c)
         /\ \A i \in 1..Len(c) : c[i] \in Edges
OBVIOUS

FlowStep(c, s, amount, i) == IF amount <= 0 THEN 0 ELSE Received(c[i], amount, s)

IsFlow(f, c, start, s) ==
  f = [i \in 0..Len(c) |->
         IF i = 0 THEN start
         ELSE LET amount == f[i - 1]
              IN  IF amount <= 0 THEN 0 ELSE Received(c[i], amount, s)]

LEMMA FlowUnfolds ==
  ASSUME NEW c \in Seq(Edges), NEW start \in Int, NEW s, IsSnapshot(s)
  PROVE  LET f == Flow(c, start, s) IN
         /\ f \in [0..Len(c) -> Int]
         /\ f[0] = start
         /\ \A i \in 1..Len(c) : f[i] = FlowStep(c, s, f[i - 1], i)
<1> DEFINE G == [w \in (1..Len(c)) \X Int |-> FlowStep(c, s, w[2], w[1])]
<1>0. Len(c) \in Nat /\ \A i \in 1..Len(c) : c[i] \in Edges
  BY Legs
<1>1. ASSUME NEW i \in 1..Len(c), NEW a \in Int PROVE FlowStep(c, s, a, i) \in Int
  <2>1. Received(c[i], a, s) \in Int
    BY <1>0, <1>1, ReceivedPay
  <2> QED BY <2>1 DEF FlowStep
<1>2. G \in [(1..Len(c)) \X Int -> Int]
  BY <1>1
<1>3. PICK f \in [0..Len(c) -> Int] : Iterates(f, Len(c), start, G)
  <2> HIDE DEF G
  <2> QED BY <1>0, <1>2, StepByStep
<1>4. \A i \in 0..Len(c) : i # 0 => i \in 1..Len(c) /\ f[i - 1] \in Int
  BY <1>0
<1>5. \A i \in 1..Len(c), a \in Int : G[<<i, a>>] = FlowStep(c, s, a, i)
  OBVIOUS
<1> HIDE DEF G
<1>6. f = [i \in 0..Len(c) |-> IF i = 0 THEN start ELSE FlowStep(c, s, f[i - 1], i)]
  BY <1>3, <1>4, <1>5 DEF Iterates
<1>7. IsFlow(f, c, start, s)
  BY <1>6, Zenon DEF IsFlow, FlowStep
<1> DEFINE g == CHOOSE h : IsFlow(h, c, start, s)
<1>8. IsFlow(g, c, start, s)
  BY <1>7
<1>9. Flow(c, start, s) = [i \in 0..Len(c) |-> g[i]]
  BY Zenon DEF Flow, IsFlow
<1> HIDE DEF g
<1>10. g = [i \in 0..Len(c) |-> IF i = 0 THEN start ELSE FlowStep(c, s, g[i - 1], i)]
  BY <1>8, Zenon DEF IsFlow, FlowStep
<1>11. Flow(c, start, s) = g
  BY <1>9, <1>10
<1>12. /\ g[0] = start
       /\ \A i \in 1..Len(c) : g[i] = FlowStep(c, s, g[i - 1], i)
  <2>1. 0 \in 0..Len(c) /\ \A i \in 1..Len(c) : i \in 0..Len(c) /\ i # 0
    BY <1>0
  <2> QED BY <1>10, <2>1
<1>13. \A i \in 0..Len(c) : g[i] \in Int
  <2>1. \A i \in 1..Len(c) : g[i - 1] \in Int => g[i] \in Int
    BY <1>1, <1>12
  <2> HIDE DEF FlowStep
  <2>2. Len(c) \in Nat /\ g[0] \in Int
    BY <1>0, <1>12
  <2> QED BY <2>1, <2>2, StaysIn
<1> QED BY <1>10, <1>11, <1>12, <1>13

LEMMA OffersAreNumbers ==
  ASSUME NEW c \in Seq(Edges), NEW start \in Int, NEW s, IsSnapshot(s)
  PROVE  /\ SimulateCycle(c, start, s) \in Int
         /\ \A i \in DOMAIN c : LegOffers(c, start, s)[i] = Flow(c, start, s)[i - 1]
         /\ LegOffers(c, start, s) \in [DOMAIN c -> Int]
<1>1. Len(c) \in Nat /\ DOMAIN c = 1..Len(c)
  BY Legs
<1>2. Flow(c, start, s) \in [0..Len(c) -> Int]
  BY FlowUnfolds
<1>3. LegOffers(c, start, s) = [i \in DOMAIN c |-> Flow(c, start, s)[i - 1]]
  BY DEF LegOffers
<1>4. \A i \in 1..Len(c) : i - 1 \in 0..Len(c)
  BY <1>1
<1>5. Len(c) \in 0..Len(c)
  BY <1>1
<1> QED BY <1>1, <1>2, <1>3, <1>4, <1>5 DEF SimulateCycle

-----------------------------------------------------------------------------
(* Sizes: the depth cap *)

(* Among positive ratios a[i] / b[i] there is a least one. *)
LEMMA LeastRatio ==
  ASSUME NEW n \in Nat, NEW D \in SUBSET (1..n), D # {},
         NEW a \in [D -> Nat \ {0}], NEW b \in [D -> Nat \ {0}]
  PROVE  \E i \in D : \A j \in D : a[i] * b[j] <= a[j] * b[i]
<1> DEFINE Least(i, m) == \A j \in D : j <= m => a[i] * b[j] <= a[j] * b[i]
           Some(m) == \E j \in D : j <= m
           Done == {m \in Nat : Some(m) => \E i \in D : i <= m /\ Least(i, m)}
<1>1. 0 \in Done
  OBVIOUS
<1>2. ASSUME NEW m \in Nat, m \in Done PROVE m + 1 \in Done
  <2>1. ASSUME m + 1 \notin D, Some(m + 1) PROVE \E i \in D : i <= m + 1 /\ Least(i, m + 1)
    <3>1. \A j \in D : j <= m + 1 => j <= m
      <4>1. ASSUME NEW j \in D, j <= m + 1 PROVE j <= m
        <5>1. j \in Int /\ j # m + 1
          BY <2>1
        <5> QED BY <4>1, <5>1
      <4> QED BY <4>1
    <3>2. PICK i \in D : i <= m /\ Least(i, m)
      BY <1>2, <2>1, <3>1
    <3> QED BY <3>1, <3>2
  <2>2. ASSUME m + 1 \in D PROVE \E i \in D : i <= m + 1 /\ Least(i, m + 1)
    <3> DEFINE k == m + 1
    <3>1. \A j \in D : j <= k => j <= m \/ j = k
      OBVIOUS
    <3>2. CASE ~Some(m)
      <4>1. \A j \in D : j <= k => j = k
        BY <3>1, <3>2
      <4>2. a[k] * b[k] <= a[k] * b[k]
        BY <2>2
      <4>3. Least(k, k)
        BY <4>1, <4>2
      <4> QED BY <2>2, <4>3
    <3>3. CASE Some(m)
      <4>1. PICK i \in D : i <= m /\ Least(i, m)
        BY <1>2, <3>3
      <4>2. a[i] \in Nat \ {0} /\ b[i] \in Nat \ {0} /\ a[k] \in Nat \ {0} /\ b[k] \in Nat \ {0}
        BY <2>2
      <4>3. CASE a[i] * b[k] <= a[k] * b[i]
        <5>1. Least(i, k)
          BY <3>1, <4>1, <4>3
        <5>2. i <= k
          BY <4>1
        <5> QED BY <5>1, <5>2
      <4>4. CASE a[k] * b[i] <= a[i] * b[k]
        <5>1. ASSUME NEW j \in D, j <= m PROVE a[k] * b[j] <= a[j] * b[k]
          <6>1. a[i] * b[j] <= a[j] * b[i]
            BY <4>1, <5>1
          <6> DEFINE ai == a[i]
                     aj == a[j]
                     ak == a[k]
                     bi == b[i]
                     bj == b[j]
                     bk == b[k]
          <6>2. ai \in Nat /\ aj \in Nat /\ ak \in Nat /\ bi \in Nat \ {0} /\ bj \in Nat /\ bk \in Nat
            BY <4>2
          <6>3. ai * bj <= aj * bi /\ ak * bi <= ai * bk
            BY <4>4, <6>1
          <6> HIDE DEF ai, aj, ak, bi, bj, bk
          <6>4. (ak * bi) * bj <= (ai * bk) * bj
            BY <6>2, <6>3, Monotone
          <6>5. (ai * bj) * bk <= (aj * bi) * bk
            BY <6>2, <6>3, Monotone
          <6>6. (ak * bj) * bi <= (aj * bk) * bi
            <7>1. (ak * bi) * bj = (ak * bj) * bi /\ (ai * bk) * bj = (ai * bj) * bk
                  /\ (aj * bi) * bk = (aj * bk) * bi
              BY <6>2
            <7>2. (ak * bi) * bj \in Nat /\ (ai * bj) * bk \in Nat /\ (aj * bi) * bk \in Nat
              BY <6>2
            <7> QED BY <6>4, <6>5, <7>1, <7>2
          <6>7. ak * bj <= aj * bk
            <7>1. ak * bj \in Int /\ aj * bk \in Int
              BY <6>2
            <7> QED BY <6>2, <6>6, <7>1, Cancels
          <6> QED BY <6>7 DEF ai, aj, ak, bi, bj, bk
        <5>2. a[k] * b[k] <= a[k] * b[k]
          BY <4>2
        <5>3. Least(k, k)
          BY <3>1, <5>1, <5>2
        <5> QED BY <2>2, <5>3
      <4>5. a[i] * b[k] \in Nat /\ a[k] * b[i] \in Nat
        BY <4>2
      <4> QED BY <4>3, <4>4, <4>5
    <3> QED BY <3>2, <3>3
  <2> QED BY <2>1, <2>2
<1>3. Nat \subseteq Done
  <2> HIDE DEF Done
  <2> QED BY <1>1, <1>2, CountingUp
<1>4. \A j \in D : j <= n
  OBVIOUS
<1>5. Some(n)
  BY <1>4
<1>6. n \in Done
  BY <1>3
<1> QED BY <1>4, <1>5, <1>6

LEMMA ShareIsNumber ==
  ASSUME NEW e \in Edges, NEW share \in Nat, NEW s, IsSnapshot(s)
  PROVE  ShareOf(e, share, s) \in Nat
<1>1. s[e.pool][e.in] * share \in Nat
  BY Reserves
<1> QED BY <1>1, Division, UnitAssumption DEF ShareOf

LEMMA ScaledIsNumber ==
  ASSUME NEW c \in Seq(Edges), NEW amount \in Int, NEW share \in Nat, NEW s, IsSnapshot(s)
  PROVE  ScaledDown(c, amount, share, s) \in Int
<1> DEFINE offers == LegOffers(c, amount, s)
           deep == TooDeep(c, offers, share, s)
           a == [i \in deep |-> ShareOf(c[i], share, s)]
           b == [i \in deep |-> offers[i]]
           Is(i) == \A j \in deep :
                      ShareOf(c[i], share, s) * offers[j] <= ShareOf(c[j], share, s) * offers[i]
           tightest == CHOOSE i \in deep : Is(i)
<1>1. Len(c) \in Nat /\ DOMAIN c = 1..Len(c) /\ \A i \in DOMAIN c : c[i] \in Edges
  BY Legs
<1>2. offers \in [DOMAIN c -> Int]
  BY OffersAreNumbers
<1> HIDE DEF offers
<1>3. deep \in SUBSET (1..Len(c))
  BY <1>1 DEF TooDeep
<1>4. \A i \in deep : offers[i] \in Nat \ {0} /\ ShareOf(c[i], share, s) \in Nat \ {0}
  <2> SUFFICES ASSUME NEW i \in deep
               PROVE  offers[i] \in Nat \ {0} /\ ShareOf(c[i], share, s) \in Nat \ {0}
    OBVIOUS
  <2>1. i \in DOMAIN c /\ offers[i] > 0 /\ ShareOf(c[i], share, s) > 0
    BY DEF TooDeep
  <2>2. offers[i] \in Int
    BY <1>2, <2>1
  <2>3. ShareOf(c[i], share, s) \in Nat
    BY <1>1, <2>1, ShareIsNumber
  <2> QED BY <2>1, <2>2, <2>3
<1> HIDE DEF deep
<1>5. ASSUME deep # {} PROVE tightest \in deep
  <2>1. a \in [deep -> Nat \ {0}] /\ b \in [deep -> Nat \ {0}]
    BY <1>4
  <2>2. PICK i \in deep : \A j \in deep : a[i] * b[j] <= a[j] * b[i]
    <3> HIDE DEF a, b
    <3> QED BY <1>1, <1>3, <1>5, <2>1, LeastRatio
  <2>3. Is(i)
    BY <2>2
  <2> HIDE DEF Is
  <2> QED BY <2>3
<1> HIDE DEF tightest
<1>6. ASSUME deep # {}
      PROVE  (amount * ShareOf(c[tightest], share, s)) \div offers[tightest] \in Int
  <2>1. amount * ShareOf(c[tightest], share, s) \in Int /\ offers[tightest] \in Nat \ {0}
    BY <1>4, <1>5, <1>6
  <2> QED BY <2>1, Division
<1>7. ScaledDown(c, amount, share, s) =
        IF deep = {} THEN amount
        ELSE (amount * ShareOf(c[tightest], share, s)) \div offers[tightest]
  BY DEF ScaledDown, ScaledTo, offers, deep, tightest
<1> QED BY <1>6, <1>7

ShrinkStep(c, share, s, last) == IF last <= 0 THEN 0 ELSE ScaledDown(c, last, share, s)

IsShrinking(f, c, amount, share, s, times) ==
  f = [n \in 0..times |->
         IF n = 0 THEN amount
         ELSE LET last == f[n - 1]
              IN  IF last <= 0 THEN 0 ELSE ScaledDown(c, last, share, s)]

LEMMA ShrunkIsNumber ==
  ASSUME NEW c \in Seq(Edges), NEW amount \in Int, NEW share \in Nat, NEW times \in Nat,
         NEW s, IsSnapshot(s)
  PROVE  Shrunk(c, amount, share, s, times) \in Int
<1> DEFINE G == [w \in (1..times) \X Int |-> ShrinkStep(c, share, s, w[2])]
<1>1. ASSUME NEW a \in Int PROVE ShrinkStep(c, share, s, a) \in Int
  BY ScaledIsNumber DEF ShrinkStep
<1>2. G \in [(1..times) \X Int -> Int]
  BY <1>1
<1>3. \A i \in 1..times, a \in Int : G[<<i, a>>] = ShrinkStep(c, share, s, a)
  OBVIOUS
<1> HIDE DEF G
<1>4. PICK f \in [0..times -> Int] : Iterates(f, times, amount, G)
  BY <1>2, StepByStep
<1>5. \A i \in 0..times : i # 0 => i \in 1..times /\ f[i - 1] \in Int
  OBVIOUS
<1>6. f = [i \in 0..times |-> IF i = 0 THEN amount ELSE ShrinkStep(c, share, s, f[i - 1])]
  BY <1>3, <1>4, <1>5 DEF Iterates
<1>7. IsShrinking(f, c, amount, share, s, times)
  BY <1>6, Zenon DEF IsShrinking, ShrinkStep
<1> DEFINE g == CHOOSE h : IsShrinking(h, c, amount, share, s, times)
<1>8. IsShrinking(g, c, amount, share, s, times)
  BY <1>7
<1>9. Shrunk(c, amount, share, s, times) = g[times]
  BY Zenon DEF Shrunk, IsShrinking
<1> HIDE DEF g
<1>10. g = [i \in 0..times |-> IF i = 0 THEN amount ELSE ShrinkStep(c, share, s, g[i - 1])]
  BY <1>8, Zenon DEF IsShrinking, ShrinkStep
<1>11. g[0] = amount /\ \A i \in 1..times : g[i] = ShrinkStep(c, share, s, g[i - 1])
  <2>1. 0 \in 0..times /\ \A i \in 1..times : i \in 0..times /\ i # 0
    OBVIOUS
  <2> QED BY <1>10, <2>1
<1>12. \A i \in 0..times : g[i] \in Int
  <2>1. \A i \in 1..times : g[i - 1] \in Int => g[i] \in Int
    BY <1>1, <1>11
  <2>2. g[0] \in Int
    BY <1>11
  <2> QED BY <2>1, <2>2, StaysIn
<1> QED BY <1>9, <1>12

LEMMA FractionIsNumber ==
  ASSUME NEW x \in Nat, NEW n \in Int, NEW d \in Nat \ {0}
  PROVE  FractionOf(x, n, d) \in Nat
<1> USE UnitAssumption
<1>1. /\ MinFraction \in Nat /\ MaxFraction \in Nat /\ EdgeLow \in Nat /\ EdgeHigh \in Nat
      /\ MinFraction <= MaxFraction /\ EdgeLow < EdgeHigh
  BY SizingAssumption
<1>2. (x * MinFraction) \div Unit \in Nat
  <2>1. x * MinFraction \in Nat
    BY <1>1
  <2> QED BY <2>1, Division
<1>3. (x * MaxFraction) \div Unit \in Nat
  <2>1. x * MaxFraction \in Nat
    BY <1>1
  <2> QED BY <2>1, Division
<1>4. ASSUME n > EdgeLow * d
      PROVE  (x * (MinFraction * (EdgeHigh - EdgeLow) * d
                     + (n - EdgeLow * d) * (MaxFraction - MinFraction)))
               \div (Unit * (EdgeHigh - EdgeLow) * d) \in Nat
  <2> DEFINE p == MinFraction * (EdgeHigh - EdgeLow) * d
             q == (n - EdgeLow * d) * (MaxFraction - MinFraction)
             r == Unit * (EdgeHigh - EdgeLow) * d
  <2>1. MinFraction * (EdgeHigh - EdgeLow) \in Nat /\ EdgeHigh - EdgeLow \in Nat \ {0}
    BY <1>1
  <2>2. p \in Nat
    BY <2>1
  <2>3. q \in Nat
    <3>1. n - EdgeLow * d \in Nat /\ MaxFraction - MinFraction \in Nat
      BY <1>1, <1>4
    <3> QED BY <3>1
  <2>4. r \in Nat \ {0}
    <3>1. Unit * (EdgeHigh - EdgeLow) \in Nat \ {0}
      BY <2>1
    <3> QED BY <3>1
  <2> HIDE DEF p, q, r
  <2>5. x * (p + q) \in Nat
    BY <2>2, <2>3
  <2>6. (x * (p + q)) \div r \in Nat
    BY <2>4, <2>5, Division
  <2> QED BY <2>6 DEF p, q, r
<1>5. EdgeLow * d \in Int
  BY <1>1
<1> QED BY <1>2, <1>3, <1>4, <1>5 DEF FractionOf

LEMMA ProbeIsNumber == ASSUME NEW b \in Nat PROVE ProbeAmount(b) \in Nat
<1>1. ProbeFraction \in Nat /\ MinProbe \in Nat
  BY SizingAssumption
<1>2. (b * ProbeFraction) \div Unit \in Nat
  <2>1. b * ProbeFraction \in Nat
    BY <1>1
  <2> QED BY <2>1, Division, UnitAssumption
<1> QED BY <1>1, <1>2 DEF ProbeAmount, Larger, Smaller

LEMMA HeadroomIsNumber ==
  ASSUME NEW asset, NEW b \in Nat, NEW offer \in Nat
  PROVE  WithinHeadroom(asset, b, offer) \in Nat
<1>1. GasReserve \in Nat
  BY SizingAssumption
<1> QED BY <1>1 DEF WithinHeadroom, Larger, Smaller

OfferType == [ceiling : Nat, gain : Int, probe : Nat \ {0}]

LEMMA OfferIsTyped ==
  ASSUME NEW c \in Seq(Edges), NEW b \in Nat, NEW s, IsSnapshot(s)
  PROVE  MaxOffer(c, b, s) \in OfferType
<1> DEFINE probe == CycleProbe(c, b, s)
           gain == SimulateCycle(c, probe, s) - probe
           offer == SizeMultiplier * FractionOf(b, gain * Unit, probe)
           head == WithinHeadroom(c[1].in, b, offer)
           cap == LiquidityCap(c, head, s)
<1>1. ProbeShare \in Nat /\ PoolShare \in Nat /\ SizeMultiplier \in Nat
  BY SizingAssumption
<1>2. NoOffer \in OfferType
  BY DEF NoOffer, OfferType
<1>3. probe \in Int
  BY <1>1, ProbeIsNumber, ShrunkIsNumber DEF CycleProbe
<1>4. gain \in Int
  <2> HIDE DEF probe
  <2>1. SimulateCycle(c, probe, s) \in Int
    BY <1>3, OffersAreNumbers
  <2> QED BY <1>3, <2>1
<1>5. ASSUME probe > 0 PROVE cap \in Nat
  <2> HIDE DEF probe, gain
  <2>1. gain * Unit \in Int /\ probe \in Nat \ {0}
    BY <1>3, <1>4, <1>5, UnitAssumption
  <2>2. FractionOf(b, gain * Unit, probe) \in Nat
    BY <2>1, FractionIsNumber
  <2>3. offer \in Nat
    BY <1>1, <2>2
  <2> HIDE DEF offer
  <2>4. head \in Nat
    BY <2>3, HeadroomIsNumber
  <2> HIDE DEF head
  <2>5. Shrunk(c, head, PoolShare, s, 4) \in Int
    BY <1>1, <2>4, ShrunkIsNumber
  <2> QED BY <2>5 DEF LiquidityCap, Larger
<1>6. MaxOffer(c, b, s) =
        IF b <= 0 \/ probe <= 0 \/ gain <= 0 THEN NoOffer
        ELSE [ceiling |-> cap, gain |-> gain, probe |-> probe]
  BY DEF MaxOffer, Probed, OfferOn
<1> HIDE DEF probe, gain, cap
<1>7. CASE b <= 0 \/ probe <= 0 \/ gain <= 0
  BY <1>2, <1>6, <1>7
<1>8. CASE ~(b <= 0 \/ probe <= 0 \/ gain <= 0)
  <2>1. cap \in Nat /\ gain \in Int /\ probe \in Nat \ {0}
    BY <1>3, <1>4, <1>5, <1>8
  <2> QED BY <1>6, <1>8, <2>1 DEF OfferType
<1> QED BY <1>7, <1>8

-----------------------------------------------------------------------------
(* Sizes: the spread cap *)

Floor(ceiling) == Larger(1, ceiling \div FloorShare)

HalfStep(c, s, limit, last) ==
  LET mid == (last.lo + last.hi) \div 2
  IN  IF mid = last.lo THEN last ELSE Halved(Fits(c, mid, s, limit), mid, last)

IsBisection(f, c, ceiling, s, limit) ==
  f = [n \in 0..14 |->
         IF n = 0 THEN [lo |-> Floor(ceiling), hi |-> ceiling]
         ELSE LET last == f[n - 1]
                  mid  == (last.lo + last.hi) \div 2
              IN  IF mid = last.lo THEN last ELSE Halved(Fits(c, mid, s, limit), mid, last)]

(* A size that fits below one that does not. *)
Brackets(c, ceiling, s, limit) ==
  {r \in [lo : Nat \ {0}, hi : Nat] :
     /\ r.lo < r.hi /\ r.hi <= ceiling
     /\ Fits(c, r.lo, s, limit)
     /\ ~Fits(c, r.hi, s, limit)}

LEMMA HalfStepNarrows ==
  ASSUME NEW c, NEW ceiling \in Nat, NEW s, NEW limit, NEW r \in Brackets(c, ceiling, s, limit)
  PROVE  LET h == HalfStep(c, s, limit, r) IN
         /\ h \in Brackets(c, ceiling, s, limit)
         /\ 2 * (h.hi - h.lo) <= (r.hi - r.lo) + 1
<1> DEFINE mid == (r.lo + r.hi) \div 2
           h == HalfStep(c, s, limit, r)
<1>1. /\ r \in [lo : Nat \ {0}, hi : Nat] /\ r.lo < r.hi /\ r.hi <= ceiling
      /\ Fits(c, r.lo, s, limit) /\ ~Fits(c, r.hi, s, limit)
  BY DEF Brackets
<1>2. r.lo \in Nat \ {0} /\ r.hi \in Nat
  BY <1>1
<1>3. mid \in Nat /\ 2 * mid <= r.lo + r.hi /\ r.lo + r.hi <= 2 * mid + 1
  BY <1>2
<1>4. h = IF mid = r.lo THEN r
          ELSE IF Fits(c, mid, s, limit) THEN [r EXCEPT !.lo = mid] ELSE [r EXCEPT !.hi = mid]
  BY DEF HalfStep, Halved
<1> HIDE DEF mid, h
<1>5. CASE mid = r.lo
  BY <1>1, <1>2, <1>3, <1>4, <1>5 DEF h
<1>6. CASE mid # r.lo /\ Fits(c, mid, s, limit)
  <2>1. h = [lo |-> mid, hi |-> r.hi]
    BY <1>1, <1>4, <1>6
  <2>2. mid < r.hi /\ r.lo < mid
    BY <1>1, <1>2, <1>3, <1>6
  <2> QED BY <1>1, <1>2, <1>3, <1>6, <2>1, <2>2 DEF h, Brackets
<1>7. CASE mid # r.lo /\ ~Fits(c, mid, s, limit)
  <2>1. h = [lo |-> r.lo, hi |-> mid]
    BY <1>1, <1>4, <1>7
  <2>2. mid < r.hi /\ r.lo < mid
    BY <1>1, <1>2, <1>3, <1>7
  <2> QED BY <1>1, <1>2, <1>3, <1>7, <2>1, <2>2 DEF h, Brackets
<1> QED BY <1>5, <1>6, <1>7

LEMMA FloorIsBelow ==
  ASSUME NEW ceiling \in Nat \ {0}
  PROVE  Floor(ceiling) \in 1..ceiling
<1> DEFINE q == ceiling \div FloorShare
<1>1. FloorShare \in Nat \ {0}
  BY SizingAssumption
<1>2. q \in Nat /\ q * FloorShare <= ceiling
  BY <1>1, Division
<1> HIDE DEF q
<1>3. q * 1 <= q * FloorShare
  BY <1>1, <1>2
<1>4. q <= ceiling
  <2>1. q * FloorShare \in Int
    BY <1>1, <1>2
  <2> QED BY <1>2, <1>3, <2>1
<1> QED BY <1>2, <1>4 DEF Floor, Larger, q

LEMMA Bisection ==
  ASSUME NEW c, NEW ceiling \in Nat \ {0}, NEW s, NEW limit,
         ~Fits(c, ceiling, s, limit), Fits(c, Floor(ceiling), s, limit)
  PROVE  \E r \in Brackets(c, ceiling, s, limit) :
           /\ SpreadCap(c, ceiling, s, limit) = r.lo
           /\ 16384 * (r.hi - r.lo - 1) <= ceiling
<1> DEFINE S == Brackets(c, ceiling, s, limit)
           base == [lo |-> Floor(ceiling), hi |-> ceiling]
           G == [w \in (1..14) \X S |-> HalfStep(c, s, limit, w[2])]
<1>1. base \in S
  <2>1. Floor(ceiling) \in 1..ceiling
    BY FloorIsBelow
  <2>2. Floor(ceiling) # ceiling
    OBVIOUS
  <2> QED BY <2>1, <2>2 DEF Brackets
<1>2. ASSUME NEW r \in S PROVE HalfStep(c, s, limit, r) \in S
  BY HalfStepNarrows
<1>3. G \in [(1..14) \X S -> S]
  BY <1>2
<1>4. \A i \in 1..14, r \in S : G[<<i, r>>] = HalfStep(c, s, limit, r)
  OBVIOUS
<1> HIDE DEF G, S
<1>5. PICK f \in [0..14 -> S] : Iterates(f, 14, base, G)
  <2> HIDE DEF base
  <2> QED BY <1>1, <1>3, StepByStep
<1>6. \A i \in 0..14 : i # 0 => i \in 1..14 /\ f[i - 1] \in S
  OBVIOUS
<1>7. f = [i \in 0..14 |-> IF i = 0 THEN base ELSE HalfStep(c, s, limit, f[i - 1])]
  <2> HIDE DEF base
  <2> QED BY <1>4, <1>5, <1>6 DEF Iterates
<1>8. IsBisection(f, c, ceiling, s, limit)
  BY <1>7, Zenon DEF IsBisection, HalfStep
<1> DEFINE g == CHOOSE h : IsBisection(h, c, ceiling, s, limit)
<1>9. IsBisection(g, c, ceiling, s, limit)
  BY <1>8
<1>10. SpreadCap(c, ceiling, s, limit) = g[14].lo
  <2>1. ~(ceiling <= 0)
    OBVIOUS
  <2>2. SpreadCap(c, ceiling, s, limit) =
          IF ceiling <= 0 THEN 0
          ELSE IF Fits(c, ceiling, s, limit) THEN ceiling
          ELSE IF ~Fits(c, Floor(ceiling), s, limit) THEN 0
          ELSE g[14].lo
    BY Zenon DEF SpreadCap, IsBisection, Floor
  <2> HIDE DEF g
  <2> QED BY <2>1, <2>2
<1> HIDE DEF g
<1>11. g = [i \in 0..14 |-> IF i = 0 THEN base ELSE HalfStep(c, s, limit, g[i - 1])]
  BY <1>9, Zenon DEF IsBisection, HalfStep
<1>12. g[0] = base /\ \A i \in 1..14 : g[i] = HalfStep(c, s, limit, g[i - 1])
  <2> HIDE DEF base
  <2>1. 0 \in 0..14 /\ \A i \in 1..14 : i \in 0..14 /\ i # 0
    OBVIOUS
  <2> QED BY <1>11, <2>1
<1>13. \A i \in 0..14 : g[i] \in S
  <2>1. \A i \in 1..14 : g[i - 1] \in S => g[i] \in S
    BY <1>2, <1>12
  <2>2. g[0] \in S
    BY <1>1, <1>12
  <2> QED BY <2>1, <2>2, StaysIn
<1> DEFINE gap(i) == g[i].hi - g[i].lo
<1>14. \A i \in 0..14 : gap(i) \in Nat
  BY <1>13 DEF S, Brackets
<1>15. \A i \in 1..14 : 2 * gap(i) <= gap(i - 1) + 1
  <2> SUFFICES ASSUME NEW i \in 1..14 PROVE 2 * gap(i) <= gap(i - 1) + 1
    OBVIOUS
  <2>1. i - 1 \in 0..14
    OBVIOUS
  <2>2. g[i - 1] \in Brackets(c, ceiling, s, limit) /\ g[i] = HalfStep(c, s, limit, g[i - 1])
    BY <1>12, <1>13, <2>1 DEF S
  <2> QED BY <2>2, HalfStepNarrows
<1>16. gap(0) <= ceiling
  BY <1>1, <1>12 DEF S, Brackets
<1> HIDE DEF gap
<1>17. 16384 * (gap(14) - 1) <= gap(0)
  <2>1. /\ 2 * gap(1) <= gap(0) + 1 /\ 2 * gap(2) <= gap(1) + 1 /\ 2 * gap(3) <= gap(2) + 1
        /\ 2 * gap(4) <= gap(3) + 1 /\ 2 * gap(5) <= gap(4) + 1 /\ 2 * gap(6) <= gap(5) + 1
        /\ 2 * gap(7) <= gap(6) + 1 /\ 2 * gap(8) <= gap(7) + 1 /\ 2 * gap(9) <= gap(8) + 1
        /\ 2 * gap(10) <= gap(9) + 1 /\ 2 * gap(11) <= gap(10) + 1
        /\ 2 * gap(12) <= gap(11) + 1 /\ 2 * gap(13) <= gap(12) + 1
        /\ 2 * gap(14) <= gap(13) + 1
    BY <1>15
  <2>2. /\ gap(0) \in Nat /\ gap(1) \in Nat /\ gap(2) \in Nat /\ gap(3) \in Nat
        /\ gap(4) \in Nat /\ gap(5) \in Nat /\ gap(6) \in Nat /\ gap(7) \in Nat
        /\ gap(8) \in Nat /\ gap(9) \in Nat /\ gap(10) \in Nat /\ gap(11) \in Nat
        /\ gap(12) \in Nat /\ gap(13) \in Nat /\ gap(14) \in Nat
    BY <1>14
  <2> QED BY <2>1, <2>2
<1>18. 16384 * (g[14].hi - g[14].lo - 1) <= ceiling
  <2>1. gap(14) \in Nat /\ gap(0) \in Nat
    BY <1>14
  <2> QED BY <1>16, <1>17, <2>1 DEF gap
<1>19. g[14] \in Brackets(c, ceiling, s, limit)
  BY <1>13 DEF S
<1> QED BY <1>10, <1>18, <1>19

LEMMA SpreadCapIsNumber ==
  ASSUME NEW c, NEW ceiling \in Nat, NEW s, NEW limit
  PROVE  SpreadCap(c, ceiling, s, limit) \in 0..ceiling
<1> DEFINE g == CHOOSE h : IsBisection(h, c, ceiling, s, limit)
<1>0. SpreadCap(c, ceiling, s, limit) =
        IF ceiling <= 0 THEN 0
        ELSE IF Fits(c, ceiling, s, limit) THEN ceiling
        ELSE IF ~Fits(c, Floor(ceiling), s, limit) THEN 0
        ELSE g[14].lo
  BY Zenon DEF SpreadCap, IsBisection, Floor
<1> HIDE DEF g
<1>1. CASE ceiling = 0 \/ Fits(c, ceiling, s, limit)
  BY <1>0, <1>1
<1>2. CASE ceiling # 0 /\ ~Fits(c, ceiling, s, limit) /\ ~Fits(c, Floor(ceiling), s, limit)
  BY <1>0, <1>2
<1>3. CASE ceiling # 0 /\ ~Fits(c, ceiling, s, limit) /\ Fits(c, Floor(ceiling), s, limit)
  <2>1. PICK r \in Brackets(c, ceiling, s, limit) : SpreadCap(c, ceiling, s, limit) = r.lo
    BY <1>3, Bisection
  <2>2. r.lo \in Nat /\ r.hi \in Nat /\ r.lo < r.hi /\ r.hi <= ceiling
    BY DEF Brackets
  <2> QED BY <2>1, <2>2
<1> QED BY <1>1, <1>2, <1>3

LEMMA CapFits ==
  ASSUME NEW c, NEW ceiling \in Nat, NEW s, NEW limit, SpreadCap(c, ceiling, s, limit) > 0
  PROVE  Fits(c, SpreadCap(c, ceiling, s, limit), s, limit)
<1> DEFINE cap == SpreadCap(c, ceiling, s, limit)
<1>1. cap \in Nat /\ cap # 0 /\ cap <= ceiling
  BY SpreadCapIsNumber
<1>2. ~(ceiling <= 0) /\ ceiling \in Nat \ {0}
  BY SMTT(30), <1>1
<1>3. CASE Fits(c, ceiling, s, limit)
  BY Zenon, <1>2, <1>3 DEF SpreadCap
<1>4. CASE ~Fits(c, ceiling, s, limit) /\ Fits(c, Floor(ceiling), s, limit)
  <2>1. PICK r \in Brackets(c, ceiling, s, limit) : cap = r.lo
    BY <1>2, <1>4, Bisection
  <2> QED BY <2>1 DEF Brackets
<1>5. CASE ~Fits(c, ceiling, s, limit) /\ ~Fits(c, Floor(ceiling), s, limit)
  <2>1. cap = 0
    BY Zenon, <1>2, <1>5 DEF SpreadCap, Floor
  <2> QED BY Zenon, <1>1, <2>1
<1> QED BY <1>3, <1>4, <1>5

-----------------------------------------------------------------------------
(* Sizes: the search *)

LEMMA IntervalHasBest ==
  ASSUME NEW lo \in Int, NEW hi \in Int, lo <= hi, NEW f, \A x \in lo..hi : f[x] \in Int
  PROVE  /\ Best(lo..hi, f) \in lo..hi
         /\ \A y \in lo..hi : f[y] <= f[Best(lo..hi, f)]
<1> DEFINE Over(x, y) == f[y] < f[x] \/ (f[y] = f[x] /\ x <= y)
           Done == {m \in Nat : lo + m <= hi =>
                      \E x \in lo..(lo + m) : \A y \in lo..(lo + m) : Over(x, y)}
<1>1. 0 \in Done
  <2>1. lo \in lo..(lo + 0) /\ \A y \in lo..(lo + 0) : y = lo
    OBVIOUS
  <2> QED BY <2>1
<1>2. ASSUME NEW m \in Nat, m \in Done PROVE m + 1 \in Done
  <2> SUFFICES ASSUME lo + (m + 1) <= hi
               PROVE  \E x \in lo..(lo + (m + 1)) : \A y \in lo..(lo + (m + 1)) : Over(x, y)
    OBVIOUS
  <2> DEFINE z == lo + (m + 1)
  <2>1. PICK x \in lo..(lo + m) : \A y \in lo..(lo + m) : Over(x, y)
    BY <1>2
  <2>2. \A y \in lo..z : y \in lo..(lo + m) \/ y = z
    OBVIOUS
  <2>3. x \in lo..z /\ z \in lo..z /\ \A y \in lo..z : f[y] \in Int
    OBVIOUS
  <2>4. CASE f[z] > f[x]
    <3>1. \A y \in lo..z : Over(z, y)
      BY <2>1, <2>2, <2>3, <2>4
    <3> QED BY <2>3, <3>1
  <2>5. CASE f[z] <= f[x]
    <3>1. \A y \in lo..z : Over(x, y)
      BY <2>1, <2>2, <2>3, <2>5
    <3> QED BY <2>3, <3>1
  <2> QED BY <2>3, <2>4, <2>5
<1>3. Nat \subseteq Done
  <2> HIDE DEF Done
  <2> QED BY <1>1, <1>2, CountingUp
<1>4. hi - lo \in Done /\ lo + (hi - lo) = hi
  <2>1. hi - lo \in Nat /\ lo + (hi - lo) = hi
    OBVIOUS
  <2> HIDE DEF Done
  <2> QED BY <1>3, <2>1
<1>5. \E x \in lo..hi : \A y \in lo..hi : Over(x, y)
  BY <1>4
<1>6. Best(lo..hi, f) = CHOOSE x \in lo..hi : \A y \in lo..hi : Over(x, y)
  BY DEF Best
<1>7. Best(lo..hi, f) \in lo..hi /\ \A y \in lo..hi : Over(Best(lo..hi, f), y)
  BY <1>5, <1>6
<1> HIDE DEF Over
<1>8. \A x \in lo..hi, y \in lo..hi : Over(x, y) => f[y] <= f[x]
  BY DEF Over
<1> QED BY <1>7, <1>8

IsNarrowing(f, profit, low, high, iterations) ==
  f = [n \in 0..iterations |->
         IF n = 0 THEN [lo |-> low, hi |-> high]
         ELSE LET range == f[n - 1] IN Thirds(range, profit)]

Within(low, high) ==
  {r \in [lo : Int, hi : Int] : low <= r.lo /\ r.lo <= r.hi /\ r.hi <= high}

LEMMA ThirdsStayWithin ==
  ASSUME NEW low \in Int, NEW high \in Int, NEW profit, NEW r \in Within(low, high)
  PROVE  Thirds(r, profit) \in Within(low, high)
<1> DEFINE third == (r.hi - r.lo) \div 3
<1>1. /\ r \in [lo : Int, hi : Int] /\ r.lo \in Int /\ r.hi \in Int
      /\ low <= r.lo /\ r.lo <= r.hi /\ r.hi <= high
  BY DEF Within
<1>2. third \in Nat /\ 3 * third <= r.hi - r.lo
  BY <1>1
<1>3. Thirds(r, profit) = r \/ Thirds(r, profit) = [r EXCEPT !.lo = r.lo + third]
        \/ Thirds(r, profit) = [r EXCEPT !.hi = r.hi - third]
  BY DEF Thirds
<1> HIDE DEF third
<1>4. /\ [r EXCEPT !.lo = r.lo + third] = [lo |-> r.lo + third, hi |-> r.hi]
      /\ [r EXCEPT !.hi = r.hi - third] = [lo |-> r.lo, hi |-> r.hi - third]
  BY <1>1
<1> QED BY <1>1, <1>2, <1>3, <1>4 DEF Within

LEMMA OptimalSizeIsWithin ==
  ASSUME NEW low \in Int, NEW high \in Int, low <= high, NEW iterations \in Nat,
         NEW profit, \A x \in low..high : profit[x] \in Int
  PROVE  OptimalSize(profit, low, high, iterations) \in low..high
<1> DEFINE S == Within(low, high)
           base == [lo |-> low, hi |-> high]
           G == [w \in (1..iterations) \X S |-> Thirds(w[2], profit)]
<1>1. base \in S
  BY DEF Within
<1>2. ASSUME NEW r \in S PROVE Thirds(r, profit) \in S
  BY ThirdsStayWithin
<1>3. G \in [(1..iterations) \X S -> S]
  BY <1>2
<1>4. \A i \in 1..iterations, r \in S : G[<<i, r>>] = Thirds(r, profit)
  OBVIOUS
<1> HIDE DEF G, S
<1>5. PICK f \in [0..iterations -> S] : Iterates(f, iterations, base, G)
  <2> HIDE DEF base
  <2> QED BY <1>1, <1>3, StepByStep
<1>6. \A i \in 0..iterations : i # 0 => i \in 1..iterations /\ f[i - 1] \in S
  OBVIOUS
<1>7. f = [i \in 0..iterations |-> IF i = 0 THEN base ELSE Thirds(f[i - 1], profit)]
  <2> HIDE DEF base
  <2> QED BY <1>4, <1>5, <1>6 DEF Iterates
<1>8. IsNarrowing(f, profit, low, high, iterations)
  BY <1>7, Zenon DEF IsNarrowing
<1> DEFINE g == CHOOSE h : IsNarrowing(h, profit, low, high, iterations)
<1>9. IsNarrowing(g, profit, low, high, iterations)
  BY <1>8
<1>10. OptimalSize(profit, low, high, iterations) =
         IF high <= low THEN low
         ELSE Best(Larger(low, g[iterations].lo - 2)..Smaller(high, g[iterations].hi + 2), profit)
  BY Zenon DEF OptimalSize, IsNarrowing
<1> HIDE DEF g
<1>11. g = [i \in 0..iterations |-> IF i = 0 THEN base ELSE Thirds(g[i - 1], profit)]
  BY <1>9, Zenon DEF IsNarrowing
<1>12. g[0] = base /\ \A i \in 1..iterations : g[i] = Thirds(g[i - 1], profit)
  <2> HIDE DEF base
  <2>1. 0 \in 0..iterations /\ \A i \in 1..iterations : i \in 0..iterations /\ i # 0
    OBVIOUS
  <2> QED BY <1>11, <2>1
<1>13. \A i \in 0..iterations : g[i] \in S
  <2>1. \A i \in 1..iterations : g[i - 1] \in S => g[i] \in S
    BY <1>2, <1>12
  <2>2. g[0] \in S
    BY <1>1, <1>12
  <2> QED BY <2>1, <2>2, StaysIn
<1> DEFINE l == Larger(low, g[iterations].lo - 2)
           h == Smaller(high, g[iterations].hi + 2)
<1>14. g[iterations] \in Within(low, high)
  BY <1>13 DEF S
<1>15. l \in low..high /\ h \in low..high /\ l <= h
  <2>1. /\ g[iterations].lo \in Int /\ g[iterations].hi \in Int
        /\ low <= g[iterations].lo /\ g[iterations].lo <= g[iterations].hi
        /\ g[iterations].hi <= high
    BY <1>14 DEF Within
  <2> DEFINE x == g[iterations].lo
             y == g[iterations].hi
  <2>2. x \in Int /\ y \in Int /\ low <= x /\ x <= y /\ y <= high
    BY <2>1
  <2> HIDE DEF x, y
  <2>3. /\ Larger(low, x - 2) \in low..high /\ Smaller(high, y + 2) \in low..high
        /\ Larger(low, x - 2) <= Smaller(high, y + 2)
    BY <2>2 DEF Larger, Smaller
  <2> QED BY Zenon, <2>3 DEF x, y
<1> HIDE DEF l, h
<1>16. Best(l..h, profit) \in l..h
  <2>1. l \in Int /\ h \in Int /\ \A x \in l..h : profit[x] \in Int
    BY <1>15
  <2> QED BY <1>15, <2>1, IntervalHasBest
<1>17. CASE high <= low
  BY <1>10, <1>17
<1>18. CASE ~(high <= low)
  BY <1>10, <1>15, <1>16, <1>18 DEF l, h
<1> QED BY <1>17, <1>18

-----------------------------------------------------------------------------
(* Prices, profits and what a cycle is worth *)

LEMMA RatioIsNumber ==
  ASSUME NEW a, NEW quote, NEW s, IsSnapshot(s), DirectPools(a, quote, s) # {}
  PROVE  Ratio(a, quote, s) \in Nat
<1> DEFINE D == DirectPools(a, quote, s)
           first == CHOOSE i \in D : \A j \in D : i <= j
           p == PoolList[first]
<1>1. PoolList \in Seq(Pools) /\ Scale \in Nat
  BY CycleMathAssumption
<1>2. D \subseteq Nat
  <2>1. DOMAIN PoolList = 1..Len(PoolList) /\ Len(PoolList) \in Nat
    BY <1>1
  <2>2. D \subseteq DOMAIN PoolList
    BY DEF DirectPools
  <2> HIDE DEF D
  <2> QED BY <2>1, <2>2
<1>3. first \in D
  <2>1. \E i \in D : \A j \in D : i <= j
    <3>1. D # {}
      OBVIOUS
    <3> HIDE DEF D
    <3> QED BY <1>2, <3>1, LeastNumber
  <2> HIDE DEF D
  <2> QED BY <2>1
<1> HIDE DEF first
<1>4. first \in DOMAIN PoolList /\ {Pair[p][1], Pair[p][2]} = {a, quote} /\ s[p][a] > 0
  BY <1>3 DEF DirectPools
<1>5. p \in Pools
  BY <1>4 DEF Pools
<1>6. s[p] \in [{a, quote} -> Nat]
  BY <1>4, <1>5 DEF IsSnapshot
<1>7. s[p][a] \in Nat \ {0} /\ s[p][quote] \in Nat
  BY <1>4, <1>6
<1>8. Ratio(a, quote, s) = (s[p][quote] * Scale) \div s[p][a]
  BY DEF Ratio, first
<1> HIDE DEF p
<1>9. s[p][quote] * Scale \in Nat
  BY <1>1, <1>7
<1> QED BY SMTT(30), <1>7, <1>8, <1>9, Division

LEMMA PriceIsNumber ==
  ASSUME NEW a, NEW s, IsSnapshot(s)
  PROVE  Price(a, s) \in Nat
<1>1. Scale \in Nat \ {0}
  BY CycleMathAssumption
<1>2. ASSUME DirectPools(a, LUNC, s) # {}, DirectPools(LUNC, USTC, s) # {}
      PROVE  (Ratio(a, LUNC, s) * Ratio(LUNC, USTC, s)) \div Scale \in Nat
  <2>1. Ratio(a, LUNC, s) \in Nat /\ Ratio(LUNC, USTC, s) \in Nat
    BY <1>2, RatioIsNumber
  <2>2. Ratio(a, LUNC, s) * Ratio(LUNC, USTC, s) \in Nat
    BY <2>1
  <2> QED BY <1>1, <2>2, Division
<1>3. ASSUME DirectPools(a, USTC, s) # {} PROVE Ratio(a, USTC, s) \in Nat
  BY <1>3, RatioIsNumber
<1> QED BY <1>1, <1>2, <1>3 DEF Price

LEMMA BufferedBounds ==
  ASSUME NEW x \in Int
  PROVE  /\ Buffered(x) \in Int
         /\ x >= 0 => Buffered(x) <= x
<1>1. Buffer \in 0..Unit /\ Unit \in Nat \ {0}
  BY DecisionAssumption, UnitAssumption
<1> DEFINE k == Unit - Buffer
           q == (x * k) \div Unit
<1>2. k \in 0..Unit
  BY <1>1
<1> HIDE DEF k
<1>3. x * k \in Int
  BY <1>2
<1>4. q \in Int /\ q * Unit <= x * k
  BY <1>1, <1>3, Division
<1> HIDE DEF q
<1>5. ASSUME x >= 0 PROVE q <= x
  <2>1. x * k <= x * Unit
    <3>1. k * x <= Unit * x
      BY <1>1, <1>2, <1>5, Monotone
    <3> QED BY <1>1, <1>2, <3>1
  <2>2. q * Unit <= x * Unit
    BY <1>1, <1>3, <1>4, <2>1
  <2> QED BY <1>1, <1>4, <2>2, Cancels
<1>6. Buffered(x) = q
  BY DEF Buffered, q, k
<1> QED BY <1>4, <1>5, <1>6

LEMMA ProfitIsNumber ==
  ASSUME NEW c \in Seq(Edges), NEW amount \in Int, NEW s, IsSnapshot(s)
  PROVE  Profit(c, amount, s) \in Int
<1>1. SimulateCycle(c, amount, s) \in Int
  BY OffersAreNumbers
<1>2. Buffered(SimulateCycle(c, amount, s)) \in Int
  BY <1>1, BufferedBounds
<1> QED BY <1>2 DEF Profit, Worst

(* No more than a size whose legs are all safe. *)
UnderCap(c, amount, s) == \E cap \in Nat : amount <= cap /\ Fits(c, cap, s, Ceiling)

(* What evaluate_cycle returns: no trade, or one of this profit. *)
Evaluated(c, e, s) ==
  /\ e.amount \in Nat \ {0}
  /\ e.gross = Profit(c, e.amount, s)
  /\ UnderCap(c, e.amount, s)

LEMMA TradeIsEvaluated ==
  ASSUME NEW c, NEW s, NEW gas, NEW amount \in Nat \ {0}, UnderCap(c, amount, s)
  PROVE  LET e == TradeOf(c, s, gas, amount) IN e = NoTrade \/ Evaluated(c, e, s)
BY DEF TradeOf, Evaluated

LEMMA SizeIsEvaluated ==
  ASSUME NEW c \in Seq(Edges), NEW s, IsSnapshot(s), NEW price \in Nat, NEW gas,
         NEW cap \in Nat, cap > 0 => Fits(c, cap, s, Ceiling)
  PROVE  LET e == WithinCap(c, s, price, gas, cap) IN e = NoTrade \/ Evaluated(c, e, s)
<1> DEFINE low == Larger(1, cap \div 10000)
           gain == [amount \in low..cap |-> Profit(c, amount, s)]
           best == OptimalSize(gain, low, cap, 60)
           target == Pushed(cap, best, Target(c[1].in, price))
           amount == IF target > best /\ Profit(c, target, s) - gas > 0 THEN target ELSE best
<1>1. WithinCap(c, s, price, gas, cap) =
        IF cap <= 0 THEN NoTrade ELSE TradeOf(c, s, gas, amount)
  BY DEF WithinCap, PushedUp
<1>2. CASE cap <= 0
  BY <1>1, <1>2
<1>3. CASE cap > 0
  <2>1. low \in Nat \ {0} /\ low <= cap
    BY <1>3 DEF Larger
  <2> HIDE DEF low
  <2>2. \A x \in low..cap : gain[x] \in Int
    BY <2>1, ProfitIsNumber
  <2> HIDE DEF gain
  <2>3. best \in low..cap
    BY <2>1, <2>2, OptimalSizeIsWithin
  <2> HIDE DEF best
  <2>4. Target(c[1].in, price) \in Nat
    <3>1. TargetLunc \in Nat /\ TargetUusd * Scale \in Nat
      BY SMTT(30), DecisionAssumption, CycleMathAssumption
    <3>2. price > 0 => (TargetUusd * Scale) \div price \in Nat
      BY <3>1, Division
    <3> QED BY <3>1, <3>2 DEF Target
  <2>5. target \in Nat \ {0} /\ target <= cap
    BY <1>3, <2>1, <2>3, <2>4 DEF Pushed, Larger, Smaller
  <2> HIDE DEF target
  <2>6. amount \in Nat \ {0} /\ amount <= cap
    BY <2>1, <2>3, <2>5
  <2> HIDE DEF amount
  <2>8. UnderCap(c, amount, s)
    BY <1>3, <2>6 DEF UnderCap
  <2>7. WithinCap(c, s, price, gas, cap) = TradeOf(c, s, gas, amount)
    BY <1>1, <1>3
  <2> QED BY <2>6, <2>7, <2>8, TradeIsEvaluated
<1> QED BY <1>2, <1>3

LEMMA CycleIsEvaluated ==
  ASSUME NEW c \in Seq(Edges), NEW s, IsSnapshot(s), NEW luncP, NEW b \in Nat, NEW price \in Nat
  PROVE  LET e == EvaluateCycle(c, s, luncP, b, price) IN e = NoTrade \/ Evaluated(c, e, s)
<1> DEFINE offer == MaxOffer(c, b, s)
           cap == SpreadCap(c, offer.ceiling, s, Ceiling)
           gas == FlatGas(c, luncP, price)
<1>1. cap \in Nat /\ (cap > 0 => Fits(c, cap, s, Ceiling))
  <2>1. offer.ceiling \in Nat
    BY OfferIsTyped DEF OfferType
  <2> HIDE DEF offer
  <2> QED BY <2>1, SpreadCapIsNumber, CapFits
<1> HIDE DEF cap, gas
<1>2. EvaluateCycle(c, s, luncP, b, price) = NoTrade
        \/ EvaluateCycle(c, s, luncP, b, price) = WithinCap(c, s, price, gas, cap)
  BY DEF EvaluateCycle, FromOffer, cap, gas
<1> QED BY <1>1, <1>2, SizeIsEvaluated

-----------------------------------------------------------------------------
(* What a list of messages does to the wallet and the pools *)

Snapshots ==
  {s \in [Pools -> UNION {[{Pair[p][1], Pair[p][2]} -> Nat] : p \in Pools}] : IsSnapshot(s)}

LEMMA SnapshotIsElement == ASSUME NEW s PROVE IsSnapshot(s) <=> s \in Snapshots
<1>1. ASSUME IsSnapshot(s) PROVE s \in Snapshots
  <2> DEFINE U == UNION {[{Pair[p][1], Pair[p][2]} -> Nat] : p \in Pools}
  <2>1. \A p \in Pools : s[p] \in U
    BY <1>1 DEF IsSnapshot
  <2>2. s = [p \in Pools |-> s[p]]
    BY <1>1 DEF IsSnapshot
  <2> HIDE DEF U
  <2>3. [p \in Pools |-> s[p]] \in [Pools -> U]
    BY <2>1
  <2>4. s \in [Pools -> U]
    BY <2>2, <2>3
  <2> QED BY <1>1, <2>4 DEF Snapshots, U
<1> QED BY <1>1 DEF Snapshots

LEMMA PoolAfterSwap ==
  ASSUME NEW s, IsSnapshot(s), NEW e \in Edges, NEW offer \in Nat,
         NEW paid \in Int, paid <= s[e.pool][e.out]
  PROVE  /\ IsSnapshot(Pays(s, e, offer, paid))
         /\ \A p \in Pools \ {e.pool} : Pays(s, e, offer, paid)[p] = s[p]
<1> DEFINE t == Pays(s, e, offer, paid)
           r == [s[e.pool] EXCEPT ![e.in] = @ + offer, ![e.out] = @ - paid]
<1>1. e.pool \in Pools /\ {e.in, e.out} = {Pair[e.pool][1], Pair[e.pool][2]} /\ e.in # e.out
  BY Hop
<1>2. s = [p \in Pools |-> s[p]] /\ s[e.pool] \in [{e.in, e.out} -> Nat]
  BY <1>1 DEF IsSnapshot
<1>3. s[e.pool][e.in] \in Nat /\ s[e.pool][e.out] \in Nat
  BY <1>2
<1>4. s[e.pool][e.in] + offer \in Nat /\ s[e.pool][e.out] - paid \in Nat
  BY <1>3
<1>5. r \in [{e.in, e.out} -> Nat]
  BY <1>1, <1>2, <1>4
<1>6. t = [s EXCEPT ![e.pool] = r]
  BY <1>1, <1>2 DEF Pays
<1> HIDE DEF r
<1>7. t = [p \in Pools |-> IF p = e.pool THEN r ELSE s[p]]
  BY <1>2, <1>6
<1>8. t = [p \in Pools |-> t[p]] /\ t[e.pool] = r /\ \A p \in Pools \ {e.pool} : t[p] = s[p]
  BY <1>1, <1>7
<1> HIDE DEF t
<1>9. \A p \in Pools : t[p] \in [{Pair[p][1], Pair[p][2]} -> Nat]
  BY <1>1, <1>5, <1>8 DEF IsSnapshot
<1> QED BY <1>8, <1>9 DEF IsSnapshot, t

IsMessage(m) == m.edge \in Edges /\ m.offer \in Int

AreMessages(msgs) == Len(msgs) \in Nat /\ \A i \in 1..Len(msgs) : IsMessage(msgs[i])

Executed(r, m) ==
  LET paid == SwapAt(m.edge, m.offer, r.market).paid
  IN  [ok     |-> TRUE,
       wallet |-> [r.wallet EXCEPT ![m.edge.in]  = @ - m.offer,
                                   ![m.edge.out] = @ + Delivered(m.edge, paid)],
       market |-> Pays(r.market, m.edge, m.offer, paid)]

Executes(r, m) == r.ok /\ r.wallet[m.edge.in] >= m.offer /\ Accepts(m, r.market)

OutcomeStep(r, m) == IF Executes(r, m) THEN Executed(r, m) ELSE [r EXCEPT !.ok = FALSE]

IsOutcome(f, msgs, w, s) ==
  f = [i \in 0..Len(msgs) |->
         IF i = 0 THEN [ok |-> TRUE, wallet |-> w, market |-> s]
         ELSE LET r == f[i - 1]
                  m == msgs[i]
                  paid == SwapAt(m.edge, m.offer, r.market).paid
              IN  IF r.ok /\ r.wallet[m.edge.in] >= m.offer /\ Accepts(m, r.market)
                  THEN [ok     |-> TRUE,
                        wallet |-> [r.wallet EXCEPT
                                      ![m.edge.in]  = @ - m.offer,
                                      ![m.edge.out] = @ + Delivered(m.edge, paid)],
                        market |-> Pays(r.market, m.edge, m.offer, paid)]
                  ELSE [r EXCEPT !.ok = FALSE]]

Scratch == [ok : BOOLEAN, wallet : [Assets -> Nat], market : Snapshots]

LEMMA ExecutedStep ==
  ASSUME NEW r \in Scratch, NEW m, IsMessage(m), Executes(r, m)
  PROVE  LET paid == SwapAt(m.edge, m.offer, r.market).paid
             x == Executed(r, m)
         IN  /\ x \in Scratch
             /\ paid > 0 /\ m.offer > 0
             /\ x.wallet[m.edge.in] = r.wallet[m.edge.in] - m.offer
             /\ x.wallet[m.edge.out] = r.wallet[m.edge.out] + Delivered(m.edge, paid)
             /\ \A a \in Assets \ {m.edge.in, m.edge.out} : x.wallet[a] = r.wallet[a]
             /\ \A p \in Pools \ {m.edge.pool} : x.market[p] = r.market[p]
<1> DEFINE e == m.edge
           paid == SwapAt(e, m.offer, r.market).paid
           got == Delivered(e, paid)
           w == [r.wallet EXCEPT ![e.in] = @ - m.offer, ![e.out] = @ + got]
           x == Executed(r, m)
<1>1. /\ r.ok \in BOOLEAN /\ r.wallet \in [Assets -> Nat] /\ r.market \in Snapshots
      /\ IsSnapshot(r.market)
  BY SnapshotIsElement DEF Scratch
<1>2. e \in Edges /\ m.offer \in Int
  BY DEF IsMessage
<1>3. r.wallet[e.in] >= m.offer /\ Taxed(e, m.offer) > 0 /\ paid > 0
  BY DEF Executes, Accepts
<1>4. e.in \in Assets /\ e.out \in Assets /\ e.in # e.out
  BY <1>2, Hop
<1>5. paid \in Int /\ paid <= r.market[e.pool][e.out] /\ m.offer > 0
  BY <1>1, <1>2, <1>3, SwapAtBounds
<1>6. got \in Nat
  BY <1>2, <1>3, <1>5, DeliveredPay
<1>7. IsSnapshot(Pays(r.market, e, m.offer, paid))
      /\ \A p \in Pools \ {e.pool} : Pays(r.market, e, m.offer, paid)[p] = r.market[p]
  BY <1>1, <1>2, <1>5, PoolAfterSwap
<1>8. Executed(r, m) = [ok |-> TRUE, wallet |-> w, market |-> Pays(r.market, e, m.offer, paid)]
  BY DEF Executed
<1> HIDE DEF paid, got
<1>9. /\ w \in [Assets -> Nat]
      /\ w[e.in] = r.wallet[e.in] - m.offer
      /\ w[e.out] = r.wallet[e.out] + got
      /\ \A a \in Assets \ {e.in, e.out} : w[a] = r.wallet[a]
  <2>1. r.wallet[e.in] - m.offer \in Nat /\ r.wallet[e.out] + got \in Nat
    BY <1>1, <1>2, <1>3, <1>4, <1>6
  <2> HIDE DEF e
  <2> QED BY <1>1, <1>4, <2>1
<1> HIDE DEF w
<1>10. x \in Scratch
  BY <1>7, <1>8, <1>9, SnapshotIsElement DEF Scratch
<1>11. x.wallet = w /\ x.market = Pays(r.market, e, m.offer, paid)
  BY <1>8
<1> QED BY <1>3, <1>5, <1>7, <1>9, <1>10, <1>11 DEF paid, got

LEMMA OutcomeUnfolds ==
  ASSUME NEW msgs, AreMessages(msgs), NEW w \in [Assets -> Nat], NEW s, IsSnapshot(s)
  PROVE  \E f \in [0..Len(msgs) -> Scratch] :
           /\ f[0] = [ok |-> TRUE, wallet |-> w, market |-> s]
           /\ \A i \in 1..Len(msgs) : f[i] = OutcomeStep(f[i - 1], msgs[i])
           /\ Outcome(msgs, w, s) = f[Len(msgs)]
<1> DEFINE n == Len(msgs)
           base == [ok |-> TRUE, wallet |-> w, market |-> s]
           G == [u \in (1..n) \X Scratch |-> OutcomeStep(u[2], msgs[u[1]])]
<1>0. n \in Nat /\ \A i \in 1..n : IsMessage(msgs[i])
  BY DEF AreMessages
<1>1. base \in Scratch
  BY SnapshotIsElement DEF Scratch
<1>2. ASSUME NEW i \in 1..n, NEW r \in Scratch PROVE OutcomeStep(r, msgs[i]) \in Scratch
  <2>1. CASE Executes(r, msgs[i])
    BY <1>0, <2>1, ExecutedStep DEF OutcomeStep
  <2>2. CASE ~Executes(r, msgs[i])
    BY <2>2 DEF OutcomeStep, Scratch
  <2> QED BY <2>1, <2>2
<1>3. G \in [(1..n) \X Scratch -> Scratch]
  BY <1>2
<1>4. \A i \in 1..n, r \in Scratch : G[<<i, r>>] = OutcomeStep(r, msgs[i])
  OBVIOUS
<1> HIDE DEF G
<1>5. PICK f \in [0..n -> Scratch] : Iterates(f, n, base, G)
  <2> HIDE DEF base, n
  <2> QED BY <1>0, <1>1, <1>3, StepByStep
<1>6. \A i \in 0..n : i # 0 => i \in 1..n /\ f[i - 1] \in Scratch
  BY <1>0
<1>7. f = [i \in 0..n |-> IF i = 0 THEN base ELSE OutcomeStep(f[i - 1], msgs[i])]
  <2> HIDE DEF base
  <2> QED BY <1>4, <1>5, <1>6 DEF Iterates
<1>8. IsOutcome(f, msgs, w, s)
  BY <1>7, Zenon DEF IsOutcome, OutcomeStep, Executes, Executed
<1> DEFINE g == CHOOSE h : IsOutcome(h, msgs, w, s)
<1>9. IsOutcome(g, msgs, w, s)
  BY <1>8
<1>10. Outcome(msgs, w, s) = g[n]
  BY Zenon DEF Outcome, IsOutcome
<1> HIDE DEF g
<1>11. g = [i \in 0..n |-> IF i = 0 THEN base ELSE OutcomeStep(g[i - 1], msgs[i])]
  BY <1>9, Zenon DEF IsOutcome, OutcomeStep, Executes, Executed
<1>12. g[0] = base /\ \A i \in 1..n : g[i] = OutcomeStep(g[i - 1], msgs[i])
  <2> HIDE DEF base
  <2>1. 0 \in 0..n /\ \A i \in 1..n : i \in 0..n /\ i # 0
    BY <1>0
  <2> QED BY <1>11, <2>1
<1>13. \A i \in 0..n : g[i] \in Scratch
  <2>1. \A i \in 1..n : g[i - 1] \in Scratch => g[i] \in Scratch
    BY <1>2, <1>12
  <2>2. g[0] \in Scratch
    BY <1>1, <1>12
  <2> HIDE DEF n
  <2> QED BY <1>0, <2>1, <2>2, StaysIn
<1>14. g \in [0..n -> Scratch]
  BY <1>11, <1>13
<1> QED BY <1>10, <1>12, <1>14

(* A list of messages is accepted only if each message is. *)
LEMMA AllExecute ==
  ASSUME NEW msgs, AreMessages(msgs), NEW f \in [0..Len(msgs) -> Scratch],
         \A i \in 1..Len(msgs) : f[i] = OutcomeStep(f[i - 1], msgs[i]),
         f[Len(msgs)].ok
  PROVE  \A i \in 1..Len(msgs) : Executes(f[i - 1], msgs[i]) /\ f[i] = Executed(f[i - 1], msgs[i])
<1> DEFINE n == Len(msgs)
<1>0. n \in Nat
  BY DEF AreMessages
<1> SUFFICES ASSUME NEW k \in 1..n, ~Executes(f[k - 1], msgs[k]) PROVE FALSE
  BY DEF OutcomeStep
<1> DEFINE h == [j \in 0..(n - k) |-> IF f[k + j].ok THEN 1 ELSE 0]
<1>1. k + 0 = k /\ n - k \in Nat /\ k + (n - k) = n
  BY <1>0
<1>2. ASSUME NEW i \in 1..n, ~Executes(f[i - 1], msgs[i]) PROVE f[i].ok = FALSE
  <2>1. f[i - 1] \in Scratch
    BY <1>0
  <2>2. f[i] = [f[i - 1] EXCEPT !.ok = FALSE]
    BY <1>2 DEF OutcomeStep
  <2> QED BY <2>1, <2>2 DEF Scratch
<1>3. h[0] \in {0}
  <2>1. 0 \in 0..(n - k) /\ k + 0 = k
    BY <1>1
  <2>2. h[0] = IF f[k].ok THEN 1 ELSE 0
    BY <2>1
  <2>3. f[k].ok = FALSE
    BY <1>2
  <2> QED BY <2>2, <2>3
<1>4. ASSUME NEW j \in 1..(n - k), h[j - 1] \in {0} PROVE h[j] \in {0}
  <2>1. k + j \in 1..n /\ (k + j) - 1 = k + (j - 1) /\ j - 1 \in 0..(n - k) /\ j \in 0..(n - k)
    BY <1>0, <1>1
  <2>2. f[(k + j) - 1].ok = FALSE
    BY <1>4, <2>1
  <2>3. ~Executes(f[(k + j) - 1], msgs[k + j])
    BY <2>2 DEF Executes
  <2> QED BY <1>2, <2>1, <2>3
<1>5. \A j \in 0..(n - k) : h[j] \in {0}
  <2> DEFINE N == n - k
             Z == {0}
  <2>1. N \in Nat /\ h[0] \in Z /\ \A j \in 1..N : h[j - 1] \in Z => h[j] \in Z
    BY <1>1, <1>3, <1>4
  <2> HIDE DEF h, N, Z
  <2>2. \A j \in 0..N : h[j] \in Z
    BY <2>1, StaysIn
  <2> QED BY <2>2 DEF N, Z
<1>6. f[n].ok = FALSE
  <2>1. n - k \in 0..(n - k)
    BY <1>1
  <2>2. h[n - k] = IF f[n].ok THEN 1 ELSE 0
    BY <1>1, <2>1
  <2>3. h[n - k] = 0
    <3> HIDE DEF h
    <3> QED BY <1>5, <2>1
  <2>4. f[n].ok \in BOOLEAN
    BY <1>0 DEF Scratch
  <2> QED BY <2>2, <2>3, <2>4
<1> QED BY <1>6

-----------------------------------------------------------------------------
(* Lists of messages through the pools of a cycle *)

Limits == [min : Nat, belief : Nat, spread : Nat]
Messages == [edge : Edges, offer : Nat \ {0}, params : Limits]

(* The messages follow hops of the cycle, in whatever order. *)
OnCycle(msgs, c) ==
  msgs \in Seq(Messages) /\ \A i \in 1..Len(msgs) : \E k \in 1..Len(c) : msgs[i].edge = c[k]

SamePools(c, s, t) == \A i \in 1..Len(c) : s[c[i].pool] = t[c[i].pool]

PoolStep(r, m) == Pays(r, m.edge, m.offer, SwapAt(m.edge, m.offer, r).paid)

(* The message was computed against these pools, and found safe. *)
IsPriced(m, r) ==
  LET in  == r[m.edge.pool][m.edge.in]
      out == r[m.edge.pool][m.edge.out]
  IN  /\ LegIsSafe(m.edge, m.offer, in, out, Ceiling)
      /\ m.params = LegParams(m.edge, m.offer, in, out)

(* The pools as the messages leave them, one after the other. *)
Trail(g, msgs, s) ==
  /\ g \in [0..Len(msgs) -> Snapshots]
  /\ g[0] = s
  /\ \A i \in 1..Len(msgs) : g[i] = PoolStep(g[i - 1], msgs[i])

(* The wallet and the pools as the chain finds them on the way. *)
Run(f, msgs, w, s) ==
  /\ f \in [0..Len(msgs) -> Scratch]
  /\ f[0] = [ok |-> TRUE, wallet |-> w, market |-> s]
  /\ \A i \in 1..Len(msgs) : f[i] = OutcomeStep(f[i - 1], msgs[i])

LEMMA MessageIsMessage ==
  ASSUME NEW m \in Messages
  PROVE  /\ IsMessage(m) /\ m.edge \in Edges /\ m.offer \in Nat \ {0} /\ m.offer \in Nat
         /\ m.offer \in Int /\ m.edge.pool \in Pools
BY Hop DEF Messages, IsMessage

LEMMA SeqOfMessages ==
  ASSUME NEW msgs \in Seq(Messages)
  PROVE  /\ AreMessages(msgs) /\ Len(msgs) \in Nat /\ DOMAIN msgs = 1..Len(msgs)
         /\ \A i \in 1..Len(msgs) : msgs[i] \in Messages /\ IsMessage(msgs[i])
<1>1. Len(msgs) \in Nat /\ DOMAIN msgs = 1..Len(msgs) /\ \A i \in 1..Len(msgs) : msgs[i] \in Messages
  OBVIOUS
<1> QED BY <1>1, MessageIsMessage DEF AreMessages

LEMMA PoolPays ==
  ASSUME NEW s, IsSnapshot(s), NEW e \in Edges, NEW offer, NEW paid
  PROVE  /\ Pays(s, e, offer, paid)[e.pool] = [s[e.pool] EXCEPT ![e.in] = @ + offer, ![e.out] = @ - paid]
         /\ Pays(s, e, offer, paid)[e.pool][e.in] = s[e.pool][e.in] + offer
         /\ Pays(s, e, offer, paid)[e.pool][e.out] = s[e.pool][e.out] - paid
<1>1. e.pool \in Pools /\ {e.in, e.out} = {Pair[e.pool][1], Pair[e.pool][2]} /\ e.in # e.out
  BY Hop
<1>2. s = [p \in Pools |-> s[p]] /\ s[e.pool] \in [{e.in, e.out} -> Nat]
  BY <1>1 DEF IsSnapshot
<1> DEFINE r == [s[e.pool] EXCEPT ![e.in] = @ + offer, ![e.out] = @ - paid]
<1>3. Pays(s, e, offer, paid)[e.pool] = r
  BY <1>1, <1>2 DEF Pays
<1>4. r[e.in] = s[e.pool][e.in] + offer /\ r[e.out] = s[e.pool][e.out] - paid
  BY <1>1, <1>2
<1> QED BY <1>3, <1>4

LEMMA StepStays ==
  ASSUME NEW r \in Snapshots, NEW m \in Messages
  PROVE  /\ PoolStep(r, m) \in Snapshots /\ IsSnapshot(PoolStep(r, m))
         /\ \A p \in Pools \ {m.edge.pool} : PoolStep(r, m)[p] = r[p]
<1> DEFINE paid == SwapAt(m.edge, m.offer, r).paid
<1>1. IsSnapshot(r) /\ m.edge \in Edges /\ m.offer \in Nat /\ m.offer \in Int
  BY SnapshotIsElement, MessageIsMessage
<1>2. paid \in Int /\ paid <= r[m.edge.pool][m.edge.out]
  BY <1>1, SwapAtBounds
<1>3. PoolStep(r, m) = Pays(r, m.edge, m.offer, paid)
  BY DEF PoolStep
<1> HIDE DEF paid
<1>4. /\ IsSnapshot(Pays(r, m.edge, m.offer, paid))
      /\ \A p \in Pools \ {m.edge.pool} : Pays(r, m.edge, m.offer, paid)[p] = r[p]
  BY <1>1, <1>2, PoolAfterSwap
<1> QED BY <1>3, <1>4, SnapshotIsElement

(* What a message does, and is worth, depends on its own pool only. *)
LEMMA OwnPoolOnly ==
  ASSUME NEW m, NEW r, NEW q, r[m.edge.pool] = q[m.edge.pool]
  PROVE  /\ SwapAt(m.edge, m.offer, r) = SwapAt(m.edge, m.offer, q)
         /\ Accepts(m, r) <=> Accepts(m, q)
         /\ IsPriced(m, r) <=> IsPriced(m, q)
BY DEF SwapAt, Accepts, IsPriced

LEMMA SameStep ==
  ASSUME NEW c \in Seq(Edges), NEW r \in Snapshots, NEW q \in Snapshots, SamePools(c, r, q),
         NEW m \in Messages, NEW k \in 1..Len(c), m.edge = c[k]
  PROVE  /\ SamePools(c, PoolStep(r, m), PoolStep(q, m))
         /\ SwapAt(m.edge, m.offer, r) = SwapAt(m.edge, m.offer, q)
         /\ Accepts(m, r) <=> Accepts(m, q)
         /\ IsPriced(m, r) <=> IsPriced(m, q)
<1> DEFINE e == m.edge
           paid == SwapAt(e, m.offer, r).paid
<1>1. IsSnapshot(r) /\ IsSnapshot(q) /\ e \in Edges /\ \A i \in 1..Len(c) : c[i].pool \in Pools
  BY SnapshotIsElement, MessageIsMessage, Legs, Hop
<1>2. r[e.pool] = q[e.pool]
  BY DEF SamePools
<1>3. /\ SwapAt(m.edge, m.offer, r) = SwapAt(m.edge, m.offer, q)
      /\ Accepts(m, r) <=> Accepts(m, q)
      /\ IsPriced(m, r) <=> IsPriced(m, q)
  BY <1>2, OwnPoolOnly
<1>4. PoolStep(r, m) = Pays(r, e, m.offer, paid) /\ PoolStep(q, m) = Pays(q, e, m.offer, paid)
  BY <1>3 DEF PoolStep
<1> HIDE DEF paid
<1> DEFINE after(s) == [s[e.pool] EXCEPT ![e.in] = @ + m.offer, ![e.out] = @ - paid]
<1>5. PoolStep(r, m)[e.pool] = PoolStep(q, m)[e.pool]
  <2> HIDE DEF e
  <2>1. PoolStep(r, m)[e.pool] = after(r)
    BY <1>1, <1>4, PoolPays
  <2>2. PoolStep(q, m)[e.pool] = after(q)
    BY <1>1, <1>4, PoolPays
  <2>3. after(r) = after(q)
    BY <1>2
  <2> QED BY <2>1, <2>2, <2>3
<1>6. ASSUME NEW i \in 1..Len(c) PROVE PoolStep(r, m)[c[i].pool] = PoolStep(q, m)[c[i].pool]
  <2>1. CASE c[i].pool = e.pool
    BY <1>5, <2>1
  <2>2. CASE c[i].pool # e.pool
    <3>1. c[i].pool \in Pools \ {m.edge.pool} /\ r[c[i].pool] = q[c[i].pool]
      BY <1>1, <2>2 DEF SamePools
    <3> QED BY <3>1, StepStays
  <2> QED BY <2>1, <2>2
<1>7. SamePools(c, PoolStep(r, m), PoolStep(q, m))
  BY <1>6 DEF SamePools
<1> QED BY <1>3, <1>7

LEMMA SamePoolsIsEquivalence ==
  /\ \A c, r : SamePools(c, r, r)
  /\ \A c, r, q : SamePools(c, r, q) => SamePools(c, q, r)
  /\ \A c, r, q, s : SamePools(c, r, q) /\ SamePools(c, q, s) => SamePools(c, r, s)
BY DEF SamePools

(* There is one trail and one run from every start. *)
LEMMA TrailExists ==
  ASSUME NEW msgs \in Seq(Messages), NEW s \in Snapshots
  PROVE  \E g : Trail(g, msgs, s)
<1> DEFINE n == Len(msgs)
           G == [u \in (1..n) \X Snapshots |-> PoolStep(u[2], msgs[u[1]])]
<1>1. n \in Nat /\ \A i \in 1..n : msgs[i] \in Messages
  OBVIOUS
<1>2. \A i \in 1..n, r \in Snapshots : PoolStep(r, msgs[i]) \in Snapshots
  BY <1>1, StepStays
<1>3. G \in [(1..n) \X Snapshots -> Snapshots]
  BY <1>2
<1>4. \A i \in 1..n, r \in Snapshots : G[<<i, r>>] = PoolStep(r, msgs[i])
  OBVIOUS
<1> HIDE DEF G
<1>5. PICK f \in [0..n -> Snapshots] : Iterates(f, n, s, G)
  <2> HIDE DEF n
  <2> QED BY <1>1, <1>3, StepByStep
<1>6. f[0] = s /\ \A i \in 1..n : f[i] = PoolStep(f[i - 1], msgs[i])
  <2>1. 0 \in 0..n /\ \A i \in 1..n : i \in 0..n /\ i # 0 /\ i - 1 \in 0..n /\ f[i - 1] \in Snapshots
    BY <1>1
  <2> QED BY <1>4, <1>5, <2>1 DEF Iterates
<1> QED BY <1>6 DEF Trail

LEMMA RunExists ==
  ASSUME NEW msgs \in Seq(Messages), NEW w \in [Assets -> Nat], NEW s \in Snapshots
  PROVE  \E f : Run(f, msgs, w, s) /\ Outcome(msgs, w, s) = f[Len(msgs)]
<1>1. AreMessages(msgs) /\ IsSnapshot(s)
  BY SeqOfMessages, SnapshotIsElement
<1> QED BY <1>1, OutcomeUnfolds DEF Run

LEMMA ExecutedMarket == \A r, m : Executed(r, m).market = PoolStep(r.market, m)
BY Zenon DEF Executed, PoolStep

(* A run that succeeds moves the pools along their trail. *)
EachExecutes(f, msgs) ==
  \A i \in 1..Len(msgs) : Executes(f[i - 1], msgs[i]) /\ f[i] = Executed(f[i - 1], msgs[i])

MarketsOf(f, msgs) == [i \in 0..Len(msgs) |-> f[i].market]

LEMMA RunIsTrail ==
  ASSUME NEW msgs \in Seq(Messages), NEW w, NEW s, NEW f, Run(f, msgs, w, s), f[Len(msgs)].ok
  PROVE  Trail(MarketsOf(f, msgs), msgs, s) /\ EachExecutes(f, msgs)
<1> DEFINE n == Len(msgs)
           g == MarketsOf(f, msgs)
<1>1. n \in Nat /\ AreMessages(msgs)
  BY SeqOfMessages
<1>2. /\ f \in [0..n -> Scratch] /\ f[0] = [ok |-> TRUE, wallet |-> w, market |-> s]
      /\ \A i \in 1..n : f[i] = OutcomeStep(f[i - 1], msgs[i])
  BY DEF Run
<1>3. \A i \in 1..n : Executes(f[i - 1], msgs[i]) /\ f[i] = Executed(f[i - 1], msgs[i])
  BY <1>1, <1>2, AllExecute
<1>4. g \in [0..n -> Snapshots]
  BY <1>2 DEF Scratch, MarketsOf
<1>5. g[0] = s
  BY <1>1, <1>2 DEF MarketsOf
<1>6. ASSUME NEW i \in 1..n PROVE g[i] = PoolStep(g[i - 1], msgs[i])
  <2>1. i \in 0..n /\ i - 1 \in 0..n
    BY <1>1
  <2>2. g[i] = f[i].market /\ g[i - 1] = f[i - 1].market
    BY <2>1 DEF MarketsOf
  <2>3. f[i].market = PoolStep(f[i - 1].market, msgs[i])
    BY <1>3, ExecutedMarket
  <2> QED BY <2>2, <2>3
<1> HIDE DEF g
<1>7. Trail(g, msgs, s)
  BY <1>4, <1>5, <1>6 DEF Trail
<1> QED BY <1>3, <1>7 DEF g, EachExecutes

(* What the wallet gains, asset by asset. *)
Gains == [Assets -> Int]
Nothing == [a \in Assets |-> 0]
Sum(x, y) == [a \in Assets |-> x[a] + y[a]]
AtLeast(x, y) == \A a \in Assets : x[a] >= y[a]

Gain(m, r) ==
  [a \in Assets |-> (IF a = m.edge.in THEN -m.offer ELSE 0)
                      + (IF a = m.edge.out THEN Received(m.edge, m.offer, r) ELSE 0)]

Tally(d, g, msgs) ==
  /\ d \in [0..Len(msgs) -> Gains]
  /\ d[0] = Nothing
  /\ \A i \in 1..Len(msgs) : d[i] = Sum(d[i - 1], Gain(msgs[i], g[i - 1]))

AllPriced(g, msgs) == \A i \in 1..Len(msgs) : IsPriced(msgs[i], g[i - 1])

(* The messages lead from one state of the pools to the other, each with   *)
(* the limits of its own turn, and bring home at least this much.          *)
Carry(msgs, c, s, t, x) ==
  /\ OnCycle(msgs, c)
  /\ x \in Gains
  /\ \E g, d : /\ Trail(g, msgs, s) /\ g[Len(msgs)] = t
               /\ AllPriced(g, msgs)
               /\ Tally(d, g, msgs) /\ AtLeast(d[Len(msgs)], x)

LEMMA SumOfGains ==
  /\ Nothing \in Gains
  /\ \A x, y \in Gains : Sum(x, y) \in Gains
  /\ \A x \in Gains : Sum(x, Nothing) = x
  /\ \A x, y, z \in Gains : Sum(Sum(x, y), z) = Sum(x, Sum(y, z))
BY DEF Gains, Nothing, Sum

LEMMA GainIsTyped ==
  ASSUME NEW m \in Messages, NEW r \in Snapshots
  PROVE  Gain(m, r) \in Gains
<1>1. m.edge \in Edges /\ m.offer \in Int /\ IsSnapshot(r)
  BY MessageIsMessage, SnapshotIsElement
<1>2. Received(m.edge, m.offer, r) \in Int
  BY <1>1, ReceivedPay
<1> QED BY <1>1, <1>2 DEF Gain, Gains

LEMMA NothingCarries ==
  ASSUME NEW c, NEW s \in Snapshots
  PROVE  Carry(<<>>, c, s, s, Nothing)
<1> DEFINE g == [i \in 0..0 |-> s]
           d == [i \in 0..0 |-> Nothing]
<1>1. <<>> \in Seq(Messages) /\ Len(<<>>) = 0 /\ 1..0 = {}
  OBVIOUS
<1>2. Nothing \in Gains /\ AtLeast(Nothing, Nothing)
  <2>1. \A a \in Assets : Nothing[a] = 0
    BY DEF Nothing
  <2> QED BY <2>1, SumOfGains DEF AtLeast
<1>3. OnCycle(<<>>, c)
  BY <1>1 DEF OnCycle
<1>4. Trail(g, <<>>, s) /\ g[0] = s
  BY <1>1 DEF Trail
<1>5. Tally(d, g, <<>>) /\ d[0] = Nothing
  BY <1>1, <1>2 DEF Tally
<1>6. AllPriced(g, <<>>)
  BY <1>1 DEF AllPriced
<1> HIDE DEF g, d
<1> QED BY <1>1, <1>2, <1>3, <1>4, <1>5, <1>6 DEF Carry

LEMMA LessIsCarried ==
  ASSUME NEW msgs, NEW c, NEW s, NEW t, NEW x, Carry(msgs, c, s, t, x),
         NEW y \in Gains, AtLeast(x, y)
  PROVE  Carry(msgs, c, s, t, y)
<1>1. msgs \in Seq(Messages) /\ x \in Gains
  BY DEF Carry, OnCycle
<1>2. \A d \in [0..Len(msgs) -> Gains] : AtLeast(d[Len(msgs)], x) => AtLeast(d[Len(msgs)], y)
  <2> TAKE d \in [0..Len(msgs) -> Gains]
  <2>1. d[Len(msgs)] \in Gains
    BY <1>1
  <2> DEFINE z == d[Len(msgs)]
  <2> HIDE DEF z
  <2>2. z \in Gains /\ AtLeast(z, x) => AtLeast(z, y)
    <3>1. \A a \in Assets : x[a] \in Int /\ y[a] \in Int /\ x[a] >= y[a] /\ (z \in Gains => z[a] \in Int)
      BY <1>1 DEF Gains, AtLeast
    <3> QED BY <3>1 DEF AtLeast
  <2> QED BY <2>1, <2>2 DEF z
<1> QED BY <1>2 DEF Carry, Tally

(* One list after the other. *)
JoinedPools(x, y, g, h) ==
  [i \in 0..(Len(x) + Len(y)) |-> IF i <= Len(x) THEN g[i] ELSE h[i - Len(x)]]

JoinedGains(x, y, d, k) ==
  [i \in 0..(Len(x) + Len(y)) |-> IF i <= Len(x) THEN d[i] ELSE Sum(d[Len(x)], k[i - Len(x)])]

LEMMA TrailsJoin ==
  ASSUME NEW x \in Seq(Messages), NEW y \in Seq(Messages), NEW s, NEW g, NEW h,
         Trail(g, x, s), Trail(h, y, g[Len(x)]), AllPriced(g, x), AllPriced(h, y)
  PROVE  Trail(JoinedPools(x, y, g, h), x \o y, s) /\ AllPriced(JoinedPools(x, y, g, h), x \o y)
<1> DEFINE n == Len(x)
           m == Len(y)
           z == x \o y
           j == [i \in 0..(n + m) |-> IF i <= n THEN g[i] ELSE h[i - n]]
<1>1. /\ n \in Nat /\ m \in Nat /\ Len(z) = n + m
      /\ \A i \in 1..n : z[i] = x[i]
      /\ \A i \in 1..m : z[n + i] = y[i]
  OBVIOUS
<1>2. /\ g \in [0..n -> Snapshots] /\ g[0] = s
      /\ \A i \in 1..n : g[i] = PoolStep(g[i - 1], x[i]) /\ IsPriced(x[i], g[i - 1])
  BY DEF Trail, AllPriced
<1>3. /\ h \in [0..m -> Snapshots] /\ h[0] = g[n]
      /\ \A i \in 1..m : h[i] = PoolStep(h[i - 1], y[i]) /\ IsPriced(y[i], h[i - 1])
  BY DEF Trail, AllPriced
<1> HIDE DEF n, m, z
<1>4. /\ j \in [0..(n + m) -> Snapshots] /\ j[0] = s
      /\ \A i \in 0..n : j[i] = g[i]
      /\ \A i \in 0..m : j[n + i] = h[i]
  <2>1. \A i \in 0..(n + m) : (i <= n => i \in 0..n) /\ (~(i <= n) => i - n \in 0..m)
    BY <1>1
  <2>2. \A i \in 0..n : i \in 0..(n + m) /\ i <= n
    BY <1>1
  <2>3. \A i \in 0..m : n + i \in 0..(n + m) /\ (n + i <= n => i = 0) /\ (n + i) - n = i /\ n + 0 = n
    BY <1>1
  <2> QED BY <1>1, <1>2, <1>3, <2>1, <2>2, <2>3
<1> HIDE DEF j
<1>5. ASSUME NEW i \in 1..(n + m) PROVE j[i] = PoolStep(j[i - 1], z[i]) /\ IsPriced(z[i], j[i - 1])
  <2>1. CASE i <= n
    <3>1. i \in 1..n /\ i \in 0..n /\ i - 1 \in 0..n
      BY <1>1, <2>1
    <3> QED BY <1>1, <1>2, <1>4, <3>1
  <2>2. CASE ~(i <= n)
    <3> DEFINE k == i - n
    <3>1. k \in 1..m /\ k \in 0..m /\ k - 1 \in 0..m /\ n + k = i /\ n + (k - 1) = i - 1
      BY <1>1, <2>2
    <3> HIDE DEF k
    <3>2. z[i] = y[k] /\ j[i] = h[k] /\ j[i - 1] = h[k - 1]
      BY <1>1, <1>4, <3>1
    <3> QED BY <1>3, <3>1, <3>2
  <2> QED BY <2>1, <2>2
<1>6. Trail(j, z, s) /\ AllPriced(j, z)
  BY <1>1, <1>4, <1>5 DEF Trail, AllPriced
<1> QED BY <1>6 DEF j, n, m, z, JoinedPools

LEMMA TalliesJoin ==
  ASSUME NEW x \in Seq(Messages), NEW y \in Seq(Messages), NEW g,
         NEW h \in [0..Len(y) -> Snapshots], h[0] = g[Len(x)],
         NEW d, NEW k, Tally(d, g, x), Tally(k, h, y)
  PROVE  /\ Tally(JoinedGains(x, y, d, k), JoinedPools(x, y, g, h), x \o y)
         /\ JoinedGains(x, y, d, k)[Len(x \o y)] = Sum(d[Len(x)], k[Len(y)])
<1> DEFINE n == Len(x)
           m == Len(y)
           z == x \o y
           j == [i \in 0..(n + m) |-> IF i <= n THEN g[i] ELSE h[i - n]]
           w == [i \in 0..(n + m) |-> IF i <= n THEN d[i] ELSE Sum(d[n], k[i - n])]
<1>1. /\ n \in Nat /\ m \in Nat /\ Len(z) = n + m
      /\ \A i \in 1..n : z[i] = x[i]
      /\ \A i \in 1..m : z[n + i] = y[i]
  OBVIOUS
<1>2. /\ d \in [0..n -> Gains] /\ d[0] = Nothing
      /\ \A i \in 1..n : d[i] = Sum(d[i - 1], Gain(x[i], g[i - 1]))
  BY DEF Tally
<1>3. /\ k \in [0..m -> Gains] /\ k[0] = Nothing
      /\ \A i \in 1..m : k[i] = Sum(k[i - 1], Gain(y[i], h[i - 1]))
  BY DEF Tally
<1>4. \A i \in 1..m : y[i] \in Messages
  OBVIOUS
<1>5. h[0] = g[n]
  OBVIOUS
<1>6. h \in [0..m -> Snapshots]
  OBVIOUS
<1> HIDE DEF n, m, z
<1>7. d[n] \in Gains /\ \A i \in 0..m : k[i] \in Gains
  BY <1>1, <1>2, <1>3
<1>8. /\ \A i \in 0..n : j[i] = g[i]
      /\ \A i \in 0..m : j[n + i] = h[i]
      /\ \A i \in 0..n : w[i] = d[i]
      /\ \A i \in 0..m : w[n + i] = Sum(d[n], k[i])
      /\ w \in [0..(n + m) -> Gains]
  <2>1. \A i \in 0..(n + m) : (i <= n => i \in 0..n) /\ (~(i <= n) => i - n \in 0..m)
    BY <1>1
  <2>2. \A i \in 0..n : i \in 0..(n + m) /\ i <= n
    BY <1>1
  <2>3. \A i \in 0..m : n + i \in 0..(n + m) /\ (n + i <= n => i = 0) /\ (n + i) - n = i /\ n + 0 = n
    BY <1>1
  <2>4. d[n] = Sum(d[n], k[0])
    BY <1>3, <1>7, SumOfGains
  <2>5. \A i \in 0..m : Sum(d[n], k[i]) \in Gains
    BY <1>7, SumOfGains
  <2> QED BY <1>1, <1>2, <1>5, <2>1, <2>2, <2>3, <2>4, <2>5
<1> HIDE DEF j, w
<1>9. ASSUME NEW i \in 1..(n + m) PROVE w[i] = Sum(w[i - 1], Gain(z[i], j[i - 1]))
  <2>1. CASE i <= n
    <3>1. i \in 1..n /\ i \in 0..n /\ i - 1 \in 0..n
      BY <1>1, <2>1
    <3> QED BY <1>1, <1>2, <1>8, <3>1
  <2>2. CASE ~(i <= n)
    <3> DEFINE q == i - n
    <3>1. q \in 1..m /\ q \in 0..m /\ q - 1 \in 0..m /\ n + q = i /\ n + (q - 1) = i - 1
      BY SMTT(30), <1>1, <2>2
    <3> HIDE DEF q
    <3>2. /\ z[i] = y[q] /\ j[i - 1] = h[q - 1]
          /\ w[i] = Sum(d[n], k[q]) /\ w[i - 1] = Sum(d[n], k[q - 1])
      BY <1>1, <1>8, <3>1
    <3> DEFINE more == Gain(y[q], h[q - 1])
    <3>3. k[q] = Sum(k[q - 1], more)
      BY <1>3, <3>1
    <3>4. more \in Gains
      BY <1>4, <1>6, <3>1, GainIsTyped
    <3>5. k[q - 1] \in Gains
      BY <1>7, <3>1
    <3> HIDE DEF more
    <3>6. Sum(d[n], Sum(k[q - 1], more)) = Sum(Sum(d[n], k[q - 1]), more)
      BY ZenonT(60), <1>7, <3>4, <3>5, SumOfGains
    <3> QED BY <3>2, <3>3, <3>6 DEF more
  <2> QED BY <2>1, <2>2
<1>10. Tally(w, j, z)
  <2>1. w[0] = Nothing
    BY <1>1, <1>2, <1>8
  <2> QED BY <1>1, <1>8, <1>9, <2>1 DEF Tally
<1>11. w[Len(z)] = Sum(d[n], k[m])
  BY SMTT(30), <1>1, <1>8
<1> QED BY <1>10, <1>11 DEF j, w, n, m, z, JoinedPools, JoinedGains

LEMMA ListsJoin ==
  ASSUME NEW x, NEW y, NEW c, NEW s, NEW t, NEW v, NEW p, NEW q,
         Carry(x, c, s, t, p), Carry(y, c, t, v, q)
  PROVE  Carry(x \o y, c, s, v, Sum(p, q))
<1>1. x \in Seq(Messages) /\ y \in Seq(Messages) /\ p \in Gains /\ q \in Gains
  BY DEF Carry, OnCycle
<1>2. PICK g, d : /\ Trail(g, x, s) /\ g[Len(x)] = t /\ AllPriced(g, x)
                  /\ Tally(d, g, x) /\ AtLeast(d[Len(x)], p)
  BY DEF Carry
<1>3. PICK h, k : /\ Trail(h, y, t) /\ h[Len(y)] = v /\ AllPriced(h, y)
                  /\ Tally(k, h, y) /\ AtLeast(k[Len(y)], q)
  BY DEF Carry
<1>4. h \in [0..Len(y) -> Snapshots] /\ h[0] = g[Len(x)]
  BY <1>2, <1>3 DEF Trail
<1> DEFINE n == Len(x)
           m == Len(y)
           z == x \o y
           j == JoinedPools(x, y, g, h)
           w == JoinedGains(x, y, d, k)
<1>5. Trail(j, z, s) /\ AllPriced(j, z)
  BY <1>1, <1>2, <1>3, TrailsJoin
<1>6. Tally(w, j, z) /\ w[Len(z)] = Sum(d[n], k[m])
  BY SMTT(30), <1>1, <1>2, <1>3, <1>4, TalliesJoin
<1>7. j[Len(z)] = v
  <2>1. n \in Nat /\ m \in Nat /\ Len(z) = n + m
    BY <1>1
  <2> HIDE DEF z
  <2>2. n + m \in 0..(n + m) /\ (n + m) - n = m /\ (n + m <= n => m = 0 /\ n + m = n)
    BY <2>1
  <2> QED BY <1>2, <1>3, <1>4, <2>1, <2>2 DEF JoinedPools
<1>8. OnCycle(z, c)
  <2>1. /\ n \in Nat /\ m \in Nat /\ Len(z) = n + m /\ z \in Seq(Messages)
        /\ \A i \in 1..n : z[i] = x[i]
        /\ \A i \in 1..m : z[n + i] = y[i]
    BY <1>1
  <2>2. ASSUME NEW i \in 1..Len(z) PROVE \E e \in 1..Len(c) : z[i].edge = c[e]
    <3>1. CASE i <= n
      <4>1. i \in 1..n
        BY <2>1, <3>1
      <4> QED BY <2>1, <4>1 DEF Carry, OnCycle
    <3>2. CASE ~(i <= n)
      <4>1. i - n \in 1..m /\ n + (i - n) = i
        BY <2>1, <3>2
      <4>2. z[i] = y[i - n]
        BY <2>1, <4>1
      <4> QED BY <4>1, <4>2 DEF Carry, OnCycle
    <3> QED BY <3>1, <3>2
  <2> QED BY <2>1, <2>2 DEF OnCycle
<1>9. d[n] \in Gains /\ k[m] \in Gains
  <2>1. /\ d \in [0..n -> Gains] /\ k \in [0..m -> Gains]
        /\ n \in Nat /\ m \in Nat
    BY <1>1, <1>2, <1>3 DEF Tally
  <2> QED BY <2>1
<1> HIDE DEF j, w, z, n, m
<1>10. Sum(p, q) \in Gains /\ AtLeast(w[Len(z)], Sum(p, q))
  <2> DEFINE a1 == d[n]
             a2 == k[m]
  <2>1. a1 \in Gains /\ a2 \in Gains /\ AtLeast(a1, p) /\ AtLeast(a2, q)
    BY <1>2, <1>3, <1>9 DEF n, m
  <2>2. w[Len(z)] = Sum(a1, a2)
    BY <1>6
  <2> HIDE DEF a1, a2
  <2>3. AtLeast(Sum(a1, a2), Sum(p, q))
    BY <1>1, <2>1 DEF Gains, AtLeast, Sum
  <2> QED BY <1>1, <2>2, <2>3, SumOfGains
<1>11. Carry(z, c, s, v, Sum(p, q))
  BY <1>5, <1>6, <1>7, <1>8, <1>10 DEF Carry
<1> QED BY <1>11 DEF z


(* Where a list was worked out on pools like these, it earns what was      *)
(* worked out, message by message.                                         *)
InStep(f, g, d, c, w, i) ==
  /\ SamePools(c, f[i].market, g[i])
  /\ \A a \in Assets : f[i].wallet[a] = w[a] + d[i][a]

LEMMA StepInStep ==
  ASSUME NEW c \in Seq(Edges), NEW m \in Messages, NEW k \in 1..Len(c), m.edge = c[k],
         NEW r \in Scratch, NEW q \in Snapshots, SamePools(c, r.market, q), Executes(r, m)
  PROVE  /\ SamePools(c, Executed(r, m).market, PoolStep(q, m))
         /\ \A a \in Assets : Executed(r, m).wallet[a] = r.wallet[a] + Gain(m, q)[a]
<1>1. r.market \in Snapshots /\ IsSnapshot(r.market) /\ r.wallet \in [Assets -> Nat]
  BY SnapshotIsElement DEF Scratch
<1>2. IsMessage(m) /\ m.edge \in Edges /\ m.offer \in Int
  BY MessageIsMessage
<1>3. /\ SamePools(c, PoolStep(r.market, m), PoolStep(q, m))
      /\ SwapAt(m.edge, m.offer, r.market) = SwapAt(m.edge, m.offer, q)
  BY <1>1, SameStep
<1>4. IsSnapshot(q) /\ Received(m.edge, m.offer, q) \in Int
      /\ Received(m.edge, m.offer, q) = Delivered(m.edge, SwapAt(m.edge, m.offer, q).paid)
  BY <1>2, ReceivedPay, SnapshotIsElement
<1> DEFINE x == Executed(r, m)
           paid == SwapAt(m.edge, m.offer, r.market).paid
<1>5. /\ x.wallet[m.edge.in] = r.wallet[m.edge.in] - m.offer
      /\ x.wallet[m.edge.out] = r.wallet[m.edge.out] + Delivered(m.edge, paid)
      /\ \A a \in Assets \ {m.edge.in, m.edge.out} : x.wallet[a] = r.wallet[a]
  BY <1>2, ExecutedStep
<1>6. Delivered(m.edge, paid) = Received(m.edge, m.offer, q)
  BY <1>3, <1>4
<1> HIDE DEF x, paid
<1>7. m.edge.in # m.edge.out /\ m.edge.in \in Assets /\ m.edge.out \in Assets
  BY <1>2, Hop
<1>8. ASSUME NEW a \in Assets PROVE x.wallet[a] = r.wallet[a] + Gain(m, q)[a]
  <2>1. Gain(m, q)[a] = (IF a = m.edge.in THEN -m.offer ELSE 0)
                          + (IF a = m.edge.out THEN Received(m.edge, m.offer, q) ELSE 0)
    BY DEF Gain
  <2>2. r.wallet[a] \in Int
    BY <1>1
  <2> DEFINE y == x.wallet[a]
             z == Received(m.edge, m.offer, q)
  <2>3. z \in Int
    BY <1>4
  <2>4. CASE a = m.edge.in
    <3>1. y = r.wallet[a] - m.offer
      BY <1>5, <2>4
    <3>2. Gain(m, q)[a] = -m.offer + 0
      BY <1>7, <2>1, <2>4
    <3> HIDE DEF y
    <3> QED BY <1>2, <2>2, <3>1, <3>2 DEF y
  <2>5. CASE a = m.edge.out
    <3>1. y = r.wallet[a] + z
      BY <1>5, <1>6, <2>5
    <3>2. Gain(m, q)[a] = 0 + z
      BY <1>7, <2>1, <2>5
    <3> HIDE DEF y, z
    <3> QED BY <2>2, <2>3, <3>1, <3>2 DEF y
  <2>6. CASE a \notin {m.edge.in, m.edge.out}
    <3>1. y = r.wallet[a]
      BY <1>5, <2>6
    <3>2. Gain(m, q)[a] = 0 + 0
      BY <2>1, <2>6
    <3> HIDE DEF y
    <3> QED BY <2>2, <3>1, <3>2 DEF y
  <2> QED BY <2>4, <2>5, <2>6
<1> QED BY <1>3, <1>8, ExecutedMarket DEF x

LEMMA RunInStep ==
  ASSUME NEW c \in Seq(Edges), NEW msgs, OnCycle(msgs, c), NEW s, NEW g, Trail(g, msgs, s),
         NEW d, Tally(d, g, msgs), NEW w \in [Assets -> Nat], NEW u, SamePools(c, u, s),
         NEW f, Run(f, msgs, w, u), f[Len(msgs)].ok
  PROVE  \A i \in 0..Len(msgs) : InStep(f, g, d, c, w, i)
<1> DEFINE n == Len(msgs)
           D == {i \in 0..n : InStep(f, g, d, c, w, i)}
<1>1. n \in Nat /\ msgs \in Seq(Messages) /\ \A i \in 1..n : msgs[i] \in Messages
  BY DEF OnCycle
<1>2. \A i \in 1..n : \E k \in 1..Len(c) : msgs[i].edge = c[k]
  BY DEF OnCycle
<1>3. \A i \in 1..n : Executes(f[i - 1], msgs[i]) /\ f[i] = Executed(f[i - 1], msgs[i])
  BY <1>1, RunIsTrail DEF EachExecutes
<1>4. /\ f \in [0..n -> Scratch] /\ f[0] = [ok |-> TRUE, wallet |-> w, market |-> u]
      /\ g \in [0..n -> Snapshots] /\ g[0] = s
      /\ \A i \in 1..n : g[i] = PoolStep(g[i - 1], msgs[i])
      /\ d \in [0..n -> Gains] /\ d[0] = Nothing
      /\ \A i \in 1..n : d[i] = Sum(d[i - 1], Gain(msgs[i], g[i - 1]))
  BY DEF Run, Trail, Tally
<1>5. 0 \in D
  <2>1. f[0].market = u /\ f[0].wallet = w /\ 0 \in 0..n
    BY <1>1, <1>4
  <2>2. \A a \in Assets : d[0][a] = 0 /\ w[a] \in Int
    BY <1>4 DEF Nothing
  <2> QED BY <1>4, <2>1, <2>2 DEF InStep
<1>6. ASSUME NEW i \in 1..n, i - 1 \in D PROVE i \in D
  <2>1. i \in 0..n /\ i - 1 \in 0..n /\ InStep(f, g, d, c, w, i - 1)
    BY <1>1, <1>6
  <2> DEFINE r == f[i - 1]
             q == g[i - 1]
             m == msgs[i]
  <2>2. /\ r \in Scratch /\ q \in Snapshots /\ m \in Messages /\ Executes(r, m)
        /\ f[i] = Executed(r, m) /\ g[i] = PoolStep(q, m)
        /\ d[i - 1] \in Gains /\ d[i] = Sum(d[i - 1], Gain(m, q))
    BY <1>1, <1>3, <1>4, <2>1
  <2>3. /\ SamePools(c, r.market, q)
        /\ \A a \in Assets : r.wallet[a] = w[a] + d[i - 1][a]
    BY <2>1 DEF InStep
  <2>4. PICK k \in 1..Len(c) : m.edge = c[k]
    BY <1>2
  <2> HIDE DEF r, q, m
  <2>5. /\ SamePools(c, Executed(r, m).market, PoolStep(q, m))
        /\ \A a \in Assets : Executed(r, m).wallet[a] = r.wallet[a] + Gain(m, q)[a]
    BY <2>2, <2>3, <2>4, StepInStep
  <2>6. ASSUME NEW a \in Assets PROVE f[i].wallet[a] = w[a] + d[i][a]
    <3>1. Gain(m, q) \in Gains
      BY <2>2, GainIsTyped
    <3>2. w[a] \in Int /\ d[i - 1][a] \in Int /\ Gain(m, q)[a] \in Int
          /\ d[i][a] = d[i - 1][a] + Gain(m, q)[a]
      BY <2>2, <3>1 DEF Gains, Sum
    <3> QED BY <2>2, <2>3, <2>5, <3>2
  <2> QED BY <2>1, <2>2, <2>5, <2>6 DEF InStep
<1>7. \A i \in 0..n : i \in D
  <2> HIDE DEF D, n
  <2> QED BY <1>1, <1>5, <1>6, UpTo
<1> QED BY <1>7

LEMMA CarriedHome ==
  ASSUME NEW c \in Seq(Edges), NEW msgs, NEW s, NEW t, NEW x, Carry(msgs, c, s, t, x),
         NEW w \in [Assets -> Nat], NEW u \in Snapshots, SamePools(c, u, s),
         Outcome(msgs, w, u).ok
  PROVE  \A a \in Assets : Outcome(msgs, w, u).wallet[a] >= w[a] + x[a]
<1>1. OnCycle(msgs, c) /\ msgs \in Seq(Messages) /\ x \in Gains
  BY DEF Carry, OnCycle
<1>2. PICK g, d : Trail(g, msgs, s) /\ Tally(d, g, msgs) /\ AtLeast(d[Len(msgs)], x)
  BY DEF Carry
<1>3. PICK f : Run(f, msgs, w, u) /\ Outcome(msgs, w, u) = f[Len(msgs)]
  BY <1>1, RunExists
<1>4. f[Len(msgs)].ok /\ Len(msgs) \in Nat
  BY <1>1, <1>3
<1> DEFINE n == Len(msgs)
<1>5. \A i \in 0..n : InStep(f, g, d, c, w, i)
  BY <1>1, <1>2, <1>3, <1>4, RunInStep
<1>6. d[n] \in Gains
  BY <1>2, <1>4 DEF Tally
<1>7. \A a \in Assets : f[n].wallet[a] = w[a] + d[n][a]
  BY <1>4, <1>5 DEF InStep
<1> HIDE DEF n
<1>8. ASSUME NEW a \in Assets PROVE f[n].wallet[a] >= w[a] + x[a]
  <2>1. w[a] \in Int /\ x[a] \in Int /\ d[n][a] \in Int /\ d[n][a] >= x[a]
    BY <1>1, <1>2, <1>6 DEF Gains, AtLeast, n
  <2> QED BY <1>7, <2>1
<1> QED BY <1>3, <1>8 DEF n

(* Whether a list is executed depends on the pools it goes through only. *)
Alike(f, h, c, i) ==
  f[i].ok = h[i].ok /\ f[i].wallet = h[i].wallet /\ SamePools(c, f[i].market, h[i].market)

LEMMA StepAlike ==
  ASSUME NEW c \in Seq(Edges), NEW m \in Messages, NEW k \in 1..Len(c), m.edge = c[k],
         NEW r \in Scratch, NEW q \in Scratch,
         r.ok = q.ok, r.wallet = q.wallet, SamePools(c, r.market, q.market)
  PROVE  LET x == OutcomeStep(r, m)
             y == OutcomeStep(q, m)
         IN  x.ok = y.ok /\ x.wallet = y.wallet /\ SamePools(c, x.market, y.market)
<1>1. r.market \in Snapshots /\ q.market \in Snapshots
  BY DEF Scratch
<1>2. /\ SamePools(c, PoolStep(r.market, m), PoolStep(q.market, m))
      /\ SwapAt(m.edge, m.offer, r.market) = SwapAt(m.edge, m.offer, q.market)
      /\ Accepts(m, r.market) <=> Accepts(m, q.market)
  BY <1>1, SameStep
<1>3. Executes(r, m) <=> Executes(q, m)
  BY <1>2 DEF Executes
<1>4. CASE Executes(r, m)
  <2>1. OutcomeStep(r, m) = Executed(r, m) /\ OutcomeStep(q, m) = Executed(q, m)
    BY <1>3, <1>4 DEF OutcomeStep
  <2>2. Executed(r, m).ok = Executed(q, m).ok /\ Executed(r, m).wallet = Executed(q, m).wallet
    BY <1>2 DEF Executed
  <2> QED BY <1>2, <2>1, <2>2, ExecutedMarket
<1>5. CASE ~Executes(r, m)
  <2>1. OutcomeStep(r, m) = [r EXCEPT !.ok = FALSE] /\ OutcomeStep(q, m) = [q EXCEPT !.ok = FALSE]
    BY <1>3, <1>5 DEF OutcomeStep
  <2>2. /\ r = [ok |-> r.ok, wallet |-> r.wallet, market |-> r.market]
        /\ q = [ok |-> q.ok, wallet |-> q.wallet, market |-> q.market]
    BY DEF Scratch
  <2> QED BY <2>1, <2>2
<1> QED BY <1>4, <1>5

LEMMA SameOutcome ==
  ASSUME NEW c \in Seq(Edges), NEW msgs, OnCycle(msgs, c), NEW w \in [Assets -> Nat],
         NEW u \in Snapshots, NEW v \in Snapshots, SamePools(c, u, v)
  PROVE  Outcome(msgs, w, u).ok <=> Outcome(msgs, w, v).ok
<1> DEFINE n == Len(msgs)
<1>1. n \in Nat /\ msgs \in Seq(Messages) /\ \A i \in 1..n : msgs[i] \in Messages
  BY DEF OnCycle
<1>2. \A i \in 1..n : \E k \in 1..Len(c) : msgs[i].edge = c[k]
  BY DEF OnCycle
<1>3. PICK f : Run(f, msgs, w, u) /\ Outcome(msgs, w, u) = f[Len(msgs)]
  BY <1>1, RunExists
<1>4. PICK h : Run(h, msgs, w, v) /\ Outcome(msgs, w, v) = h[Len(msgs)]
  BY <1>1, RunExists
<1>5. /\ f \in [0..n -> Scratch] /\ f[0] = [ok |-> TRUE, wallet |-> w, market |-> u]
      /\ \A i \in 1..n : f[i] = OutcomeStep(f[i - 1], msgs[i])
      /\ h \in [0..n -> Scratch] /\ h[0] = [ok |-> TRUE, wallet |-> w, market |-> v]
      /\ \A i \in 1..n : h[i] = OutcomeStep(h[i - 1], msgs[i])
  BY <1>3, <1>4 DEF Run
<1> DEFINE D == {i \in 0..n : Alike(f, h, c, i)}
<1>6. 0 \in D
  <2>1. Alike(f, h, c, 0)
    BY <1>5 DEF Alike
  <2> QED BY <1>1, <2>1
<1>7. ASSUME NEW i \in 1..n, i - 1 \in D PROVE i \in D
  <2>1. i \in 0..n /\ i - 1 \in 0..n /\ Alike(f, h, c, i - 1)
    BY <1>1, <1>7
  <2> DEFINE r == f[i - 1]
             q == h[i - 1]
             m == msgs[i]
  <2>2. /\ r \in Scratch /\ q \in Scratch /\ m \in Messages
        /\ f[i] = OutcomeStep(r, m) /\ h[i] = OutcomeStep(q, m)
        /\ r.ok = q.ok /\ r.wallet = q.wallet /\ SamePools(c, r.market, q.market)
    BY <1>1, <1>5, <2>1 DEF Alike
  <2>3. PICK k \in 1..Len(c) : m.edge = c[k]
    BY <1>2
  <2> HIDE DEF r, q, m
  <2>4. Alike(f, h, c, i)
    BY <2>2, <2>3, StepAlike DEF Alike
  <2> QED BY <2>1, <2>4
<1>8. \A i \in 0..n : i \in D
  <2> HIDE DEF D, n
  <2> QED BY <1>1, <1>6, <1>7, UpTo
<1>9. n \in 0..n
  BY <1>1
<1> QED BY <1>3, <1>4, <1>8, <1>9 DEF Alike

-----------------------------------------------------------------------------
(* Safe legs and the messages made of them *)

LEMMA CeilCovers ==
  ASSUME NEW a \in Nat, NEW d \in Nat \ {0}
  PROVE  CeilDiv(a, d) \in Nat /\ a <= CeilDiv(a, d) * d /\ CeilDiv(a, d) * d <= a + d - 1
<1> DEFINE q == CeilDiv(a, d)
<1>1. q \in Int /\ a <= q * d /\ q * d <= a + d - 1
  BY RoundedUp
<1> HIDE DEF q
<1>2. 0 * d <= q * d
  BY <1>1
<1>3. 0 <= q
  BY <1>1, <1>2, Cancels
<1> QED BY <1>1, <1>3 DEF q

(* A leg below a ceiling of less than the whole is paid something.         *)
LEMMA SafeLegPays ==
  ASSUME NEW e \in Edges, NEW x \in Int, NEW s, IsSnapshot(s),
         LegIsSafe(e, x, s[e.pool][e.in], s[e.pool][e.out], Ceiling)
  PROVE  /\ Taxed(e, x) \in Nat \ {0}
         /\ s[e.pool][e.in] \in Nat \ {0} /\ s[e.pool][e.out] \in Nat \ {0}
         /\ SwapAt(e, x, s).paid \in Nat \ {0}
         /\ SwapAt(e, x, s).paid * s[e.pool][e.in] <= Taxed(e, x) * s[e.pool][e.out]
<1> DEFINE I == s[e.pool][e.in]
           O == s[e.pool][e.out]
           o == Taxed(e, x)
           p == SwapAt(e, x, s).paid
<1>1. I > 0 /\ O > 0 /\ o > 0 /\ ~SpreadTooWide(o, I, O, p, Ceiling)
  BY DEF LegIsSafe, SwapAt
<1>2. I \in Nat /\ O \in Nat /\ o \in Int /\ p \in Int /\ p * I <= o * O
  BY <1>1, Reserves, TaxedOffer, SwapAtBounds
<1>3. TolBps \in Nat /\ Ceiling \in Nat /\ Ceiling + 1 <= Unit /\ Unit \in Nat \ {0}
  BY SMTT(30), CycleMathAssumption, DecisionAssumption, UnitAssumption
<1> HIDE DEF I, O, o, p
<1>4. ASSUME p <= 0 PROVE FALSE
  <2> DEFINE W == o * O
  <2>1. W \in Nat \ {0} /\ p * I \in Int
    BY <1>1, <1>2
  <2>2. p * I <= 0
    <3>1. p * I <= 0 * I
      BY <1>1, <1>2, <1>4, Monotone
    <3> QED BY <1>2, <3>1
  <2>3. Larger(0, o * O - p * I) \in Nat /\ W <= Larger(0, o * O - p * I)
    BY <1>1, <1>2, <2>1, <2>2 DEF Larger
  <2>4. Larger(0, o * O - p * I) * Unit + TolBps * o * O <= Ceiling * o * O
    <3>1. Larger(0, o * O - p * I) * Unit \in Int /\ TolBps * o * O \in Int /\ Ceiling * o * O \in Int
      BY <1>2, <1>3, <2>3
    <3> QED BY <1>1, <3>1 DEF SpreadTooWide
  <2>5. W * Unit <= Larger(0, o * O - p * I) * Unit
    BY <1>3, <2>1, <2>3, Monotone
  <2>6. (Ceiling + 1) * W <= Unit * W
    BY <1>3, <2>1, Monotone
  <2>7. /\ TolBps * o * O = TolBps * W /\ TolBps * W \in Nat
        /\ Ceiling * o * O = Ceiling * W /\ Ceiling * W \in Nat
        /\ (Ceiling + 1) * W = Ceiling * W + W /\ Unit * W = W * Unit /\ W * Unit \in Nat
        /\ Larger(0, o * O - p * I) * Unit \in Nat
    BY <1>2, <1>3, <2>1, <2>3
  <2> HIDE DEF W
  <2> QED BY <2>1, <2>4, <2>5, <2>6, <2>7
<1> QED BY <1>1, <1>2, <1>4 DEF I, O, o, p

LEMMA MessageFields ==
  \A e, x, params : /\ Message(e, x, params).edge = e
                   /\ Message(e, x, params).offer = x
                   /\ Message(e, x, params).params = params
BY DEF Message

LEMMA LegsAreSafe ==
  ASSUME NEW c \in Seq(Edges), NEW offers \in [DOMAIN c -> Int], NEW s, NEW limit,
         ExecutionParams(c, offers, s, limit) # NoParams,
         NEW i \in DOMAIN c, offers[i] > 0
  PROVE  /\ LegIsSafe(c[i], offers[i], s[c[i].pool][c[i].in], s[c[i].pool][c[i].out], limit)
         /\ ExecutionParams(c, offers, s, limit)[i]
              = LegParams(c[i], offers[i], s[c[i].pool][c[i].in], s[c[i].pool][c[i].out])
<1>1. ~(offers[i] <= 0)
  OBVIOUS
<1> QED BY <1>1 DEF ExecutionParams

LEMMA LimitsAreNumbers ==
  ASSUME NEW e \in Edges, NEW o \in Nat \ {0}, NEW I \in Nat \ {0}, NEW O \in Nat \ {0},
         NEW p \in Nat \ {0}
  PROVE  ParamsOf(e.pool, o, I, O, p) \in Limits
<1>1. Unit \in Nat \ {0} /\ TolBps \in 0..Unit /\ Places \in Nat \ {0}
  BY CycleMathAssumption, UnitAssumption
<1>2. MinReceive(p) \in Nat
  <2> DEFINE y == p * (Unit - TolBps)
  <2>1. y \in Int
    BY <1>1
  <2> HIDE DEF y
  <2>2. Truncated(y, Unit) \in Int
    BY <1>1, <2>1, Truncation
  <2> QED BY <2>2 DEF MinReceive, y, Larger
<1>3. Belief(I, O) \in Nat
  <2> DEFINE y == 2 * I * Places + O
             d == 2 * O
  <2>1. y \in Int /\ y >= 0 /\ d \in Nat \ {0}
    BY <1>1
  <2> HIDE DEF y, d
  <2>2. y \div d \in Nat
    BY <2>1, Division
  <2> QED BY <2>2 DEF Belief, y, d
<1>4. MaxSpread(o, I, O, p) \in Nat
  <2> DEFINE y == Larger(0, o * O - p * I) * Places
             d == o * O
             z == TolBps * Places
  <2>1. y \in Nat /\ d \in Nat \ {0} /\ z \in Nat
    <3>1. o * O - p * I \in Int
      OBVIOUS
    <3>2. Larger(0, o * O - p * I) \in Nat
      BY <3>1 DEF Larger
    <3> QED BY <1>1, <3>2
  <2> HIDE DEF y, d, z
  <2>2. CeilDiv(y, d) \in Nat /\ CeilDiv(z, Unit) \in Nat
    BY <1>1, <2>1, CeilCovers
  <2>3. MaxSpread(o, I, O, p) = CeilDiv(y, d) + CeilDiv(z, Unit)
    BY DEF MaxSpread, y, d, z
  <2> QED BY <2>2, <2>3
<1> QED BY <1>2, <1>3, <1>4 DEF ParamsOf, Limits

LEMMA SafeMessage ==
  ASSUME NEW e \in Edges, NEW x \in Nat \ {0}, NEW s \in Snapshots,
         LegIsSafe(e, x, s[e.pool][e.in], s[e.pool][e.out], Ceiling),
         NEW params, params = LegParams(e, x, s[e.pool][e.in], s[e.pool][e.out])
  PROVE  Message(e, x, params) \in Messages /\ IsPriced(Message(e, x, params), s)
<1> DEFINE I == s[e.pool][e.in]
           O == s[e.pool][e.out]
           o == Taxed(e, x)
           p == SwapAt(e, x, s).paid
<1>1. IsSnapshot(s) /\ x \in Int
  BY SnapshotIsElement
<1>2. o \in Nat \ {0} /\ I \in Nat \ {0} /\ O \in Nat \ {0} /\ p \in Nat \ {0}
  BY <1>1, SafeLegPays
<1>3. params = ParamsOf(e.pool, o, I, O, p)
  BY DEF LegParams, SwapAt
<1> HIDE DEF I, O, o, p
<1>4. params \in Limits
  BY <1>2, <1>3, LimitsAreNumbers
<1>5. Message(e, x, params) \in Messages
  BY <1>4 DEF Message, Messages
<1> DEFINE m == Message(e, x, params)
<1>6. m.edge = e /\ m.offer = x /\ m.params = params
  BY MessageFields
<1> HIDE DEF m
<1>7. IsPriced(m, s)
  BY <1>6 DEF IsPriced
<1> QED BY <1>5, <1>7 DEF m

-----------------------------------------------------------------------------
(* One trip *)

(* The list follows the cycle, hop by hop. *)
Follows(msgs, c, offers, params) ==
  /\ AreMessages(msgs) /\ Len(msgs) = Len(c) /\ DOMAIN msgs = 1..Len(c)
  /\ \A i \in 1..Len(c) : /\ msgs[i] = Message(c[i], offers[i], params[i])
                          /\ msgs[i].edge = c[i] /\ msgs[i].offer = offers[i]

LEMMA CycleMsgsFollow ==
  ASSUME NEW c \in Seq(Edges), NEW offers \in [DOMAIN c -> Int], NEW params
  PROVE  Follows(CycleMsgs(c, offers, params), c, offers, params)
<1> DEFINE msgs == CycleMsgs(c, offers, params)
<1>1. Len(c) \in Nat /\ DOMAIN c = 1..Len(c) /\ \A i \in 1..Len(c) : c[i] \in Edges
  BY Legs
<1>2. msgs = [i \in 1..Len(c) |-> Message(c[i], offers[i], params[i])]
  BY <1>1 DEF CycleMsgs
<1> HIDE DEF msgs
<1>3. /\ Len(msgs) = Len(c) /\ DOMAIN msgs = 1..Len(c)
      /\ \A i \in 1..Len(c) : msgs[i] = Message(c[i], offers[i], params[i])
  BY <1>1, <1>2
<1>4. \A i \in 1..Len(c) : msgs[i].edge = c[i] /\ msgs[i].offer = offers[i]
  BY <1>3, MessageFields
<1>5. \A i \in 1..Len(c) : offers[i] \in Int
  BY <1>1
<1>6. \A i \in 1..Len(c) : IsMessage(msgs[i])
  BY <1>1, <1>4, <1>5 DEF IsMessage
<1> QED BY <1>1, <1>3, <1>4, <1>6 DEF AreMessages, msgs, Follows

(* Where a round stands after i hops. *)
At(c, i) == IF i = 0 THEN c[1].in ELSE c[i].out

LEMMA FollowingHops ==
  ASSUME NEW c, IsCycle(c)
  PROVE  /\ \A i \in 1..Len(c) : At(c, i - 1) = c[i].in /\ At(c, i) = c[i].out
         /\ At(c, Len(c)) = c[1].in /\ At(c, 0) = c[1].in
<1>1. c \in Seq(Edges) /\ Len(c) \in Nat /\ Len(c) >= 2 /\ DOMAIN c = 1..Len(c)
  BY Legs DEF IsCycle
<1>2. \A i \in 2..Len(c) : c[i].in = c[i - 1].out
  BY DEF IsCycle
<1>3. c[Len(c)].out = c[1].in
  BY DEF IsCycle
<1>4. ASSUME NEW i \in 1..Len(c) PROVE At(c, i - 1) = c[i].in
  <2>1. CASE i = 1
    BY <2>1 DEF At
  <2>2. CASE i # 1
    <3>1. i \in 2..Len(c) /\ i - 1 # 0
      BY <1>1, <2>2
    <3> QED BY <1>2, <3>1 DEF At
  <2> QED BY <2>1, <2>2
<1>5. \A i \in 1..Len(c) : i # 0
  OBVIOUS
<1> QED BY <1>1, <1>3, <1>4, <1>5 DEF At

(* The profit a candidate is sized for is at most what the round adds.     *)
LEMMA GrossIsCarried ==
  ASSUME NEW c, IsCycle(c), NEW start \in Nat \ {0}, NEW s, IsSnapshot(s),
         Flow(c, start, s)[Len(c)] >= 0
  PROVE  Profit(c, start, s) <= Flow(c, start, s)[Len(c)] - start
         /\ Profit(c, start, s) \in Int /\ Flow(c, start, s)[Len(c)] \in Int
<1>1. c \in Seq(Edges) /\ SimulateCycle(c, start, s) = Flow(c, start, s)[Len(c)]
  BY DEF IsCycle, SimulateCycle
<1>2. SimulateCycle(c, start, s) \in Int
  BY <1>1, OffersAreNumbers
<1>3. Buffered(SimulateCycle(c, start, s)) <= SimulateCycle(c, start, s)
      /\ Buffered(SimulateCycle(c, start, s)) \in Int
  BY <1>1, <1>2, BufferedBounds
<1>4. Profit(c, start, s) = Buffered(SimulateCycle(c, start, s)) - start
  BY DEF Profit
<1> QED BY <1>1, <1>2, <1>3, <1>4

StartGain(c, x) == [a \in Assets |-> IF a = c[1].in THEN x ELSE 0]

(* No pool comes twice in a cycle, so each message meets its pool as it    *)
(* was before the first.                                                   *)
Untouched(g, c, s, i) == \A k \in 1..Len(c) : k > i => g[i][c[k].pool] = s[c[k].pool]

MeetsOwnPools(g, c, s) == \A k \in 1..Len(c) : g[k - 1][c[k].pool] = s[c[k].pool]

LEMMA OwnPoolIsUntouched ==
  ASSUME NEW c, IsCycle(c), NEW msgs \in Seq(Messages), Len(msgs) = Len(c),
         \A i \in 1..Len(c) : msgs[i].edge = c[i], NEW s, NEW g, Trail(g, msgs, s)
  PROVE  MeetsOwnPools(g, c, s)
<1> DEFINE n == Len(c)
           D == {i \in 0..n : Untouched(g, c, s, i)}
<1>1. /\ c \in Seq(Edges) /\ n \in Nat /\ DOMAIN c = 1..n
      /\ \A i, j \in 1..n : i # j => c[i].pool # c[j].pool
  BY Legs DEF IsCycle
<1>2. \A i \in 1..n : c[i] \in Edges /\ c[i].pool \in Pools /\ msgs[i] \in Messages
  BY <1>1, Legs, Hop
<1>3. /\ g \in [0..n -> Snapshots] /\ g[0] = s
      /\ \A i \in 1..n : g[i] = PoolStep(g[i - 1], msgs[i])
  BY DEF Trail
<1>4. \A i \in 1..n : msgs[i].edge = c[i]
  OBVIOUS
<1> HIDE DEF n
<1>5. 0 \in D
  BY <1>1, <1>3 DEF Untouched, n
<1>6. ASSUME NEW i \in 1..n, i - 1 \in D PROVE i \in D
  <2>1. i \in 0..n /\ i - 1 \in 0..n /\ Untouched(g, c, s, i - 1)
    BY <1>1, <1>6
  <2>2. \A p \in Pools \ {c[i].pool} : g[i][p] = g[i - 1][p]
    <3> DEFINE r == g[i - 1]
               m == msgs[i]
    <3>1. r \in Snapshots /\ m \in Messages /\ g[i] = PoolStep(r, m) /\ m.edge.pool = c[i].pool
      BY <1>2, <1>3, <1>4, <2>1
    <3> HIDE DEF r, m
    <3>2. \A p \in Pools \ {m.edge.pool} : PoolStep(r, m)[p] = r[p]
      BY <3>1, StepStays
    <3> QED BY <3>1, <3>2 DEF r
  <2>3. ASSUME NEW k \in 1..n, k > i PROVE g[i][c[k].pool] = s[c[k].pool]
    <3>1. c[k].pool \in Pools \ {c[i].pool} /\ k > i - 1
      BY <1>1, <1>2, <2>3
    <3>2. g[i - 1][c[k].pool] = s[c[k].pool]
      BY <2>1, <3>1 DEF Untouched, n
    <3> QED BY <2>2, <3>1, <3>2
  <2> QED BY <2>1, <2>3 DEF Untouched, n
<1>7. \A i \in 0..n : i \in D
  <2> HIDE DEF D
  <2> QED BY <1>1, <1>5, <1>6, UpTo
<1>8. ASSUME NEW k \in 1..n PROVE g[k - 1][c[k].pool] = s[c[k].pool]
  <2>1. k - 1 \in 0..n /\ k > k - 1
    BY <1>1
  <2>2. Untouched(g, c, s, k - 1)
    BY SMTT(30), <1>7, <2>1
  <2> QED BY <2>1, <2>2 DEF Untouched, n
<1> QED BY <1>8 DEF n, MeetsOwnPools

(* What apply_cycle_trade_to_states leaves is what the messages leave. *)
LEMMA AfterSwapIsPays ==
  ASSUME NEW s, IsSnapshot(s), NEW e \in Edges, NEW x \in Nat
  PROVE  /\ AfterSwap(s, e, x) = Pays(s, e, x, SwapAt(e, x, s).paid)
         /\ IsSnapshot(AfterSwap(s, e, x))
<1> DEFINE p == SwapAt(e, x, s).paid
           O == s[e.pool][e.out]
<1>1. e.pool \in Pools /\ e.in # e.out /\ x \in Int
  BY Hop
<1>2. p \in Int /\ p <= O /\ O \in Nat
  BY <1>1, SwapAtBounds, Reserves
<1>3. IsSnapshot(Pays(s, e, x, p))
  BY <1>2, PoolAfterSwap
<1> HIDE DEF p
<1>4. Larger(0, O - p) = O - p
  BY <1>2 DEF Larger
<1>5. s = [b \in Pools |-> s[b]] /\ s[e.pool] \in [{e.in, e.out} -> Nat]
  BY <1>1, Hop DEF IsSnapshot
<1> DEFINE q == [s[e.pool] EXCEPT ![e.in] = @ + x, ![e.out] = @ - p]
           z == [s[e.pool] EXCEPT ![e.in] = @ + x, ![e.out] = Larger(0, @ - p)]
           new(y) == [b \in Pools |-> IF b = e.pool THEN y ELSE s[b]]
<1>6. Pays(s, e, x, p) = new(q)
  BY <1>1, <1>5 DEF Pays
<1>7. AfterSwap(s, e, x) = new(z)
  BY <1>1, <1>5 DEF AfterSwap, p
<1>8. q = z
  BY <1>1, <1>4, <1>5
<1> QED BY <1>3, <1>6, <1>7, <1>8 DEF p

ApplyStep(c, r, i) ==
  IF r.amount <= 0 THEN [r EXCEPT !.amount = 0]
  ELSE [amount |-> Received(c[i], r.amount, r.states),
        states |-> AfterSwap(r.states, c[i], r.amount)]

IsApplying(f, c, start, s) ==
  f = [i \in 0..Len(c) |->
         IF i = 0 THEN [amount |-> start, states |-> s]
         ELSE LET r == f[i - 1]
              IN  IF r.amount <= 0 THEN [r EXCEPT !.amount = 0]
                  ELSE [amount |-> Received(c[i], r.amount, r.states),
                        states |-> AfterSwap(r.states, c[i], r.amount)]]

Applied == [amount : Int, states : Snapshots]

Applies(f, c, start, s) ==
  /\ f \in [0..Len(c) -> Applied]
  /\ f[0] = [amount |-> start, states |-> s]
  /\ \A i \in 1..Len(c) : f[i] = ApplyStep(c, f[i - 1], i)

LEMMA ApplyUnfolds ==
  ASSUME NEW c \in Seq(Edges), NEW start \in Int, NEW s \in Snapshots
  PROVE  \E f : Applies(f, c, start, s) /\ ApplyTrade(c, start, s) = f[Len(c)].states
<1> DEFINE n == Len(c)
           base == [amount |-> start, states |-> s]
           Step(r, i) == ApplyStep(c, r, i)
           G == [u \in (1..n) \X Applied |-> Step(u[2], u[1])]
           g == CHOOSE h : IsApplying(h, c, start, s)
<1>1. n \in Nat /\ (\A i \in 1..n : c[i] \in Edges) /\ base \in Applied
  BY Legs DEF Applied
<1>2. ASSUME NEW i \in 1..n, NEW r \in Applied PROVE Step(r, i) \in Applied
  <2>1. c[i] \in Edges /\ r.amount \in Int /\ r.states \in Snapshots /\ IsSnapshot(r.states)
    BY <1>1, SnapshotIsElement DEF Applied
  <2>2. CASE r.amount <= 0
    BY <2>2 DEF ApplyStep, Applied
  <2>3. CASE ~(r.amount <= 0)
    <3>1. r.amount \in Nat
      BY <2>1, <2>3
    <3>2. Received(c[i], r.amount, r.states) \in Int
      BY <2>1, ReceivedPay
    <3>3. AfterSwap(r.states, c[i], r.amount) \in Snapshots
      BY <2>1, <3>1, AfterSwapIsPays, SnapshotIsElement
    <3> QED BY <2>3, <3>2, <3>3 DEF ApplyStep, Applied
  <2> QED BY <2>2, <2>3
<1> HIDE DEF Step
<1>3. G \in [(1..n) \X Applied -> Applied]
  BY <1>2
<1>4. \A i \in 1..n, r \in Applied : G[<<i, r>>] = Step(r, i)
  OBVIOUS
<1> HIDE DEF G, base
<1>5. PICK f \in [0..n -> Applied] : Iterates(f, n, base, G)
  <2> HIDE DEF n
  <2> QED BY <1>1, <1>3, StepByStep
<1>6. \A i \in 0..n : i # 0 => i \in 1..n /\ f[i - 1] \in Applied
  BY <1>1
<1>7. f = [i \in 0..n |-> IF i = 0 THEN base ELSE Step(f[i - 1], i)]
  BY <1>4, <1>5, <1>6 DEF Iterates
<1>8. \A h : IsApplying(h, c, start, s)
              <=> h = [i \in 0..n |-> IF i = 0 THEN base ELSE Step(h[i - 1], i)]
  BY Zenon DEF IsApplying, ApplyStep, Step, base
<1>9. IsApplying(f, c, start, s)
  BY <1>7, <1>8
<1>10. ApplyTrade(c, start, s) = g[n].states
  BY Zenon DEF ApplyTrade, IsApplying
<1>11. IsApplying(g, c, start, s)
  BY <1>9
<1> HIDE DEF g
<1>12. g = [i \in 0..n |-> IF i = 0 THEN base ELSE Step(g[i - 1], i)]
  BY <1>8, <1>11
<1>13. g[0] = base /\ \A i \in 1..n : g[i] = Step(g[i - 1], i)
  <2>1. 0 \in 0..n /\ \A i \in 1..n : i \in 0..n /\ i # 0
    BY <1>1
  <2> QED BY <1>12, <2>1
<1>14. \A i \in 0..n : g[i] \in Applied
  <2>1. \A i \in 1..n : g[i - 1] \in Applied => g[i] \in Applied
    BY <1>2, <1>13
  <2> HIDE DEF n
  <2> QED BY <1>1, <1>13, <2>1, StaysIn
<1>15. g \in [0..n -> Applied]
  BY <1>12, <1>14
<1>16. Applies(g, c, start, s)
  BY <1>13, <1>15 DEF base, Step, Applies
<1> QED BY <1>10, <1>16

(* What a leg, and a round up to a leg, add to the wallet. *)
LegGain(e, x, y) ==
  [a \in Assets |-> (IF a = e.in THEN -x ELSE 0) + (IF a = e.out THEN y ELSE 0)]

RoundGain(c, flow, i) ==
  [a \in Assets |-> (IF a = c[1].in THEN -flow[0] ELSE 0) + (IF a = At(c, i) THEN flow[i] ELSE 0)]

LEMMA GainIsLegGain ==
  ASSUME NEW m, NEW r
  PROVE  Gain(m, r) = LegGain(m.edge, m.offer, Received(m.edge, m.offer, r))
BY DEF Gain, LegGain

LEMMA RoundAdvances ==
  ASSUME NEW c, IsCycle(c), NEW flow \in [0..Len(c) -> Int], NEW i \in 1..Len(c)
  PROVE  /\ RoundGain(c, flow, i) = Sum(RoundGain(c, flow, i - 1), LegGain(c[i], flow[i - 1], flow[i]))
         /\ RoundGain(c, flow, i) \in Gains
         /\ LegGain(c[i], flow[i - 1], flow[i]) \in Gains
<1>1. Len(c) \in Nat
  BY Legs DEF IsCycle
<1>2. 0 \in 0..Len(c) /\ i \in 0..Len(c) /\ i - 1 \in 0..Len(c)
  BY <1>1
<1> DEFINE o == flow[0]
           x == flow[i - 1]
           y == flow[i]
           b == At(c, i - 1)
           z == At(c, i)
<1>3. o \in Int /\ x \in Int /\ y \in Int
  BY <1>2
<1>4. c[i].in = b /\ c[i].out = z
  BY FollowingHops
<1>5. /\ RoundGain(c, flow, i)
           = [a \in Assets |-> (IF a = c[1].in THEN -o ELSE 0) + (IF a = z THEN y ELSE 0)]
      /\ RoundGain(c, flow, i - 1)
           = [a \in Assets |-> (IF a = c[1].in THEN -o ELSE 0) + (IF a = b THEN x ELSE 0)]
  BY DEF RoundGain
<1>6. LegGain(c[i], flow[i - 1], flow[i])
        = [a \in Assets |-> (IF a = b THEN -x ELSE 0) + (IF a = z THEN y ELSE 0)]
  BY <1>4 DEF LegGain
<1> HIDE DEF o, x, y, b, z
<1>7. \A a \in Assets :
        ((IF a = c[1].in THEN -o ELSE 0) + (IF a = b THEN x ELSE 0))
          + ((IF a = b THEN -x ELSE 0) + (IF a = z THEN y ELSE 0))
        = (IF a = c[1].in THEN -o ELSE 0) + (IF a = z THEN y ELSE 0)
  BY <1>3
<1> QED BY <1>3, <1>5, <1>6, <1>7 DEF Sum, Gains

LEMMA RoundStartsAndEnds ==
  ASSUME NEW c, IsCycle(c), NEW flow \in [0..Len(c) -> Int]
  PROVE  /\ RoundGain(c, flow, 0) = Nothing
         /\ RoundGain(c, flow, Len(c)) = StartGain(c, flow[Len(c)] - flow[0])
         /\ \A x \in Int : StartGain(c, x) \in Gains
         /\ \A x, y \in Int : x >= y => AtLeast(StartGain(c, x), StartGain(c, y))
<1>1. At(c, 0) = c[1].in /\ At(c, Len(c)) = c[1].in
  BY FollowingHops
<1>2. Len(c) \in Nat
  BY Legs DEF IsCycle
<1> DEFINE o == flow[0]
           y == flow[Len(c)]
<1>3. o \in Int /\ y \in Int
  BY <1>2
<1>4. RoundGain(c, flow, 0) = [a \in Assets |-> (IF a = c[1].in THEN -o ELSE 0) + (IF a = c[1].in THEN o ELSE 0)]
  BY <1>1 DEF RoundGain
<1>5. RoundGain(c, flow, Len(c))
        = [a \in Assets |-> (IF a = c[1].in THEN -o ELSE 0) + (IF a = c[1].in THEN y ELSE 0)]
  BY <1>1 DEF RoundGain
<1> HIDE DEF o, y
<1>6. \A a : /\ (IF a = c[1].in THEN -o ELSE 0) + (IF a = c[1].in THEN o ELSE 0) = 0
             /\ (IF a = c[1].in THEN -o ELSE 0) + (IF a = c[1].in THEN y ELSE 0)
                  = IF a = c[1].in THEN y - o ELSE 0
  BY <1>3
<1>7. \A x \in Int : StartGain(c, x) \in Gains
  BY DEF StartGain, Gains
<1>8. \A x, z \in Int : x >= z => AtLeast(StartGain(c, x), StartGain(c, z))
  BY DEF StartGain, AtLeast
<1> QED BY <1>4, <1>5, <1>6, <1>7, <1>8 DEF Nothing, StartGain, o, y

(* The offers of a cycle are what flows into its legs. *)
IsRound(c, flow, offers) ==
  flow \in [0..Len(c) -> Int] /\ \A i \in 1..Len(c) : offers[i] = flow[i - 1] /\ flow[i - 1] > 0

LEMMA FlowIsRound ==
  ASSUME NEW c, IsCycle(c), NEW amount \in Nat \ {0}, NEW s \in Snapshots,
         \A i \in 1..Len(c) : LegOffers(c, amount, s)[i] > 0
  PROVE  LET flow == Flow(c, amount, s) IN
         /\ IsRound(c, flow, LegOffers(c, amount, s))
         /\ flow[0] = amount
         /\ \A i \in 1..Len(c) : flow[i] = Received(c[i], flow[i - 1], s)
<1>1. c \in Seq(Edges) /\ IsSnapshot(s) /\ DOMAIN c = 1..Len(c) /\ amount \in Int
  BY Legs, SnapshotIsElement DEF IsCycle
<1> DEFINE flow == Flow(c, amount, s)
<1>2. /\ flow \in [0..Len(c) -> Int] /\ flow[0] = amount
      /\ \A i \in 1..Len(c) : flow[i] = FlowStep(c, s, flow[i - 1], i)
  BY <1>1, FlowUnfolds
<1>3. \A i \in 1..Len(c) : LegOffers(c, amount, s)[i] = flow[i - 1]
  BY <1>1, OffersAreNumbers
<1> HIDE DEF flow
<1>4. \A i \in 1..Len(c) : flow[i - 1] > 0 /\ flow[i - 1] \in Int
  BY <1>1, <1>2, <1>3, Legs
<1>5. \A i \in 1..Len(c) : flow[i] = Received(c[i], flow[i - 1], s)
  BY <1>2, <1>4 DEF FlowStep
<1> QED BY <1>2, <1>3, <1>4, <1>5 DEF IsRound, flow

LEMMA TripCarries ==
  ASSUME NEW c, IsCycle(c), NEW amount \in Nat \ {0}, NEW s \in Snapshots,
         NEW offers, offers = LegOffers(c, amount, s), \A i \in 1..Len(c) : offers[i] > 0,
         NEW params, params = ExecutionParams(c, offers, s, Ceiling), params # NoParams
  PROVE  Carry(CycleMsgs(c, offers, params), c, s, ApplyTrade(c, amount, s),
               StartGain(c, Profit(c, amount, s)))
<1> DEFINE n == Len(c)
           flow == Flow(c, amount, s)
           msgs == CycleMsgs(c, offers, params)
<1>1. /\ c \in Seq(Edges) /\ n \in Nat /\ n >= 2 /\ DOMAIN c = 1..n /\ IsSnapshot(s)
      /\ \A i \in 1..n : c[i] \in Edges
  BY Legs, SnapshotIsElement DEF IsCycle
<1>2. /\ flow \in [0..n -> Int] /\ flow[0] = amount
      /\ \A i \in 1..n : offers[i] = flow[i - 1] /\ flow[i - 1] > 0
      /\ \A i \in 1..n : flow[i] = Received(c[i], flow[i - 1], s)
  BY FlowIsRound DEF IsRound
<1>3. offers \in [DOMAIN c -> Int]
  BY <1>1, OffersAreNumbers
<1>4. Follows(msgs, c, offers, params)
  BY <1>1, <1>3, CycleMsgsFollow
<1>5. /\ Len(msgs) = n /\ DOMAIN msgs = 1..n
      /\ \A i \in 1..n : /\ msgs[i] = Message(c[i], offers[i], params[i])
                         /\ msgs[i].edge = c[i] /\ msgs[i].offer = offers[i]
  BY <1>4 DEF Follows
<1>6. msgs = [i \in 1..n |-> msgs[i]]
  BY <1>1 DEF CycleMsgs
<1> HIDE DEF flow, msgs, n
<1>7. ASSUME NEW i \in 1..n PROVE msgs[i] \in Messages /\ IsPriced(msgs[i], s)
  <2>1. offers[i] \in Nat \ {0} /\ i \in DOMAIN c /\ c[i] \in Edges
    BY <1>1, <1>2, <1>3 DEF n
  <2>2. /\ LegIsSafe(c[i], offers[i], s[c[i].pool][c[i].in], s[c[i].pool][c[i].out], Ceiling)
        /\ params[i] = LegParams(c[i], offers[i], s[c[i].pool][c[i].in], s[c[i].pool][c[i].out])
    <3>1. /\ c \in Seq(Edges) /\ offers \in [DOMAIN c -> Int] /\ i \in DOMAIN c
          /\ offers[i] > 0 /\ ExecutionParams(c, offers, s, Ceiling) # NoParams
      BY <1>1, <1>3, <2>1
    <3>2. /\ LegIsSafe(c[i], offers[i], s[c[i].pool][c[i].in], s[c[i].pool][c[i].out], Ceiling)
          /\ ExecutionParams(c, offers, s, Ceiling)[i]
               = LegParams(c[i], offers[i], s[c[i].pool][c[i].in], s[c[i].pool][c[i].out])
      BY SMTT(30), <3>1, LegsAreSafe
    <3> QED BY Zenon, <3>2
  <2> QED BY <1>5, <2>1, <2>2, SafeMessage
<1>8. msgs \in Seq(Messages)
  BY <1>1, <1>6, <1>7
<1>9. PICK g : Trail(g, msgs, s)
  BY <1>8, TrailExists
<1>10. /\ g \in [0..n -> Snapshots] /\ g[0] = s
       /\ \A i \in 1..n : g[i] = PoolStep(g[i - 1], msgs[i])
  BY <1>5, <1>9 DEF Trail
<1>11. \A k \in 1..n : g[k - 1][c[k].pool] = s[c[k].pool]
  <2>1. Len(msgs) = Len(c) /\ \A i \in 1..Len(c) : msgs[i].edge = c[i]
    BY <1>5 DEF n
  <2>2. MeetsOwnPools(g, c, s)
    BY <1>8, <1>9, <2>1, OwnPoolIsUntouched
  <2> QED BY <2>2 DEF MeetsOwnPools, n
<1>12. ASSUME NEW i \in 1..n
       PROVE  /\ IsPriced(msgs[i], g[i - 1])
              /\ Received(c[i], offers[i], g[i - 1]) = flow[i]
  <2>1. g[i - 1][msgs[i].edge.pool] = s[msgs[i].edge.pool]
    BY <1>5, <1>11
  <2>2. /\ IsPriced(msgs[i], g[i - 1])
        /\ SwapAt(msgs[i].edge, msgs[i].offer, g[i - 1]) = SwapAt(msgs[i].edge, msgs[i].offer, s)
    <3>1. IsPriced(msgs[i], s)
      BY <1>7
    <3> QED BY ZenonT(60), <2>1, <3>1, OwnPoolOnly
  <2>3. Received(c[i], offers[i], g[i - 1]) = Received(c[i], offers[i], s)
    BY <1>5, <2>2 DEF Received
  <2> QED BY <1>2, <2>2, <2>3
<1>13. ApplyTrade(c, amount, s) = g[n]
  <2>1. PICK f \in [0..n -> Applied] :
          /\ f[0] = [amount |-> amount, states |-> s]
          /\ \A i \in 1..n : f[i] = ApplyStep(c, f[i - 1], i)
          /\ ApplyTrade(c, amount, s) = f[n].states
    <3>1. amount \in Int /\ c \in Seq(Edges)
      BY <1>1
    <3>2. PICK f : Applies(f, c, amount, s) /\ ApplyTrade(c, amount, s) = f[Len(c)].states
      BY <3>1, ApplyUnfolds
    <3> QED BY <3>2 DEF Applies, n
  <2> DEFINE D == {i \in 0..n : f[i].amount = flow[i] /\ f[i].states = g[i]}
  <2>2. 0 \in D
    BY <1>1, <1>2, <1>10, <2>1
  <2>3. ASSUME NEW i \in 1..n, i - 1 \in D PROVE i \in D
    <3>1. i \in 0..n /\ i - 1 \in 0..n /\ g[i - 1] \in Snapshots
      BY <1>1, <1>10
    <3>2. f[i - 1].amount = offers[i] /\ f[i - 1].states = g[i - 1] /\ ~(offers[i] <= 0)
      BY <1>2, <2>3
    <3>3. f[i] = [amount |-> Received(c[i], offers[i], g[i - 1]),
                  states |-> AfterSwap(g[i - 1], c[i], offers[i])]
      BY <2>1, <3>2 DEF ApplyStep
    <3>4. AfterSwap(g[i - 1], c[i], offers[i]) = PoolStep(g[i - 1], msgs[i])
      <4>1. IsSnapshot(g[i - 1]) /\ offers[i] \in Nat /\ c[i] \in Edges
        BY <1>1, <1>2, <3>1, SnapshotIsElement
      <4>2. AfterSwap(g[i - 1], c[i], offers[i])
              = Pays(g[i - 1], c[i], offers[i], SwapAt(c[i], offers[i], g[i - 1]).paid)
        BY <4>1, AfterSwapIsPays
      <4>3. msgs[i].edge = c[i] /\ msgs[i].offer = offers[i]
        BY <1>5
      <4> QED BY <4>2, <4>3 DEF PoolStep
    <3> QED BY <1>10, <1>12, <3>1, <3>3, <3>4
  <2>4. \A i \in 0..n : i \in D
    <3> HIDE DEF D
    <3> QED BY <1>1, <2>2, <2>3, UpTo
  <2>5. n \in 0..n
    BY <1>1
  <2> QED BY <2>1, <2>4, <2>5
<1> DEFINE d == [i \in 0..n |-> RoundGain(c, flow, i)]
<1>14. \A i \in 0..n : d[i] = RoundGain(c, flow, i)
  OBVIOUS
<1>15. flow \in [0..Len(c) -> Int]
  BY <1>2 DEF n
<1>16. RoundGain(c, flow, 0) = Nothing /\ Nothing \in Gains
       /\ RoundGain(c, flow, n) = StartGain(c, flow[n] - flow[0])
       /\ \A i \in 1..n : /\ RoundGain(c, flow, i) \in Gains
                          /\ RoundGain(c, flow, i)
                               = Sum(RoundGain(c, flow, i - 1), LegGain(c[i], flow[i - 1], flow[i]))
  <2>1. RoundGain(c, flow, 0) = Nothing /\ RoundGain(c, flow, n) = StartGain(c, flow[n] - flow[0])
    BY <1>15, RoundStartsAndEnds DEF n
  <2>2. ASSUME NEW i \in 1..n
        PROVE  /\ RoundGain(c, flow, i) \in Gains
               /\ RoundGain(c, flow, i)
                    = Sum(RoundGain(c, flow, i - 1), LegGain(c[i], flow[i - 1], flow[i]))
    <3>1. i \in 1..Len(c)
      BY DEF n
    <3> QED BY <1>15, <3>1, RoundAdvances
  <2> QED BY <2>1, <2>2, SumOfGains
<1>17. d \in [0..n -> Gains]
  <2>1. \A i \in 0..n : i = 0 \/ i \in 1..n
    BY <1>1
  <2> QED BY <1>16, <2>1
<1> HIDE DEF d
<1>18. Tally(d, g, msgs)
  <2>1. ASSUME NEW i \in 1..n PROVE d[i] = Sum(d[i - 1], Gain(msgs[i], g[i - 1]))
    <3>1. i \in 0..n /\ i - 1 \in 0..n
      BY <1>1
    <3>2. Gain(msgs[i], g[i - 1]) = LegGain(c[i], offers[i], Received(c[i], offers[i], g[i - 1]))
      BY <1>5, GainIsLegGain
    <3>3. Gain(msgs[i], g[i - 1]) = LegGain(c[i], flow[i - 1], flow[i])
      BY <1>2, <1>12, <3>2
    <3> QED BY <1>14, <1>16, <3>1, <3>3
  <2>2. d[0] = Nothing
    BY <1>1, <1>14, <1>16
  <2> QED BY <1>5, <1>17, <2>1, <2>2 DEF Tally
<1>19. flow[n] \in Int /\ flow[n] >= 0
  <2>1. n \in 1..n /\ n \in 0..n
    BY <1>1
  <2>2. /\ offers[n] \in Nat \ {0} /\ c[n] \in Edges /\ IsPriced(msgs[n], s)
        /\ msgs[n].edge = c[n] /\ msgs[n].offer = offers[n]
        /\ flow[n] = Received(c[n], offers[n], s)
    BY <1>1, <1>2, <1>3, <1>5, <1>7, <2>1
  <2>3. LegIsSafe(c[n], offers[n], s[c[n].pool][c[n].in], s[c[n].pool][c[n].out], Ceiling)
    BY SMTT(30), <2>2 DEF IsPriced
  <2> DEFINE paid == SwapAt(c[n], offers[n], s).paid
  <2>4. paid \in Nat \ {0} /\ Received(c[n], offers[n], s) = Delivered(c[n], paid)
    BY <1>1, <2>2, <2>3, SafeLegPays, ReceivedPay
  <2> HIDE DEF paid
  <2>5. Delivered(c[n], paid) \in 0..paid
    BY <2>2, <2>4, DeliveredPay
  <2> QED BY <2>2, <2>4, <2>5
<1>20. Profit(c, amount, s) \in Int /\ Profit(c, amount, s) <= flow[n] - flow[0]
  <2>1. Flow(c, amount, s)[Len(c)] >= 0
    BY <1>19 DEF flow, n
  <2>2. Profit(c, amount, s) \in Int /\ Profit(c, amount, s) <= Flow(c, amount, s)[Len(c)] - amount
    BY <1>1, <2>1, GrossIsCarried
  <2> QED BY <1>2, <2>2 DEF flow, n
<1>21. /\ StartGain(c, Profit(c, amount, s)) \in Gains
       /\ AtLeast(d[n], StartGain(c, Profit(c, amount, s)))
  <2>1. flow[0] \in Int /\ n \in 0..n /\ flow[n] - flow[0] \in Int
    BY <1>1, <1>2, <1>19
  <2>2. d[n] = StartGain(c, flow[n] - flow[0])
    BY <1>14, <1>16, <2>1
  <2> QED BY <1>2, <1>20, <2>1, <2>2, RoundStartsAndEnds DEF n
<1>22. OnCycle(msgs, c)
  BY <1>5, <1>8 DEF OnCycle, n
<1>23. AllPriced(g, msgs)
  BY <1>5, <1>12 DEF AllPriced
<1>24. Carry(msgs, c, s, ApplyTrade(c, amount, s), StartGain(c, Profit(c, amount, s)))
  BY <1>5, <1>9, <1>13, <1>18, <1>21, <1>22, <1>23 DEF Carry
<1> QED BY <1>24 DEF msgs

-----------------------------------------------------------------------------
(* A leg in several trips *)

Sides == [in : Nat, out : Nat]

SidesOf(e, s) == [in |-> s[e.pool][e.in], out |-> s[e.pool][e.out]]

(* The pools with these reserves in the pool of e. *)
WithSides(s, e, r) ==
  [b \in Pools |->
     IF b = e.pool THEN [a \in {e.in, e.out} |-> IF a = e.in THEN r.in ELSE r.out] ELSE s[b]]

LEMMA SidesAreReserves ==
  ASSUME NEW e \in Edges, NEW s \in Snapshots, NEW r \in Sides
  PROVE  /\ WithSides(s, e, r) \in Snapshots
         /\ WithSides(s, e, r)[e.pool][e.in] = r.in
         /\ WithSides(s, e, r)[e.pool][e.out] = r.out
         /\ \A p \in Pools \ {e.pool} : WithSides(s, e, r)[p] = s[p]
<1>1. e.pool \in Pools /\ {e.in, e.out} = {Pair[e.pool][1], Pair[e.pool][2]} /\ e.in # e.out
  BY Hop
<1>2. r.in \in Nat /\ r.out \in Nat
  BY DEF Sides
<1> DEFINE q == WithSides(s, e, r)
           y == [a \in {e.in, e.out} |-> IF a = e.in THEN r.in ELSE r.out]
<1>3. q[e.pool] = y /\ \A p \in Pools \ {e.pool} : q[p] = s[p]
  BY <1>1 DEF WithSides
<1>4. y \in [{Pair[e.pool][1], Pair[e.pool][2]} -> Nat] /\ y[e.in] = r.in /\ y[e.out] = r.out
  BY <1>1, <1>2
<1>5. q = [p \in Pools |-> q[p]]
  BY DEF WithSides
<1> HIDE DEF q, y
<1>6. IsSnapshot(q)
  <2>1. IsSnapshot(s)
    BY SnapshotIsElement
  <2>2. ASSUME NEW p \in Pools PROVE q[p] \in [{Pair[p][1], Pair[p][2]} -> Nat]
    <3>1. CASE p = e.pool
      BY <1>3, <1>4, <3>1
    <3>2. CASE p # e.pool
      BY <1>3, <2>1, <3>2 DEF IsSnapshot
    <3> QED BY <3>1, <3>2
  <2> QED BY <1>5, <2>2 DEF IsSnapshot
<1> QED BY <1>3, <1>4, <1>6, SnapshotIsElement DEF q

LEMMA SameSides ==
  ASSUME NEW e \in Edges, NEW s \in Snapshots, NEW t \in Snapshots, t[e.pool] = s[e.pool]
  PROVE  WithSides(t, e, SidesOf(e, s)) = t
<1>1. e.pool \in Pools /\ {e.in, e.out} = {Pair[e.pool][1], Pair[e.pool][2]} /\ e.in # e.out
  BY Hop
<1>2. IsSnapshot(t)
  BY SnapshotIsElement
<1>3. t = [p \in Pools |-> t[p]] /\ t[e.pool] \in [{e.in, e.out} -> Nat]
  BY <1>1, <1>2 DEF IsSnapshot
<1> DEFINE y == [a \in {e.in, e.out} |-> IF a = e.in THEN t[e.pool][e.in] ELSE t[e.pool][e.out]]
<1>4. y = t[e.pool]
  BY <1>1, <1>3
<1>5. WithSides(t, e, SidesOf(e, s)) = [p \in Pools |-> IF p = e.pool THEN y ELSE t[p]]
  BY DEF WithSides, SidesOf
<1> HIDE DEF y
<1> QED BY <1>3, <1>4, <1>5

LEMMA SidesAfterPaying ==
  ASSUME NEW e \in Edges, NEW s \in Snapshots, NEW r \in Sides, NEW x \in Int, NEW paid \in Int
  PROVE  Pays(WithSides(s, e, r), e, x, paid) = WithSides(s, e, [in |-> r.in + x, out |-> r.out - paid])
<1>1. e.pool \in Pools /\ e.in # e.out
  BY Hop
<1> DEFINE q == WithSides(s, e, r)
           y == [a \in {e.in, e.out} |-> IF a = e.in THEN r.in ELSE r.out]
           z == [a \in {e.in, e.out} |-> IF a = e.in THEN r.in + x ELSE r.out - paid]
           new == [q[e.pool] EXCEPT ![e.in] = @ + x, ![e.out] = @ - paid]
<1>2. q = [p \in Pools |-> q[p]] /\ q[e.pool] = y /\ \A p \in Pools \ {e.pool} : q[p] = s[p]
  BY <1>1 DEF WithSides
<1>3. new = z
  BY Zenon, <1>1, <1>2
<1>4. Pays(q, e, x, paid) = [p \in Pools |-> IF p = e.pool THEN new ELSE q[p]]
  <2> HIDE DEF y, z
  <2>1. q[e.pool] = [a \in {e.in, e.out} |-> q[e.pool][a]]
    BY <1>2 DEF y
  <2> HIDE DEF q
  <2> QED BY <1>1, <1>2, <2>1 DEF Pays
<1>5. WithSides(s, e, [in |-> r.in + x, out |-> r.out - paid])
        = [p \in Pools |-> IF p = e.pool THEN z ELSE s[p]]
  BY DEF WithSides
<1> HIDE DEF q, y, z, new
<1>6. \A p \in Pools : (IF p = e.pool THEN new ELSE q[p]) = (IF p = e.pool THEN z ELSE s[p])
  BY <1>2, <1>3
<1> QED BY <1>4, <1>5, <1>6 DEF q

DepleteStep(e, amt, r) ==
  IF amt <= 0 \/ r.in <= 0 \/ r.out <= 0 THEN r
  ELSE [in  |-> r.in + amt,
        out |-> r.out - Swap(Taxed(e, amt), r.in, r.out, Commission[e.pool]).paid]

LEMMA DepletedSides ==
  ASSUME NEW e \in Edges, NEW amt \in Int, NEW r \in Sides
  PROVE  DepleteStep(e, amt, r) \in Sides
<1>1. r.in \in Nat /\ r.out \in Nat /\ e.pool \in Pools
  BY Hop DEF Sides
<1>2. Commission[e.pool] \in 0..Unit /\ Taxed(e, amt) \in Int
  BY <1>1, CycleMathAssumption, TaxedOffer
<1> DEFINE p == Swap(Taxed(e, amt), r.in, r.out, Commission[e.pool]).paid
<1>3. p \in Int /\ p <= r.out
  BY <1>1, <1>2, SwapBounds
<1> HIDE DEF p
<1>4. DepleteStep(e, amt, r) = IF amt <= 0 \/ r.in <= 0 \/ r.out <= 0 THEN r
                               ELSE [in |-> r.in + amt, out |-> r.out - p]
  BY DEF DepleteStep, p
<1> QED BY <1>1, <1>3, <1>4 DEF Sides

IsDepleting(f, e, offer, n, s) ==
  f = [i \in 1..(n + 1) |->
        IF i = 1 THEN [in |-> s[e.pool][e.in], out |-> s[e.pool][e.out]]
        ELSE LET r   == f[i - 1]
                 amt == TripOf(offer, n, i - 1)
             IN  IF amt <= 0 \/ r.in <= 0 \/ r.out <= 0 THEN r
                 ELSE [in  |-> r.in + amt,
                       out |-> r.out - Swap(Taxed(e, amt), r.in, r.out,
                                            Commission[e.pool]).paid]]

Depletes(f, e, offer, n, s) ==
  /\ f \in [0..n -> Sides]
  /\ f[0] = SidesOf(e, s)
  /\ \A i \in 1..n : f[i] = DepleteStep(e, TripOf(offer, n, i), f[i - 1])

LEMMA TripsAreNumbers ==
  ASSUME NEW offer \in Int, NEW n \in Nat \ {0}
  PROVE  \A i : TripOf(offer, n, i) \in Int
BY Division DEF TripOf

LEMMA ReservesUnfold ==
  ASSUME NEW e \in Edges, NEW offer \in Int, NEW n \in Nat \ {0}, NEW s \in Snapshots
  PROVE  \E f : /\ Depletes(f, e, offer, n, s)
                /\ \A i \in 1..n : ReservesBefore(e, offer, n, s)[i] = f[i - 1]
<1> DEFINE base == SidesOf(e, s)
           Step(r, i) == DepleteStep(e, TripOf(offer, n, i), r)
           G == [u \in (1..n) \X Sides |-> Step(u[2], u[1])]
           g == CHOOSE h : IsDepleting(h, e, offer, n, s)
<1>1. base \in Sides
  BY SnapshotIsElement, Reserves DEF SidesOf, Sides
<1>2. \A i \in 1..n, r \in Sides : Step(r, i) \in Sides
  BY TripsAreNumbers, DepletedSides
<1> HIDE DEF Step
<1>3. G \in [(1..n) \X Sides -> Sides]
  BY <1>2
<1>4. \A i \in 1..n, r \in Sides : G[<<i, r>>] = Step(r, i)
  OBVIOUS
<1> HIDE DEF G, base
<1>5. PICK f \in [0..n -> Sides] : Iterates(f, n, base, G)
  BY <1>1, <1>3, StepByStep
<1>6. \A i \in 1..n : i \in 0..n /\ i # 0 /\ i - 1 \in 0..n /\ f[i - 1] \in Sides
  OBVIOUS
<1>7. f[0] = base /\ \A i \in 1..n : f[i] = Step(f[i - 1], i)
  <2>1. 0 \in 0..n
    OBVIOUS
  <2> QED BY <1>4, <1>5, <1>6, <2>1 DEF Iterates
<1> DEFINE k == [i \in 1..(n + 1) |-> f[i - 1]]
<1>8. k = [i \in 1..(n + 1) |-> IF i = 1 THEN base ELSE Step(k[i - 1], i - 1)]
  <2>1. \A i \in 1..(n + 1) : i = 1 => f[i - 1] = base
    BY <1>7
  <2>2. ASSUME NEW i \in 1..(n + 1), i # 1 PROVE f[i - 1] = Step(k[i - 1], i - 1)
    <3>1. i - 1 \in 1..n /\ i - 1 \in 1..(n + 1)
      BY <2>2
    <3>2. k[i - 1] = f[(i - 1) - 1]
      BY <3>1
    <3> HIDE DEF k
    <3> QED BY <1>7, <3>1, <3>2
  <2>3. \A i \in 1..(n + 1) : f[i - 1] = IF i = 1 THEN base ELSE Step(k[i - 1], i - 1)
    <3> HIDE DEF k
    <3> QED BY <2>1, <2>2
  <2>4. k = [i \in 1..(n + 1) |-> f[i - 1]]
    OBVIOUS
  <2> HIDE DEF k
  <2> QED BY <2>3, <2>4
<1> HIDE DEF k
<1>9. \A h : IsDepleting(h, e, offer, n, s)
              <=> h = [i \in 1..(n + 1) |-> IF i = 1 THEN base ELSE Step(h[i - 1], i - 1)]
  BY Zenon DEF IsDepleting, DepleteStep, Step, base, SidesOf
<1>10. IsDepleting(g, e, offer, n, s)
  BY <1>8, <1>9
<1>11. ReservesBefore(e, offer, n, s) = [i \in 1..n |-> g[i]]
  BY Zenon DEF ReservesBefore, IsDepleting
<1> HIDE DEF g
<1>12. g = [i \in 1..(n + 1) |-> IF i = 1 THEN base ELSE Step(g[i - 1], i - 1)]
  BY <1>9, <1>10
<1> DEFINE b == [i \in 0..n |-> g[i + 1]]
<1>13. g[1] = base
  <2>1. 1 \in 1..(n + 1)
    OBVIOUS
  <2> QED BY <1>12, <2>1
<1>14. ASSUME NEW i \in 1..n PROVE g[i + 1] = Step(g[i], i)
  <2>1. i + 1 \in 1..(n + 1) /\ i + 1 # 1 /\ (i + 1) - 1 = i
    OBVIOUS
  <2>2. g[i + 1] = Step(g[(i + 1) - 1], (i + 1) - 1)
    BY <1>12, <2>1
  <2> QED BY <2>1, <2>2
<1>15. b[0] = base /\ \A i \in 1..n : b[i - 1] = g[i] /\ b[i] = Step(b[i - 1], i)
  <2>1. 0 \in 0..n /\ 0 + 1 = 1 /\ \A i \in 1..n : i \in 0..n /\ i - 1 \in 0..n /\ (i - 1) + 1 = i
    OBVIOUS
  <2> QED BY <1>13, <1>14, <2>1
<1>16. b = [i \in 0..n |-> b[i]]
  OBVIOUS
<1> HIDE DEF b
<1>17. \A i \in 0..n : b[i] \in Sides
  <2>1. \A i \in 1..n : b[i - 1] \in Sides => b[i] \in Sides
    BY <1>2, <1>15
  <2>2. b[0] \in Sides
    BY <1>1, <1>15
  <2> QED BY <2>1, <2>2, StaysIn
<1>18. \A i \in 1..n : ReservesBefore(e, offer, n, s)[i] = b[i - 1]
  BY <1>11, <1>15
<1>19. Depletes(b, e, offer, n, s)
  BY <1>15, <1>16, <1>17 DEF Depletes, base, Step
<1> QED BY <1>18, <1>19

(* What the trips of a leg bring home, one after the other. *)
IsSplit(f, h, e, offer, n, s) ==
  /\ Depletes(f, e, offer, n, s)
  /\ h \in [0..n -> Int]
  /\ h[0] = 0
  /\ \A i \in 1..n : h[i] = h[i - 1] + NetOfTrip(e, TripOf(offer, n, i), f[i - 1])

LEMMA NetIsNumber ==
  ASSUME NEW e \in Edges, NEW amt \in Int, NEW r \in Sides
  PROVE  NetOfTrip(e, amt, r) \in Int
<1>1. r.in \in Nat /\ r.out \in Nat /\ e.pool \in Pools /\ e.out \in Assets
  BY Hop DEF Sides
<1>2. Commission[e.pool] \in 0..Unit /\ Taxed(e, amt) \in Int
  BY <1>1, CycleMathAssumption, TaxedOffer
<1> DEFINE p == Swap(Taxed(e, amt), r.in, r.out, Commission[e.pool]).paid
<1>3. p \in Int
  BY <1>1, <1>2, SwapBounds
<1> HIDE DEF p
<1>4. p - Tax(e.out, p, "in") \in Int
  BY <1>1, <1>3, TaxIsAShare
<1>5. NetOfTrip(e, amt, r) = IF amt <= 0 \/ r.in <= 0 \/ r.out <= 0 THEN 0
                             ELSE Larger(0, p - Tax(e.out, p, "in"))
  BY DEF NetOfTrip, p
<1> QED BY <1>4, <1>5 DEF Larger

IsNetting(h, e, offer, n, s) ==
  h = [i \in 0..n |-> IF i = 0 THEN 0
                      ELSE h[i - 1] + NetOfTrip(e, TripOf(offer, n, i), ReservesBefore(e, offer, n, s)[i])]

LEMMA SplitUnfolds ==
  ASSUME NEW e \in Edges, NEW offer \in Nat \ {0}, NEW n \in Nat \ {0}, NEW s \in Snapshots
  PROVE  \E f, h : /\ IsSplit(f, h, e, offer, n, s)
                   /\ \A i \in 1..n : ReservesBefore(e, offer, n, s)[i] = f[i - 1]
                   /\ SplitNet(e, offer, n, s) = h[n]
<1> DEFINE res == ReservesBefore(e, offer, n, s)
           net(i) == NetOfTrip(e, TripOf(offer, n, i), res[i])
           G == [u \in (1..n) \X Int |-> u[2] + net(u[1])]
           g == CHOOSE h : IsNetting(h, e, offer, n, s)
<1>1. PICK f : Depletes(f, e, offer, n, s) /\ \A i \in 1..n : res[i] = f[i - 1]
  BY ReservesUnfold
<1>2. \A i \in 1..n : net(i) \in Int /\ net(i) = NetOfTrip(e, TripOf(offer, n, i), f[i - 1])
  <2>1. f \in [0..n -> Sides] /\ \A i \in 1..n : i - 1 \in 0..n
    BY <1>1 DEF Depletes
  <2>2. \A i \in 1..n : TripOf(offer, n, i) \in Int
    BY TripsAreNumbers
  <2> QED BY <1>1, <2>1, <2>2, NetIsNumber
<1> HIDE DEF net
<1>3. G \in [(1..n) \X Int -> Int]
  BY <1>2
<1>4. \A i \in 1..n, x \in Int : G[<<i, x>>] = x + net(i)
  OBVIOUS
<1> HIDE DEF G
<1>5. PICK k \in [0..n -> Int] : Iterates(k, n, 0, G)
  <2>1. 0 \in Int /\ n \in Nat
    OBVIOUS
  <2> QED BY <1>3, <2>1, StepByStep
<1>6. \A i \in 0..n : i # 0 => i \in 1..n /\ k[i - 1] \in Int
  OBVIOUS
<1>7. k = [i \in 0..n |-> IF i = 0 THEN 0 ELSE k[i - 1] + net(i)]
  BY <1>4, <1>5, <1>6 DEF Iterates
<1>8. \A h : IsNetting(h, e, offer, n, s)
              <=> h = [i \in 0..n |-> IF i = 0 THEN 0 ELSE h[i - 1] + net(i)]
  BY Zenon DEF IsNetting, net, res
<1>9. IsNetting(g, e, offer, n, s)
  BY <1>7, <1>8
<1>10. SplitNet(e, offer, n, s) = g[n]
  <2>1. ~(offer <= 0)
    OBVIOUS
  <2> QED BY <2>1, Zenon DEF SplitNet, IsNetting
<1> HIDE DEF g, res
<1>11. g = [i \in 0..n |-> IF i = 0 THEN 0 ELSE g[i - 1] + net(i)]
  BY <1>8, <1>9
<1>12. g[0] = 0 /\ \A i \in 1..n : g[i] = g[i - 1] + net(i)
  <2>1. 0 \in 0..n /\ \A i \in 1..n : i \in 0..n /\ i # 0
    OBVIOUS
  <2> QED BY <1>11, <2>1
<1>13. g = [i \in 0..n |-> g[i]]
  BY <1>11
<1>14. \A i \in 0..n : g[i] \in Int
  <2>1. \A i \in 1..n : g[i - 1] \in Int => g[i] \in Int
    BY SMTT(30), <1>2, <1>12
  <2>2. g[0] \in Int
    BY <1>12
  <2> QED BY <2>1, <2>2, StaysIn
<1>15. IsSplit(f, g, e, offer, n, s)
  BY <1>1, <1>2, <1>12, <1>13, <1>14 DEF IsSplit
<1> QED BY <1>1, <1>10, <1>15 DEF res

(* The only trip of an unsplit leg offers it all. *)
LEMMA UnsplitNet ==
  ASSUME NEW e \in Edges, NEW offer \in Nat \ {0}, NEW s \in Snapshots
  PROVE  SplitNet(e, offer, 1, s) >= Received(e, offer, s)
         /\ SplitNet(e, offer, 1, s) \in Int /\ Received(e, offer, s) \in Int
<1>1. IsSnapshot(s) /\ offer \in Int /\ e.pool \in Pools /\ 1 \in Nat \ {0}
  BY SnapshotIsElement, Hop
<1>2. PICK f, h : IsSplit(f, h, e, offer, 1, s) /\ SplitNet(e, offer, 1, s) = h[1]
  BY <1>1, SplitUnfolds
<1>3. TripOf(offer, 1, 1) = offer
  <2>1. offer \div 1 = offer /\ offer % 1 = 0
    OBVIOUS
  <2> QED BY <2>1 DEF TripOf
<1>4. h[1] = NetOfTrip(e, offer, SidesOf(e, s))
  <2>1. 1 \in 1..1 /\ 1 - 1 = 0
    OBVIOUS
  <2>2. h[0] = 0 /\ h[1] = h[0] + NetOfTrip(e, TripOf(offer, 1, 1), f[0]) /\ f[0] = SidesOf(e, s)
    BY <1>2, <2>1 DEF IsSplit, Depletes
  <2>3. SidesOf(e, s) \in Sides
    BY <1>1, Reserves DEF SidesOf, Sides
  <2>4. NetOfTrip(e, offer, SidesOf(e, s)) \in Int
    BY <1>1, <2>3, NetIsNumber
  <2> QED BY <1>3, <2>2, <2>4
<1> DEFINE paid == SwapAt(e, offer, s).paid
           I == s[e.pool][e.in]
           O == s[e.pool][e.out]
<1>5. I \in Nat /\ O \in Nat
  BY <1>1, Reserves
<1>6. paid \in Int /\ (paid > 0 => I > 0 /\ O > 0)
  BY <1>1, SwapAtBounds
<1>7. Received(e, offer, s) = paid - Tax(e.out, paid, "in") /\ Received(e, offer, s) \in Int
  BY <1>1, ReceivedPay DEF Received
<1>8. NetOfTrip(e, offer, SidesOf(e, s))
        = IF offer <= 0 \/ I <= 0 \/ O <= 0 THEN 0 ELSE Larger(0, paid - Tax(e.out, paid, "in"))
  BY DEF NetOfTrip, SidesOf, SwapAt
<1>9. paid <= 0 => paid - Tax(e.out, paid, "in") <= 0
  BY <1>6, Hop, TaxIsAShare
<1> HIDE DEF paid, I, O
<1> QED BY <1>2, <1>4, <1>5, <1>6, <1>7, <1>8, <1>9 DEF Larger

(* Splitting is never chosen at a loss: each trip costs its gas.           *)
LEMMA SplittingPays ==
  ASSUME NEW e \in Edges, NEW offer \in Nat \ {0}, NEW gas \in Nat, NEW maxTrips \in Nat \ {0},
         NEW s \in Snapshots
  PROVE  LET n == OptimalTrips(e, offer, gas, maxTrips, s) IN
         n \in Nat \ {0} /\ SplitNet(e, offer, n, s) >= Received(e, offer, s)
<1> DEFINE worth == [n \in 1..maxTrips |-> SplitNet(e, offer, n, s) - gas * n]
           n == OptimalTrips(e, offer, gas, maxTrips, s)
<1>1. \A k \in 1..maxTrips : SplitNet(e, offer, k, s) \in Int
  <2> TAKE k \in 1..maxTrips
  <2>1. k \in Nat \ {0} /\ k \in 0..k
    OBVIOUS
  <2>2. PICK f, h : IsSplit(f, h, e, offer, k, s) /\ SplitNet(e, offer, k, s) = h[k]
    BY <2>1, SplitUnfolds
  <2> QED BY <2>1, <2>2 DEF IsSplit
<1>2. \A k \in 1..maxTrips : worth[k] = SplitNet(e, offer, k, s) - gas * k
  OBVIOUS
<1>3. \A k \in 1..maxTrips : worth[k] \in Int
  BY <1>1, <1>2
<1>4. n = Best(1..maxTrips, worth)
  BY DEF OptimalTrips
<1> HIDE DEF n, worth
<1>5. n \in 1..maxTrips /\ \A k \in 1..maxTrips : worth[k] <= worth[n]
  BY <1>3, <1>4, IntervalHasBest
<1>6. 1 \in 1..maxTrips /\ worth[1] <= worth[n]
  BY <1>5
<1> DEFINE y == gas * n
<1>7. 1 * gas <= n * gas /\ n * gas = y /\ y \in Int /\ gas * 1 = gas
  BY <1>5, Monotone
<1>8. worth[1] = SplitNet(e, offer, 1, s) - gas /\ worth[n] = SplitNet(e, offer, n, s) - y
  BY <1>2, <1>5, <1>6, <1>7
<1>9. SplitNet(e, offer, n, s) \in Int /\ SplitNet(e, offer, 1, s) \in Int
  BY <1>1, <1>5, <1>6
<1> HIDE DEF y
<1>10. SplitNet(e, offer, n, s) >= SplitNet(e, offer, 1, s)
  BY <1>6, <1>7, <1>8, <1>9
<1>11. SplitNet(e, offer, 1, s) >= Received(e, offer, s) /\ Received(e, offer, s) \in Int
  BY UnsplitNet
<1>12. n \in Nat \ {0}
  BY <1>5
<1> QED BY <1>9, <1>10, <1>11, <1>12 DEF n

LEMMA LegGainsAdd ==
  /\ \A e \in Edges, x, y \in Int : x <= 0 /\ x >= 0 /\ y <= 0 /\ y >= 0 => LegGain(e, x, y) = Nothing
  /\ \A e \in Edges, x, y \in Int : LegGain(e, x, y) \in Gains
  /\ \A e \in Edges, x, y, v, w \in Int :
       LegGain(e, x + v, y + w) = Sum(LegGain(e, x, y), LegGain(e, v, w))
  /\ \A e \in Edges, x, y, w \in Int : y >= w => AtLeast(LegGain(e, x, y), LegGain(e, x, w))
<1>1. ASSUME NEW e \in Edges, NEW x \in Int, NEW y \in Int
      PROVE  \A a \in Assets : LegGain(e, x, y)[a] \in Int
                 /\ LegGain(e, x, y)[a] = (IF a = e.in THEN -x ELSE 0) + (IF a = e.out THEN y ELSE 0)
  BY DEF LegGain
<1>2. ASSUME NEW e \in Edges, NEW x \in Int, NEW y \in Int,
             x <= 0 /\ x >= 0 /\ y <= 0 /\ y >= 0
      PROVE  LegGain(e, x, y) = Nothing
  <2>1. \A a \in Assets : (IF a = e.in THEN -x ELSE 0) + (IF a = e.out THEN y ELSE 0) = 0
    BY <1>2
  <2> QED BY <2>1 DEF LegGain, Nothing
<1>3. \A e \in Edges, x, y \in Int : LegGain(e, x, y) \in Gains
  BY DEF LegGain, Gains
<1>4. ASSUME NEW e \in Edges, NEW x \in Int, NEW y \in Int, NEW v \in Int, NEW w \in Int
      PROVE  LegGain(e, x + v, y + w) = Sum(LegGain(e, x, y), LegGain(e, v, w))
  BY DEF LegGain, Sum
<1>5. ASSUME NEW e \in Edges, NEW x \in Int, NEW y \in Int, NEW w \in Int, y >= w
      PROVE  AtLeast(LegGain(e, x, y), LegGain(e, x, w))
  BY <1>1, <1>5 DEF AtLeast
<1> QED BY <1>2, <1>3, <1>4, <1>5

(* Up to the i-th trip the leg has offered this much. *)
Offered(offer, n, i) == i * (offer \div n) + (IF i = n THEN offer % n ELSE 0)

LEMMA TripsAddUp ==
  ASSUME NEW offer \in Nat, NEW n \in Nat \ {0}
  PROVE  /\ \A i \in 0..n : Offered(offer, n, i) \in Int
         /\ \A i \in 1..n : Offered(offer, n, i) = Offered(offer, n, i - 1) + TripOf(offer, n, i)
         /\ Offered(offer, n, 0) = 0
         /\ Offered(offer, n, n) = offer
<1> DEFINE q == offer \div n
           r == offer % n
<1>1. q \in Nat /\ r \in Nat /\ offer = n * q + r
  OBVIOUS
<1>2. \A i : TripOf(offer, n, i) = q + (IF i = n THEN r ELSE 0)
  BY DEF TripOf
<1>3. \A i : Offered(offer, n, i) = i * q + (IF i = n THEN r ELSE 0)
  BY DEF Offered
<1> HIDE DEF q, r
<1>4. \A i \in 1..n : i * q = (i - 1) * q + q /\ i - 1 # n /\ (i - 1) * q \in Int /\ i * q \in Int
  BY <1>1
<1>5. ASSUME NEW i \in 1..n
      PROVE Offered(offer, n, i) = Offered(offer, n, i - 1) + TripOf(offer, n, i)
  BY <1>1, <1>2, <1>3, <1>4
<1>6. \A i \in 0..n : i * q \in Int
  BY <1>1
<1>7. 0 * q = 0 /\ 0 # n
  BY <1>1
<1> QED BY <1>1, <1>3, <1>5, <1>6, <1>7

(* Only this pool has moved. *)
OnlyPool(p, t, v) == \A q \in Pools \ {p} : v[q] = t[q]

SafeTrip(e, offer, n, i, r) ==
  TripOf(offer, n, i) > 0 /\ LegIsSafe(e, TripOf(offer, n, i), r.in, r.out, Ceiling)

TripMessage(e, offer, n, i, r) ==
  Message(e, TripOf(offer, n, i), LegParams(e, TripOf(offer, n, i), r.in, r.out))

(* The plan of a leg, the reserves its trips meet and what they bring.     *)
IsLegPlan(msgs, f, h, e, offer, n, s) ==
  /\ IsSplit(f, h, e, offer, n, s)
  /\ h[n] >= Received(e, offer, s)
  /\ \A i \in 1..n : SafeTrip(e, offer, n, i, f[i - 1])
  /\ msgs = [i \in 1..n |-> TripMessage(e, offer, n, i, f[i - 1])]

LEMMA PlannedLeg ==
  ASSUME NEW e \in Edges, NEW offer \in Nat \ {0}, NEW gas \in Nat, NEW maxTrips \in Nat \ {0},
         NEW s \in Snapshots, NEW msgs, msgs = PlanLeg(e, offer, gas, maxTrips, s, Ceiling),
         msgs # NoParams
  PROVE  \E n \in Nat \ {0} : \E f, h : IsLegPlan(msgs, f, h, e, offer, n, s)
<1> DEFINE n == OptimalTrips(e, offer, gas, maxTrips, s)
           res == ReservesBefore(e, offer, n, s)
<1>1. n \in Nat \ {0} /\ SplitNet(e, offer, n, s) >= Received(e, offer, s)
  BY SplittingPays
<1>2. ~(offer <= 0)
  OBVIOUS
<1>3. /\ \A i \in 1..n : /\ TripOf(offer, n, i) > 0
                         /\ LegIsSafe(e, TripOf(offer, n, i), res[i].in, res[i].out, Ceiling)
      /\ msgs = [i \in 1..n |->
                   [edge |-> e, offer |-> TripOf(offer, n, i),
                    params |-> LegParams(e, TripOf(offer, n, i), res[i].in, res[i].out)]]
  BY <1>2 DEF PlanLeg
<1> HIDE DEF n, res
<1>4. PICK f, h : /\ IsSplit(f, h, e, offer, n, s)
                  /\ \A i \in 1..n : res[i] = f[i - 1]
                  /\ SplitNet(e, offer, n, s) = h[n]
  BY <1>1, SplitUnfolds DEF res
<1>5. \A i \in 1..n : SafeTrip(e, offer, n, i, f[i - 1])
  BY <1>3, <1>4 DEF SafeTrip
<1>6. msgs = [i \in 1..n |-> TripMessage(e, offer, n, i, f[i - 1])]
  BY <1>3, <1>4 DEF TripMessage, Message
<1> QED BY <1>1, <1>4, <1>5, <1>6 DEF IsLegPlan

(* One trip of a leg, at pools of which its own stands at these reserves.  *)
LEMMA TripOfLegCarries ==
  ASSUME NEW e \in Edges, NEW x \in Nat \ {0}, NEW r \in Sides, NEW t \in Snapshots,
         LegIsSafe(e, x, r.in, r.out, Ceiling),
         NEW m, m = Message(e, x, LegParams(e, x, r.in, r.out)),
         NEW q, q = WithSides(t, e, r)
  PROVE  /\ m \in Messages /\ m.edge = e /\ IsPriced(m, q)
         /\ PoolStep(q, m) = WithSides(t, e, DepleteStep(e, x, r))
         /\ Gain(m, q) = LegGain(e, x, NetOfTrip(e, x, r))
<1>1. q \in Snapshots /\ IsSnapshot(q) /\ q[e.pool][e.in] = r.in /\ q[e.pool][e.out] = r.out
  BY SidesAreReserves, SnapshotIsElement
<1>2. x \in Int /\ m.edge = e /\ m.offer = x
  BY MessageFields
<1>3. LegIsSafe(e, x, q[e.pool][e.in], q[e.pool][e.out], Ceiling)
  BY <1>1
<1>4. m \in Messages /\ IsPriced(m, q)
  BY <1>1, <1>3, SafeMessage
<1> DEFINE paid == SwapAt(e, x, q).paid
<1>5. paid \in Nat \ {0} /\ r.in \in Nat \ {0} /\ r.out \in Nat \ {0}
  BY <1>1, <1>2, <1>3, SafeLegPays
<1>6. paid = Swap(Taxed(e, x), r.in, r.out, Commission[e.pool]).paid
  BY <1>1 DEF SwapAt
<1>7. Received(e, x, q) = paid - Tax(e.out, paid, "in")
  BY DEF Received
<1> HIDE DEF paid
<1>8. ~(x <= 0 \/ r.in <= 0 \/ r.out <= 0)
  BY <1>5
<1>9. DepleteStep(e, x, r) = [in |-> r.in + x, out |-> r.out - paid]
  BY <1>6, <1>8 DEF DepleteStep
<1>10. NetOfTrip(e, x, r) = Received(e, x, q)
  <2>1. paid - Tax(e.out, paid, "in") \in Int /\ paid - Tax(e.out, paid, "in") >= 0
    <3>1. paid \in Int /\ paid >= 0
      BY <1>5
    <3>2. Delivered(e, paid) \in 0..paid
      BY <3>1, DeliveredPay
    <3> QED BY <3>1, <3>2 DEF Delivered
  <2>2. Larger(0, paid - Tax(e.out, paid, "in")) = paid - Tax(e.out, paid, "in")
    BY <2>1 DEF Larger
  <2> QED BY <1>6, <1>7, <1>8, <2>2 DEF NetOfTrip
<1>11. PoolStep(q, m) = Pays(q, e, x, paid)
  BY <1>2 DEF PoolStep, paid
<1>12. Pays(q, e, x, paid) = WithSides(t, e, [in |-> r.in + x, out |-> r.out - paid])
  BY <1>2, <1>5, SidesAfterPaying
<1>13. Gain(m, q) = LegGain(e, x, Received(e, x, q))
  BY <1>2, GainIsLegGain
<1> QED BY <1>2, <1>4, <1>9, <1>10, <1>11, <1>12, <1>13

LEMMA LegCarries ==
  ASSUME NEW c, IsCycle(c), NEW k \in 1..Len(c), NEW offer \in Nat \ {0}, NEW gas \in Nat,
         NEW maxTrips \in Nat \ {0}, NEW s \in Snapshots, NEW t \in Snapshots,
         t[c[k].pool] = s[c[k].pool],
         NEW msgs, msgs = PlanLeg(c[k], offer, gas, maxTrips, s, Ceiling), msgs # NoParams
  PROVE  \E v \in Snapshots : /\ Carry(msgs, c, t, v, LegGain(c[k], offer, Received(c[k], offer, s)))
                              /\ OnlyPool(c[k].pool, t, v)
<1> DEFINE e == c[k]
<1>1. e \in Edges /\ e.pool \in Pools /\ t[e.pool] = s[e.pool]
  BY Legs, Hop DEF IsCycle
<1>2. msgs = PlanLeg(e, offer, gas, maxTrips, s, Ceiling)
  OBVIOUS
<1>3. \E j \in 1..Len(c) : e = c[j]
  OBVIOUS
<1> HIDE DEF e
<1>4. PICK n \in Nat \ {0} : \E f, h : IsLegPlan(msgs, f, h, e, offer, n, s)
  BY <1>1, <1>2, PlannedLeg
<1>5. PICK f, h : IsLegPlan(msgs, f, h, e, offer, n, s)
  BY <1>4
<1>6. /\ IsSplit(f, h, e, offer, n, s)
      /\ h[n] >= Received(e, offer, s)
      /\ \A i \in 1..n : SafeTrip(e, offer, n, i, f[i - 1])
      /\ msgs = [i \in 1..n |-> TripMessage(e, offer, n, i, f[i - 1])]
  BY <1>5 DEF IsLegPlan
<1> DEFINE g == [i \in 0..n |-> WithSides(t, e, f[i])]
           d == [i \in 0..n |-> LegGain(e, Offered(offer, n, i), h[i])]
<1>7. /\ f \in [0..n -> Sides] /\ f[0] = SidesOf(e, s)
      /\ \A i \in 1..n : f[i] = DepleteStep(e, TripOf(offer, n, i), f[i - 1])
      /\ h \in [0..n -> Int] /\ h[0] = 0
      /\ \A i \in 1..n : h[i] = h[i - 1] + NetOfTrip(e, TripOf(offer, n, i), f[i - 1])
  BY <1>6 DEF IsSplit, Depletes
<1>8. 0 \in 0..n /\ n \in 0..n /\ (\A i \in 1..n : i \in 0..n /\ i - 1 \in 0..n)
      /\ \A i \in 0..n : i # 0 => i \in 1..n
  OBVIOUS
<1>9. /\ \A i \in 0..n : Offered(offer, n, i) \in Int
      /\ \A i \in 1..n : Offered(offer, n, i) = Offered(offer, n, i - 1) + TripOf(offer, n, i)
      /\ Offered(offer, n, 0) = 0
      /\ Offered(offer, n, n) = offer
      /\ \A i \in 1..n : TripOf(offer, n, i) \in Int
  <2>1. offer \in Nat /\ offer \in Int
    OBVIOUS
  <2>2. \A i : TripOf(offer, n, i) \in Int
    BY <2>1, TripsAreNumbers
  <2> QED BY <2>1, <2>2, TripsAddUp
<1>10. \A i \in 0..n : g[i] = WithSides(t, e, f[i]) /\ d[i] = LegGain(e, Offered(offer, n, i), h[i])
  OBVIOUS
<1>11. g \in [0..n -> Snapshots] /\ d \in [0..n -> Gains]
  <2>1. \A i \in 0..n : WithSides(t, e, f[i]) \in Snapshots
    BY <1>1, <1>7, SidesAreReserves
  <2>2. \A i \in 0..n : LegGain(e, Offered(offer, n, i), h[i]) \in Gains
    BY <1>1, <1>7, <1>9, LegGainsAdd
  <2> QED BY <2>1, <2>2
<1> HIDE DEF g, d
<1>12. ASSUME NEW i \in 1..n
       PROVE  /\ msgs[i] \in Messages /\ msgs[i].edge = e
              /\ IsPriced(msgs[i], g[i - 1])
              /\ PoolStep(g[i - 1], msgs[i]) = g[i]
              /\ d[i] = Sum(d[i - 1], Gain(msgs[i], g[i - 1]))
  <2> DEFINE x == TripOf(offer, n, i)
             r == f[i - 1]
             m == msgs[i]
             q == g[i - 1]
  <2>1. i \in 0..n /\ i - 1 \in 0..n
    BY <1>8
  <2>2. x \in Nat \ {0} /\ LegIsSafe(e, x, r.in, r.out, Ceiling)
    <3>1. SafeTrip(e, offer, n, i, f[i - 1])
      BY <1>6
    <3>2. x \in Int
      BY <1>9
    <3> QED BY <3>1, <3>2 DEF SafeTrip
  <2>3. m = Message(e, x, LegParams(e, x, r.in, r.out))
    BY <1>6 DEF TripMessage
  <2>4. q = WithSides(t, e, r) /\ r \in Sides
    BY <1>7, <1>10, <2>1
  <2>5. f[i] = DepleteStep(e, x, r) /\ h[i] = h[i - 1] + NetOfTrip(e, x, r)
        /\ Offered(offer, n, i) = Offered(offer, n, i - 1) + x
    BY <1>7, <1>9
  <2> HIDE DEF x, r, m, q
  <2>6. /\ m \in Messages /\ m.edge = e /\ IsPriced(m, q)
        /\ PoolStep(q, m) = WithSides(t, e, DepleteStep(e, x, r))
        /\ Gain(m, q) = LegGain(e, x, NetOfTrip(e, x, r))
    BY <1>1, <2>2, <2>3, <2>4, TripOfLegCarries
  <2>7. PoolStep(q, m) = g[i]
    BY <1>10, <2>1, <2>5, <2>6
  <2>8. d[i] = Sum(d[i - 1], Gain(m, q))
    <3>1. NetOfTrip(e, x, r) \in Int /\ x \in Int
      BY <1>1, <2>2, <2>4, NetIsNumber
    <3>2. Offered(offer, n, i - 1) \in Int /\ h[i - 1] \in Int
      BY <1>7, <1>9, <2>1
    <3>3. d[i] = LegGain(e, Offered(offer, n, i - 1) + x, h[i - 1] + NetOfTrip(e, x, r))
      BY <1>10, <2>1, <2>5
    <3>4. d[i - 1] = LegGain(e, Offered(offer, n, i - 1), h[i - 1])
      BY <1>10, <2>1
    <3> DEFINE y == NetOfTrip(e, x, r)
               a == Offered(offer, n, i - 1)
               b == h[i - 1]
    <3>5. LegGain(e, a + x, b + y) = Sum(LegGain(e, a, b), LegGain(e, x, y))
      <4> HIDE DEF a, b, y
      <4>1. a \in Int /\ b \in Int /\ x \in Int /\ y \in Int
        BY <3>1, <3>2 DEF a, b, y
      <4> QED BY <1>1, <4>1, LegGainsAdd
    <3> QED BY <2>6, <3>3, <3>4, <3>5
  <2> QED BY <2>6, <2>7, <2>8 DEF m, q
<1>13. msgs \in Seq(Messages) /\ Len(msgs) = n
  <2>1. msgs = [i \in 1..n |-> msgs[i]]
    BY <1>6
  <2>2. \A i \in 1..n : msgs[i] \in Messages
    BY <1>12
  <2> QED BY SMTT(30), <2>1, <2>2
<1>14. g[0] = t
  BY <1>1, <1>7, <1>8, <1>10, SameSides
<1>15. Trail(g, msgs, t)
  BY <1>11, <1>12, <1>13, <1>14 DEF Trail
<1>16. AllPriced(g, msgs)
  BY <1>12, <1>13 DEF AllPriced
<1>17. Tally(d, g, msgs)
  <2>1. d[0] = Nothing
    <3>1. d[0] = LegGain(e, Offered(offer, n, 0), h[0])
      BY <1>8, <1>10
    <3>2. Offered(offer, n, 0) \in Int /\ h[0] \in Int
      BY <1>7, <1>8, <1>9
    <3>3. Offered(offer, n, 0) <= 0 /\ Offered(offer, n, 0) >= 0 /\ h[0] <= 0 /\ h[0] >= 0
      BY <1>7, <1>9
    <3> QED BY <1>1, <3>1, <3>2, <3>3, LegGainsAdd
  <2> QED BY <1>11, <1>12, <1>13, <2>1 DEF Tally
<1>18. /\ AtLeast(d[n], LegGain(e, offer, Received(e, offer, s)))
       /\ LegGain(e, offer, Received(e, offer, s)) \in Gains
  <2>1. d[n] = LegGain(e, offer, h[n])
    BY <1>8, <1>9, <1>10
  <2>2. h[n] \in Int /\ offer \in Int /\ Received(e, offer, s) \in Int
    BY <1>1, <1>7, <1>8, SnapshotIsElement, ReceivedPay
  <2> DEFINE y == h[n]
             z == Received(e, offer, s)
  <2>3. y \in Int /\ z \in Int /\ y >= z
    BY <1>6, <2>2
  <2> HIDE DEF y, z
  <2>4. AtLeast(LegGain(e, offer, y), LegGain(e, offer, z)) /\ LegGain(e, offer, z) \in Gains
    BY <1>1, <2>2, <2>3, LegGainsAdd
  <2> QED BY <2>1, <2>4 DEF y, z
<1>19. OnCycle(msgs, c)
  BY <1>3, <1>12, <1>13 DEF OnCycle
<1>20. Carry(msgs, c, t, g[n], LegGain(e, offer, Received(e, offer, s)))
  BY <1>13, <1>15, <1>16, <1>17, <1>18, <1>19 DEF Carry
<1>21. g[n] \in Snapshots /\ OnlyPool(e.pool, t, g[n])
  <2>1. g[n] = WithSides(t, e, f[n]) /\ f[n] \in Sides
    BY <1>7, <1>8, <1>10
  <2> QED BY <1>1, <2>1, SidesAreReserves DEF OnlyPool
<1> QED BY <1>20, <1>21 DEF e

-----------------------------------------------------------------------------
(* A cycle whose legs are split *)

LEMMA GasIsNumber ==
  ASSUME NEW a, NEW gas \in Nat, NEW s \in Snapshots
  PROVE  GasInAsset(a, gas, s) \in Nat
<1> DEFINE p == Price(a, s)
           q == Price(LUNC, s)
<1>1. p \in Nat /\ q \in Nat
  BY SnapshotIsElement, PriceIsNumber
<1>2. GasInAsset(a, gas, s) = IF a = LUNC THEN gas ELSE IF p > 0 THEN (gas * q) \div p ELSE 0
  BY DEF GasInAsset
<1> HIDE DEF p, q
<1>3. ASSUME p > 0 PROVE (gas * q) \div p \in Nat
  <2> DEFINE y == gas * q
  <2>1. y \in Int /\ y >= 0 /\ p \in Nat \ {0}
    BY <1>1, <1>3
  <2> HIDE DEF y
  <2>2. y \div p \in Nat
    BY <2>1, Division
  <2> QED BY <2>2 DEF y
<1> QED BY <1>2, <1>3

(* What flows out of a round of safe legs. *)
LEMMA SafeRoundReturns ==
  ASSUME NEW c, IsCycle(c), NEW amount \in Nat \ {0}, NEW s \in Snapshots,
         NEW offers, offers = LegOffers(c, amount, s), \A i \in 1..Len(c) : offers[i] > 0,
         ExecutionParams(c, offers, s, Ceiling) # NoParams
  PROVE  Flow(c, amount, s)[Len(c)] >= 0
<1> DEFINE n == Len(c)
           flow == Flow(c, amount, s)
<1>1. /\ c \in Seq(Edges) /\ n \in Nat /\ n >= 2 /\ DOMAIN c = 1..n /\ IsSnapshot(s)
      /\ \A i \in 1..n : c[i] \in Edges
  BY Legs, SnapshotIsElement DEF IsCycle
<1>2. /\ flow \in [0..n -> Int]
      /\ \A i \in 1..n : offers[i] = flow[i - 1] /\ flow[i] = Received(c[i], flow[i - 1], s)
  BY FlowIsRound DEF IsRound
<1>3. offers \in [DOMAIN c -> Int]
  BY <1>1, OffersAreNumbers
<1> DEFINE e == c[n]
           x == offers[n]
<1>4. n \in 1..n /\ n \in DOMAIN c /\ e \in Edges /\ x \in Int /\ x > 0
  BY <1>1, <1>3
<1>5. LegIsSafe(e, x, s[e.pool][e.in], s[e.pool][e.out], Ceiling)
  BY <1>1, <1>3, <1>4, LegsAreSafe
<1> DEFINE paid == SwapAt(e, x, s).paid
<1>6. flow[n] = Received(e, x, s)
  BY <1>2, <1>4
<1> HIDE DEF flow, e, x
<1>7. paid \in Nat \ {0} /\ Received(e, x, s) = Delivered(e, paid)
  BY <1>1, <1>4, <1>5, SafeLegPays, ReceivedPay
<1> HIDE DEF paid
<1>8. Delivered(e, paid) \in 0..paid
  BY <1>4, <1>7, DeliveredPay
<1>9. Delivered(e, paid) >= 0
  BY <1>7, <1>8
<1> QED BY <1>6, <1>7, <1>9 DEF flow

PlanStep(c, offers, gas, maxTrips, s, sofar, i) ==
  LET leg == PlanLeg(c[i], offers[i], GasInAsset(c[i].in, gas, s), maxTrips, s, Ceiling)
  IN  IF offers[i] <= 0 THEN sofar
      ELSE IF sofar = NoParams \/ leg = NoParams THEN NoParams
      ELSE sofar \o leg

IsPlanning(f, c, offers, gas, maxTrips, s) ==
  f = [i \in 0..Len(c) |->
        IF i = 0 THEN <<>>
        ELSE LET sofar == f[i - 1]
                 leg   == PlanLeg(c[i], offers[i], GasInAsset(c[i].in, gas, s), maxTrips, s, Ceiling)
             IN  IF offers[i] <= 0 THEN sofar
                 ELSE IF sofar = NoParams \/ leg = NoParams THEN NoParams
                 ELSE sofar \o leg]

Plans(f, c, offers, gas, maxTrips, s) ==
  /\ f[0] = <<>>
  /\ \A i \in 1..Len(c) : f[i] = PlanStep(c, offers, gas, maxTrips, s, f[i - 1], i)

Plannable == Seq(Messages) \cup {NoParams}

LEMMA PlanStepStays ==
  ASSUME NEW c, IsCycle(c), NEW offers \in [1..Len(c) -> Nat \ {0}], NEW gas \in Nat,
         NEW maxTrips \in Nat \ {0}, NEW s \in Snapshots, NEW sofar \in Plannable, NEW i \in 1..Len(c)
  PROVE  PlanStep(c, offers, gas, maxTrips, s, sofar, i) \in Plannable
<1> DEFINE leg == PlanLeg(c[i], offers[i], GasInAsset(c[i].in, gas, s), maxTrips, s, Ceiling)
<1>1. offers[i] \in Nat \ {0} /\ ~(offers[i] <= 0)
  OBVIOUS
<1>2. ASSUME leg # NoParams PROVE leg \in Seq(Messages)
  <2>1. GasInAsset(c[i].in, gas, s) \in Nat
    BY GasIsNumber
  <2>2. \E v \in Snapshots : /\ Carry(leg, c, s, v, LegGain(c[i], offers[i], Received(c[i], offers[i], s)))
                             /\ OnlyPool(c[i].pool, s, v)
    BY <1>1, <1>2, <2>1, LegCarries
  <2> QED BY <2>2 DEF Carry, OnCycle
<1>3. PlanStep(c, offers, gas, maxTrips, s, sofar, i)
        = IF sofar = NoParams \/ leg = NoParams THEN NoParams ELSE sofar \o leg
  BY <1>1 DEF PlanStep
<1> HIDE DEF leg
<1>4. CASE sofar = NoParams \/ leg = NoParams
  BY <1>3, <1>4 DEF Plannable
<1>5. CASE ~(sofar = NoParams \/ leg = NoParams)
  <2>1. sofar \in Seq(Messages) /\ leg \in Seq(Messages)
    BY <1>2, <1>5 DEF Plannable
  <2>2. sofar \o leg \in Seq(Messages)
    BY <2>1
  <2> QED BY <1>3, <1>5, <2>2 DEF Plannable
<1> QED BY <1>4, <1>5

LEMMA PlanUnfolds ==
  ASSUME NEW c, IsCycle(c), NEW offers \in [1..Len(c) -> Nat \ {0}], NEW gas \in Nat,
         NEW maxTrips \in Nat \ {0}, NEW s \in Snapshots,
         NEW msgs, msgs = PlanCycle(c, offers, gas, maxTrips, s, Ceiling), msgs # NoParams
  PROVE  \E f : Plans(f, c, offers, gas, maxTrips, s) /\ msgs = f[Len(c)]
<1> DEFINE n == Len(c)
           Step(x, i) == PlanStep(c, offers, gas, maxTrips, s, x, i)
           G == [u \in (1..n) \X Plannable |-> Step(u[2], u[1])]
           g == CHOOSE h : IsPlanning(h, c, offers, gas, maxTrips, s)
<1>1. n \in Nat /\ <<>> \in Plannable
  BY Legs DEF Plannable, IsCycle
<1>2. \A i \in 1..n, x \in Plannable : Step(x, i) \in Plannable
  BY PlanStepStays
<1>3. msgs = g[n]
  BY Zenon DEF PlanCycle, IsPlanning
<1> HIDE DEF n, Step
<1>4. \A h : IsPlanning(h, c, offers, gas, maxTrips, s)
              <=> h = [i \in 0..n |-> IF i = 0 THEN <<>> ELSE Step(h[i - 1], i)]
  BY Zenon DEF IsPlanning, PlanStep, Step, n
<1>5. G \in [(1..n) \X Plannable -> Plannable]
  BY <1>2
<1>6. \A i \in 1..n, x \in Plannable : G[<<i, x>>] = Step(x, i)
  OBVIOUS
<1> HIDE DEF G
<1>7. PICK f \in [0..n -> Plannable] : Iterates(f, n, <<>>, G)
  BY <1>1, <1>5, StepByStep
<1>8. \A i \in 0..n : i # 0 => i \in 1..n /\ f[i - 1] \in Plannable
  BY <1>1
<1>9. f = [i \in 0..n |-> IF i = 0 THEN <<>> ELSE Step(f[i - 1], i)]
  BY <1>6, <1>7, <1>8 DEF Iterates
<1>10. IsPlanning(g, c, offers, gas, maxTrips, s)
  BY <1>4, <1>9
<1> HIDE DEF g
<1>11. g = [i \in 0..n |-> IF i = 0 THEN <<>> ELSE Step(g[i - 1], i)]
  BY <1>4, <1>10
<1>12. g[0] = <<>> /\ \A i \in 1..n : g[i] = Step(g[i - 1], i)
  <2>1. 0 \in 0..n /\ \A i \in 1..n : i \in 0..n /\ i # 0
    BY <1>1
  <2> QED BY <1>11, <2>1
<1>13. Plans(g, c, offers, gas, maxTrips, s)
  BY <1>12 DEF Plans, Step, n
<1> QED BY <1>3, <1>13 DEF n

(* However its legs are split, the plan carries home what the cycle was    *)
(* sized for.                                                              *)
LEMMA PlanCarries ==
  ASSUME NEW c, IsCycle(c), NEW amount \in Nat \ {0}, NEW s \in Snapshots,
         NEW offers, offers = LegOffers(c, amount, s), \A i \in 1..Len(c) : offers[i] > 0,
         Flow(c, amount, s)[Len(c)] >= 0, NEW gas \in Nat, NEW maxTrips \in Nat \ {0},
         NEW msgs, msgs = PlanCycle(c, offers, gas, maxTrips, s, Ceiling), msgs # NoParams
  PROVE  \E t : Carry(msgs, c, s, t, StartGain(c, Profit(c, amount, s)))
<1> DEFINE n == Len(c)
           flow == Flow(c, amount, s)
<1>1. /\ c \in Seq(Edges) /\ n \in Nat /\ n >= 2 /\ DOMAIN c = 1..n /\ IsSnapshot(s)
      /\ \A i \in 1..n : c[i] \in Edges /\ c[i].pool \in Pools
      /\ \A i, j \in 1..n : i # j => c[i].pool # c[j].pool
  BY Legs, Hop, SnapshotIsElement DEF IsCycle
<1>2. /\ flow \in [0..n -> Int] /\ flow[0] = amount
      /\ \A i \in 1..n : offers[i] = flow[i - 1] /\ flow[i - 1] > 0
      /\ \A i \in 1..n : flow[i] = Received(c[i], flow[i - 1], s)
  BY SMTT(30), FlowIsRound DEF IsRound
<1>3. offers \in [1..n -> Nat \ {0}]
  <2>1. offers \in [DOMAIN c -> Int]
    BY <1>1, OffersAreNumbers
  <2> QED BY <1>1, <2>1
<1>4. PICK f : Plans(f, c, offers, gas, maxTrips, s) /\ msgs = f[n]
  BY <1>3, PlanUnfolds
<1>5. f[0] = <<>> /\ \A i \in 1..n : f[i] = PlanStep(c, offers, gas, maxTrips, s, f[i - 1], i)
  BY <1>4 DEF Plans
<1> DEFINE Reaches(i, t) == /\ Carry(f[i], c, s, t, RoundGain(c, flow, i))
                            /\ \A k \in 1..n : k > i => t[c[k].pool] = s[c[k].pool]
           D == {i \in 0..n : f[i] # NoParams => \E t \in Snapshots : Reaches(i, t)}
<1>6. flow \in [0..Len(c) -> Int]
  BY <1>2
<1>7. /\ RoundGain(c, flow, 0) = Nothing
      /\ RoundGain(c, flow, n) = StartGain(c, flow[n] - flow[0])
      /\ \A i \in 1..n : /\ RoundGain(c, flow, i) \in Gains
                         /\ RoundGain(c, flow, i)
                              = Sum(RoundGain(c, flow, i - 1), LegGain(c[i], flow[i - 1], flow[i]))
  <2>1. RoundGain(c, flow, 0) = Nothing /\ RoundGain(c, flow, n) = StartGain(c, flow[n] - flow[0])
    BY <1>6, RoundStartsAndEnds
  <2>2. ASSUME NEW i \in 1..n
        PROVE  /\ RoundGain(c, flow, i) \in Gains
               /\ RoundGain(c, flow, i)
                    = Sum(RoundGain(c, flow, i - 1), LegGain(c[i], flow[i - 1], flow[i]))
    <3>1. i \in 1..Len(c)
      OBVIOUS
    <3> HIDE DEF flow, n
    <3> QED BY <1>6, <3>1, RoundAdvances
  <2> QED BY <2>1, <2>2
<1> HIDE DEF flow
<1>8. 0 \in D
  <2>1. Reaches(0, s)
    BY <1>5, <1>7, NothingCarries
  <2> QED BY <1>1, <2>1
<1>9. ASSUME NEW i \in 1..n, i - 1 \in D PROVE i \in D
  <2> DEFINE leg == PlanLeg(c[i], offers[i], GasInAsset(c[i].in, gas, s), maxTrips, s, Ceiling)
  <2>1. i \in 0..n /\ i - 1 \in 0..n /\ i > i - 1
    BY <1>1
  <2>2. SUFFICES ASSUME f[i] # NoParams PROVE \E t \in Snapshots : Reaches(i, t)
    BY <2>1
  <2>3. offers[i] \in Nat \ {0} /\ ~(offers[i] <= 0) /\ offers[i] = flow[i - 1]
        /\ flow[i] = Received(c[i], offers[i], s)
    BY SMTT(30), <1>2, <1>3
  <2>4. f[i] = IF f[i - 1] = NoParams \/ leg = NoParams THEN NoParams ELSE f[i - 1] \o leg
    BY <1>5, <2>3 DEF PlanStep
  <2>5. f[i - 1] # NoParams /\ leg # NoParams /\ f[i] = f[i - 1] \o leg
    BY <2>2, <2>4
  <2>6. PICK t \in Snapshots : Reaches(i - 1, t)
    BY <1>9, <2>5
  <2>7. t[c[i].pool] = s[c[i].pool]
    BY <2>1, <2>6
  <2>8. GasInAsset(c[i].in, gas, s) \in Nat
    BY GasIsNumber
  <2>9. i \in 1..Len(c)
    OBVIOUS
  <2>10. PICK v \in Snapshots : /\ Carry(leg, c, t, v, LegGain(c[i], offers[i], Received(c[i], offers[i], s)))
                                /\ OnlyPool(c[i].pool, t, v)
    BY <2>3, <2>5, <2>7, <2>8, <2>9, LegCarries
  <2> HIDE DEF leg
  <2>11. Carry(f[i - 1], c, s, t, RoundGain(c, flow, i - 1))
    BY <2>6
  <2>12. Carry(leg, c, t, v, LegGain(c[i], flow[i - 1], flow[i]))
    BY <2>3, <2>10
  <2>13. Carry(f[i], c, s, v, RoundGain(c, flow, i))
    <3>1. Carry(f[i - 1] \o leg, c, s, v, Sum(RoundGain(c, flow, i - 1), LegGain(c[i], flow[i - 1], flow[i])))
      BY <2>11, <2>12, ListsJoin
    <3> QED BY <1>7, <2>5, <3>1
  <2>14. ASSUME NEW k \in 1..n, k > i PROVE v[c[k].pool] = s[c[k].pool]
    <3>1. c[k].pool \in Pools \ {c[i].pool} /\ k > i - 1
      BY <1>1, <2>1, <2>14
    <3>2. t[c[k].pool] = s[c[k].pool]
      BY <2>6, <3>1
    <3> QED BY <2>10, <3>1, <3>2 DEF OnlyPool
  <2>15. Reaches(i, v)
    BY <2>13, <2>14
  <2> QED BY <2>15
<1>10. \A i \in 0..n : i \in D
  <2> HIDE DEF D
  <2> QED BY <1>1, <1>8, <1>9, UpTo
<1>11. PICK t \in Snapshots : Carry(f[n], c, s, t, RoundGain(c, flow, n))
  <2>1. n \in 0..n /\ f[n] # NoParams
    BY <1>1, <1>4
  <2> QED BY <1>10, <2>1
<1>12. /\ flow[n] - flow[0] \in Int /\ Profit(c, amount, s) \in Int
       /\ flow[n] - flow[0] >= Profit(c, amount, s)
  <2>1. Flow(c, amount, s)[Len(c)] >= 0
    OBVIOUS
  <2>2. /\ Profit(c, amount, s) <= Flow(c, amount, s)[Len(c)] - amount
        /\ Profit(c, amount, s) \in Int /\ Flow(c, amount, s)[Len(c)] \in Int
    BY <1>1, <2>1, GrossIsCarried
  <2> QED BY <1>2, <2>2 DEF flow
<1>13. /\ StartGain(c, Profit(c, amount, s)) \in Gains
       /\ AtLeast(StartGain(c, flow[n] - flow[0]), StartGain(c, Profit(c, amount, s)))
  BY <1>6, <1>12, RoundStartsAndEnds
<1>14. Carry(msgs, c, s, t, StartGain(c, flow[n] - flow[0]))
  BY <1>4, <1>7, <1>11
<1>15. Carry(msgs, c, s, t, StartGain(c, Profit(c, amount, s)))
  BY <1>13, <1>14, LessIsCarried
<1> QED BY <1>15

-----------------------------------------------------------------------------
(* One trip after the other *)

(* A size that gains something sends something through every leg.          *)
LEMMA GainOffers ==
  ASSUME NEW c, IsCycle(c), NEW amount \in Nat \ {0}, NEW s \in Snapshots,
         Profit(c, amount, s) > 0
  PROVE  \A i \in 1..Len(c) : LegOffers(c, amount, s)[i] > 0
<1> DEFINE n == Len(c)
           flow == Flow(c, amount, s)
<1>1. /\ c \in Seq(Edges) /\ n \in Nat /\ n >= 2 /\ DOMAIN c = 1..n /\ IsSnapshot(s)
      /\ amount \in Int
  BY Legs, SnapshotIsElement DEF IsCycle
<1>2. /\ flow \in [0..n -> Int] /\ flow[0] = amount
      /\ \A i \in 1..n : flow[i] = FlowStep(c, s, flow[i - 1], i)
  BY <1>1, FlowUnfolds
<1>3. \A i \in 1..n : LegOffers(c, amount, s)[i] = flow[i - 1]
  BY <1>1, OffersAreNumbers
<1>4. Profit(c, amount, s) = Buffered(flow[n]) - amount
  BY DEF Profit, SimulateCycle
<1> HIDE DEF flow, n
<1>5. ASSUME NEW i \in 1..n, ~(flow[i - 1] > 0) PROVE FALSE
  <2> DEFINE D == {j \in 0..n : j >= i - 1 => flow[j] <= 0}
  <2>1. i - 1 \in 0..n /\ flow[i - 1] \in Int /\ flow[i - 1] <= 0
    <3>1. i - 1 \in 0..n
      BY <1>1
    <3>2. flow[i - 1] \in Int
      BY <1>2, <3>1
    <3> QED BY <1>5, <3>1, <3>2
  <2>2. 0 \in D
    BY <1>1, <2>1
  <2>3. ASSUME NEW j \in 1..n, j - 1 \in D PROVE j \in D
    <3>1. j \in 0..n /\ j - 1 \in 0..n
      BY <1>1
    <3>2. CASE j = i - 1
      BY <2>1, <3>1, <3>2
    <3>3. CASE j >= i - 1 /\ j # i - 1
      <4>1. j - 1 >= i - 1
        BY <3>3
      <4>2. flow[j - 1] <= 0
        BY <2>3, <4>1
      <4>3. flow[j] = 0
        BY <1>2, <4>2 DEF FlowStep
      <4> QED BY <3>1, <4>3
    <3>4. CASE ~(j >= i - 1)
      BY <3>1, <3>4
    <3> QED BY <3>2, <3>3, <3>4
  <2>4. \A j \in 0..n : j \in D
    <3> HIDE DEF D
    <3> QED BY <1>1, <2>2, <2>3, UpTo
  <2>5. flow[n] \in Int /\ flow[n] <= 0
    <3>1. n \in 0..n /\ n >= i - 1
      BY <1>1
    <3> QED BY <1>2, <2>4, <3>1
  <2> DEFINE x == flow[n]
             y == Unit - Buffer
             z == x * y
  <2>6. y \in Nat /\ Unit \in Nat \ {0}
    BY UnitAssumption, DecisionAssumption
  <2>7. z \in Int /\ z <= 0
    <3> HIDE DEF x, y
    <3>1. x * y <= 0 * y
      BY <2>5, <2>6, Monotone DEF x
    <3> QED BY <2>5, <2>6, <3>1 DEF x
  <2>8. Buffered(flow[n]) = z \div Unit
    BY DEF Buffered
  <2> HIDE DEF x, y, z
  <2>9. z \div Unit \in Int /\ (z \div Unit) * Unit <= 0 * Unit
    BY <2>6, <2>7, Division
  <2>10. z \div Unit <= 0
    BY <2>6, <2>9, Cancels
  <2> QED BY <1>4, <2>8, <2>9, <2>10
<1>6. \A i \in 1..n : flow[i - 1] > 0
  BY <1>5
<1> QED BY <1>3, <1>6 DEF n

Trip == [amount : Nat \ {0}, gross : Int, msgs : Seq(Messages)]

(* Each trip meets the pools the one before it leaves. *)
Stations(T, c, trips, s) ==
  /\ T \in [0..Len(trips) -> Snapshots]
  /\ T[0] = s
  /\ \A j \in 1..Len(trips) :
       Carry(trips[j].msgs, c, T[j - 1], T[j], StartGain(c, trips[j].gross))

Chained(c, trips, s, t) == \E T : Stations(T, c, trips, s) /\ T[Len(trips)] = t

Repeats(c, s) ==
  {r \in [trips : Seq(Trip), states : Snapshots, left : Nat, done : BOOLEAN] :
     Chained(c, r.trips, s, r.states)}

LEMMA ChainGrows ==
  ASSUME NEW c, NEW trips \in Seq(Trip), NEW s, NEW t, Chained(c, trips, s, t),
         NEW x \in Trip, NEW u \in Snapshots,
         Carry(x.msgs, c, t, u, StartGain(c, x.gross))
  PROVE  Append(trips, x) \in Seq(Trip) /\ Chained(c, Append(trips, x), s, u)
<1> DEFINE n == Len(trips)
           more == Append(trips, x)
<1>1. PICK T : Stations(T, c, trips, s) /\ T[n] = t
  BY DEF Chained
<1>2. /\ T \in [0..n -> Snapshots] /\ T[0] = s
      /\ \A j \in 1..n : Carry(trips[j].msgs, c, T[j - 1], T[j], StartGain(c, trips[j].gross))
  BY <1>1 DEF Stations
<1>3. /\ n \in Nat /\ more \in Seq(Trip) /\ Len(more) = n + 1 /\ more[n + 1] = x
      /\ \A j \in 1..n : more[j] = trips[j]
  OBVIOUS
<1> DEFINE V == [j \in 0..(n + 1) |-> IF j = n + 1 THEN u ELSE T[j]]
<1>4. V[n + 1] = u /\ \A j \in 0..n : V[j] = T[j]
  BY <1>3
<1>5. V \in [0..(n + 1) -> Snapshots]
  BY <1>2, <1>3
<1> HIDE DEF V, more, n
<1>6. ASSUME NEW j \in 1..(n + 1)
      PROVE  Carry(more[j].msgs, c, V[j - 1], V[j], StartGain(c, more[j].gross))
  <2>1. CASE j = n + 1
    <3>1. j - 1 = n /\ n \in 0..n
      BY <1>3, <2>1
    <3>2. V[j - 1] = t /\ V[j] = u /\ more[j] = x
      BY <1>1, <1>3, <1>4, <2>1, <3>1
    <3> QED BY <3>2
  <2>2. CASE j # n + 1
    <3>1. j \in 1..n /\ j \in 0..n /\ j - 1 \in 0..n
      BY <1>3, <2>2
    <3>2. V[j - 1] = T[j - 1] /\ V[j] = T[j] /\ more[j] = trips[j]
      BY <1>3, <1>4, <3>1
    <3> QED BY <1>2, <3>1, <3>2
  <2> QED BY <2>1, <2>2
<1>7. V[0] = s
  BY <1>2, <1>3, <1>4
<1>8. Stations(V, c, more, s) /\ V[Len(more)] = u
  BY <1>3, <1>4, <1>5, <1>6, <1>7 DEF Stations
<1> QED BY <1>3, <1>8 DEF Chained, more

RepeatStep(c, luncP, price, gas, r) ==
  IF r.done THEN r
  ELSE Extended(c, r, EvaluateCycle(c, r.states, luncP, r.left, price), gas)

LEMMA RepeatStepStays ==
  ASSUME NEW c, IsCycle(c), NEW s \in Snapshots, NEW luncP, NEW price \in Nat, NEW gas \in Nat,
         NEW r \in Repeats(c, s)
  PROVE  RepeatStep(c, luncP, price, gas, r) \in Repeats(c, s)
<1> DEFINE e == EvaluateCycle(c, r.states, luncP, r.left, price)
           offers == LegOffers(c, e.amount, r.states)
           params == ExecutionParams(c, offers, r.states, Ceiling)
           new == RepeatStep(c, luncP, price, gas, r)
<1>1. /\ r \in [trips : Seq(Trip), states : Snapshots, left : Nat, done : BOOLEAN]
      /\ Chained(c, r.trips, s, r.states)
  BY DEF Repeats
<1>2. /\ r.trips \in Seq(Trip) /\ r.states \in Snapshots /\ r.left \in Nat /\ r.done \in BOOLEAN
      /\ IsSnapshot(r.states) /\ c \in Seq(Edges)
  BY <1>1, SnapshotIsElement DEF IsCycle
<1>3. e = NoTrade \/ Evaluated(c, e, r.states)
  BY <1>2, CycleIsEvaluated
<1> HIDE DEF e, params, offers
<1>4. CASE r.done
  BY <1>4 DEF RepeatStep
<1>5. CASE ~r.done /\ (e.amount <= 0 \/ e.gross - gas <= 0 \/ params = NoParams)
  <2>1. new = [r EXCEPT !.done = TRUE]
    BY <1>5 DEF RepeatStep, Extended, NextTrip, e, params, offers
  <2> HIDE DEF new
  <2>2. /\ new \in [trips : Seq(Trip), states : Snapshots, left : Nat, done : BOOLEAN]
        /\ new.trips = r.trips /\ new.states = r.states
    BY <1>1, <2>1
  <2> QED BY <1>1, <2>2 DEF Repeats, new
<1>6. CASE ~r.done /\ ~(e.amount <= 0 \/ e.gross - gas <= 0 \/ params = NoParams)
  <2> DEFINE x == [amount |-> e.amount, gross |-> e.gross, msgs |-> CycleMsgs(c, offers, params)]
             u == ApplyTrade(c, e.amount, r.states)
  <2>1. new = [trips |-> Append(r.trips, x), states |-> u,
               left |-> Larger(0, r.left - e.amount), done |-> FALSE]
    BY <1>6 DEF RepeatStep, Extended, NextTrip, TripStates, e, params, offers
  <2>2. e.amount \in Nat \ {0} /\ e.gross = Profit(c, e.amount, r.states)
    <3>1. e # NoTrade
      BY <1>6 DEF NoTrade
    <3> QED BY <1>3, <3>1 DEF Evaluated
  <2>3. e.gross \in Int /\ e.gross > 0
    <3>1. e.gross \in Int
      BY <1>2, <2>2, ProfitIsNumber
    <3> QED BY <1>6, <3>1
  <2>4. \A i \in 1..Len(c) : offers[i] > 0
    BY <1>2, <2>2, <2>3, GainOffers DEF offers
  <2>5. offers = LegOffers(c, e.amount, r.states) /\ params = ExecutionParams(c, offers, r.states, Ceiling)
        /\ params # NoParams
    BY <1>6 DEF offers, params
  <2>6. Carry(CycleMsgs(c, offers, params), c, r.states, u, StartGain(c, Profit(c, e.amount, r.states)))
    BY <1>2, <2>2, <2>4, <2>5, TripCarries
  <2>7. u \in Snapshots /\ CycleMsgs(c, offers, params) \in Seq(Messages)
    <3>1. CycleMsgs(c, offers, params) \in Seq(Messages)
      BY <2>6 DEF Carry, OnCycle
    <3>2. e.amount \in Int
      BY <2>2
    <3>3. PICK f : Applies(f, c, e.amount, r.states) /\ u = f[Len(c)].states
      BY <1>2, <3>2, ApplyUnfolds
    <3>4. f \in [0..Len(c) -> Applied] /\ Len(c) \in 0..Len(c)
      BY <1>2, <3>3, Legs DEF Applies
    <3> QED BY <3>1, <3>3, <3>4 DEF Applied
  <2>8. x \in Trip /\ Carry(x.msgs, c, r.states, u, StartGain(c, x.gross))
    BY <2>2, <2>3, <2>6, <2>7 DEF Trip
  <2>9. Append(r.trips, x) \in Seq(Trip) /\ Chained(c, Append(r.trips, x), s, u)
    BY <1>1, <1>2, <2>7, <2>8, ChainGrows
  <2>10. Larger(0, r.left - e.amount) \in Nat
    BY <1>2, <2>2 DEF Larger
  <2> DEFINE longer == Append(r.trips, x)
             rest == Larger(0, r.left - e.amount)
  <2>11. new = [trips |-> longer, states |-> u, left |-> rest, done |-> FALSE]
    BY <2>1
  <2> HIDE DEF x, u, longer, rest, new
  <2>12. longer \in Seq(Trip) /\ Chained(c, longer, s, u) /\ rest \in Nat /\ u \in Snapshots
    BY <2>7, <2>9, <2>10 DEF longer, rest
  <2>13. /\ new \in [trips : Seq(Trip), states : Snapshots, left : Nat, done : BOOLEAN]
         /\ new.trips = longer /\ new.states = u
    BY <2>11, <2>12
  <2> QED BY <2>12, <2>13 DEF Repeats, new
<1> QED BY <1>2, <1>4, <1>5, <1>6

IsFinding(f, c, s, bal, luncP, price, gas, maxTrips) ==
  f = [n \in 0..maxTrips |->
        IF n = 0 THEN [trips |-> <<>>, states |-> s, left |-> bal, done |-> FALSE]
        ELSE LET r == f[n - 1]
             IN  IF r.done THEN r
                 ELSE Extended(c, r, EvaluateCycle(c, r.states, luncP, r.left, price), gas)]

LEMMA TripsAreChained ==
  ASSUME NEW c, IsCycle(c), NEW s \in Snapshots, NEW bal \in Nat, NEW luncP, NEW price \in Nat,
         NEW gas \in Nat, NEW maxTrips \in Nat
  PROVE  LET trips == RepeatedTrips(c, s, bal, luncP, price, gas, maxTrips) IN
         trips \in Seq(Trip) /\ \E t : Chained(c, trips, s, t)
<1> DEFINE base == [trips |-> <<>>, states |-> s, left |-> bal, done |-> FALSE]
           Step(r) == RepeatStep(c, luncP, price, gas, r)
           S == Repeats(c, s)
           G == [u \in (1..maxTrips) \X S |-> Step(u[2])]
           g == CHOOSE h : IsFinding(h, c, s, bal, luncP, price, gas, maxTrips)
<1>1. base \in S
  <2> DEFINE T == [j \in 0..0 |-> s]
  <2>1. Len(<<>>) = 0 /\ T[0] = s /\ T \in [0..0 -> Snapshots] /\ <<>> \in Seq(Trip) /\ 1..0 = {}
    OBVIOUS
  <2> HIDE DEF T
  <2>2. Stations(T, c, <<>>, s) /\ T[Len(<<>>)] = s
    BY <2>1 DEF Stations
  <2>3. Chained(c, <<>>, s, s)
    BY <2>2 DEF Chained
  <2> QED BY <2>1, <2>3 DEF Repeats
<1>2. \A r \in S : Step(r) \in S
  BY RepeatStepStays
<1> HIDE DEF Step, S
<1>3. G \in [(1..maxTrips) \X S -> S]
  BY <1>2
<1>4. \A i \in 1..maxTrips, r \in S : G[<<i, r>>] = Step(r)
  OBVIOUS
<1> HIDE DEF G, base
<1>5. PICK f \in [0..maxTrips -> S] : Iterates(f, maxTrips, base, G)
  BY <1>1, <1>3, StepByStep
<1>6. \A i \in 0..maxTrips : i # 0 => i \in 1..maxTrips /\ f[i - 1] \in S
  OBVIOUS
<1>7. f = [i \in 0..maxTrips |-> IF i = 0 THEN base ELSE Step(f[i - 1])]
  BY <1>4, <1>5, <1>6 DEF Iterates
<1>8. \A h : IsFinding(h, c, s, bal, luncP, price, gas, maxTrips)
              <=> h = [i \in 0..maxTrips |-> IF i = 0 THEN base ELSE Step(h[i - 1])]
  BY Zenon DEF IsFinding, RepeatStep, Step, base
<1>9. IsFinding(g, c, s, bal, luncP, price, gas, maxTrips)
  BY <1>7, <1>8
<1>10. RepeatedTrips(c, s, bal, luncP, price, gas, maxTrips) = g[maxTrips].trips
  BY Zenon DEF RepeatedTrips, IsFinding
<1> HIDE DEF g
<1>11. g = [i \in 0..maxTrips |-> IF i = 0 THEN base ELSE Step(g[i - 1])]
  BY <1>8, <1>9
<1>12. g[0] = base /\ \A i \in 1..maxTrips : g[i] = Step(g[i - 1])
  <2>1. 0 \in 0..maxTrips /\ \A i \in 1..maxTrips : i \in 0..maxTrips /\ i # 0
    OBVIOUS
  <2> QED BY <1>11, <2>1
<1>13. \A i \in 0..maxTrips : g[i] \in S
  <2>1. \A i \in 1..maxTrips : g[i - 1] \in S => g[i] \in S
    BY <1>2, <1>12
  <2>2. g[0] \in S
    BY <1>1, <1>12
  <2> QED BY <2>1, <2>2, StaysIn
<1>14. g[maxTrips] \in S
  BY <1>13
<1> QED BY <1>10, <1>14 DEF S, Repeats

LEMMA PrefixIsChained ==
  ASSUME NEW c, NEW trips \in Seq(Trip), NEW s, NEW t, Chained(c, trips, s, t),
         NEW n \in 1..Len(trips)
  PROVE  /\ SubSeq(trips, 1, n) \in Seq(Trip) /\ Len(SubSeq(trips, 1, n)) = n
         /\ \E u : Chained(c, SubSeq(trips, 1, n), s, u)
<1> DEFINE m == Len(trips)
           part == SubSeq(trips, 1, n)
<1>1. PICK T : Stations(T, c, trips, s)
  BY DEF Chained
<1>2. /\ T \in [0..m -> Snapshots] /\ T[0] = s
      /\ \A j \in 1..m : Carry(trips[j].msgs, c, T[j - 1], T[j], StartGain(c, trips[j].gross))
  BY <1>1 DEF Stations
<1>3. /\ m \in Nat /\ n \in Nat /\ part \in Seq(Trip) /\ Len(part) = n
      /\ \A j \in 1..n : part[j] = trips[j] /\ j \in 1..m
  OBVIOUS
<1> HIDE DEF part, m
<1> DEFINE V == [j \in 0..n |-> T[j]]
<1>4. (\A j \in 0..n : V[j] = T[j]) /\ V \in [0..n -> Snapshots]
  <2>1. \A j \in 0..n : j \in 0..m
    BY <1>3 DEF m
  <2> QED BY <1>2, <2>1
<1> HIDE DEF V
<1>5. ASSUME NEW j \in 1..n
      PROVE  Carry(part[j].msgs, c, V[j - 1], V[j], StartGain(c, part[j].gross))
  <2>1. j \in 0..n /\ j - 1 \in 0..n /\ j \in 1..m /\ part[j] = trips[j]
    BY <1>3
  <2> QED BY <1>2, <1>4, <2>1
<1>6. V[0] = s
  BY <1>2, <1>3, <1>4
<1>7. Stations(V, c, part, s)
  BY <1>3, <1>4, <1>5, <1>6 DEF Stations
<1> QED BY <1>3, <1>7 DEF Chained, part

IsTotal(f, trips, field) ==
  f = [i \in 0..Len(trips) |-> IF i = 0 THEN 0 ELSE f[i - 1] + trips[i][field]]

(* What the first i trips add up to. *)
Totals(f, trips, field) ==
  /\ f \in [0..Len(trips) -> Int]
  /\ f[0] = 0
  /\ \A i \in 1..Len(trips) : f[i] = f[i - 1] + trips[i][field]

LEMMA TotalUnfolds ==
  ASSUME NEW trips \in Seq(Trip), NEW field, \A i \in 1..Len(trips) : trips[i][field] \in Int
  PROVE  \E f : Totals(f, trips, field) /\ TotalOf(trips, field) = f[Len(trips)]
<1> DEFINE n == Len(trips)
           val(i) == trips[i][field]
           G == [u \in (1..n) \X Int |-> u[2] + val(u[1])]
           g == CHOOSE h : IsTotal(h, trips, field)
<1>1. n \in Nat /\ \A i \in 1..n : val(i) \in Int
  OBVIOUS
<1> HIDE DEF val, n
<1>2. G \in [(1..n) \X Int -> Int]
  BY <1>1
<1>3. \A i \in 1..n, x \in Int : G[<<i, x>>] = x + val(i)
  OBVIOUS
<1> HIDE DEF G
<1>4. PICK k \in [0..n -> Int] : Iterates(k, n, 0, G)
  <2>1. 0 \in Int
    OBVIOUS
  <2> QED BY <1>1, <1>2, <2>1, StepByStep
<1>5. \A i \in 0..n : i # 0 => i \in 1..n /\ k[i - 1] \in Int
  BY <1>1
<1>6. k = [i \in 0..n |-> IF i = 0 THEN 0 ELSE k[i - 1] + val(i)]
  BY <1>3, <1>4, <1>5 DEF Iterates
<1>7. \A h : IsTotal(h, trips, field)
              <=> h = [i \in 0..n |-> IF i = 0 THEN 0 ELSE h[i - 1] + val(i)]
  BY Zenon DEF IsTotal, val, n
<1>8. IsTotal(g, trips, field)
  BY <1>6, <1>7
<1>9. TotalOf(trips, field) = g[n]
  BY Zenon DEF TotalOf, IsTotal, n
<1> HIDE DEF g
<1>10. g = [i \in 0..n |-> IF i = 0 THEN 0 ELSE g[i - 1] + val(i)]
  BY <1>7, <1>8
<1>11. g[0] = 0 /\ \A i \in 1..n : g[i] = g[i - 1] + val(i)
  <2>1. 0 \in 0..n /\ \A i \in 1..n : i \in 0..n /\ i # 0
    BY <1>1
  <2> QED BY <1>10, <2>1
<1>12. \A i \in 0..n : g[i] \in Int
  <2>1. \A i \in 1..n : g[i - 1] \in Int => g[i] \in Int
    BY <1>1, <1>11
  <2>2. g[0] \in Int
    BY <1>11
  <2> QED BY <1>1, <2>1, <2>2, StaysIn
<1>13. g \in [0..n -> Int]
  BY <1>10, <1>12
<1>14. Totals(g, trips, field)
  BY <1>11, <1>13 DEF Totals, val, n
<1> QED BY <1>9, <1>14 DEF n

LEMMA TripFields ==
  ASSUME NEW trips \in Seq(Trip)
  PROVE  \A i \in 1..Len(trips) :
           /\ trips[i] \in Trip /\ trips[i].msgs \in Seq(Messages)
           /\ trips[i]["gross"] = trips[i].gross /\ trips[i]["gross"] \in Int
           /\ trips[i]["amount"] = trips[i].amount /\ trips[i]["amount"] \in Nat \ {0}
           /\ trips[i]["amount"] \in Int
<1>1. ASSUME NEW x \in Trip
      PROVE  /\ x.msgs \in Seq(Messages) /\ x.gross \in Int /\ x.amount \in Nat \ {0}
             /\ x["gross"] = x.gross /\ x["amount"] = x.amount
  <2>1. x.msgs \in Seq(Messages) /\ x.gross \in Int /\ x.amount \in Nat \ {0}
    BY DEF Trip
  <2>2. x["gross"] = x.gross
    BY DEF Trip
  <2>3. x["amount"] = x.amount
    BY DEF Trip
  <2> QED BY <2>1, <2>2, <2>3
<1>2. \A i \in 1..Len(trips) : trips[i] \in Trip
  OBVIOUS
<1> QED BY <1>1, <1>2

(* At least one trip offers at least one unit. *)
LEMMA TripsOfferSomething ==
  ASSUME NEW trips \in Seq(Trip), Len(trips) >= 1
  PROVE  TotalOf(trips, "amount") \in Nat \ {0}
<1> DEFINE n == Len(trips)
<1>1. PICK f : Totals(f, trips, "amount") /\ TotalOf(trips, "amount") = f[n]
  BY TripFields, TotalUnfolds
<1>2. /\ f \in [0..n -> Int] /\ f[0] = 0
      /\ \A i \in 1..n : f[i] = f[i - 1] + trips[i]["amount"]
  BY <1>1 DEF Totals
<1>3. \A i \in 1..n : trips[i]["amount"] \in Nat \ {0}
  BY TripFields
<1>4. n \in Nat /\ n >= 1
  OBVIOUS
<1> HIDE DEF n
<1> DEFINE D == {i \in 0..n : f[i] >= i}
<1>5. 0 \in D
  BY <1>2, <1>4
<1>6. ASSUME NEW i \in 1..n, i - 1 \in D PROVE i \in D
  <2>1. i \in 0..n /\ i - 1 \in 0..n
    BY <1>4
  <2>2. f[i - 1] \in Int /\ f[i - 1] >= i - 1 /\ f[i] = f[i - 1] + trips[i]["amount"]
    BY <1>2, <1>6, <2>1
  <2> QED BY SMTT(30), <1>3, <2>1, <2>2
<1>7. \A i \in 0..n : i \in D
  <2> HIDE DEF D
  <2> QED BY <1>4, <1>5, <1>6, UpTo
<1>8. n \in 0..n
  BY <1>4
<1> QED BY <1>1, <1>2, <1>4, <1>7, <1>8

IsGathering(f, trips) ==
  f = [i \in 0..Len(trips) |-> IF i = 0 THEN <<>> ELSE f[i - 1] \o trips[i].msgs]

Gathers(f, trips) ==
  /\ f[0] = <<>>
  /\ \A i \in 1..Len(trips) : f[i] = f[i - 1] \o trips[i].msgs

LEMMA MessagesGather ==
  ASSUME NEW trips \in Seq(Trip)
  PROVE  \E f : Gathers(f, trips) /\ TripMsgs(trips) = f[Len(trips)]
<1> DEFINE n == Len(trips)
           val(i) == trips[i].msgs
           S == Seq(Messages)
           G == [u \in (1..n) \X S |-> u[2] \o val(u[1])]
           g == CHOOSE h : IsGathering(h, trips)
<1>1. n \in Nat /\ (\A i \in 1..n : val(i) \in S) /\ <<>> \in S
  BY TripFields
<1>2. \A i \in 1..n, x \in S : x \o val(i) \in S
  BY <1>1
<1> HIDE DEF val, n, S
<1>3. G \in [(1..n) \X S -> S]
  BY <1>2
<1>4. \A i \in 1..n, x \in S : G[<<i, x>>] = x \o val(i)
  OBVIOUS
<1> HIDE DEF G
<1>5. PICK k \in [0..n -> S] : Iterates(k, n, <<>>, G)
  BY <1>1, <1>3, StepByStep
<1>6. \A i \in 0..n : i # 0 => i \in 1..n /\ k[i - 1] \in S
  BY <1>1
<1>7. k = [i \in 0..n |-> IF i = 0 THEN <<>> ELSE k[i - 1] \o val(i)]
  BY <1>4, <1>5, <1>6 DEF Iterates
<1>8. \A h : IsGathering(h, trips)
              <=> h = [i \in 0..n |-> IF i = 0 THEN <<>> ELSE h[i - 1] \o val(i)]
  BY Zenon DEF IsGathering, val, n
<1>9. IsGathering(g, trips)
  BY <1>7, <1>8
<1>10. TripMsgs(trips) = g[n]
  BY Zenon DEF TripMsgs, IsGathering, n
<1> HIDE DEF g
<1>11. g = [i \in 0..n |-> IF i = 0 THEN <<>> ELSE g[i - 1] \o val(i)]
  BY <1>8, <1>9
<1>12. g[0] = <<>> /\ \A i \in 1..n : g[i] = g[i - 1] \o val(i)
  <2>1. 0 \in 0..n /\ \A i \in 1..n : i \in 0..n /\ i # 0
    BY <1>1
  <2> QED BY <1>11, <2>1
<1>13. Gathers(g, trips)
  BY <1>12 DEF Gathers, val, n
<1> QED BY <1>10, <1>13 DEF n

LEMMA StartGainsAdd ==
  ASSUME NEW c
  PROVE  /\ \A x \in Int : x = 0 => StartGain(c, x) = Nothing
         /\ \A x, y \in Int : StartGain(c, x + y) = Sum(StartGain(c, x), StartGain(c, y))
<1>1. \A x \in Int : x = 0 => StartGain(c, x) = Nothing
  BY DEF StartGain, Nothing
<1>2. ASSUME NEW x \in Int, NEW y \in Int
      PROVE  StartGain(c, x + y) = Sum(StartGain(c, x), StartGain(c, y))
  BY DEF StartGain, Sum
<1> QED BY <1>1, <1>2

(* Several trips, each priced against what the ones before it leave, carry *)
(* home what they were sized for together.                                 *)
LEMMA TripsCarry ==
  ASSUME NEW c, NEW trips \in Seq(Trip), NEW s \in Snapshots, NEW t, Chained(c, trips, s, t)
  PROVE  Carry(TripMsgs(trips), c, s, t, StartGain(c, TotalOf(trips, "gross")))
         /\ TotalOf(trips, "gross") \in Int
<1> DEFINE n == Len(trips)
<1>1. PICK T : Stations(T, c, trips, s) /\ T[n] = t
  BY DEF Chained
<1>2. /\ T \in [0..n -> Snapshots] /\ T[0] = s
      /\ \A j \in 1..n : Carry(trips[j].msgs, c, T[j - 1], T[j], StartGain(c, trips[j].gross))
  BY <1>1 DEF Stations
<1>3. PICK h : Totals(h, trips, "gross") /\ TotalOf(trips, "gross") = h[n]
  BY TripFields, TotalUnfolds
<1>4. PICK f : Gathers(f, trips) /\ TripMsgs(trips) = f[n]
  BY MessagesGather
<1>5. /\ h \in [0..n -> Int] /\ h[0] = 0
      /\ \A i \in 1..n : h[i] = h[i - 1] + trips[i].gross /\ trips[i].gross \in Int
  BY <1>3, TripFields DEF Totals
<1>6. f[0] = <<>> /\ \A i \in 1..n : f[i] = f[i - 1] \o trips[i].msgs
  BY <1>4 DEF Gathers
<1>7. n \in Nat
  OBVIOUS
<1> HIDE DEF n
<1> DEFINE D == {i \in 0..n : Carry(f[i], c, s, T[i], StartGain(c, h[i]))}
<1>8. 0 \in D
  <2>1. StartGain(c, h[0]) = Nothing
    BY <1>5, StartGainsAdd
  <2> QED BY <1>2, <1>6, <1>7, <2>1, NothingCarries
<1>9. ASSUME NEW i \in 1..n, i - 1 \in D PROVE i \in D
  <2>1. i \in 0..n /\ i - 1 \in 0..n
    BY <1>7
  <2>2. Carry(f[i - 1], c, s, T[i - 1], StartGain(c, h[i - 1]))
    BY <1>9
  <2>3. Carry(trips[i].msgs, c, T[i - 1], T[i], StartGain(c, trips[i].gross))
    BY <1>2
  <2>4. Carry(f[i], c, s, T[i], Sum(StartGain(c, h[i - 1]), StartGain(c, trips[i].gross)))
    BY <1>6, <2>2, <2>3, ListsJoin
  <2>5. StartGain(c, h[i]) = Sum(StartGain(c, h[i - 1]), StartGain(c, trips[i].gross))
    <3> DEFINE x == h[i - 1]
               y == trips[i].gross
    <3>1. x \in Int /\ y \in Int /\ h[i] = x + y
      BY <1>5, <2>1
    <3> HIDE DEF x, y
    <3>2. StartGain(c, x + y) = Sum(StartGain(c, x), StartGain(c, y))
      BY <3>1, StartGainsAdd
    <3> QED BY <3>1, <3>2 DEF x, y
  <2> QED BY <2>1, <2>4, <2>5
<1>10. \A i \in 0..n : i \in D
  <2> HIDE DEF D
  <2> QED BY <1>7, <1>8, <1>9, UpTo
<1>11. n \in 0..n
  BY <1>7
<1> QED BY <1>1, <1>3, <1>4, <1>5, <1>10, <1>11

-----------------------------------------------------------------------------
(* The state of the trading thread *)

(* A pool that anyone traded with is further out: it never pays all that   *)
(* its curve allows, so the product of its reserves has grown, or at least *)
(* what it holds has.                                                      *)
Depth(p, x) == x[Pair[p][1]] * x[Pair[p][2]]
Stock(p, x) == x[Pair[p][1]] + x[Pair[p][2]]

Further(p, x, y) ==
  \/ Depth(p, x) > Depth(p, y)
  \/ Depth(p, x) = Depth(p, y) /\ Stock(p, x) > Stock(p, y)

LEMMA FurtherIsAnOrder ==
  ASSUME NEW p \in Pools,
         NEW x \in [{Pair[p][1], Pair[p][2]} -> Nat],
         NEW y \in [{Pair[p][1], Pair[p][2]} -> Nat],
         NEW z \in [{Pair[p][1], Pair[p][2]} -> Nat]
  PROVE  ~Further(p, x, x) /\ (Further(p, x, y) /\ Further(p, y, z) => Further(p, x, z))
<1>1. \A u \in {x, y, z} : Depth(p, u) \in Nat /\ Stock(p, u) \in Nat
  <2> TAKE u \in {x, y, z}
  <2>1. u[Pair[p][1]] \in Nat /\ u[Pair[p][2]] \in Nat
    BY Zenon
  <2> QED BY <2>1 DEF Depth, Stock
<1> QED BY <1>1 DEF Further

LEMMA PoolsNeverReturn ==
  ASSUME NEW s, IsSnapshot(s), NEW e \in Edges, NEW offer \in Nat,
         NEW paid, paid = Swap(offer, s[e.pool][e.in], s[e.pool][e.out], Commission[e.pool]).paid,
         NEW t, t = Pays(s, e, offer, paid)
  PROVE  t[e.pool] = s[e.pool] \/ Further(e.pool, t[e.pool], s[e.pool])
<1> DEFINE p == e.pool
           I == s[e.pool][e.in]
           O == s[e.pool][e.out]
<1>1. p \in Pools /\ {e.in, e.out} = {Pair[p][1], Pair[p][2]} /\ e.in # e.out
  BY Hop
<1>2. I \in Nat /\ O \in Nat /\ Commission[p] \in 0..Unit
  BY Zenon, Reserves
<1>3. s[p] \in [{e.in, e.out} -> Nat]
  BY <1>1 DEF IsSnapshot
<1>4. t[p] = [s[p] EXCEPT ![e.in] = @ + offer, ![e.out] = @ - paid]
      /\ t[p][e.in] = I + offer /\ t[p][e.out] = O - paid
  <2> DEFINE v == Pays(s, e, offer, paid)
  <2>1. /\ v[e.pool] = [s[e.pool] EXCEPT ![e.in] = @ + offer, ![e.out] = @ - paid]
        /\ v[e.pool][e.in] = s[e.pool][e.in] + offer
        /\ v[e.pool][e.out] = s[e.pool][e.out] - paid
    <3>1. \A y : /\ Pays(s, e, offer, y)[e.pool] = [s[e.pool] EXCEPT ![e.in] = @ + offer, ![e.out] = @ - y]
                 /\ Pays(s, e, offer, y)[e.pool][e.in] = s[e.pool][e.in] + offer
                 /\ Pays(s, e, offer, y)[e.pool][e.out] = s[e.pool][e.out] - y
      BY PoolPays
    <3> QED BY Zenon, <3>1
  <2>2. t = v
    OBVIOUS
  <2> HIDE DEF v
  <2> QED BY Zenon, <2>1, <2>2
<1>5. \A u : \/ Depth(p, u) = u[e.in] * u[e.out] /\ Stock(p, u) = u[e.in] + u[e.out]
             \/ Depth(p, u) = u[e.out] * u[e.in] /\ Stock(p, u) = u[e.out] + u[e.in]
  <2>1. \/ Pair[p][1] = e.in /\ Pair[p][2] = e.out
        \/ Pair[p][1] = e.out /\ Pair[p][2] = e.in
    BY <1>1
  <2> QED BY <2>1 DEF Depth, Stock
<1>6. paid \in Int
  <2> DEFINE rate == Commission[p]
  <2>1. paid = Swap(offer, I, O, rate).paid /\ rate \in 0..Unit /\ offer \in Int
    BY <1>2
  <2> HIDE DEF I, O, rate
  <2>2. Swap(offer, I, O, rate).paid \in Int
    BY <1>2, <2>1, SwapBounds
  <2> QED BY <2>1, <2>2
<1> HIDE DEF p, I, O
<1>7. /\ Depth(p, s[p]) = I * O /\ Stock(p, s[p]) = I + O
      /\ Depth(p, t[p]) = (I + offer) * (O - paid) /\ Stock(p, t[p]) = (I + offer) + (O - paid)
  <2>1. s[p][e.in] = I /\ s[p][e.out] = O
    BY DEF p, I, O
  <2>2. I + offer \in Int /\ O - paid \in Int
    BY <1>2, <1>6
  <2> DEFINE a == I + offer
             b == O - paid
  <2>3. I * O = O * I /\ I + O = O + I
    BY SMTT(30), <1>2
  <2>4. a * b = b * a /\ a + b = b + a
    BY SMTT(30), <2>2
  <2>5. t[p][e.in] = a /\ t[p][e.out] = b
    BY <1>4
  <2> HIDE DEF a, b
  <2>6. Depth(p, s[p]) = I * O /\ Stock(p, s[p]) = I + O
    <3> DEFINE u == s[p]
    <3> HIDE DEF u
    <3>1. \/ Depth(p, u) = u[e.in] * u[e.out] /\ Stock(p, u) = u[e.in] + u[e.out]
          \/ Depth(p, u) = u[e.out] * u[e.in] /\ Stock(p, u) = u[e.out] + u[e.in]
      BY <1>5
    <3>2. u[e.in] = I /\ u[e.out] = O
      BY Zenon, <2>1 DEF u
    <3> QED BY <2>3, <3>1, <3>2 DEF u
  <2>7. Depth(p, t[p]) = a * b /\ Stock(p, t[p]) = a + b
    <3> DEFINE u == t[p]
    <3> HIDE DEF u
    <3>1. \/ Depth(p, u) = u[e.in] * u[e.out] /\ Stock(p, u) = u[e.in] + u[e.out]
          \/ Depth(p, u) = u[e.out] * u[e.in] /\ Stock(p, u) = u[e.out] + u[e.in]
      BY <1>5
    <3>2. u[e.in] = a /\ u[e.out] = b
      BY Zenon, <2>5 DEF u
    <3> QED BY Zenon, <2>4, <3>1, <3>2 DEF u
  <2> QED BY <2>6, <2>7 DEF a, b
<1>8. CASE offer # 0 /\ I # 0 /\ O # 0
  <2>1. paid * (I + offer) < offer * O
    <3>1. offer \in Nat \ {0} /\ I \in Nat \ {0} /\ O \in Nat \ {0}
      BY <1>2, <1>8
    <3>2. paid = Swap(offer, I, O, Commission[p]).paid
      BY DEF p, I, O
    <3> QED BY <1>2, <3>1, <3>2, SwapPays
  <2>2. (I + offer) * (O - paid) > I * O
    <3> DEFINE a == paid * (I + offer)
               b == offer * O
               d == I * O
               k == (I + offer) * (O - paid)
    <3>1. a \in Int /\ b \in Int /\ d \in Int /\ k = d + b - a /\ a < b
      BY <1>2, <1>6, <2>1
    <3> HIDE DEF a, b, d, k
    <3>2. k > d
      BY SMTT(30), <3>1
    <3> QED BY Zenon, <3>2 DEF d, k
  <2>3. Further(p, t[p], s[p])
    BY Zenon, <1>7, <2>2 DEF Further
  <2> QED BY Zenon, <2>3 DEF p
<1>9. CASE ~(offer # 0 /\ I # 0 /\ O # 0)
  <2>1. paid = 0
    BY <1>2, <1>9 DEF Swap, p, I, O
  <2>2. CASE offer = 0
    <3>1. s[p] = [a \in {e.in, e.out} |-> s[p][a]]
      BY <1>3
    <3>2. \A a \in {e.in, e.out} : s[p][a] + 0 = s[p][a] /\ s[p][a] - 0 = s[p][a]
      BY <1>3
    <3>3. [s[p] EXCEPT ![e.in] = @ + 0, ![e.out] = @ - 0] = s[p]
      BY Zenon, <1>1, <1>3, <3>1, <3>2
    <3>4. t[p] = s[p]
      BY Zenon, <1>4, <2>1, <2>2, <3>3
    <3> QED BY Zenon, <3>4 DEF p
  <2>3. CASE offer # 0
    <3>1. I * O = 0 /\ offer > 0
      BY <1>2, <1>9, <2>3
    <3>2. (I + offer) * (O - paid) >= 0
      <4>1. O - paid = O
        BY <1>2, <2>1
      <4> QED BY <1>2, <4>1
    <3>3. (I + offer) + (O - paid) > I + O /\ (I + offer) * (O - paid) \in Int
      BY <1>2, <2>1, <3>1
    <3> DEFINE d0 == Depth(p, s[p])
               d1 == Depth(p, t[p])
               k0 == Stock(p, s[p])
               k1 == Stock(p, t[p])
    <3>4. d0 = 0 /\ d1 >= 0 /\ d1 \in Int
      BY Zenon, <1>7, <3>1, <3>2, <3>3
    <3>5. k1 > k0
      BY Zenon, <1>7, <3>3
    <3> HIDE DEF d0, d1, k0, k1
    <3>6. d1 > d0 \/ (d1 = d0 /\ k1 > k0)
      BY SMTT(30), <3>4, <3>5
    <3>7. Further(p, t[p], s[p])
      BY Zenon, <3>6 DEF Further, d0, d1, k0, k1
    <3> QED BY Zenon, <3>7 DEF p
  <2> QED BY Zenon, <2>2, <2>3
<1> QED BY Zenon, <1>8, <1>9

Holding ==
  /\ IsSnapshot(market) /\ IsSnapshot(states)
  /\ wallet \in [Assets -> Nat]
  /\ luncPrice \in Nat /\ balance \in Nat
  /\ drift \in 0..MaxDrift /\ orders \in 0..MaxOrders

Stages ==
  /\ pc \in {"idle", "candidate", "sized", "approved", "planned"}
  /\ IF pc = "idle" THEN cycle = NoCycle ELSE cycle \in Cycles
  /\ IF pc \in {"idle", "candidate"} THEN sized = NoSize ELSE Evaluated(cycle, sized, states)
  /\ pc \in {"idle", "candidate", "sized"} => plan = NoPlan
  /\ pc # "idle" => orders < MaxOrders

(* What is adopted, of one trip or several, whole legs or split ones: a    *)
(* list computed against the snapshot, whose gain is at least what it was  *)
(* adopted for, and which the chain accepts as long as no pool has moved.  *)
Backed(x, c, s, w, m) ==
  /\ x = [msgs |-> x.msgs, offered |-> x.offered, gross |-> x.gross, gas |-> x.gas]
  /\ x.gas \in Nat /\ x.gross \in Int /\ x.offered \in Nat \ {0}
  /\ c[1].in = LUNC => x.gross - x.gas >= MinLunc
  /\ \E t : Carry(x.msgs, c, s, t, StartGain(c, x.gross))
  /\ SamePools(c, m, s) => Outcome(x.msgs, w, m).ok

Adopted == pc \in {"approved", "planned"} => Backed(plan, cycle, states, wallet, market)

(* The approved messages are those of the size found. *)
Checked ==
  pc = "approved" =>
    /\ Params # NoParams
    /\ plan.gross = sized.gross
    /\ plan.offered = sized.amount
    /\ \A i \in 1..Len(cycle) : Offers[i] > 0

(* A pool that is not where the snapshot saw it has moved on for good.     *)
MovedOn(m, s) == \A p \in Pools : m[p] = s[p] \/ Further(p, m[p], s[p])

Apart == pc # "idle" => MovedOn(market, states)

PricingInv == Holding /\ Stages /\ Adopted /\ Checked /\ Apart

LEMMA CycleIsKnown ==
  ASSUME NEW c \in Cycles
  PROVE  /\ IsCycle(c) /\ c \in Seq(Edges)
         /\ Len(c) \in Nat /\ Len(c) >= 2 /\ DOMAIN c = 1..Len(c)
         /\ \A i \in 1..Len(c) : c[i] \in Edges
         /\ c[1] \in Edges /\ c[1].in \in Assets
         /\ c # NoCycle
<1>1. IsCycle(c) /\ c # NoCycle
  BY PricingAssumption
<1>2. c \in Seq(Edges) /\ Len(c) >= 2
  BY <1>1 DEF IsCycle
<1>3. Len(c) \in Nat /\ DOMAIN c = 1..Len(c) /\ \A i \in 1..Len(c) : c[i] \in Edges
  BY <1>2, Legs
<1>4. c[1] \in Edges
  BY <1>2, <1>3
<1> QED BY <1>1, <1>2, <1>3, <1>4, Hop

LEMMA PricingInvInit == Init => PricingInv
<1> SUFFICES ASSUME Init PROVE PricingInv
  OBVIOUS
<1>1. IsSnapshot(market) /\ wallet \in [Assets -> Nat] /\ MaxDrift \in Nat /\ MaxOrders \in Nat
  BY PricingAssumption DEF Init
<1>2. Holding
  BY <1>1 DEF Init, Holding
<1>3. Stages /\ Adopted /\ Checked /\ Apart
  BY DEF Init, Stages, Adopted, Checked, Apart
<1> QED BY <1>2, <1>3 DEF PricingInv

-----------------------------------------------------------------------------
(* The invariant is kept by every step *)

LEMMA GivenUp ==
  ASSUME GiveUp, Holding,
         IsSnapshot(market'), wallet' \in [Assets -> Nat], states' = states,
         drift' \in 0..MaxDrift, orders' \in 0..MaxOrders
  PROVE  PricingInv'
<1>1. Holding'
  BY DEF Holding, GiveUp, IsSnapshot
<1>2. Stages'
  BY DEF Stages, GiveUp
<1>3. Adopted' /\ Checked' /\ Apart'
  BY DEF Adopted, Checked, Apart, GiveUp
<1> QED BY <1>1, <1>2, <1>3 DEF PricingInv

LEMMA DiscoverKeeps ==
  ASSUME PricingInv, NEW c \in Cycles, Discover(c)
  PROVE  PricingInv'
<1> USE DEF PricingInv
<1>1. c \in Seq(Edges) /\ c[1].in \in Assets /\ c # NoCycle
  BY CycleIsKnown
<1>2. Price(LUNC, market) \in Nat /\ wallet[c[1].in] \in Nat
  BY <1>1, PricingAssumption, PriceIsNumber DEF Holding
<1>3. Holding'
  BY <1>2 DEF Holding, Discover, external, IsSnapshot
<1>4. Stages'
  BY <1>1 DEF Stages, Discover
<1>5. Adopted' /\ Checked'
  BY DEF Adopted, Checked, Discover
<1>6. Apart'
  BY DEF Apart, MovedOn, Discover, external
<1> QED BY <1>3, <1>4, <1>5, <1>6

LEMMA RefreshKeeps ==
  ASSUME PricingInv, NEW failing \in SUBSET Pools, Refresh(failing)
  PROVE  PricingInv'
<1> DEFINE fresh == Fresh(failing)
           price == Price(Start, fresh)
           e == EvaluateCycle(cycle, fresh, luncPrice, balance, price)
<1> USE DEF PricingInv
<1>1. pc = "candidate" /\ cycle \in Cycles
  BY DEF Refresh, Stages
<1>2. cycle \in Seq(Edges) /\ Start \in Assets
  BY <1>1, CycleIsKnown DEF Start
<1>3. IsSnapshot(fresh)
  <2>1. \A p \in Pools : fresh[p] = market[p] \/ fresh[p] = states[p]
    BY DEF Fresh
  <2>2. fresh = [p \in Pools |-> fresh[p]]
    BY DEF Fresh
  <2> HIDE DEF fresh
  <2> QED BY <2>1, <2>2 DEF IsSnapshot, Holding
<1>4. MovedOn(market, fresh)
  <2>1. \A p \in Pools : fresh[p] = market[p] \/ fresh[p] = states[p]
    BY DEF Fresh
  <2>2. MovedOn(market, states)
    BY <1>1 DEF Apart
  <2> HIDE DEF fresh
  <2> QED BY <2>1, <2>2 DEF MovedOn
<1>5. states' = fresh /\ Resize(e, price) /\ UNCHANGED <<external, orders>>
  BY DEF Refresh, Reprice
<1> HIDE DEF fresh
<1>6. price \in Nat
  BY <1>2, <1>3, PriceIsNumber
<1> HIDE DEF price
<1>7. e = NoTrade \/ Evaluated(cycle, e, fresh)
  BY <1>2, <1>3, <1>6, CycleIsEvaluated DEF Holding
<1> HIDE DEF e
<1>8. CASE Passes(cycle, e, price)
  <2>1. /\ sized' = e /\ pc' = "sized"
        /\ UNCHANGED <<luncPrice, balance, cycle, plan>>
    BY <1>5, <1>8 DEF Resize
  <2>2. e # NoTrade
    BY <1>8 DEF Passes, NoTrade
  <2>3. Holding'
    BY <1>3, <1>5, <2>1 DEF Holding, external, IsSnapshot
  <2>4. Stages'
    <3>1. Evaluated(cycle, sized, states)'
      BY <1>5, <1>7, <2>1, <2>2 DEF Evaluated
    <3>2. orders' = orders /\ orders < MaxOrders
      BY <1>1, <1>5 DEF Stages
    <3> QED BY <1>1, <2>1, <3>1, <3>2 DEF Stages
  <2>5. Adopted' /\ Checked'
    BY <2>1 DEF Adopted, Checked
  <2>6. Apart'
    BY <1>5, <1>4, <2>1 DEF Apart, external
  <2> QED BY <2>3, <2>4, <2>5, <2>6
<1>9. CASE ~Passes(cycle, e, price)
  <2>1. GiveUp
    BY <1>5, <1>9 DEF Resize
  <2>2. Holding'
    BY <1>3, <1>5, <2>1 DEF Holding, GiveUp, external, IsSnapshot
  <2>3. Stages' /\ Adopted' /\ Checked' /\ Apart'
    BY <2>1 DEF Stages, Adopted, Checked, Apart, GiveUp
  <2> QED BY <2>2, <2>3
<1> QED BY <1>8, <1>9

LEMMA SizedOffers ==
  ASSUME Holding, Stages, pc \in {"sized", "approved", "planned"}
  PROVE  /\ cycle \in Cycles /\ cycle \in Seq(Edges) /\ Len(cycle) >= 2
         /\ sized.amount \in Nat \ {0}
         /\ Offers \in [DOMAIN cycle -> Int]
         /\ Offers[1] = sized.amount
<1>1. cycle \in Cycles /\ Evaluated(cycle, sized, states)
  BY DEF Stages
<1>2. cycle \in Seq(Edges) /\ Len(cycle) >= 2 /\ Len(cycle) \in Nat /\ DOMAIN cycle = 1..Len(cycle)
  BY <1>1, CycleIsKnown
<1>3. sized.amount \in Nat \ {0}
  BY <1>1 DEF Evaluated
<1>4. IsSnapshot(states)
  BY DEF Holding
<1>5. /\ Offers \in [DOMAIN cycle -> Int]
      /\ \A i \in DOMAIN cycle : Offers[i] = Flow(cycle, sized.amount, states)[i - 1]
  BY <1>2, <1>3, <1>4, OffersAreNumbers DEF Offers
<1>6. Flow(cycle, sized.amount, states)[0] = sized.amount
  BY <1>2, <1>3, <1>4, FlowUnfolds
<1>7. 1 \in DOMAIN cycle /\ 1 - 1 = 0
  BY <1>2
<1> QED BY <1>1, <1>2, <1>3, <1>5, <1>6, <1>7

LEMMA SomethingIsTaxed ==
  ASSUME NEW e \in Edges, NEW x \in Int, Taxed(e, x) > 0
  PROVE  x > 0
BY TaxedOffer

LEMMA MessagesRun ==
  ASSUME NEW msgs, AreMessages(msgs), NEW w \in [Assets -> Nat], NEW s, IsSnapshot(s)
  PROVE  \E f : Run(f, msgs, w, s) /\ Outcome(msgs, w, s) = f[Len(msgs)]
BY OutcomeUnfolds DEF Run

(* A simulation that succeeds shows that every leg offers something.       *)
LEMMA SimulationCovers ==
  ASSUME NEW c \in Seq(Edges), Len(c) >= 1, NEW offers \in [DOMAIN c -> Int], NEW params,
         NEW w \in [Assets -> Nat], NEW s, IsSnapshot(s),
         Outcome(CycleMsgs(c, offers, params), w, s).ok
  PROVE  \A i \in 1..Len(c) : offers[i] > 0
<1> DEFINE msgs == CycleMsgs(c, offers, params)
<1>1. Len(c) \in Nat /\ DOMAIN c = 1..Len(c) /\ \A i \in 1..Len(c) : c[i] \in Edges
  BY Legs
<1>2. /\ AreMessages(msgs) /\ Len(msgs) = Len(c)
      /\ \A i \in 1..Len(c) : msgs[i].edge = c[i] /\ msgs[i].offer = offers[i]
  <2>1. Follows(msgs, c, offers, params)
    BY CycleMsgsFollow
  <2> QED BY <2>1 DEF Follows
<1> HIDE DEF msgs
<1>3. PICK f : Run(f, msgs, w, s) /\ Outcome(msgs, w, s) = f[Len(msgs)]
  BY <1>2, MessagesRun
<1>4. f[Len(msgs)].ok
  BY <1>3 DEF msgs
<1>5. \A i \in 1..Len(msgs) : Executes(f[i - 1], msgs[i])
  BY <1>2, <1>3, <1>4, AllExecute DEF Run
<1>6. ASSUME NEW i \in 1..Len(c) PROVE offers[i] > 0
  <2>1. msgs[i].edge = c[i] /\ msgs[i].offer = offers[i] /\ Executes(f[i - 1], msgs[i])
    BY <1>1, <1>2, <1>5
  <2>2. Taxed(c[i], offers[i]) > 0
    BY <2>1 DEF Executes, Accepts
  <2>3. offers[i] \in Int /\ c[i] \in Edges
    BY <1>1
  <2> QED BY <2>2, <2>3, SomethingIsTaxed
<1> QED BY <1>6

LEMMA FloorIsCleared ==
  ASSUME NEW c, c[1].in = LUNC, NEW e, NEW gas, NEW s, RealPasses(c, e, gas, s)
  PROVE  e.gross - gas >= MinLunc
BY DEF RealPasses, Gates, ClearsMinProfit, RealGas

LEMMA ApproveKeeps ==
  ASSUME PricingInv, NEW fee \in Fees, Approve(fee)
  PROVE  PricingInv'
<1> DEFINE msgs == CycleMsgs(cycle, Offers, Params)
           gas == Len(msgs) * fee
           x == [msgs |-> msgs, offered |-> sized.amount, gross |-> sized.gross, gas |-> gas]
<1>1. Holding /\ Stages /\ Apart
  BY DEF PricingInv
<1>2. /\ pc = "sized" /\ Params # NoParams /\ Simulates(msgs)
      /\ RealPasses(cycle, sized, gas, states)
      /\ plan' = x /\ pc' = "approved"
      /\ UNCHANGED <<external, states, luncPrice, balance, cycle, sized, orders>>
  BY DEF Approve
<1>3. /\ cycle \in Cycles /\ cycle \in Seq(Edges) /\ Len(cycle) >= 2 /\ IsCycle(cycle)
      /\ Offers \in [DOMAIN cycle -> Int] /\ sized.amount \in Nat \ {0}
      /\ IsSnapshot(states) /\ states \in Snapshots /\ IsSnapshot(market)
      /\ wallet \in [Assets -> Nat]
  BY <1>1, <1>2, SizedOffers, CycleIsKnown, SnapshotIsElement DEF Holding
<1>4. sized.gross = Profit(cycle, sized.amount, states) /\ sized.gross \in Int
  <2>1. sized.gross = Profit(cycle, sized.amount, states)
    BY <1>1, <1>2 DEF Stages, Evaluated
  <2>2. sized.amount \in Int
    BY <1>3
  <2> QED BY <1>3, <2>1, <2>2, ProfitIsNumber
<1>5. gas \in Nat
  <2>1. fee \in Nat
    BY PricingAssumption
  <2>2. Len(msgs) = Len(cycle) /\ Len(cycle) \in Nat
    <3>1. Follows(msgs, cycle, Offers, Params)
      BY Zenon, <1>3, CycleMsgsFollow
    <3> QED BY <1>3, <3>1 DEF Follows
  <2> QED BY <2>1, <2>2
<1>6. \A i \in 1..Len(cycle) : Offers[i] > 0
  <2>1. Outcome(msgs, wallet, market).ok /\ Len(cycle) >= 1
    BY <1>2, <1>3, Legs DEF Simulates
  <2> QED BY <1>3, <2>1, SimulationCovers
<1>7. Carry(msgs, cycle, states, ApplyTrade(cycle, sized.amount, states),
            StartGain(cycle, sized.gross))
  <2>1. Offers = LegOffers(cycle, sized.amount, states)
        /\ Params = ExecutionParams(cycle, Offers, states, Ceiling)
    BY DEF Offers, Params
  <2> QED BY <1>2, <1>3, <1>4, <1>6, <2>1, TripCarries
<1>8. cycle[1].in = LUNC => sized.gross - gas >= MinLunc
  BY <1>2, FloorIsCleared
<1>9. Outcome(msgs, wallet, market).ok
  BY <1>2 DEF Simulates
<1> HIDE DEF msgs, gas
<1>10. /\ x = [msgs |-> msgs, offered |-> sized.amount, gross |-> sized.gross, gas |-> gas]
       /\ x.msgs = msgs /\ x.offered = sized.amount /\ x.gross = sized.gross /\ x.gas = gas
  OBVIOUS
<1> HIDE DEF x
<1>11. Backed(x, cycle, states, wallet, market)
  <2>1. \E t : Carry(x.msgs, cycle, states, t, StartGain(cycle, x.gross))
    BY <1>7, <1>10
  <2> QED BY <1>3, <1>4, <1>5, <1>8, <1>9, <1>10, <2>1 DEF Backed
<1>12. Params' = Params /\ Offers' = Offers
  BY <1>2 DEF Params, Offers
<1>13. Holding'
  BY <1>1, <1>2 DEF Holding, external, IsSnapshot
<1>14. Stages'
  BY <1>1, <1>2 DEF Stages, Evaluated
<1>15. Adopted'
  BY <1>2, <1>11 DEF Adopted, external
<1>16. Checked'
  BY <1>2, <1>6, <1>10, <1>12 DEF Checked
<1>17. Apart'
  BY <1>1, <1>2 DEF Apart, external
<1> QED BY <1>13, <1>14, <1>15, <1>16, <1>17 DEF PricingInv

LEMMA RefuseKeeps ==
  ASSUME PricingInv, GiveUp, UNCHANGED <<external, states, orders>>
  PROVE  PricingInv'
<1>1. Holding
  BY DEF PricingInv
<1>2. /\ IsSnapshot(market') /\ wallet' \in [Assets -> Nat] /\ states' = states
      /\ drift' \in 0..MaxDrift /\ orders' \in 0..MaxOrders
  BY <1>1 DEF Holding, external
<1> QED BY <1>1, <1>2, GivenUp

-----------------------------------------------------------------------------
(* What is chosen instead *)

LEMMA ApprovedFacts ==
  ASSUME PricingInv, pc = "approved"
  PROVE  /\ IsCycle(cycle) /\ cycle \in Seq(Edges) /\ sized.amount \in Nat \ {0}
         /\ states \in Snapshots /\ IsSnapshot(states)
         /\ wallet \in [Assets -> Nat] /\ IsSnapshot(market)
         /\ Offers = LegOffers(cycle, sized.amount, states)
         /\ \A i \in 1..Len(cycle) : Offers[i] > 0
         /\ ExecutionParams(cycle, Offers, states, Ceiling) # NoParams
         /\ plan.gross = sized.gross /\ sized.gross = Profit(cycle, sized.amount, states)
         /\ Backed(plan, cycle, states, wallet, market)
<1>1. Holding /\ Stages /\ Adopted /\ Checked
  BY DEF PricingInv
<1>2. cycle \in Cycles /\ cycle \in Seq(Edges) /\ sized.amount \in Nat \ {0}
  BY <1>1, SizedOffers
<1>3. IsCycle(cycle)
  BY <1>2, CycleIsKnown
<1>4. /\ states \in Snapshots /\ IsSnapshot(states)
      /\ wallet \in [Assets -> Nat] /\ IsSnapshot(market)
  BY <1>1, SnapshotIsElement DEF Holding
<1>5. sized.gross = Profit(cycle, sized.amount, states)
  BY <1>1 DEF Stages, Evaluated
<1>6. Offers = LegOffers(cycle, sized.amount, states)
  BY DEF Offers
<1>7. /\ Params # NoParams /\ plan.gross = sized.gross
      /\ \A i \in 1..Len(cycle) : Offers[i] > 0
  BY <1>1 DEF Checked
<1>8. Backed(plan, cycle, states, wallet, market)
  BY <1>1 DEF Adopted
<1> QED BY <1>2, <1>3, <1>4, <1>5, <1>6, <1>7, <1>8 DEF Params

LEMMA MessagesHaveGas ==
  ASSUME NEW msgs \in Seq(Messages), NEW fee \in Fees
  PROVE  Len(msgs) * fee \in Nat
<1>1. fee \in Nat
  BY PricingAssumption
<1>2. Len(msgs) \in Nat
  OBVIOUS
<1> QED BY <1>1, <1>2

(* Split legs: the plan of the same size, with the gas of its messages.    *)
LEMMA SplitIsBacked ==
  ASSUME PricingInv, pc = "approved", NEW maxTrips \in TripLimits, NEW fee \in Fees
  PROVE  Backed(Split(maxTrips, fee), cycle, states, wallet, market)
<1> DEFINE msgs == PlanCycle(cycle, Offers, GasPerHop, maxTrips, states, Ceiling)
           x == SplitInto(msgs, fee)
           adopts == /\ msgs # NoParams
                     /\ Simulates(msgs)
                     /\ RealPasses(cycle, sized, Len(msgs) * fee, states)
<1>1. /\ IsCycle(cycle) /\ cycle \in Seq(Edges) /\ sized.amount \in Nat \ {0}
      /\ states \in Snapshots
      /\ Offers = LegOffers(cycle, sized.amount, states)
      /\ \A i \in 1..Len(cycle) : Offers[i] > 0
      /\ ExecutionParams(cycle, Offers, states, Ceiling) # NoParams
      /\ plan.gross = sized.gross /\ sized.gross = Profit(cycle, sized.amount, states)
      /\ Backed(plan, cycle, states, wallet, market)
  BY ApprovedFacts
<1>2. maxTrips \in Nat \ {0} /\ GasPerHop \in Nat
  BY PricingAssumption, DecisionAssumption
<1>3. CASE ~adopts
  <2>1. x = plan
    BY <1>3 DEF SplitInto
  <2> QED BY <1>1, <2>1 DEF Split
<1>4. CASE adopts
  <2>1. x = [plan EXCEPT !.msgs = msgs, !.gas = Len(msgs) * fee]
    BY <1>4 DEF SplitInto
  <2>2. Flow(cycle, sized.amount, states)[Len(cycle)] >= 0
    BY <1>1, SafeRoundReturns
  <2>3. PICK t : Carry(msgs, cycle, states, t, StartGain(cycle, Profit(cycle, sized.amount, states)))
    BY <1>1, <1>2, <1>4, <2>2, PlanCarries
  <2>4. msgs \in Seq(Messages)
    BY <2>3 DEF Carry, OnCycle
  <2>5. Len(msgs) * fee \in Nat
    BY <2>4, MessagesHaveGas
  <2>6. cycle[1].in = LUNC => sized.gross - Len(msgs) * fee >= MinLunc
    BY <1>4, FloorIsCleared
  <2>7. Outcome(msgs, wallet, market).ok
    BY <1>4 DEF Simulates
  <2> DEFINE gas == Len(msgs) * fee
             offered == plan.offered
             gross == plan.gross
             old == plan.msgs
             spent == plan.gas
  <2>8. plan = [msgs |-> old, offered |-> offered, gross |-> gross, gas |-> spent]
        /\ offered \in Nat \ {0} /\ gross \in Int /\ gross = sized.gross
    BY <1>1 DEF Backed
  <2> HIDE DEF x, gas, msgs, offered, gross, old, spent, adopts
  <2>9. x = [msgs |-> msgs, offered |-> offered, gross |-> gross, gas |-> gas]
    BY <2>1, <2>8 DEF gas
  <2>10. x.msgs = msgs /\ x.offered = offered /\ x.gross = gross /\ x.gas = gas
    BY <2>9
  <2>11. /\ gas \in Nat /\ Carry(msgs, cycle, states, t, StartGain(cycle, gross))
         /\ cycle[1].in = LUNC => gross - gas >= MinLunc
    BY <1>1, <2>3, <2>5, <2>6, <2>8 DEF gas
  <2>12. Backed(x, cycle, states, wallet, market)
    BY <2>7, <2>8, <2>9, <2>10, <2>11 DEF Backed
  <2> QED BY <2>12 DEF Split, x, msgs
<1> QED BY <1>3, <1>4

(* Several trips, with the gas of all of them.                             *)
LEMMA BundleIsBacked ==
  ASSUME PricingInv, pc = "approved", NEW fee \in Fees,
         NEW trips \in Seq(Trip), NEW t, Chained(cycle, trips, states, t), Len(trips) >= 1,
         Clears(trips, fee)
  PROVE  Backed(Bundle(trips, fee), cycle, states, wallet, market)
<1> DEFINE msgs == TripMsgs(trips)
           gas == Len(msgs) * fee
           offered == TotalOf(trips, "amount")
           gross == TotalOf(trips, "gross")
           x == Bundle(trips, fee)
<1>1. /\ IsCycle(cycle) /\ states \in Snapshots
  BY ApprovedFacts
<1>2. Carry(msgs, cycle, states, t, StartGain(cycle, gross)) /\ gross \in Int
  BY <1>1, TripsCarry
<1>3. offered \in Nat \ {0}
  BY TripsOfferSomething
<1>4. msgs \in Seq(Messages)
  BY <1>2 DEF Carry, OnCycle
<1>5. gas \in Nat
  BY <1>4, MessagesHaveGas
<1>6. x = [msgs |-> msgs, offered |-> offered, gross |-> gross, gas |-> gas]
  BY DEF Bundle
<1>7. Outcome(msgs, wallet, market).ok /\ MultiTripPasses(cycle, trips, x.gas, states)
  BY DEF Clears, Simulates
<1> HIDE DEF msgs, gas, offered, gross, x
<1>8. x.msgs = msgs /\ x.offered = offered /\ x.gross = gross /\ x.gas = gas
  BY <1>6
<1>9. cycle[1].in = LUNC => gross - gas >= MinLunc
  <2>1. MultiTripPasses(cycle, trips, gas, states)
    BY <1>7, <1>8
  <2> HIDE DEF gas
  <2>2. cycle[1].in = LUNC => GasInAsset(cycle[1].in, gas, states) = gas
    BY DEF GasInAsset
  <2> QED BY <2>1, <2>2 DEF MultiTripPasses, Gates, ClearsMinProfit, gross
<1> QED BY <1>2, <1>3, <1>5, <1>6, <1>7, <1>8, <1>9 DEF Backed, x

LEMMA TripsAreKnown ==
  ASSUME PricingInv, pc = "approved", NEW maxTrips \in TripLimits
  PROVE  \/ Trips(maxTrips) = <<>>
         \/ Trips(maxTrips) \in Seq(Trip) /\ \E t : Chained(cycle, Trips(maxTrips), states, t)
<1> DEFINE price == Price(Start, states)
           luncP == Price(LUNC, states)
           guess == GasInAsset(Start, GasGuess, states)
           trips == RepeatedTrips(cycle, states, wallet[Start], luncP, price, guess, maxTrips)
<1>1. Trips(maxTrips) = <<>> \/ Trips(maxTrips) = trips
  BY DEF Trips
<1>2. /\ IsCycle(cycle) /\ cycle \in Seq(Edges) /\ states \in Snapshots /\ IsSnapshot(states)
      /\ wallet \in [Assets -> Nat]
  BY ApprovedFacts
<1>3. Start \in Assets
  <2>1. cycle \in Cycles
    BY DEF PricingInv, Stages
  <2> QED BY <2>1, CycleIsKnown DEF Start
<1>4. wallet[Start] \in Nat /\ price \in Nat
  BY <1>2, <1>3, PriceIsNumber
<1>5. GasGuess \in Nat /\ maxTrips \in Nat
  BY PricingAssumption
<1>6. guess \in Nat
  BY <1>2, <1>5, GasIsNumber
<1> HIDE DEF price, luncP, guess
<1>7. trips \in Seq(Trip) /\ \E t : Chained(cycle, trips, states, t)
  BY <1>2, <1>4, <1>5, <1>6, TripsAreChained
<1> HIDE DEF trips
<1> QED BY <1>1, <1>7

LEMMA GreatestNumber ==
  ASSUME NEW n \in Nat, NEW S, S \subseteq 0..n, S # {}
  PROVE  \E x \in S : \A y \in S : y <= x
<1> DEFINE R == {k \in Nat : n - k \in S}
<1>1. \A y \in S : n - y \in R
  <2> TAKE y \in S
  <2>1. y \in 0..n /\ n - y \in Nat /\ n - (n - y) = y
    OBVIOUS
  <2> QED BY <2>1
<1>2. R \subseteq Nat /\ R # {}
  BY <1>1
<1>3. PICK k \in R : \A j \in R : k <= j
  <2> HIDE DEF R
  <2> QED BY <1>2, LeastNumber
<1>4. k \in Nat /\ n - k \in S
  BY <1>3
<1>5. ASSUME NEW y \in S PROVE y <= n - k
  <2>1. k <= n - y /\ y \in 0..n
    BY <1>1, <1>3
  <2> QED BY <1>4, <2>1
<1> QED BY <1>4, <1>5

LEMMA ChosenIsBacked ==
  ASSUME PricingInv, pc = "approved", NEW maxTrips \in TripLimits, NEW fee \in Fees
  PROVE  Backed(Chosen(Trips(maxTrips), maxTrips, fee), cycle, states, wallet, market)
<1> DEFINE trips == Trips(maxTrips)
           clearing == {n \in 2..Len(trips) : Clears(SubSeq(trips, 1, n), fee)}
           longest == CHOOSE n \in clearing : \A m \in clearing : m <= n
<1>1. \/ trips = <<>>
      \/ trips \in Seq(Trip) /\ \E t : Chained(cycle, trips, states, t)
  BY TripsAreKnown
<1>2. Chosen(trips, maxTrips, fee) = IF clearing # {} THEN Bundle(SubSeq(trips, 1, longest), fee)
                                     ELSE Split(maxTrips, fee)
  BY DEF Chosen
<1>3. CASE clearing = {}
  BY <1>2, <1>3, SplitIsBacked
<1>4. CASE clearing # {}
  <2> HIDE DEF trips
  <2>1. trips # <<>>
    <3>1. ASSUME trips = <<>> PROVE FALSE
      <4>1. Len(trips) = 0 /\ 2..0 = {}
        BY <3>1
      <4> QED BY <1>4, <4>1
    <3> QED BY <3>1
  <2>2. trips \in Seq(Trip) /\ \E t : Chained(cycle, trips, states, t)
    BY <1>1, <2>1
  <2> DEFINE k == Len(trips)
  <2>3. k \in Nat
    BY <2>2
  <2>4. longest \in clearing
    <3>1. clearing \subseteq 0..k
      BY <2>3
    <3> HIDE DEF clearing, k
    <3>2. \E n \in clearing : \A m \in clearing : m <= n
      BY <1>4, <2>3, <3>1, GreatestNumber
    <3> QED BY <3>2
  <2> HIDE DEF longest
  <2>5. longest \in 1..Len(trips) /\ longest >= 1 /\ Clears(SubSeq(trips, 1, longest), fee)
    BY <2>3, <2>4
  <2> DEFINE some == SubSeq(trips, 1, longest)
  <2>6. some \in Seq(Trip) /\ Len(some) = longest /\ \E u : Chained(cycle, some, states, u)
    BY <2>2, <2>5, PrefixIsChained
  <2> HIDE DEF some, clearing
  <2>7. Backed(Bundle(some, fee), cycle, states, wallet, market)
    BY <2>5, <2>6, BundleIsBacked DEF some
  <2> QED BY <1>2, <1>4, <2>7 DEF some, trips
<1> QED BY <1>3, <1>4

LEMMA ChooseKeeps ==
  ASSUME PricingInv, NEW maxTrips \in TripLimits, NEW fee \in Fees, Choose(maxTrips, fee)
  PROVE  PricingInv'
<1> DEFINE x == Chosen(Trips(maxTrips), maxTrips, fee)
<1>1. Holding /\ Stages /\ Apart
  BY DEF PricingInv
<1>2. pc = "approved" /\ Send(x) /\ UNCHANGED <<external, states, orders>>
  BY DEF Choose
<1>3. Backed(x, cycle, states, wallet, market)
  BY <1>2, ChosenIsBacked
<1> HIDE DEF x
<1>4. CASE GiveUp
  BY <1>2, <1>4, RefuseKeeps
<1>5. CASE ~GiveUp
  <2>1. /\ plan' = x /\ pc' = "planned"
        /\ UNCHANGED <<luncPrice, balance, cycle, sized>>
    BY <1>2, <1>5 DEF Send
  <2>2. Holding'
    BY <1>1, <1>2, <2>1 DEF Holding, external, IsSnapshot
  <2>3. Stages'
    BY <1>1, <1>2, <2>1 DEF Stages, Evaluated
  <2>4. Adopted' /\ Checked'
    BY <1>2, <1>3, <2>1 DEF Adopted, Checked, external
  <2>5. Apart'
    BY <1>1, <1>2, <2>1 DEF Apart, external
  <2> QED BY <2>2, <2>3, <2>4, <2>5 DEF PricingInv
<1> QED BY <1>4, <1>5

LEMMA OutcomeIsTyped ==
  ASSUME NEW msgs, AreMessages(msgs), NEW w \in [Assets -> Nat], NEW s, IsSnapshot(s)
  PROVE  /\ Outcome(msgs, w, s).wallet \in [Assets -> Nat]
         /\ IsSnapshot(Outcome(msgs, w, s).market)
<1>1. PICK f \in [0..Len(msgs) -> Scratch] :
        /\ f[0] = [ok |-> TRUE, wallet |-> w, market |-> s]
        /\ \A i \in 1..Len(msgs) : f[i] = OutcomeStep(f[i - 1], msgs[i])
        /\ Outcome(msgs, w, s) = f[Len(msgs)]
  BY SMTT(30), OutcomeUnfolds
<1>2. Outcome(msgs, w, s) \in Scratch
  BY SMTT(30), <1>1 DEF AreMessages
<1> QED BY <1>2, SnapshotIsElement DEF Scratch

LEMMA AdoptedMessages ==
  ASSUME PricingInv, pc \in {"approved", "planned"}
  PROVE  AreMessages(plan.msgs) /\ plan.gas \in Nat /\ plan.offered \in Nat \ {0}
<1>1. Backed(plan, cycle, states, wallet, market)
  BY DEF PricingInv, Adopted
<1>2. plan.msgs \in Seq(Messages) /\ plan.gas \in Nat /\ plan.offered \in Nat \ {0}
  BY <1>1 DEF Backed, Carry, OnCycle
<1> QED BY <1>2, SeqOfMessages

LEMMA BroadcastKeeps ==
  ASSUME PricingInv, Lands \/ Reverts
  PROVE  PricingInv'
<1> DEFINE r == Outcome(plan.msgs, wallet, market)
<1>1. /\ Holding /\ pc = "planned" /\ IsSnapshot(market) /\ wallet \in [Assets -> Nat]
      /\ drift \in 0..MaxDrift /\ orders \in 0..MaxOrders /\ MaxOrders \in Nat
  BY PricingAssumption DEF PricingInv, Holding, Lands, Reverts
<1>2. AreMessages(plan.msgs) /\ plan.gas \in Nat
  BY <1>1, AdoptedMessages
<1>3. r.wallet \in [Assets -> Nat] /\ IsSnapshot(r.market)
  BY <1>1, <1>2, OutcomeIsTyped
<1> HIDE DEF r
<1>4. GiveUp /\ states' = states /\ drift' = drift /\ orders' = orders + 1
  BY DEF Lands, Reverts
<1>5. LUNC \in Assets /\ orders + 1 \in 0..MaxOrders
  BY <1>1, PricingAssumption DEF PricingInv, Stages
<1>6. CASE Lands
  <2>1. r.wallet[LUNC] >= plan.gas /\ market' = r.market
        /\ wallet' = [r.wallet EXCEPT ![LUNC] = @ - plan.gas]
    BY <1>6 DEF Lands, r
  <2>2. r.wallet[LUNC] - plan.gas \in Nat
    BY <1>2, <1>3, <1>5, <2>1
  <2>3. wallet' \in [Assets -> Nat] /\ IsSnapshot(market')
    BY <1>3, <2>1, <2>2
  <2> QED BY <1>1, <1>4, <1>5, <2>3, GivenUp
<1>7. CASE Reverts
  <2>1. wallet[LUNC] >= plan.gas /\ market' = market
        /\ wallet' = [wallet EXCEPT ![LUNC] = @ - plan.gas]
    BY <1>7 DEF Reverts
  <2>2. wallet[LUNC] - plan.gas \in Nat
    BY <1>1, <1>2, <1>5, <2>1
  <2>3. wallet' \in [Assets -> Nat]
    BY <1>1, <2>1, <2>2
  <2>4. IsSnapshot(market')
    BY <1>1, <2>1
  <2> QED BY <1>1, <1>4, <1>5, <2>3, <2>4, GivenUp
<1> QED BY <1>6, <1>7

LEMMA DriftKeeps ==
  ASSUME PricingInv, NEW e \in Edges, NEW offer \in Trades, Drift(e, offer)
  PROVE  PricingInv'
<1> DEFINE paid == Swap(offer, market[e.pool][e.in], market[e.pool][e.out], Commission[e.pool]).paid
           after == Pays(market, e, offer, paid)
<1>1. Holding /\ Stages /\ Adopted /\ Checked /\ Apart /\ IsSnapshot(market) /\ IsSnapshot(states)
  BY DEF PricingInv, Holding
<1>2. offer \in Nat
  BY PricingAssumption
<1>3. paid \in Int /\ paid <= market[e.pool][e.out]
  <2> DEFINE I == market[e.pool][e.in]
             O == market[e.pool][e.out]
             rate == Commission[e.pool]
  <2>1. I \in Nat /\ O \in Nat /\ rate \in 0..Unit
    BY <1>1, Reserves
  <2> HIDE DEF I, O, rate
  <2>2. Swap(offer, I, O, rate).paid \in Int /\ Swap(offer, I, O, rate).paid <= O
    BY <1>2, <2>1, SwapBounds
  <2> QED BY <2>2 DEF I, O, rate
<1>4. after[e.pool] = market[e.pool] \/ Further(e.pool, after[e.pool], market[e.pool])
  BY <1>1, <1>2, PoolsNeverReturn
<1> HIDE DEF paid
<1>5. IsSnapshot(after) /\ \A p \in Pools \ {e.pool} : after[p] = market[p]
  BY <1>1, <1>2, <1>3, PoolAfterSwap
<1>6. /\ drift < MaxDrift /\ drift' = drift + 1 /\ market' = after
      /\ UNCHANGED <<wallet, states, luncPrice, balance, pc, cycle, sized, plan, orders>>
  BY DEF Drift, paid
<1> HIDE DEF after
<1>7. e.pool \in Pools
  BY Hop
<1>8. ASSUME MovedOn(market, states)
      PROVE  /\ MovedOn(after, states)
             /\ \A p \in Pools : after[p] = states[p] => market[p] = states[p]
  <2>1. ASSUME NEW p \in Pools
        PROVE  /\ after[p] = states[p] \/ Further(p, after[p], states[p])
               /\ after[p] = states[p] => market[p] = states[p]
    <3>1. after[p] = market[p] \/ Further(p, after[p], market[p])
      BY <1>4, <1>5
    <3>2. market[p] = states[p] \/ Further(p, market[p], states[p])
      BY <1>8 DEF MovedOn
    <3> DEFINE x == after[p]
               y == market[p]
               z == states[p]
    <3>3. {x, y, z} \subseteq [{Pair[p][1], Pair[p][2]} -> Nat]
      BY Zenon, <1>1, <1>5 DEF IsSnapshot
    <3> HIDE DEF x, y, z
    <3>4. ~Further(p, z, z) /\ (Further(p, x, y) /\ Further(p, y, z) => Further(p, x, z))
      BY <3>3, FurtherIsAnOrder
    <3>5. (x = y \/ Further(p, x, y)) /\ (y = z \/ Further(p, y, z))
      BY <3>1, <3>2 DEF x, y, z
    <3>6. (x = z \/ Further(p, x, z)) /\ (x = z => y = z)
      BY <3>4, <3>5
    <3> QED BY <3>6 DEF x, y, z
  <2> QED BY <2>1 DEF MovedOn
<1>9. drift' \in 0..MaxDrift
  BY <1>1, <1>6, PricingAssumption DEF Holding
<1>10. Holding'
  BY <1>1, <1>5, <1>6, <1>9 DEF Holding, IsSnapshot
<1>11. Stages'
  BY <1>1, <1>6 DEF Stages, Evaluated
<1>12. Params' = Params /\ Offers' = Offers
  BY <1>6 DEF Params, Offers
<1>13. Checked'
  BY <1>1, <1>6, <1>12 DEF Checked
<1>14. Apart'
  BY <1>1, <1>6, <1>8 DEF Apart
<1>15. Adopted'
  <2> SUFFICES ASSUME pc \in {"approved", "planned"}
               PROVE  Backed(plan, cycle, states, wallet, after)
    BY <1>6 DEF Adopted
  <2>1. Backed(plan, cycle, states, wallet, market) /\ MovedOn(market, states)
    BY <1>1 DEF Adopted, Apart
  <2>2. cycle \in Seq(Edges) /\ \A i \in 1..Len(cycle) : cycle[i].pool \in Pools
    <3>1. cycle \in Cycles
      BY <1>1 DEF Stages
    <3> QED BY <3>1, CycleIsKnown, Hop
  <2>3. market \in Snapshots /\ after \in Snapshots /\ wallet \in [Assets -> Nat]
    BY <1>1, <1>5, SnapshotIsElement DEF Holding
  <2>4. OnCycle(plan.msgs, cycle)
    BY <2>1 DEF Backed, Carry
  <2>5. ASSUME SamePools(cycle, after, states) PROVE Outcome(plan.msgs, wallet, after).ok
    <3>1. SamePools(cycle, market, states)
      BY <1>8, <2>1, <2>2, <2>5 DEF SamePools
    <3>2. SamePools(cycle, market, after)
      BY <2>5, <3>1, SamePoolsIsEquivalence
    <3>3. Outcome(plan.msgs, wallet, market).ok
      BY <2>1, <3>1 DEF Backed
    <3>4. Outcome(plan.msgs, wallet, market).ok <=> Outcome(plan.msgs, wallet, after).ok
      BY <2>2, <2>3, <2>4, <3>2, SameOutcome
    <3> QED BY <3>3, <3>4
  <2> QED BY <2>1, <2>5 DEF Backed
<1> QED BY <1>10, <1>11, <1>13, <1>14, <1>15 DEF PricingInv

LEMMA PricingInvStep ==
  ASSUME PricingInv, [Next]_vars
  PROVE  PricingInv'
<1>1. ASSUME NEW c \in Cycles, Discover(c) PROVE PricingInv'
  BY <1>1, DiscoverKeeps
<1>2. ASSUME NEW failing \in SUBSET Pools, Refresh(failing) PROVE PricingInv'
  BY <1>2, RefreshKeeps
<1>3. ASSUME NEW fee \in Fees, Approve(fee) PROVE PricingInv'
  BY <1>3, ApproveKeeps
<1>4. ASSUME NEW fee \in Fees, Refuse(fee) PROVE PricingInv'
  BY <1>4, RefuseKeeps DEF Refuse
<1>5. CASE SimulationFails
  BY <1>5, RefuseKeeps DEF SimulationFails
<1>6. ASSUME NEW maxTrips \in TripLimits, NEW fee \in Fees, Choose(maxTrips, fee) PROVE PricingInv'
  BY <1>6, ChooseKeeps
<1>7. CASE Lands
  BY <1>7, BroadcastKeeps
<1>8. CASE Reverts
  BY <1>8, BroadcastKeeps
<1>9. ASSUME NEW p \in Pools, NEW i \in 1..2, NEW offer \in Trades,
             Drift([pool |-> p, in |-> Pair[p][i], out |-> Pair[p][3 - i]], offer)
      PROVE  PricingInv'
  <2>1. [pool |-> p, in |-> Pair[p][i], out |-> Pair[p][3 - i]] \in Edges
    BY DEF Edges
  <2> QED BY <1>9, <2>1, DriftKeeps
<1>10. CASE UNCHANGED vars
  <2>1. UNCHANGED <<market, wallet, drift, states, luncPrice, balance, pc, cycle, sized, plan, orders>>
    BY <1>10 DEF vars, external
  <2>2. Params' = Params /\ Offers' = Offers
    BY <2>1 DEF Params, Offers
  <2>3. Holding' /\ Stages'
    BY <2>1 DEF PricingInv, Holding, Stages, Evaluated, IsSnapshot
  <2>4. Adopted' /\ Checked' /\ Apart'
    BY <2>1, <2>2 DEF PricingInv, Adopted, Checked, Apart
  <2> QED BY <2>3, <2>4 DEF PricingInv
<1> QED BY <1>1, <1>2, <1>3, <1>4, <1>5, <1>6, <1>7, <1>8, <1>9, <1>10 DEF Next

LEMMA InvImpliesTypeOK == PricingInv => TypeOK
<1> SUFFICES ASSUME PricingInv PROVE TypeOK
  OBVIOUS
<1>1. Holding /\ Stages
  BY DEF PricingInv
<1>2. \A p \in Pools : {market[p], states[p]} \subseteq [{Pair[p][1], Pair[p][2]} -> Nat]
  BY <1>1 DEF Holding, IsSnapshot
<1>3. (cycle = NoCycle) <=> (pc = "idle")
  BY <1>1, CycleIsKnown DEF Stages
<1>4. (sized # NoSize) <=> (pc \in {"sized", "approved", "planned"})
  BY <1>1 DEF Stages, Evaluated, NoSize
<1>5. (plan # NoPlan) <=> (pc \in {"approved", "planned"})
  <2>1. ASSUME pc \in {"approved", "planned"} PROVE plan # NoPlan
    <3>1. plan.offered # 0
      BY <2>1, AdoptedMessages
    <3> QED BY <3>1 DEF NoPlan
  <2> QED BY <1>1, <2>1 DEF Stages
<1> QED BY <1>1, <1>2, <1>3, <1>4, <1>5 DEF TypeOK, Holding, Stages

LEMMA PricingInvHolds == Spec => []PricingInv
<1>1. PricingInv /\ [Next]_vars => PricingInv'
  BY PricingInvStep
<1> QED BY <1>1, PricingInvInit, PTL DEF Spec

(* The thread keeps its shape, and reserves and balances stay natural      *)
(* numbers, because a pool pays less than it has and a list is only sent   *)
(* once it was simulated.                                                  *)
THEOREM PricingTypes == Spec => []TypeOK
<1>1. PricingInv => TypeOK
  BY InvImpliesTypeOK
<1> QED BY <1>1, PricingInvHolds, PTL

LEMMA CapBelowIsAnEdge ==
  ASSUME NEW c, NEW ceiling \in Nat, SpreadCap(c, ceiling, market, Ceiling) \in 1..(ceiling - 1)
  PROVE  TightAt(c, ceiling, SpreadCap(c, ceiling, market, Ceiling))
<1> DEFINE cap == SpreadCap(c, ceiling, market, Ceiling)
<1>1. ~(ceiling <= 0) /\ cap # 0 /\ cap # ceiling
  BY SMTT(30)
<1>2. ~Fits(c, ceiling, market, Ceiling)
  BY Zenon, <1>1 DEF SpreadCap
<1>3. Fits(c, Floor(ceiling), market, Ceiling)
  BY Zenon, <1>1, <1>2 DEF SpreadCap, Floor
<1>4. PICK r \in Brackets(c, ceiling, market, Ceiling) :
        cap = r.lo /\ 16384 * (r.hi - r.lo - 1) <= ceiling
  BY <1>1, <1>2, <1>3, Bisection
<1>5. /\ r.lo \in Nat /\ r.hi \in Nat /\ r.lo < r.hi
      /\ Fits(c, r.lo, market, Ceiling) /\ ~Fits(c, r.hi, market, Ceiling)
  BY DEF Brackets
<1>6. r.hi - r.lo - 1 <= ceiling \div 16384
  <2>1. ceiling \div 16384 \in Nat /\ ceiling < 16384 * (ceiling \div 16384) + 16384
    OBVIOUS
  <2> QED BY <1>4, <1>5, <2>1
<1>7. r.hi \in (r.lo + 1)..(r.lo + 1 + ceiling \div 16384)
  BY <1>5, <1>6
<1> HIDE DEF cap
<1> QED BY <1>4, <1>5, <1>7 DEF TightAt, cap

LEMMA CapIsAnEdge ==
  ASSUME NEW c, NEW ceiling \in Nat
  PROVE  TightAt(c, ceiling, SpreadCap(c, ceiling, market, Ceiling))
<1> DEFINE cap == SpreadCap(c, ceiling, market, Ceiling)
<1>1. cap \in 0..ceiling
  BY SpreadCapIsNumber
<1>2. CASE cap \in 1..(ceiling - 1)
  BY <1>2, CapBelowIsAnEdge
<1>3. CASE cap = 0
  <2> HIDE DEF cap
  <2> QED BY <1>3 DEF TightAt, cap
<1>4. CASE cap = ceiling /\ cap # 0
  <2>1. ~(ceiling <= 0) /\ ceiling # 0
    BY <1>4
  <2>2. Fits(c, ceiling, market, Ceiling)
    BY <1>1, <1>4, CapFits
  <2> HIDE DEF cap
  <2>3. cap \notin 1..(ceiling - 1)
    BY <1>4
  <2> QED BY <1>4, <2>2, <2>3 DEF TightAt, cap
<1> HIDE DEF cap
<1> QED BY <1>1, <1>2, <1>3, <1>4 DEF cap

(* The spread cap of every cycle, at every market and balance the program  *)
(* can meet, is a size whose legs are all safe, and one step of its        *)
(* bisection more is not.                                                  *)
THEOREM CapsAreTight == Spec => []CapIsTight
<1>1. ASSUME PricingInv, NEW c \in Cycles
      PROVE  TightAt(c, LiveOffer(c).ceiling, SpreadCap(c, LiveOffer(c).ceiling, market, Ceiling))
  <2>1. c \in Seq(Edges) /\ c[1].in \in Assets /\ IsSnapshot(market) /\ wallet[c[1].in] \in Nat
    BY <1>1, CycleIsKnown DEF PricingInv, Holding
  <2>2. LiveOffer(c).ceiling \in Nat
    BY <2>1, OfferIsTyped DEF LiveOffer, OfferType
  <2> QED BY <2>2, CapIsAnEdge
<1>2. PricingInv => CapIsTight
  BY <1>1 DEF CapIsTight
<1> QED BY <1>2, PricingInvHolds, PTL

-----------------------------------------------------------------------------
(* What an adopted list brings home *)

LEMMA HonouredPlan ==
  ASSUME PricingInv, pc \in {"approved", "planned"}, Unmoved
  PROVE  LET final == Outcome(plan.msgs, wallet, market) IN
         /\ final.ok
         /\ final.wallet[Start] >= wallet[Start] + plan.gross
         /\ \A a \in Assets \ {Start} : final.wallet[a] >= wallet[a]
<1> DEFINE final == Outcome(plan.msgs, wallet, market)
           x == StartGain(cycle, plan.gross)
<1>1. Holding /\ Stages /\ Backed(plan, cycle, states, wallet, market)
  BY DEF PricingInv, Adopted
<1>2. cycle \in Seq(Edges) /\ DOMAIN cycle = 1..Len(cycle) /\ Start \in Assets
  <2>1. cycle \in Cycles
    BY <1>1 DEF Stages
  <2> QED BY <2>1, CycleIsKnown DEF Start
<1>3. SamePools(cycle, market, states)
  BY <1>2 DEF Unmoved, SamePools
<1>4. market \in Snapshots /\ wallet \in [Assets -> Nat]
  BY <1>1, SnapshotIsElement DEF Holding
<1>5. final.ok /\ plan.gross \in Int
  BY <1>1, <1>3 DEF Backed
<1>6. PICK t : Carry(plan.msgs, cycle, states, t, x)
  BY <1>1 DEF Backed
<1>7. \A a \in Assets : final.wallet[a] >= wallet[a] + x[a]
  BY <1>2, <1>3, <1>4, <1>5, <1>6, CarriedHome
<1>8. x[Start] = plan.gross /\ \A a \in Assets \ {Start} : x[a] = 0
  BY <1>2 DEF StartGain, Start
<1> HIDE DEF final, x
<1>9. final.wallet[Start] >= wallet[Start] + plan.gross
  BY <1>2, <1>7, <1>8
<1>10. \A a \in Assets \ {Start} : final.wallet[a] >= wallet[a]
  <2> TAKE a \in Assets \ {Start}
  <2>1. final.wallet[a] >= wallet[a] + 0 /\ wallet[a] \in Nat
    BY <1>4, <1>7, <1>8
  <2> QED BY <2>1
<1> QED BY <1>5, <1>9, <1>10 DEF final

(* Whatever list is adopted, one trip, as many as max_trips allows, or     *)
(* legs split into trips, and whatever the taxes, commissions, tolerance   *)
(* and ceiling: on pools that have not moved it is executed to the last    *)
(* message, brings home what it was adopted for, and takes no other asset. *)
THEOREM PlansAreHonoured == Spec => []PlanIsHonoured
<1>1. PricingInv => PlanIsHonoured
  BY HonouredPlan DEF PlanIsHonoured
<1> QED BY <1>1, PricingInvHolds, PTL

(* Only a broadcast that lands moves the pools and counts as an order.     *)
LEMMA OnlyLandingMoves ==
  ASSUME [Next]_vars, market' # market, orders' # orders
  PROVE  Lands
<1>1. \A c : Discover(c) => orders' = orders
  BY DEF Discover
<1>2. \A failing : Refresh(failing) => orders' = orders
  BY DEF Refresh
<1>3. \A fee : (Approve(fee) => orders' = orders) /\ (Refuse(fee) => orders' = orders)
  BY DEF Approve, Refuse
<1>4. SimulationFails => orders' = orders
  BY DEF SimulationFails
<1>5. \A n, fee : Choose(n, fee) => orders' = orders
  BY DEF Choose
<1>6. Reverts => market' = market
  BY DEF Reverts
<1>7. \A e, offer : Drift(e, offer) => orders' = orders
  BY DEF Drift
<1>8. UNCHANGED vars => orders' = orders
  BY DEF vars
<1> QED BY <1>1, <1>2, <1>3, <1>4, <1>5, <1>6, <1>7, <1>8, Zenon DEF Next

LEMMA LandingPays ==
  ASSUME PricingInv, Lands, Unmoved, Start = LUNC
  PROVE  wallet'[LUNC] - wallet[LUNC] >= MinLunc
<1> DEFINE r == Outcome(plan.msgs, wallet, market)
<1>1. Holding /\ pc = "planned" /\ Backed(plan, cycle, states, wallet, market)
  BY DEF PricingInv, Lands, Adopted
<1>2. /\ plan.gas \in Nat /\ plan.gross \in Int /\ plan.gross - plan.gas >= MinLunc
      /\ OnCycle(plan.msgs, cycle)
  BY <1>1 DEF Backed, Carry, Start
<1>3. wallet \in [Assets -> Nat] /\ IsSnapshot(market) /\ LUNC \in Assets /\ MinLunc \in Nat
  BY <1>1, PricingAssumption, DecisionAssumption DEF Holding
<1>4. AreMessages(plan.msgs)
  BY <1>2, SeqOfMessages DEF OnCycle
<1>5. r.wallet \in [Assets -> Nat]
  BY <1>3, <1>4, OutcomeIsTyped
<1>6. r.wallet[LUNC] >= wallet[LUNC] + plan.gross
  BY <1>1, HonouredPlan
<1>7. wallet' = [r.wallet EXCEPT ![LUNC] = @ - plan.gas]
  BY DEF Lands
<1> HIDE DEF r
<1>8. wallet'[LUNC] = r.wallet[LUNC] - plan.gas
  BY <1>3, <1>5, <1>7
<1>9. r.wallet[LUNC] \in Nat /\ wallet[LUNC] \in Nat
  BY <1>3, <1>5
<1> QED BY <1>2, <1>3, <1>6, <1>8, <1>9

(* A cycle from LUNC whose broadcast lands on pools nobody moved leaves    *)
(* the wallet richer by the profit floor, after the gas of however many    *)
(* messages: no rounding on the way, and no trip added, eats the margin.   *)
THEOREM LandedTradesPay == Spec => LandedTradePays
<1>1. PricingInv /\ [Next]_vars
        => [pc = "planned" /\ market' # market /\ orders' # orders /\ Unmoved /\ Start = LUNC
              => wallet'[LUNC] - wallet[LUNC] >= MinLunc]_vars
  BY OnlyLandingMoves, LandingPays
<1> QED BY <1>1, PricingInvHolds, PTL DEF Spec, LandedTradePays

-----------------------------------------------------------------------------
(* The limits of a message, against a pool that has moved *)

IsBefore(f, msgs, s) ==
  f = [i \in 1..(Len(msgs) + 1) |->
        IF i = 1 THEN s
        ELSE LET m == msgs[i - 1]
                 r == f[i - 1]
             IN  Pays(r, m.edge, m.offer, SwapAt(m.edge, m.offer, r).paid)]

(* Before each message the pools are where the trail has them. *)
LEMMA BeforeIsTrail ==
  ASSUME NEW msgs \in Seq(Messages), NEW s, NEW g, Trail(g, msgs, s)
  PROVE  \A i \in 1..Len(msgs) : Before(msgs, s)[i] = g[i - 1]
<1> DEFINE n == Len(msgs)
           h == CHOOSE f : IsBefore(f, msgs, s)
           k == [i \in 1..(n + 1) |-> g[i - 1]]
<1>1. n \in Nat /\ DOMAIN msgs = 1..n
  OBVIOUS
<1>2. g[0] = s /\ \A i \in 1..n : g[i] = PoolStep(g[i - 1], msgs[i])
  BY DEF Trail
<1>3. k = [i \in 1..(n + 1) |-> IF i = 1 THEN s ELSE PoolStep(k[i - 1], msgs[i - 1])]
  <2>1. \A i \in 1..(n + 1) : i = 1 => g[i - 1] = s
    BY <1>2
  <2>2. ASSUME NEW i \in 1..(n + 1), i # 1 PROVE g[i - 1] = PoolStep(k[i - 1], msgs[i - 1])
    <3>1. i - 1 \in 1..n /\ i - 1 \in 1..(n + 1)
      BY <1>1, <2>2
    <3>2. k[i - 1] = g[(i - 1) - 1]
      BY <3>1
    <3> HIDE DEF k
    <3> QED BY <1>2, <3>1, <3>2
  <2>3. \A i \in 1..(n + 1) : g[i - 1] = IF i = 1 THEN s ELSE PoolStep(k[i - 1], msgs[i - 1])
    <3> HIDE DEF k
    <3> QED BY <2>1, <2>2
  <2>4. k = [i \in 1..(n + 1) |-> g[i - 1]]
    OBVIOUS
  <2> HIDE DEF k
  <2> QED BY <2>3, <2>4
<1> HIDE DEF k
<1>4. IsBefore(k, msgs, s)
  BY <1>3, Zenon DEF IsBefore, PoolStep
<1>5. IsBefore(h, msgs, s)
  BY <1>4
<1>6. Before(msgs, s) = [i \in DOMAIN msgs |-> h[i]]
  BY Zenon DEF Before, IsBefore
<1> HIDE DEF h
<1>7. h = [i \in 1..(n + 1) |-> IF i = 1 THEN s ELSE PoolStep(h[i - 1], msgs[i - 1])]
  BY <1>5, Zenon DEF IsBefore, PoolStep
<1> DEFINE D == {i \in 0..n : h[i + 1] = g[i]}
<1>8. 0 \in D
  <2>1. 1 \in 1..(n + 1) /\ 0 \in 0..n /\ 0 + 1 = 1
    BY <1>1
  <2>2. h[1] = s
    BY <1>7, <2>1
  <2> QED BY <1>2, <2>1, <2>2
<1>9. ASSUME NEW i \in 1..n, i - 1 \in D PROVE i \in D
  <2>1. i + 1 \in 1..(n + 1) /\ i + 1 # 1 /\ (i + 1) - 1 = i /\ i \in 0..n /\ (i - 1) + 1 = i
    BY <1>1
  <2>2. h[i + 1] = PoolStep(h[(i + 1) - 1], msgs[(i + 1) - 1])
    BY <1>7, <2>1
  <2>3. h[i] = g[i - 1]
    BY <1>9, <2>1
  <2> QED BY <1>2, <2>1, <2>2, <2>3
<1>10. \A i \in 0..n : i \in D
  <2> HIDE DEF D, n
  <2> QED BY <1>1, <1>8, <1>9, UpTo
<1>11. ASSUME NEW i \in 1..n PROVE Before(msgs, s)[i] = g[i - 1]
  <2>1. i - 1 \in 0..n /\ (i - 1) + 1 = i
    BY <1>1
  <2>2. h[(i - 1) + 1] = g[i - 1]
    BY <1>10, <2>1
  <2> QED BY <1>1, <1>6, <2>1, <2>2
<1> QED BY <1>11

(* What the spot price would pay for the untaxed offer, rounded up. *)
LEMMA SpotCovers ==
  ASSUME NEW x \in Nat, NEW o \in Nat, o <= x, NEW I \in Nat \ {0}, NEW O \in Nat,
         NEW p \in Nat, p * I <= o * O
  PROVE  /\ CeilDiv(x * O, I) \in Nat
         /\ o * O <= CeilDiv(x * O, I) * I
         /\ p <= CeilDiv(x * O, I)
<1> DEFINE a == x * O
           spot == CeilDiv(a, I)
<1>1. a \in Nat /\ o * O <= a
  BY Monotone
<1> HIDE DEF a
<1>2. spot \in Nat /\ a <= spot * I
  BY <1>1, CeilCovers
<1> HIDE DEF spot
<1>3. p * I <= spot * I /\ o * O <= spot * I
  BY <1>1, <1>2
<1>4. p <= spot
  BY <1>2, <1>3, Cancels
<1> QED BY <1>2, <1>3, <1>4 DEF spot, a

(* A minimum payout gives away at most the tolerance and a unit. *)
LEMMA MinimumLimits ==
  ASSUME NEW p0 \in Nat, NEW p1 \in Int, p1 >= MinReceive(p0), NEW spot \in Nat, p0 <= spot
  PROVE  p1 >= p0 - (CeilDiv(spot * TolBps, Unit) + 1)
<1> DEFINE x == spot * TolBps
           q == CeilDiv(x, Unit)
           u == p0 * (Unit - TolBps)
           t == Truncated(u, Unit)
<1>1. Unit \in Nat \ {0} /\ TolBps \in 0..Unit
  BY CycleMathAssumption, UnitAssumption
<1>2. u \in Nat /\ u = p0 * Unit - p0 * TolBps /\ p0 * TolBps \in Nat /\ p0 * Unit \in Nat
  BY <1>1
<1>3. x \in Nat /\ p0 * TolBps <= x
  BY <1>1, Monotone
<1>4. MinReceive(p0) = Larger(0, t)
  BY DEF MinReceive
<1> HIDE DEF x, u
<1>5. q \in Nat /\ x <= q * Unit
  BY <1>1, <1>3, CeilCovers
<1>6. t \in Nat /\ u < t * Unit + Unit
  <2>1. u \in Int /\ u >= 0 /\ Unit \in Nat \ {0}
    BY <1>1, <1>2
  <2> QED BY <2>1, Truncation
<1> HIDE DEF q, t
<1>7. p1 >= t
  BY <1>4, <1>6 DEF Larger
<1>8. p0 * Unit <= (t + 1 + q) * Unit
  <2>1. (t + 1 + q) * Unit = t * Unit + Unit + q * Unit /\ t * Unit \in Nat /\ q * Unit \in Nat
    BY <1>1, <1>5, <1>6
  <2> DEFINE B1 == p0 * Unit
             B2 == p0 * TolBps
             B3 == t * Unit
             B4 == q * Unit
             B5 == (t + 1 + q) * Unit
  <2>2. /\ B1 \in Nat /\ B2 \in Nat /\ B3 \in Nat /\ B4 \in Nat /\ u \in Nat /\ x \in Nat
        /\ u = B1 - B2 /\ B2 <= x /\ x <= B4 /\ u < B3 + Unit /\ B5 = B3 + Unit + B4
    BY <1>2, <1>3, <1>5, <1>6, <2>1
  <2> HIDE DEF B1, B2, B3, B4, B5
  <2>3. B1 <= B5
    BY <1>1, <2>2
  <2> QED BY <2>3 DEF B1, B5
<1>9. p0 <= t + 1 + q
  BY <1>1, <1>5, <1>6, <1>8, Cancels
<1> QED BY <1>5, <1>6, <1>7, <1>9 DEF q, x

(* A belief price and a spread give away at most the tolerance and what    *)
(* rounding either of them adds.                                           *)
LEMMA BeliefLimits ==
  ASSUME NEW o \in Nat \ {0}, NEW I \in Nat \ {0}, NEW O \in Nat \ {0}, NEW p0 \in Nat \ {0},
         p0 * I <= o * O,
         NEW p1 \in Nat, o * Places - p1 * Belief(I, O) <= MaxSpread(o, I, O, p0) * o,
         NEW spot \in Nat, p0 <= spot, o * O <= spot * I
  PROVE  p1 >= p0 - (CeilDiv(spot * TolBps, Unit) + CeilDiv(spot, Places)
                       + CeilDiv(spot * O, 2 * I * Places))
<1> DEFINE P == Places
           b == Belief(I, O)
           W == o * O
           sf == Larger(0, W - p0 * I)
           X == sf * P
           q == CeilDiv(X, W)
           TP == TolBps * P
           y == CeilDiv(TP, Unit)
           D == 2 * I * P
           a1 == CeilDiv(spot * TolBps, Unit)
           a2 == CeilDiv(spot, P)
           a3 == CeilDiv(spot * O, D)
<1>1. P \in Nat \ {0} /\ TolBps \in Nat /\ Unit \in Nat \ {0} /\ TP \in Nat /\ D \in Nat \ {0}
  <2>1. P \in Nat \ {0} /\ TolBps \in Nat /\ Unit \in Nat \ {0}
    BY CycleMathAssumption, UnitAssumption
  <2> HIDE DEF P
  <2> QED BY <2>1
<1>2. W \in Nat \ {0} /\ p0 * I \in Nat /\ sf = W - p0 * I /\ sf \in Nat
  BY DEF Larger
<1>3. MaxSpread(o, I, O, p0) = q + y
  BY DEF MaxSpread
<1>4. b \in Nat /\ b * (2 * O) <= D + O
  <2> DEFINE x == D + O
             d == 2 * O
  <2>1. x \in Nat /\ d \in Nat \ {0} /\ b = x \div d
    BY <1>1 DEF Belief
  <2> HIDE DEF x, d, b
  <2>2. x \div d \in Nat /\ (x \div d) * d <= x
    BY <2>1, Division
  <2> QED BY <2>1, <2>2 DEF x, d
<1>5. X \in Nat
  BY <1>1, <1>2
<1>6. TP % Unit = 0
  BY CycleMathAssumption
<1>7. a1 \in Nat /\ spot * TolBps <= a1 * Unit /\ spot * TolBps \in Nat
  <2> DEFINE x == spot * TolBps
  <2>1. x \in Nat
    BY <1>1
  <2> HIDE DEF x
  <2>2. CeilDiv(x, Unit) \in Nat /\ x <= CeilDiv(x, Unit) * Unit
    BY <1>1, <2>1, CeilCovers
  <2> QED BY <2>1, <2>2 DEF x
<1>8. a2 \in Nat /\ spot <= a2 * P
  BY <1>1, CeilCovers
<1>9. a3 \in Nat /\ spot * O <= a3 * D /\ spot * O \in Nat
  <2> DEFINE x == spot * O
  <2>1. x \in Nat
    OBVIOUS
  <2> HIDE DEF x, D
  <2>2. CeilDiv(x, D) \in Nat /\ x <= CeilDiv(x, D) * D
    BY <1>1, <2>1, CeilCovers
  <2> QED BY <2>1, <2>2 DEF x
<1> HIDE DEF a1, a2, a3
<1>10. y \in Nat /\ y * Unit = TP
  <2> HIDE DEF TP
  <2>1. y \in Nat /\ TP <= y * Unit /\ y * Unit <= TP + Unit - 1
    BY <1>1, CeilCovers
  <2>2. TP = Unit * (TP \div Unit) /\ TP \div Unit \in Int
    BY <1>1, <1>6
  <2> DEFINE k == TP \div Unit
  <2> HIDE DEF k, y
  <2>3. TP = k * Unit /\ k \in Int
    BY <1>1, <2>2 DEF k
  <2>4. k <= y
    BY <1>1, <2>1, <2>3, Cancels
  <2>5. y <= k
    <3>1. ASSUME k + 1 <= y PROVE FALSE
      <4>1. (k + 1) * Unit <= y * Unit
        BY <1>1, <2>1, <2>3, <3>1, Monotone
      <4>2. (k + 1) * Unit = k * Unit + Unit /\ k * Unit \in Int /\ y * Unit \in Int
        BY <1>1, <2>1, <2>3
      <4> QED BY <1>1, <2>1, <2>3, <4>1, <4>2
    <3> QED BY <2>1, <2>3, <3>1
  <2> QED BY <2>1, <2>3, <2>4, <2>5
<1>11. q \in Nat /\ q * W <= X + W - 1
  <2> HIDE DEF X, W
  <2> QED BY <1>2, <1>5, CeilCovers
<1> HIDE DEF q, y
<1>12. CASE p1 >= p0
  BY <1>7, <1>8, <1>9, <1>12 DEF a1, a2, a3, P, D
<1>13. CASE p1 < p0
  <2>1. (o * P - p1 * b) * (2 * O) <= ((q + y) * o) * (2 * O)
    <3>1. o * P - p1 * b <= (q + y) * o
      BY <1>3
    <3>2. o * P - p1 * b \in Int /\ (q + y) * o \in Int /\ 2 * O \in Nat
      BY <1>1, <1>4, <1>10, <1>11
    <3> HIDE DEF P, b
    <3> QED BY <3>1, <3>2, Monotone
  <2>2. (o * P - p1 * b) * (2 * O) = 2 * (W * P) - (b * (2 * O)) * p1
    <3> HIDE DEF P, b
    <3>1. (o * P - p1 * b) * (2 * O) = (o * P) * (2 * O) - (p1 * b) * (2 * O)
      BY <1>1, <1>4
    <3>2. (o * P) * (2 * O) = 2 * (W * P)
      BY <1>1
    <3>3. (p1 * b) * (2 * O) = (b * (2 * O)) * p1
      BY <1>4
    <3> QED BY <3>1, <3>2, <3>3
  <2>3. ((q + y) * o) * (2 * O) = 2 * (q * W) + 2 * (y * W)
    BY <1>10, <1>11
  <2>4. (b * (2 * O)) * p1 <= (D + O) * p1
    <3>1. b * (2 * O) \in Int /\ D + O \in Int
      BY <1>1, <1>4
    <3> HIDE DEF b, D
    <3> QED BY <1>4, <3>1, Monotone
  <2>5. (D + O) * p1 = D * p1 + O * p1
    BY <1>1
  <2>6. X = W * P - (p0 * I) * P
    <3> HIDE DEF sf
    <3>1. X = (W - p0 * I) * P
      BY <1>2
    <3> QED BY <1>1, <1>2, <3>1
  <2>7. 2 * ((p0 * I) * P) = D * p0
    BY <1>1
  <2>8. O * p1 <= spot * O
    <3>1. p1 <= spot
      BY <1>13
    <3>2. p1 * O <= spot * O
      BY <3>1, Monotone
    <3> QED BY <3>2
  <2>9. 2 * W <= a2 * D
    <3>1. spot * (2 * I) <= (a2 * P) * (2 * I)
      <4>1. a2 * P \in Nat
        BY <1>1, <1>8
      <4> QED BY <1>8, <4>1, Monotone
    <3>2. (a2 * P) * (2 * I) = a2 * D /\ spot * (2 * I) = 2 * (spot * I)
      BY <1>1, <1>8
    <3>3. W <= spot * I /\ spot * I \in Int /\ a2 * D \in Int
      BY <1>1, <1>8
    <3> HIDE DEF W, D
    <3> QED BY <1>2, <3>1, <3>2, <3>3
  <2>10. 2 * (y * W) <= a1 * D
    <3>1. W * (2 * y) <= (spot * I) * (2 * y)
      BY <1>2, <1>10, Monotone
    <3>2. (spot * TolBps) * D <= (a1 * Unit) * D
      <4>1. a1 * Unit \in Nat /\ spot * TolBps \in Nat
        BY <1>1, <1>7
      <4> HIDE DEF D
      <4> QED BY <1>1, <1>7, <4>1, Monotone
    <3>3. (spot * TolBps) * D = ((spot * I) * (2 * y)) * Unit
      <4>1. (spot * TolBps) * D = (2 * spot * I) * TP
        BY <1>1
      <4>2. ((spot * I) * (2 * y)) * Unit = (2 * spot * I) * (y * Unit)
        BY <1>1, <1>10
      <4> QED BY <1>10, <4>1, <4>2
    <3>4. (a1 * Unit) * D = (a1 * D) * Unit
      BY <1>1, <1>7
    <3>5. (spot * I) * (2 * y) <= a1 * D
      <4>1. (spot * I) * (2 * y) \in Int /\ a1 * D \in Int
        BY <1>1, <1>7, <1>10
      <4> HIDE DEF D
      <4> QED BY <1>1, <3>2, <3>3, <3>4, <4>1, Cancels
    <3>6. W * (2 * y) = 2 * (y * W)
      BY <1>2, <1>10
    <3>7. W * (2 * y) \in Int /\ (spot * I) * (2 * y) \in Int /\ a1 * D \in Int
      BY <1>1, <1>2, <1>7, <1>10
    <3> HIDE DEF W, D
    <3> QED BY <3>1, <3>5, <3>6, <3>7
  <2>11. p0 * D <= (p1 + a1 + a2 + a3) * D
    <3>1. (p1 + a1 + a2 + a3) * D = D * p1 + a1 * D + a2 * D + a3 * D
      BY <1>1, <1>7, <1>8, <1>9
    <3>2. /\ W * P \in Int /\ (b * (2 * O)) * p1 \in Int /\ q * W \in Int /\ y * W \in Int
          /\ D * p1 \in Int /\ O * p1 \in Int /\ (p0 * I) * P \in Int /\ D * p0 \in Int
          /\ spot * O \in Int /\ a1 * D \in Int /\ a2 * D \in Int /\ a3 * D \in Int
      BY <1>1, <1>2, <1>4, <1>7, <1>8, <1>9, <1>10, <1>11
    <3> DEFINE T1 == W * P
               T2 == (b * (2 * O)) * p1
               T3 == q * W
               T4 == y * W
               T5 == D * p1
               T6 == O * p1
               T7 == (p0 * I) * P
               T8 == D * p0
               T9 == spot * O
               B1 == a1 * D
               B2 == a2 * D
               B3 == a3 * D
    <3>3. /\ T1 \in Int /\ T2 \in Int /\ T3 \in Int /\ T4 \in Int /\ T5 \in Int /\ T6 \in Int
          /\ T7 \in Int /\ T8 \in Int /\ T9 \in Int /\ B1 \in Int /\ B2 \in Int /\ B3 \in Int
      BY <3>2
    <3>4. /\ 2 * T1 - T2 <= 2 * T3 + 2 * T4
          /\ T2 <= T5 + T6
          /\ T3 <= X + W - 1
          /\ X = T1 - T7
          /\ 2 * T7 = T8
          /\ T6 <= T9 /\ T9 <= B3
          /\ 2 * W <= B2
          /\ 2 * T4 <= B1
      BY <1>9, <1>11, <2>1, <2>2, <2>3, <2>4, <2>5, <2>6, <2>7, <2>8, <2>9, <2>10
    <3>5. (p1 + a1 + a2 + a3) * D = T5 + B1 + B2 + B3 /\ p0 * D = T8
      BY <1>1, <3>1
    <3> HIDE DEF T1, T2, T3, T4, T5, T6, T7, T8, T9, B1, B2, B3, W, X
    <3>6. T8 <= T5 + B1 + B2 + B3
      BY <1>2, <1>5, <3>3, <3>4
    <3> QED BY <3>5, <3>6
  <2>12. p0 <= p1 + a1 + a2 + a3
    <3> HIDE DEF D
    <3> QED BY <1>1, <1>7, <1>8, <1>9, <2>11, Cancels
  <2> QED BY <1>7, <1>8, <1>9, <2>12 DEF a1, a2, a3, P, D
<1> QED BY <1>12, <1>13

(* What a pool asks of a message, once taxed and paid are known. *)
Meets(pool, params, o, p) ==
  /\ o > 0 /\ p > 0
  /\ IF pool \in Garuda
     THEN p >= params.min
     ELSE o * Places - p * params.belief <= params.spread * o

LEMMA AcceptsMeets ==
  ASSUME NEW m, NEW s
  PROVE  Accepts(m, s)
           <=> Meets(m.edge.pool, m.params, Taxed(m.edge, m.offer), SwapAt(m.edge, m.offer, s).paid)
BY Zenon DEF Accepts, Meets

(* A message computed at one state of its pool and accepted at another     *)
(* pays what the first promised, but for its allowance.                    *)
LEMMA LegWithinTolerance ==
  ASSUME NEW e \in Edges, NEW x \in Nat, NEW s, IsSnapshot(s), NEW t, IsSnapshot(t),
         LegIsSafe(e, x, s[e.pool][e.in], s[e.pool][e.out], Ceiling),
         NEW m, m = Message(e, x, LegParams(e, x, s[e.pool][e.in], s[e.pool][e.out])),
         Accepts(m, t)
  PROVE  SwapAt(e, x, t).paid >= SwapAt(e, x, s).paid - Allowance(m, s)
<1> DEFINE I == s[e.pool][e.in]
           O == s[e.pool][e.out]
           o == Taxed(e, x)
           p0 == SwapAt(e, x, s).paid
           p1 == SwapAt(e, x, t).paid
           spot == CeilDiv(x * O, I)
           a1 == CeilDiv(spot * TolBps, Unit)
           a2 == CeilDiv(spot, Places)
           a3 == CeilDiv(spot * O, 2 * I * Places)
<1>1. /\ o \in Nat \ {0} /\ I \in Nat \ {0} /\ O \in Nat \ {0} /\ p0 \in Nat \ {0}
      /\ p0 * I <= o * O /\ o <= x
  <2>1. x \in Int /\ x >= 0
    OBVIOUS
  <2>2. Taxed(e, x) \in 0..x
    BY <2>1, TaxedOffer
  <2>3. Taxed(e, x) <= x
    BY <2>2
  <2> QED BY <2>1, <2>3, SafeLegPays
<1>2. p1 \in Int
  BY SwapAtBounds
<1>3. m.edge = e /\ m.offer = x /\ m.params = ParamsOf(e.pool, o, I, O, p0)
  BY DEF Message, LegParams, SwapAt
<1>4. Allowance(m, s) = a1 + a2 + a3 + 1
  BY <1>3 DEF Allowance
<1>5. Meets(e.pool, m.params, o, p1)
  BY <1>3, AcceptsMeets
<1> HIDE DEF p0, p1, o, I, O
<1>6. spot \in Nat /\ o * O <= spot * I /\ p0 <= spot
  BY <1>1, SpotCovers
<1> HIDE DEF spot
<1>7. a1 \in Nat /\ a2 \in Nat /\ a3 \in Nat
  <2>1. Unit \in Nat \ {0} /\ TolBps \in Nat /\ Places \in Nat \ {0}
    BY CycleMathAssumption, UnitAssumption
  <2>2. spot * TolBps \in Nat /\ spot * O \in Nat /\ 2 * I * Places \in Nat \ {0}
    BY SMTT(30), <1>1, <1>6, <2>1
  <2> QED BY <1>6, <2>1, <2>2, CeilCovers
<1>8. p1 > 0
  BY <1>5 DEF Meets
<1>9. ASSUME e.pool \in Garuda PROVE p1 >= p0 - (a1 + a2 + a3 + 1)
  <2>1. p1 >= MinReceive(p0)
    BY <1>3, <1>5, <1>9 DEF Meets, ParamsOf
  <2>2. p1 >= p0 - (a1 + 1)
    BY <1>1, <1>2, <1>6, <2>1, MinimumLimits
  <2> HIDE DEF a1, a2, a3
  <2> QED BY SMTT(30), <1>1, <1>2, <1>7, <2>2
<1>10. ASSUME e.pool \notin Garuda PROVE p1 >= p0 - (a1 + a2 + a3 + 1)
  <2>1. m.params.belief = Belief(I, O) /\ m.params.spread = MaxSpread(o, I, O, p0)
    BY SMTT(30), <1>3, <1>10 DEF ParamsOf
  <2>2. o * Places - p1 * m.params.belief <= m.params.spread * o
    BY SMTT(30), <1>5, <1>10 DEF Meets
  <2>3. o * Places - p1 * Belief(I, O) <= MaxSpread(o, I, O, p0) * o /\ p1 \in Nat
    BY <1>2, <1>8, <2>1, <2>2
  <2>4. p1 >= p0 - (a1 + a2 + a3)
    BY <1>1, <1>6, <2>3, BeliefLimits
  <2> HIDE DEF a1, a2, a3
  <2> QED BY <1>1, <1>2, <1>7, <2>4
<1> QED BY <1>4, <1>9, <1>10 DEF p0, p1

LEMMA LandingLimits ==
  ASSUME PricingInv, Lands, NEW i \in DOMAIN plan.msgs
  PROVE  SwapAt(plan.msgs[i].edge, plan.msgs[i].offer, Before(plan.msgs, market)[i]).paid
           >= SwapAt(plan.msgs[i].edge, plan.msgs[i].offer, Before(plan.msgs, states)[i]).paid
                - Allowance(plan.msgs[i], Before(plan.msgs, states)[i])
<1> DEFINE msgs == plan.msgs
           n == Len(msgs)
           m == msgs[i]
           then == Before(msgs, states)[i]
           now == Before(msgs, market)[i]
<1>1. Holding /\ Backed(plan, cycle, states, wallet, market) /\ Outcome(msgs, wallet, market).ok
  BY DEF PricingInv, Adopted, Lands
<1>2. PICK g, t : Trail(g, msgs, states) /\ AllPriced(g, msgs) /\ msgs \in Seq(Messages)
  BY <1>1 DEF Backed, Carry, OnCycle
<1>3. market \in Snapshots /\ wallet \in [Assets -> Nat]
  BY <1>1, SnapshotIsElement DEF Holding
<1>4. PICK f : Run(f, msgs, wallet, market) /\ Outcome(msgs, wallet, market) = f[n]
  BY <1>2, <1>3, RunExists
<1>5. Trail(MarketsOf(f, msgs), msgs, market) /\ EachExecutes(f, msgs)
  BY <1>1, <1>2, <1>4, RunIsTrail
<1>6. i \in 1..n /\ n \in Nat /\ m \in Messages /\ i - 1 \in 0..n
  BY <1>2
<1>7. then = g[i - 1]
  BY <1>2, <1>6, BeforeIsTrail
<1>8. now = MarketsOf(f, msgs)[i - 1]
  BY <1>2, <1>5, <1>6, BeforeIsTrail
<1>9. MarketsOf(f, msgs)[i - 1] = f[i - 1].market
  BY <1>6 DEF MarketsOf
<1>10. Accepts(m, now)
  BY <1>5, <1>6, <1>8, <1>9 DEF EachExecutes, Executes
<1>11. IsPriced(m, then)
  BY <1>2, <1>6, <1>7 DEF AllPriced
<1>12. then \in Snapshots /\ now \in Snapshots
  <2>1. g[i - 1] \in Snapshots /\ MarketsOf(f, msgs)[i - 1] \in Snapshots
    BY <1>2, <1>5, <1>6 DEF Trail
  <2> QED BY <1>7, <1>8, <2>1
<1> HIDE DEF then, now, m
<1> DEFINE e == m.edge
           x == m.offer
<1>13. IsSnapshot(then) /\ IsSnapshot(now) /\ e \in Edges /\ x \in Nat
  BY <1>6, <1>12, SnapshotIsElement, MessageIsMessage
<1>14. /\ LegIsSafe(e, x, then[e.pool][e.in], then[e.pool][e.out], Ceiling)
       /\ m = Message(e, x, LegParams(e, x, then[e.pool][e.in], then[e.pool][e.out]))
  <2>1. m = [edge |-> e, offer |-> x, params |-> m.params]
    BY <1>6 DEF Messages
  <2> QED BY <1>11, <2>1 DEF IsPriced, Message
<1> HIDE DEF e, x
<1>15. SwapAt(e, x, now).paid >= SwapAt(e, x, then).paid - Allowance(m, then)
  BY <1>10, <1>13, <1>14, LegWithinTolerance
<1> QED BY <1>15 DEF e, x, m, then, now

(* However the pools were moved between the snapshot and the landing, by   *)
(* whom and how far: a leg that lands pays what the snapshot promised but  *)
(* for its tolerance and what rounding its limits adds, whichever kind of  *)
(* limit its pool takes.                                                   *)
THEOREM LandingsStayWithinTolerance == Spec => LandedWithinTolerance
<1>1. PricingInv /\ [Next]_vars
        => [pc = "planned" /\ market' # market /\ orders' # orders =>
              LET then == Before(plan.msgs, states)
                  now  == Before(plan.msgs, market)
              IN  \A i \in DOMAIN plan.msgs :
                    LET m == plan.msgs[i]
                    IN  SwapAt(m.edge, m.offer, now[i]).paid
                          >= SwapAt(m.edge, m.offer, then[i]).paid - Allowance(m, then[i])]_vars
  BY OnlyLandingMoves, LandingLimits
<1> QED BY <1>1, PricingInvHolds, PTL DEF Spec, LandedWithinTolerance

-----------------------------------------------------------------------------
(* A smaller trade than one that is safe *)

(* What a spread under the ceiling says of an offer and the reserve it     *)
(* goes into: it is no more than a share of it.                            *)
Shallow(o, I, rate) ==
  (2 * Unit + TolBps - Ceiling) * o <= (Ceiling - TolBps - rate) * I

LEMMA Rates ==
  Unit \in Nat \ {0} /\ TolBps \in 0..Unit /\ Ceiling \in 0..(Unit - 1)
BY UnitAssumption, CycleMathAssumption, DecisionAssumption

LEMMA SafeIsShallow ==
  ASSUME NEW o \in Nat \ {0}, NEW I \in Nat \ {0}, NEW O \in Nat \ {0}, NEW rate \in 0..Unit,
         ~SpreadTooWide(o, I, O, Swap(o, I, O, rate).paid, Ceiling)
  PROVE  Shallow(o, I, rate)
<1> DEFINE W == o * O
           k == (2 * Unit - rate) * I - Unit * (I + o)
           den == Unit * I * (I + o)
           paid == Truncated(W * k, den)
           K == Unit + TolBps - Ceiling
<1>1. /\ Unit \in Nat \ {0} /\ TolBps \in 0..Unit /\ Ceiling \in 0..(Unit - 1) /\ K \in Nat \ {0}
  BY Rates
<1>2. /\ W \in Nat \ {0} /\ k \in Int /\ den \in Nat \ {0} /\ I + o \in Nat \ {0} /\ W * k \in Int
      /\ Unit * I \in Nat \ {0}
  BY <1>1
<1>3. Swap(o, I, O, rate).paid = paid
  BY DEF Swap
<1>4. k = (Unit - rate) * I - Unit * o
  BY <1>1
<1>5. den = (I + o) * (Unit * I)
  BY <1>1
<1>6. paid \in Int /\ (W * k >= 0 => paid \in Nat /\ paid * den <= W * k)
        /\ (W * k <= 0 => paid <= 0)
  <2> HIDE DEF W, k, den
  <2> QED BY <1>2, Truncation
<1> HIDE DEF paid
<1>7. K * W <= paid * (Unit * I)
  <2> DEFINE sf == Larger(0, o * O - paid * I)
  <2>1. paid * I \in Int /\ sf \in Nat /\ W - paid * I <= sf
    BY <1>2, <1>6 DEF Larger
  <2>2. sf * Unit + TolBps * o * O <= Ceiling * o * O
    <3>1. sf * Unit \in Int /\ TolBps * o * O \in Int /\ Ceiling * o * O \in Int
      BY <1>1, <2>1
    <3> QED BY <1>3, <3>1 DEF SpreadTooWide
  <2>3. TolBps * o * O = TolBps * W /\ Ceiling * o * O = Ceiling * W
    BY <1>1
  <2> HIDE DEF sf, W
  <2>4. (W - paid * I) * Unit <= sf * Unit
    BY <1>1, <1>2, <2>1, Monotone
  <2>5. (W - paid * I) * Unit = Unit * W - paid * (Unit * I)
    BY <1>1, <1>2, <1>6
  <2>6. K * W = Unit * W + TolBps * W - Ceiling * W
    BY <1>1, <1>2
  <2>7. /\ sf * Unit \in Int /\ Unit * W \in Int /\ TolBps * W \in Int /\ Ceiling * W \in Int
        /\ paid * (Unit * I) \in Int
    BY <1>1, <1>2, <1>6, <2>1
  <2> QED BY <2>2, <2>3, <2>4, <2>5, <2>6, <2>7
<1>8. paid > 0
  <2>1. K * W > 0
    BY <1>1, <1>2
  <2>2. ASSUME paid <= 0 PROVE FALSE
    <3>1. paid * (Unit * I) <= 0 * (Unit * I)
      BY <1>2, <1>6, <2>2, Monotone
    <3> HIDE DEF K, W
    <3>2. paid * (Unit * I) \in Int /\ K * W \in Int /\ 0 * (Unit * I) = 0
      BY <1>1, <1>2, <1>6
    <3> QED BY <1>7, <2>1, <3>1, <3>2
  <2> QED BY <1>6, <2>2
<1>9. paid * den <= W * k
  BY <1>2, <1>6, <1>8
<1>10. (K * (I + o)) * W <= k * W
  <2> HIDE DEF K, W, k
  <2>1. (K * W) * (I + o) <= (paid * (Unit * I)) * (I + o)
    BY <1>1, <1>2, <1>6, <1>7, Monotone
  <2>2. (K * W) * (I + o) = (K * (I + o)) * W
    BY <1>1, <1>2
  <2>3. (paid * (Unit * I)) * (I + o) = paid * den
    BY <1>2, <1>5, <1>6
  <2>4. W * k = k * W
    BY <1>2
  <2> HIDE DEF den
  <2>5. paid * den \in Int /\ k * W \in Int /\ (K * (I + o)) * W \in Int
    BY <1>1, <1>2, <1>6
  <2> QED BY <1>9, <2>1, <2>2, <2>3, <2>4, <2>5
<1>11. K * (I + o) <= k
  <2>1. K * (I + o) \in Int
    BY <1>1, <1>2
  <2> HIDE DEF K, W, k
  <2> QED BY <1>2, <1>10, <2>1, Cancels
<1>12. /\ K * (I + o) = (Unit + TolBps - Ceiling) * I + (Unit + TolBps - Ceiling) * o
       /\ (2 * Unit + TolBps - Ceiling) * o = (Unit + TolBps - Ceiling) * o + Unit * o
       /\ (Ceiling - TolBps - rate) * I = (Unit - rate) * I - (Unit + TolBps - Ceiling) * I
  BY <1>1
<1> QED BY <1>1, <1>4, <1>11, <1>12 DEF Shallow

LEMMA LessIsShallower ==
  ASSUME NEW a \in Int, NEW b \in Int, a <= b, NEW I \in Nat, NEW rate \in 0..Unit,
         Shallow(b, I, rate)
  PROVE  Shallow(a, I, rate)
<1> DEFINE K == 2 * Unit + TolBps - Ceiling
           R == (Ceiling - TolBps - rate) * I
<1>1. K \in Nat /\ R \in Int
  BY Rates
<1>2. K * b <= R
  BY DEF Shallow
<1> HIDE DEF K, R
<1>3. a * K <= b * K
  BY <1>1, Monotone
<1>4. K * a <= R
  BY <1>1, <1>2, <1>3
<1> QED BY <1>4 DEF Shallow, K, R

(* The spread of a shallow offer is under the ceiling, but for a unit.     *)
LEMMA ShallowIsSafe ==
  ASSUME NEW o \in Nat \ {0}, NEW I \in Nat \ {0}, NEW O \in Nat \ {0}, NEW rate \in 0..Unit,
         Shallow(o, I, rate)
  PROVE  ~SpreadTooWide(o, I, O, Swap(o, I, O, rate).paid + 1, Ceiling)
<1> DEFINE W == o * O
           k == (2 * Unit - rate) * I - Unit * (I + o)
           den == Unit * I * (I + o)
           paid == Truncated(W * k, den)
           K == Unit + TolBps - Ceiling
<1>1. /\ Unit \in Nat \ {0} /\ TolBps \in 0..Unit /\ Ceiling \in 0..(Unit - 1) /\ K \in Nat \ {0}
  BY Rates
<1>2. /\ W \in Nat \ {0} /\ k \in Int /\ den \in Nat \ {0} /\ I + o \in Nat \ {0} /\ W * k \in Int
      /\ Unit * I \in Nat \ {0}
  BY <1>1
<1>3. Swap(o, I, O, rate).paid = paid
  BY DEF Swap
<1>4. den = (Unit * I) * (I + o)
  BY <1>1
<1>5. K * (I + o) <= k
  <2>1. /\ K * (I + o) = (Unit + TolBps - Ceiling) * I + (Unit + TolBps - Ceiling) * o
        /\ (2 * Unit + TolBps - Ceiling) * o = (Unit + TolBps - Ceiling) * o + Unit * o
        /\ (Ceiling - TolBps - rate) * I = (Unit - rate) * I - (Unit + TolBps - Ceiling) * I
        /\ k = (Unit - rate) * I - Unit * o
    BY <1>1
  <2>2. (2 * Unit + TolBps - Ceiling) * o <= (Ceiling - TolBps - rate) * I
    BY DEF Shallow
  <2> QED BY <1>1, <2>1, <2>2
<1>6. W * k >= 0
  <2>1. K * (I + o) >= 0
    BY <1>1, <1>2
  <2> HIDE DEF K, W
  <2>2. k >= 0
    <3>1. K * (I + o) \in Int
      BY <1>1, <1>2
    <3> HIDE DEF k
    <3> QED BY <1>2, <1>5, <2>1, <3>1
  <2> HIDE DEF k
  <2> QED BY <1>2, <2>2
<1>7. paid \in Nat /\ W * k < paid * den + den
  <2> HIDE DEF W, k, den
  <2> QED BY <1>2, <1>6, Truncation
<1> HIDE DEF paid
<1>8. K * W <= (paid + 1) * (Unit * I)
  <2> DEFINE X == K * W
             Y == (paid + 1) * (Unit * I)
  <2>1. (K * (I + o)) * W <= k * W
    <3>1. K * (I + o) \in Int
      BY <1>1, <1>2
    <3> HIDE DEF K, W, k
    <3> QED BY <1>2, <1>5, <3>1, Monotone
  <2>2. X * (I + o) = (K * (I + o)) * W /\ k * W = W * k
    <3> HIDE DEF K, W, k
    <3> QED BY <1>1, <1>2
  <2>3. Y * (I + o) = paid * den + den
    BY <1>1, <1>4, <1>7
  <2>4. X \in Int /\ Y \in Int
    <3> HIDE DEF K, W
    <3> QED BY <1>1, <1>2, <1>7
  <2>5. paid * den \in Int
    BY <1>2, <1>7
  <2> HIDE DEF X, Y, W, k, den, K
  <2>6. X * (I + o) <= Y * (I + o)
    BY <1>2, <1>7, <2>1, <2>2, <2>3, <2>4, <2>5
  <2>7. X <= Y
    BY <1>2, <2>4, <2>6, Cancels
  <2> QED BY <2>7 DEF X, Y
<1>9. TolBps <= Ceiling
  <2>1. (2 * Unit + TolBps - Ceiling) * o > 0
    BY <1>1
  <2>2. (Ceiling - TolBps - rate) * I > 0
    <3>1. (2 * Unit + TolBps - Ceiling) * o \in Int /\ (Ceiling - TolBps - rate) * I \in Int
      BY <1>1
    <3> QED BY <2>1, <3>1 DEF Shallow
  <2>3. ASSUME Ceiling - TolBps - rate <= 0 PROVE FALSE
    <3>1. (Ceiling - TolBps - rate) * I <= 0 * I
      BY <1>1, <2>3, Monotone
    <3> QED BY <1>1, <2>2, <3>1
  <2> QED BY <1>1, <2>3
<1>10. Larger(0, W - (paid + 1) * I) * Unit + TolBps * W <= Ceiling * W
  <2>1. W - (paid + 1) * I \in Int
    BY <1>2, <1>7
  <2>2. TolBps * W <= Ceiling * W
    BY <1>1, <1>2, <1>9, Monotone
  <2>3. K * W = Unit * W + TolBps * W - Ceiling * W
    BY <1>1, <1>2
  <2>4. (W - (paid + 1) * I) * Unit = Unit * W - (paid + 1) * (Unit * I)
    BY <1>1, <1>2, <1>7
  <2>5. /\ TolBps * W \in Int /\ Ceiling * W \in Int /\ Unit * W \in Int
        /\ (paid + 1) * (Unit * I) \in Int
    BY <1>1, <1>2, <1>7
  <2> DEFINE z == W - (paid + 1) * I
  <2> HIDE DEF W, K
  <2>6. z * Unit + TolBps * W <= Ceiling * W
    BY <1>8, <2>3, <2>4, <2>5
  <2> HIDE DEF z
  <2>7. Larger(0, z) = 0 \/ Larger(0, z) = z
    BY DEF Larger
  <2>8. 0 * Unit = 0
    BY <1>1
  <2>9. Larger(0, z) * Unit + TolBps * W <= Ceiling * W
    BY <2>2, <2>5, <2>6, <2>7, <2>8
  <2> QED BY <2>9 DEF z
<1>11. TolBps * o * O = TolBps * W /\ Ceiling * o * O = Ceiling * W
  BY <1>1
<1>12. /\ Larger(0, W - (paid + 1) * I) * Unit + TolBps * W \in Int /\ Ceiling * W \in Int
  <2>1. W - (paid + 1) * I \in Int
    BY <1>2, <1>7
  <2>2. Larger(0, W - (paid + 1) * I) \in Int
    BY <2>1 DEF Larger
  <2> HIDE DEF W
  <2> QED BY <1>1, <1>2, <2>2
<1> QED BY <1>3, <1>10, <1>11, <1>12 DEF SpreadTooWide

(* The spread of a leg may be half the spot value at most: a ceiling that  *)
(* a bigger offer meets before its payout stops growing.                   *)
ModerateCeiling == 2 * Ceiling <= Unit

(* Below a shallow offer, what a pool pays grows with what it is offered.  *)
LEMMA PayGrows ==
  ASSUME NEW a \in Nat \ {0}, NEW b \in Nat \ {0}, a <= b,
         NEW I \in Nat \ {0}, NEW O \in Nat \ {0}, NEW rate \in 0..Unit,
         Shallow(b, I, rate), ModerateCeiling
  PROVE  /\ Swap(a, I, O, rate).paid \in Nat
         /\ Swap(a, I, O, rate).paid <= Swap(b, I, O, rate).paid
<1> DEFINE R == Unit - rate
           k(o) == (2 * Unit - rate) * I - Unit * (I + o)
           num(o) == o * O * k(o)
           den(o) == Unit * I * (I + o)
           paid(o) == Truncated(num(o), den(o))
<1>1. Unit \in Nat \ {0} /\ TolBps \in 0..Unit /\ Ceiling \in 0..(Unit - 1) /\ 2 * Ceiling <= Unit
  BY Rates DEF ModerateCeiling
<1>2. 3 * (Unit * b) <= (Unit - 2 * rate) * I
  <2>1. (2 * Unit + TolBps - Ceiling) * b <= (Ceiling - TolBps - rate) * I
    BY DEF Shallow
  <2>2. (3 * Unit) * b <= (2 * (2 * Unit + TolBps - Ceiling)) * b
    BY <1>1, Monotone
  <2>3. (2 * (Ceiling - TolBps - rate)) * I <= (Unit - 2 * rate) * I
    BY <1>1, Monotone
  <2>4. /\ (2 * (2 * Unit + TolBps - Ceiling)) * b = 2 * ((2 * Unit + TolBps - Ceiling) * b)
        /\ (2 * (Ceiling - TolBps - rate)) * I = 2 * ((Ceiling - TolBps - rate) * I)
        /\ (3 * Unit) * b = 3 * (Unit * b)
    BY <1>1
  <2> DEFINE X == (2 * Unit + TolBps - Ceiling) * b
             Y == (Ceiling - TolBps - rate) * I
             Z == Unit * b
             V == (Unit - 2 * rate) * I
  <2>5. X \in Int /\ Y \in Int /\ Z \in Int /\ V \in Int
    BY <1>1
  <2>6. X <= Y /\ 3 * Z <= 2 * X /\ 2 * Y <= V
    BY <2>1, <2>2, <2>3, <2>4
  <2> HIDE DEF X, Y, Z, V
  <2>7. 3 * Z <= V
    BY <2>5, <2>6
  <2> QED BY <2>7 DEF Z, V
<1>3. 3 * b <= I
  <2>1. (3 * b) * Unit <= I * Unit
    <3>1. 0 <= rate * I
      BY <1>1
    <3>2. (Unit - 2 * rate) * I = I * Unit - 2 * (rate * I) /\ (3 * b) * Unit = 3 * (Unit * b)
      BY <1>1
    <3> DEFINE X == rate * I
               Y == I * Unit
    <3>3. X \in Int /\ Y \in Int
      BY <1>1
    <3> HIDE DEF X, Y
    <3> QED BY <1>1, <1>2, <3>1, <3>2, <3>3 DEF X, Y
  <2> QED BY <1>1, <2>1, Cancels
(* the payout per offer falls more slowly than the offer grows *)
<1>4. Unit * (I * (a + b) + a * b) <= R * (I * I)
  <2> DEFINE P == Unit * b
             V == (Unit - 2 * rate) * I
             W == R * I
  <2>0. P \in Nat /\ V \in Int /\ W \in Int /\ 3 * P <= V /\ R \in Int
    BY <1>1, <1>2
  <2>1. Unit * (I * (a + b) + a * b) <= P * (2 * I + b)
    <3>1. I * (a + b) + a * b <= I * (2 * b) + b * b
      <4>1. a * b <= b * b
        BY Monotone
      <4>2. (a + b) * I <= (2 * b) * I
        BY Monotone
      <4>3. I * (a + b) = (a + b) * I /\ I * (2 * b) = (2 * b) * I
        OBVIOUS
      <4>4. a * b \in Int /\ b * b \in Int /\ (a + b) * I \in Int /\ (2 * b) * I \in Int
        OBVIOUS
      <4> QED BY <4>1, <4>2, <4>3, <4>4
    <3>2. (I * (a + b) + a * b) * Unit <= (I * (2 * b) + b * b) * Unit
      BY <1>1, <3>1, Monotone
    <3>3. (I * (2 * b) + b * b) * Unit = P * (2 * I + b)
      BY <1>1
    <3>4. (I * (a + b) + a * b) * Unit = Unit * (I * (a + b) + a * b)
      BY <1>1
    <3> HIDE DEF P
    <3> QED BY <3>2, <3>3, <3>4
  <2>2. P * (2 * I + b) <= P * (3 * I)
    <3>1. (2 * I + b) * P <= (3 * I) * P
      BY <1>3, <2>0, Monotone
    <3> HIDE DEF P
    <3> QED BY <2>0, <3>1
  <2>3. P * (3 * I) <= V * I
    <3>1. (3 * P) * I <= V * I
      BY <2>0, Monotone
    <3> HIDE DEF P, V
    <3> QED BY <2>0, <3>1
  <2>4. V * I <= W * I
    <3>1. V <= W
      <4>1. (Unit - 2 * rate) * I <= (Unit - rate) * I
        BY <1>1, Monotone
      <4> QED BY <4>1
    <3> QED BY <2>0, <3>1, Monotone
  <2>5. W * I = R * (I * I)
    <3> HIDE DEF R
    <3> QED BY <2>0
  <2>6. /\ Unit * (I * (a + b) + a * b) \in Int /\ P * (2 * I + b) \in Int
        /\ P * (3 * I) \in Int /\ V * I \in Int /\ W * I \in Int
    BY <1>1, <2>0
  <2> HIDE DEF P, V, W, R
  <2> QED BY <2>1, <2>2, <2>3, <2>4, <2>5, <2>6
<1> DEFINE r == 2 * Unit - rate
<1>5. ASSUME NEW o \in 1..b
      PROVE  /\ k(o) = R * I - Unit * o /\ k(o) \in Nat
             /\ num(o) \in Nat /\ den(o) \in Nat \ {0} /\ o * O \in Nat
             /\ Swap(o, I, O, rate).paid = paid(o)
  <2>1. k(o) = R * I - Unit * o
    BY <1>1
  <2>2. Unit * o <= R * I
    <3>1. o * Unit <= b * Unit
      BY <1>1, Monotone
    <3>2. 0 <= rate * I /\ 0 <= b * Unit
      BY <1>1
    <3>3. /\ Unit * o = o * Unit /\ Unit * b = b * Unit
          /\ R * I = Unit * I - rate * I /\ (Unit - 2 * rate) * I = Unit * I - 2 * (rate * I)
      BY <1>1
    <3> DEFINE X == o * Unit
               Y == b * Unit
               Z == rate * I
               V == Unit * I
    <3>4. X \in Int /\ Y \in Int /\ Z \in Int /\ V \in Int
      BY <1>1
    <3>5. X <= Y /\ 0 <= Z /\ 0 <= Y /\ 3 * Y <= V - 2 * Z
      BY <1>2, <3>1, <3>2, <3>3
    <3> HIDE DEF X, Y, Z, V
    <3>6. X <= V - Z
      BY <3>4, <3>5
    <3> QED BY <3>3, <3>6 DEF X, V, Z
  <2>3. k(o) \in Nat
    <3>1. R * I \in Int /\ Unit * o \in Int
      BY <1>1
    <3> HIDE DEF R
    <3>2. R * I - Unit * o \in Nat
      BY <2>2, <3>1
    <3> HIDE DEF k
    <3> QED BY <2>1, <3>2
  <2>4. o * O \in Nat /\ den(o) \in Nat \ {0}
    BY <1>1
  <2>5. num(o) \in Nat
    <3> HIDE DEF k
    <3> QED BY <2>3, <2>4
  <2>6. Swap(o, I, O, rate).paid = paid(o)
    BY DEF Swap
  <2> HIDE DEF k, num, den, paid
  <2> QED BY <2>1, <2>3, <2>4, <2>5, <2>6
<1>6. a \in 1..b /\ b \in 1..b
  OBVIOUS
<1>7. num(a) * den(b) <= num(b) * den(a)
  <2> DEFINE Q == (O * Unit) * I
             f == a * k(a) * (I + b)
             g == b * k(b) * (I + a)
  <2>1. g - f = (b - a) * (R * (I * I) - Unit * (I * (a + b) + a * b))
    <3>1. k(a) = R * I - Unit * a /\ k(b) = R * I - Unit * b
      BY <1>5, <1>6
    <3> HIDE DEF k, R
    <3>2. R \in Int
      BY <1>1 DEF R
    <3>3. f = R * (I * I) * a + R * I * a * b - Unit * a * a * I - Unit * a * a * b
      BY <1>1, <3>1, <3>2
    <3>4. g = R * (I * I) * b + R * I * a * b - Unit * b * b * I - Unit * a * b * b
      BY <1>1, <3>1, <3>2
    <3>5. (b - a) * (R * (I * I) - Unit * (I * (a + b) + a * b))
            = R * (I * I) * b - R * (I * I) * a - Unit * b * b * I + Unit * a * a * I
                - Unit * a * b * b + Unit * a * a * b
      BY <1>1, <3>2
    <3> HIDE DEF f, g
    <3>6. /\ R * (I * I) * a \in Int /\ R * (I * I) * b \in Int /\ R * I * a * b \in Int
          /\ Unit * a * a * I \in Int /\ Unit * a * a * b \in Int /\ Unit * b * b * I \in Int
          /\ Unit * a * b * b \in Int
      BY <1>1, <3>2
    <3> QED BY <3>3, <3>4, <3>5, <3>6
  <2>2. f \in Int /\ g \in Int
    BY <1>5, <1>6
  <2>3. f <= g
    <3> DEFINE z == R * (I * I) - Unit * (I * (a + b) + a * b)
    <3>1. z \in Nat /\ b - a \in Nat
      BY <1>1, <1>4
    <3> HIDE DEF z, f, g
    <3>2. (b - a) * z \in Nat
      BY <3>1
    <3> QED BY <2>1, <2>2, <3>2 DEF z
  <2>4. Q \in Nat
    BY <1>1
  <2>5. f * Q <= g * Q
    BY <2>2, <2>3, <2>4, Monotone
  <2>6. num(a) * den(b) = f * Q /\ num(b) * den(a) = g * Q
    <3>1. k(a) \in Int /\ k(b) \in Int
      BY <1>1
    <3> HIDE DEF k
    <3> QED BY <1>1, <3>1
  <2> HIDE DEF f, g, Q, num, den
  <2> QED BY <2>5, <2>6
<1>8. /\ num(a) \in Nat /\ num(b) \in Nat /\ den(a) \in Nat \ {0} /\ den(b) \in Nat \ {0}
      /\ Swap(a, I, O, rate).paid = paid(a) /\ Swap(b, I, O, rate).paid = paid(b)
  BY <1>5, <1>6
<1> HIDE DEF num, den
<1>9. /\ paid(a) \in Nat /\ paid(a) * den(a) <= num(a)
      /\ paid(b) \in Nat /\ num(b) < paid(b) * den(b) + den(b)
  <2>1. num(a) \in Int /\ num(a) >= 0 /\ num(b) \in Int /\ num(b) >= 0
    BY <1>8
  <2>2. paid(a) \in Nat /\ paid(a) * den(a) <= num(a)
    BY <1>8, <2>1, Truncation
  <2>3. paid(b) \in Nat /\ num(b) < paid(b) * den(b) + den(b)
    BY <1>8, <2>1, Truncation
  <2> QED BY <2>2, <2>3
<1> DEFINE x == paid(a)
           y == paid(b)
           D == den(a)
           E == den(b)
           M == num(a)
           N == num(b)
<1> HIDE DEF x, y, D, E, M, N
<1>10. /\ M \in Nat /\ N \in Nat /\ D \in Nat \ {0} /\ E \in Nat \ {0} /\ x \in Nat /\ y \in Nat
       /\ x * D <= M /\ N < y * E + E /\ M * E <= N * D
  BY <1>7, <1>8, <1>9 DEF x, y, D, E, M, N
<1>11. ASSUME y < x PROVE FALSE
  <2>1. (y + 1) * E <= x * E
    BY <1>10, <1>11, Monotone
  <2>2. N < x * E
    <3>1. (y + 1) * E = y * E + E /\ y * E \in Int /\ x * E \in Int
      BY <1>10
    <3> QED BY <1>10, <2>1, <3>1
  <2>3. (N + 1) * D <= (x * E) * D
    <3>1. x * E \in Int /\ N + 1 <= x * E
      BY <1>10, <2>2
    <3> QED BY <1>10, <3>1, Monotone
  <2>4. (x * D) * E <= M * E
    <3>1. x * D \in Int
      BY <1>10
    <3> QED BY <1>10, <3>1, Monotone
  <2>5. (x * E) * D = (x * D) * E /\ (N + 1) * D = N * D + D
    BY <1>10
  <2>6. N * D \in Int /\ (x * D) * E \in Int /\ M * E \in Int
    BY <1>10
  <2> QED BY <1>10, <2>3, <2>4, <2>5, <2>6
<1>12. x \in Nat /\ x <= y
  BY <1>10, <1>11
<1> QED BY <1>8, <1>12 DEF x, y

LEMMA TaxGrows ==
  ASSUME NEW a \in Assets, NEW x \in Nat, NEW y \in Nat, x <= y, NEW direction \in {"in", "out"}
  PROVE  x - Tax(a, x, direction) <= y - Tax(a, y, direction)
<1> DEFINE rate == RateFor(a, direction)
           t == CeilDiv(x * rate, Unit)
           u == CeilDiv(y * rate, Unit)
<1>1. rate \in 0..Unit /\ Unit \in Nat \ {0}
  BY CycleMathAssumption, UnitAssumption DEF RateFor
<1>2. Tax(a, x, direction) = t /\ Tax(a, y, direction) = u
  BY DEF Tax
<1> HIDE DEF rate
<1>3. x * rate \in Int /\ y * rate \in Int
  BY <1>1
<1>4. t \in Int /\ x * rate <= t * Unit /\ u \in Int /\ u * Unit <= y * rate + Unit - 1
  <2>1. t \in Int /\ x * rate <= t * Unit
    BY <1>1, <1>3, RoundedUp
  <2>2. u \in Int /\ u * Unit <= y * rate + Unit - 1
    BY <1>1, <1>3, RoundedUp
  <2> QED BY <2>1, <2>2
<1> HIDE DEF t, u
<1>5. ASSUME u - t > y - x PROVE FALSE
  <2>1. (y - x + 1) * Unit <= (u - t) * Unit
    BY <1>1, <1>4, <1>5, Monotone
  <2>2. rate * (y - x) <= Unit * (y - x)
    BY <1>1, Monotone
  <2>3. /\ (y - x + 1) * Unit = Unit * (y - x) + Unit
        /\ (u - t) * Unit = u * Unit - t * Unit
        /\ rate * (y - x) = y * rate - x * rate
    BY <1>1, <1>4
  <2> DEFINE A == Unit * (y - x)
             B == u * Unit
             C == t * Unit
             X == x * rate
             Y == y * rate
  <2>4. A \in Int /\ B \in Int /\ C \in Int /\ X \in Int /\ Y \in Int
    BY <1>1, <1>4
  <2>5. A + Unit <= B - C /\ Y - X <= A /\ X <= C /\ B <= Y + Unit - 1
    BY <1>4, <2>1, <2>2, <2>3
  <2> HIDE DEF A, B, C, X, Y
  <2> QED BY <1>1, <2>4, <2>5
<1> QED BY <1>2, <1>4, <1>5

(* A smaller offer to a leg that is safe: it delivers no more, and is safe *)
(* but for a unit.                                                         *)
LEMMA HopGrows ==
  ASSUME NEW e \in Edges, NEW x \in Nat, NEW y \in Nat, x <= y, NEW s, IsSnapshot(s),
         ModerateCeiling, LegIsSafe(e, y, s[e.pool][e.in], s[e.pool][e.out], Ceiling)
  PROVE  /\ Received(e, x, s) \in Nat
         /\ Received(e, x, s) <= Received(e, y, s)
         /\ UnderCeiling(e, x, s)
<1> DEFINE I == s[e.pool][e.in]
           O == s[e.pool][e.out]
           r == Commission[e.pool]
           a == Taxed(e, x)
           b == Taxed(e, y)
           p == SwapAt(e, x, s).paid
           q == SwapAt(e, y, s).paid
<1>1. /\ b \in Nat \ {0} /\ I \in Nat \ {0} /\ O \in Nat \ {0} /\ q \in Nat \ {0} /\ r \in 0..Unit
  BY SafeLegPays, Reserves
<1>2. p = Swap(a, I, O, r).paid /\ q = Swap(b, I, O, r).paid
  BY DEF SwapAt
<1>3. ~SpreadTooWide(b, I, O, Swap(b, I, O, r).paid, Ceiling)
  BY DEF LegIsSafe
<1>4. a \in Nat /\ a <= b
  <2>1. e.in \in Assets /\ a \in Nat
    BY Hop, TaxedOffer
  <2>2. x - Tax(e.in, x, "out") <= y - Tax(e.in, y, "out")
    BY <2>1, TaxGrows
  <2> QED BY <2>1, <2>2 DEF Taxed
<1>5. Received(e, x, s) = Delivered(e, p) /\ Received(e, y, s) = Delivered(e, q)
  BY ReceivedPay
<1>6. UnderCeiling(e, x, s) <=> (a > 0 => I > 0 /\ O > 0 /\ ~SpreadTooWide(a, I, O, p + 1, Ceiling))
  BY DEF UnderCeiling
<1> HIDE DEF I, O, r, a, b, p, q
<1>7. Shallow(b, I, r)
  BY <1>1, <1>3, SafeIsShallow
<1>8. p \in Nat /\ p <= q
  <2>1. CASE a = 0
    <3>1. p = 0
      BY <1>2, <2>1 DEF Swap
    <3> QED BY <1>1, <3>1
  <2>2. CASE a # 0
    BY <1>1, <1>2, <1>4, <1>7, <2>2, PayGrows
  <2> QED BY <2>1, <2>2
<1>9. UnderCeiling(e, x, s)
  <2>1. ASSUME a > 0 PROVE ~SpreadTooWide(a, I, O, p + 1, Ceiling)
    <3>1. Shallow(a, I, r) /\ a \in Nat \ {0}
      BY <1>1, <1>4, <1>7, <2>1, LessIsShallower
    <3> QED BY <1>1, <1>2, <3>1, ShallowIsSafe
  <2> QED BY <1>1, <1>6, <2>1
<1>10. Delivered(e, p) \in Nat /\ Delivered(e, p) <= Delivered(e, q)
  <2>1. e.out \in Assets /\ Delivered(e, p) \in Nat
    BY <1>8, Hop, DeliveredPay
  <2>2. p - Tax(e.out, p, "in") <= q - Tax(e.out, q, "in")
    BY <1>1, <1>8, <2>1, TaxGrows
  <2> QED BY <2>1, <2>2 DEF Delivered
<1> QED BY <1>5, <1>9, <1>10

LEMMA FlowGrows ==
  ASSUME NEW c \in Seq(Edges), NEW x \in Nat, NEW cap \in Nat, x <= cap, NEW s, IsSnapshot(s),
         ModerateCeiling, Fits(c, cap, s, Ceiling)
  PROVE  \A i \in 1..Len(c) :
           LegOffers(c, x, s)[i] > 0 => UnderCeiling(c[i], LegOffers(c, x, s)[i], s)
<1> DEFINE f == Flow(c, x, s)
           g == Flow(c, cap, s)
           offers == LegOffers(c, cap, s)
           n == Len(c)
           D == {i \in Nat : f[i] \in Nat /\ g[i] \in Nat /\ f[i] <= g[i]}
<1>1. n \in Nat /\ DOMAIN c = 1..n /\ \A i \in 1..n : c[i] \in Edges
  BY Legs
<1>2. /\ f[0] = x /\ g[0] = cap /\ f \in [0..n -> Int] /\ g \in [0..n -> Int]
      /\ \A i \in 1..n : f[i] = FlowStep(c, s, f[i - 1], i) /\ g[i] = FlowStep(c, s, g[i - 1], i)
  BY FlowUnfolds
<1>3. /\ offers \in [DOMAIN c -> Int]
      /\ \A i \in 1..n : offers[i] = g[i - 1] /\ LegOffers(c, x, s)[i] = f[i - 1]
  BY <1>1, OffersAreNumbers
<1>4. ExecutionParams(c, offers, s, Ceiling) # NoParams
  BY DEF Fits
<1> HIDE DEF f, g, offers
<1>5. ASSUME NEW i \in 1..n, i - 1 \in D, f[i - 1] > 0
      PROVE  /\ f[i] = Received(c[i], f[i - 1], s) /\ f[i] \in Nat
             /\ f[i] <= g[i] /\ g[i] = Received(c[i], g[i - 1], s)
             /\ UnderCeiling(c[i], f[i - 1], s)
  <2>1. f[i - 1] \in Nat /\ g[i - 1] \in Nat /\ f[i - 1] <= g[i - 1] /\ g[i - 1] > 0
    BY <1>5
  <2>2. f[i] = Received(c[i], f[i - 1], s) /\ g[i] = Received(c[i], g[i - 1], s)
    BY <1>2, <1>5, <2>1 DEF FlowStep
  <2>3. LegIsSafe(c[i], g[i - 1], s[c[i].pool][c[i].in], s[c[i].pool][c[i].out], Ceiling)
    <3>1. i \in DOMAIN c /\ offers[i] > 0 /\ offers[i] = g[i - 1]
      BY <1>1, <1>3, <2>1
    <3> QED BY <1>3, <1>4, <3>1, LegsAreSafe
  <2>4. c[i] \in Edges
    BY <1>1
  <2> QED BY <2>1, <2>2, <2>3, <2>4, HopGrows
<1>6. ASSUME NEW i \in 1..n, i - 1 \in D, f[i - 1] <= 0 PROVE f[i] = 0 /\ g[i] \in Nat
  <2>1. f[i] = 0
    BY <1>2, <1>6 DEF FlowStep
  <2>2. CASE g[i - 1] <= 0
    BY <1>2, <2>1, <2>2 DEF FlowStep
  <2>3. CASE g[i - 1] > 0
    <3>1. g[i - 1] \in Nat
      BY <1>6
    <3>2. g[i] = Received(c[i], g[i - 1], s)
      BY <1>2, <2>3, <3>1 DEF FlowStep
    <3>3. LegIsSafe(c[i], g[i - 1], s[c[i].pool][c[i].in], s[c[i].pool][c[i].out], Ceiling)
      <4>1. i \in DOMAIN c /\ offers[i] > 0 /\ offers[i] = g[i - 1]
        BY <1>1, <1>3, <2>3
      <4> QED BY <1>3, <1>4, <4>1, LegsAreSafe
    <3>4. c[i] \in Edges
      BY <1>1
    <3>5. Received(c[i], g[i - 1], s) \in Nat
      <4> DEFINE y == g[i - 1]
      <4> HIDE DEF y
      <4>1. y \in Nat /\ y <= y
        BY <3>1 DEF y
      <4> QED BY <3>3, <3>4, <4>1, HopGrows DEF y
    <3> QED BY <2>1, <3>2, <3>5
  <2> QED BY <1>2, <1>6, <2>1, <2>2, <2>3
<1>7. \A i \in 0..n : i \in D
  <2>1. 0 \in D
    BY <1>2
  <2>2. ASSUME NEW i \in 1..n, i - 1 \in D PROVE i \in D
    <3>1. g[i] \in Int /\ i \in Nat
      BY <1>1, <1>2
    <3>2. f[i - 1] \in Nat
      BY <2>2
    <3>3. CASE f[i - 1] > 0
      BY <1>5, <2>2, <3>1, <3>3
    <3>4. CASE f[i - 1] <= 0
      BY <1>6, <2>2, <3>1, <3>4
    <3> QED BY <3>2, <3>3, <3>4
  <2> HIDE DEF D
  <2> QED BY <1>1, <2>1, <2>2, UpTo
<1>8. ASSUME NEW i \in 1..n, f[i - 1] > 0 PROVE UnderCeiling(c[i], f[i - 1], s)
  <2>1. i - 1 \in D
    <3>1. i - 1 \in 0..n
      BY <1>1
    <3> HIDE DEF D
    <3> QED BY <1>7, <3>1
  <2> QED BY <1>5, <1>8, <2>1
<1> QED BY <1>3, <1>8

(* Whatever the pools, taxes, commissions and sizes, under a ceiling of at *)
(* most half the spot value: every leg of the size that is settled on,     *)
(* somewhere below the size spread_cap_for_cycle found, has a spread under *)
(* the ceiling, but for the unit its payout is truncated by.               *)
THEOREM SizesAreSafe == ModerateCeiling => (Spec => []SizedIsSafe)
<1>1. ASSUME PricingInv, ModerateCeiling PROVE SizedIsSafe
  <2> SUFFICES ASSUME pc = "sized", NEW i \in DOMAIN cycle, Offers[i] > 0
               PROVE  UnderCeiling(cycle[i], Offers[i], states)
    BY DEF SizedIsSafe
  <2>1. cycle \in Cycles /\ Evaluated(cycle, sized, states) /\ IsSnapshot(states)
    BY <1>1 DEF PricingInv, Stages, Holding
  <2>2. cycle \in Seq(Edges) /\ DOMAIN cycle = 1..Len(cycle)
    BY <2>1, CycleIsKnown
  <2>3. sized.amount \in Nat /\ UnderCap(cycle, sized.amount, states)
    BY <2>1 DEF Evaluated
  <2>4. PICK cap \in Nat : sized.amount <= cap /\ Fits(cycle, cap, states, Ceiling)
    BY <2>3 DEF UnderCap
  <2>5. LegOffers(cycle, sized.amount, states)[i] > 0
    BY DEF Offers
  <2>6. UnderCeiling(cycle[i], LegOffers(cycle, sized.amount, states)[i], states)
    BY <1>1, <2>1, <2>2, <2>3, <2>4, <2>5, FlowGrows
  <2> QED BY <2>6 DEF Offers
<1>2. PricingInv /\ ModerateCeiling => SizedIsSafe
  BY <1>1
<1>3. SUFFICES ASSUME ModerateCeiling PROVE Spec => []SizedIsSafe
  OBVIOUS
<1> QED BY <1>2, <1>3, PricingInvHolds, PTL

=============================================================================
