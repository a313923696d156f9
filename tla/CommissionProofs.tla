--------------------------- MODULE CommissionProofs ---------------------------
(***************************************************************************)
(* The refresh thread keeps every rate it can read within a bounded        *)
(* distance of governance, for every number of pools and worker threads.   *)
(***************************************************************************)
EXTENDS Commission, FiniteSetTheorems, WellFoundedInduction, TLAPS

(* The fail-over of one query ends within the time a rate is kept.         *)
QueriesAreShort == QueryLimit < TTL

(* What a query may miss governance by when it is sent. *)
SentBy == KeepUp - QueryLimit

(* The pools CommissionKeepsUp speaks of. *)
Current(p) == resolved[p] # Never /\ ~missed[p]

Ahead(x, p) == \E i, k \in DOMAIN PoolList : i < k /\ PoolList[i] = x /\ PoolList[k] = p

(* The query ticks that other pools may still need before p is looked at. *)
Work(p) ==
  {w \in Pools \X (1..QueryLimit) :
     \/ job[w[1]] = "asking" /\ w[2] > asked[w[1]].age
     \/ job[w[1]] = "waiting" /\ w[1] \in Live /\ Ahead(w[1], p)}

InFront(p) == {x \in Live : Ahead(x, p)}
NextRound(p) == QueryLimit * Cardinality(InFront(p))

(* This much work of Refreshers threads fits in before p has to be asked. *)
Room(p, work) == work <= Refreshers * (SentBy - behind[p])

WaitingInTime(p) == job[p] = "waiting" => Room(p, Cardinality(Work(p)))

AskedInTime(p) == job[p] = "asking" => behind[p] <= SentBy + asked[p].age

(* After its turn p waits for the slowest of the others, the sleep, and    *)
(* those in front of it in the next round.                                 *)
RoundWorth(p) == Refreshers * Every + NextRound(p)

DoneInTime(p) ==
  job[p] = "done" /\ nap = 0 =>
    /\ Room(p, RoundWorth(p))
    /\ \A q \in Asking :
         Room(p, Refreshers * (QueryLimit - asked[q].age) + RoundWorth(p))
    /\ \A q \in Live :
         job[q] = "waiting"
           => Room(p, Cardinality(Work(q)) + Refreshers * QueryLimit + RoundWorth(p))

AsleepInTime(p) == nap > 0 => Room(p, Refreshers * nap + NextRound(p))

InTime ==
  \A p \in Live :
    Current(p) => /\ WaitingInTime(p) /\ AskedInTime(p)
                  /\ DoneInTime(p) /\ AsleepInTime(p)

Query == [age : 0..QueryLimit, rate : Rates]

(* The rounds: in order, by at most so many threads, over before the sleep. *)
RoundsAreOrderly ==
  /\ \A x, p \in Pools : Ahead(x, p) /\ job[p] # "waiting" => job[x] # "waiting"
  /\ Cardinality(Asking) <= Refreshers
  /\ \A p \in Pools : job[p] = "asking" => p \in Live /\ asked[p] \in Query
  /\ nap > 0 => \A p \in Pools : job[p] = "done"

(* A rate is no further behind than its time of resolution says. *)
AnswersAge ==
  \A p \in Live : Current(p) /\ resolved[p] < TTL => behind[p] <= resolved[p]

KeepsUpInv == CommissionTypeOK /\ RoundsAreOrderly /\ AnswersAge /\ InTime

-----------------------------------------------------------------------------

LEMMA ConstantsAreNumbers ==
  /\ Refreshers \in Nat \ {0} /\ TTL \in Nat \ {0} /\ Every \in Nat \ {0}
  /\ QueryLimit \in Nat /\ Default \in Nat /\ Rates \subseteq Nat
  /\ Mislabelled \subseteq Pinned /\ Pinned \subseteq Pools
BY CommissionAssumption

LEMMA ListIsOrder ==
  /\ \A p \in Pools : \E i \in DOMAIN PoolList : PoolList[i] = p
  /\ \A i \in DOMAIN PoolList : PoolList[i] \in Pools
  /\ DOMAIN PoolList \subseteq Nat
  /\ \A x, y \in Pools : x = y \/ Ahead(x, y) \/ Ahead(y, x)
  /\ \A x \in Pools : ~Ahead(x, x)
  /\ \A x, y, z \in Pools : Ahead(x, y) /\ Ahead(y, z) => Ahead(x, z)
  /\ \A x, y : Ahead(x, y) => x \in Pools /\ y \in Pools
<1>1. /\ \A p \in Pools : \E i \in DOMAIN PoolList : PoolList[i] = p
      /\ \A i \in DOMAIN PoolList : PoolList[i] \in Pools
  BY DEF Pools
<1>2. DOMAIN PoolList \subseteq Nat
  BY CommissionAssumption
<1>3. \A i, k \in DOMAIN PoolList : PoolList[i] = PoolList[k] => i = k
  BY CommissionAssumption
<1>4. \A x, y \in Pools : x = y \/ Ahead(x, y) \/ Ahead(y, x)
  BY <1>1, <1>2 DEF Ahead
<1>5. \A x \in Pools : ~Ahead(x, x)
  BY <1>2, <1>3 DEF Ahead
<1>6. ASSUME NEW x \in Pools, NEW y \in Pools, NEW z \in Pools,
             Ahead(x, y), Ahead(y, z)
      PROVE  Ahead(x, z)
  <2>1. PICK i, k \in DOMAIN PoolList : i < k /\ PoolList[i] = x /\ PoolList[k] = y
    BY <1>6 DEF Ahead
  <2>2. PICK l, m \in DOMAIN PoolList : l < m /\ PoolList[l] = y /\ PoolList[m] = z
    BY <1>6 DEF Ahead
  <2>3. k = l
    BY <1>3, <2>1, <2>2
  <2>4. i < m
    BY <1>2, <2>1, <2>2, <2>3
  <2> QED BY <2>1, <2>2, <2>4 DEF Ahead
<1>7. \A x, y : Ahead(x, y) => x \in Pools /\ y \in Pools
  BY <1>1 DEF Ahead
<1> QED BY <1>1, <1>2, <1>4, <1>5, <1>6, <1>7

(* NextUp(p): nobody in front of p is still waiting.                       *)
LEMMA NextUpIsFirst ==
  ASSUME NEW p \in Pools
  PROVE  NextUp(p) <=> /\ nap = 0 /\ job[p] = "waiting"
                       /\ \A x \in Pools : Ahead(x, p) => job[x] # "waiting"
                       /\ Cardinality(Asking) < Refreshers
<1>1. ASSUME NEW i \in DOMAIN PoolList, PoolList[i] = p
      PROVE  (\A k \in 1..(i - 1) : job[PoolList[k]] # "waiting")
               <=> (\A x \in Pools : Ahead(x, p) => job[x] # "waiting")
  <2>1. \A k \in DOMAIN PoolList : PoolList[k] = p => k = i
    BY <1>1, CommissionAssumption
  <2>2. DOMAIN PoolList = 1..Len(PoolList) /\ Len(PoolList) \in Nat
    BY CommissionAssumption
  <2>3. \A x : Ahead(x, p) <=> \E k \in 1..(i - 1) : PoolList[k] = x
    <3>1. \A k \in 1..(i - 1) : k \in DOMAIN PoolList /\ k < i
      BY <2>2
    <3>2. \A k \in DOMAIN PoolList : k < i => k \in 1..(i - 1)
      BY <2>2
    <3> QED BY <1>1, <2>1, <3>1, <3>2 DEF Ahead
  <2>4. \A k \in 1..(i - 1) : PoolList[k] \in Pools
    BY <2>2, ListIsOrder
  <2> QED BY <2>3, <2>4
<1>2. \E i \in DOMAIN PoolList : PoolList[i] = p
  BY ListIsOrder
<1> QED BY <1>1, <1>2 DEF NextUp

LEMMA PoolsAreFinite ==
  /\ IsFiniteSet(Pools) /\ IsFiniteSet(Live) /\ Cardinality(Live) \in Nat
<1>1. DOMAIN PoolList = 1..Len(PoolList) /\ Len(PoolList) \in Nat
  BY CommissionAssumption
<1>2. PoolList \in Surjection(1..Len(PoolList), Pools)
  BY <1>1, CommissionAssumption DEF Surjection, Pools
<1>3. IsFiniteSet(Pools)
  BY <1>1, <1>2, FS_NatSurjection DEF ExistsSurjection
<1>4. Live \in SUBSET Pools
  BY DEF Live
<1> QED BY <1>3, <1>4, FS_Subset, FS_CardinalityType

(* The bound is enough for the others of one round, R - 1 of them under    *)
(* way, and those in front in the next: the work of a round is done when   *)
(* the last query of at most QueryLimit ticks is.                          *)
LEMMA RoomEnough ==
  /\ OthersTime \in Int /\ KeepUp \in Nat /\ SentBy \in Int /\ Old \in Nat
  /\ Refreshers * OthersTime
       >= QueryLimit * (Cardinality(Live) - 1 + 2 * (Refreshers - 1))
  /\ SentBy = TTL - 1 + OthersTime + Every
<1> DEFINE n == Cardinality(Live) - 1 + 3 * (Refreshers - 1)
           d == n \div Refreshers
<1>1. n \in Int /\ n >= -1 /\ Refreshers \in Nat \ {0} /\ QueryLimit \in Nat
  BY PoolsAreFinite, ConstantsAreNumbers
<1>2. d \in Int /\ n - Refreshers + 1 <= Refreshers * d /\ d >= -1
  <2> HIDE DEF n
  <2>1. d \in Int /\ n = Refreshers * d + (n % Refreshers) /\ n % Refreshers \in 0..(Refreshers - 1)
    BY <1>1
  <2>2. n - Refreshers + 1 <= Refreshers * d
    BY <1>1, <2>1
  <2>3. ASSUME d < -1 PROVE FALSE
    <3>1. Refreshers * d <= Refreshers * (-2)
      BY <1>1, <2>1, <2>3
    <3> QED BY <1>1, <2>2, <3>1
  <2> QED BY <2>1, <2>2, <2>3
<1>3. OthersTime = QueryLimit * d
  BY DEF OthersTime
<1> HIDE DEF d
<1>4. OthersTime \in Int /\ OthersTime >= -QueryLimit
  BY <1>1, <1>2, <1>3
<1>5. Refreshers * OthersTime = QueryLimit * (Refreshers * d)
  BY <1>1, <1>2, <1>3
<1>6. QueryLimit * (Refreshers * d) >= QueryLimit * (n - Refreshers + 1)
  BY <1>1, <1>2
<1>7. n - Refreshers + 1 = Cardinality(Live) - 1 + 2 * (Refreshers - 1)
  BY <1>1, PoolsAreFinite
<1> HIDE DEF n
<1>8. KeepUp \in Nat /\ Old \in Nat /\ SentBy \in Int /\ SentBy = TTL - 1 + OthersTime + Every
  BY <1>4, ConstantsAreNumbers DEF KeepUp, Old, SentBy
<1> QED BY <1>4, <1>5, <1>6, <1>7, <1>8

(* A pool that is asked is one, so the others are no fewer than none.      *)
LEMMA QueriesFit ==
  ASSUME NEW p \in Live
  PROVE  QueryLimit <= Old
<1> DEFINE n == Cardinality(Live) - 1 + 3 * (Refreshers - 1)
           d == n \div Refreshers
<1>1. Cardinality(Live) \in Nat \ {0}
  BY PoolsAreFinite, FS_EmptySet
<1>2. n \in Nat /\ Refreshers \in Nat \ {0} /\ QueryLimit \in Nat
  BY <1>1, ConstantsAreNumbers
<1>3. d \in Nat
  BY <1>2
<1> HIDE DEF d
<1>4. QueryLimit * d \in Nat
  BY <1>2, <1>3
<1> QED BY <1>4, ConstantsAreNumbers DEF Old, KeepUp, OthersTime, d

-----------------------------------------------------------------------------

Answer == {Honest(r) : r \in Rates} \cup Misreads

LEMMA AnswersAreNumbers ==
  ASSUME NEW a \in Answer
  PROVE  /\ a.fee \in Nat /\ a.raw \in Nat
         /\ Believable(a) => RateOf(a) \in Nat
<1>1. a.fee \in Nat /\ a.raw \in Nat
  BY CommissionAssumption DEF Answer, Honest, BPS
<1>2. ASSUME a.raw > 0 PROVE RateOf(a) \in Nat
  BY <1>1, <1>2 DEF RateOf, BPS
<1> QED BY <1>1, <1>2 DEF Believable

LEMMA HonestAnswersAreExact == \A r \in Nat : RateOf(Honest(r)) = r
BY DEF RateOf, Honest, BPS

(* What a query of p in this state may be answered. *)
LEMMA AnswersComeFromSomewhere ==
  ASSUME CommissionTypeOK, RoundsAreOrderly, NEW p \in Asking
  PROVE  /\ p \in Live /\ asked[p] \in Query
         /\ Answers(p) \subseteq Answer
<1>1. p \in Pools /\ job[p] = "asking"
  BY DEF Asking
<1>2. p \in Live /\ asked[p] \in Query
  BY <1>1 DEF RoundsAreOrderly
<1> QED BY <1>2 DEF Query, Answers, Answer, CommissionTypeOK

LEMMA TypesInit == CommissionInit => CommissionTypeOK
<1> SUFFICES ASSUME CommissionInit PROVE CommissionTypeOK OBVIOUS
<1>1. Never \in 0..Never /\ 0 \in 0..Every /\ 0 \in 0..Old /\ Old \in 0..Old
  BY ConstantsAreNumbers, RoomEnough DEF Never
<1> QED
  BY <1>1, ConstantsAreNumbers DEF CommissionInit, FreshPools, CommissionTypeOK

LEMMA AcceptedTypes ==
  ASSUME CommissionTypeOK, RoundsAreOrderly, NEW p \in Pools, Accepted(p)
  PROVE  CommissionTypeOK'
<1> USE DEF CommissionTypeOK
<1>1. p \in Asking
  BY DEF Accepted, Asking
<1>2. PICK a \in Answers(p) :
        /\ Believable(a) /\ rate' = [rate EXCEPT ![p] = RateOf(a)]
        /\ behind' = [behind EXCEPT ![p] = IF RateOf(a) = charged THEN 0 ELSE asked[p].age]
  BY DEF Accepted
<1>3. RateOf(a) \in Nat
  BY <1>1, <1>2, AnswersComeFromSomewhere, AnswersAreNumbers
<1>4. ResolvedAt(p) \in 0..Never
  BY <1>1, AnswersComeFromSomewhere, ConstantsAreNumbers DEF ResolvedAt, Never, Query
<1>5. behind' \in [Live -> 0..Old]
  <2>1. asked[p].age \in 0..QueryLimit
    BY <1>1, AnswersComeFromSomewhere DEF Query
  <2>2. QueryLimit \in Nat /\ Old \in Nat /\ QueryLimit <= Old
    BY <1>1, AnswersComeFromSomewhere, ConstantsAreNumbers, RoomEnough, QueriesFit
  <2> DEFINE v == IF RateOf(a) = charged THEN 0 ELSE asked[p].age
  <2>3. v \in 0..Old
    BY <2>1, <2>2
  <2>4. behind' = [behind EXCEPT ![p] = v] /\ behind \in [Live -> 0..Old]
    BY <1>2
  <2> HIDE DEF v
  <2> QED BY <2>3, <2>4
<1> QED BY <1>2, <1>3, <1>4, <1>5 DEF Accepted, Done

(* The query of q one tick later. *)
LEMMA OlderQuery ==
  ASSUME CommissionTypeOK, RoundsAreOrderly, CommissionTick, NEW q \in Asking
  PROVE  /\ asked'[q] \in Query
         /\ asked'[q].age = asked[q].age + 1 /\ asked'[q].rate = asked[q].rate
         /\ asked[q].age < QueryLimit
<1>1. /\ asked[q] \in Query /\ asked[q].age < QueryLimit
      /\ q \in Pools
  BY AnswersComeFromSomewhere DEF CommissionTick, Asking
<1>2. asked'[q] = [asked[q] EXCEPT !.age = @ + 1]
  BY <1>1, Zenon DEF CommissionTick
<1>3. [asked[q] EXCEPT !.age = @ + 1] = [age |-> asked[q].age + 1, rate |-> asked[q].rate]
  BY <1>1 DEF Query
<1>4. asked[q].age + 1 \in 0..QueryLimit /\ asked[q].rate \in Rates
  BY <1>1, ConstantsAreNumbers DEF Query
<1> QED BY <1>1, <1>2, <1>3, <1>4 DEF Query

LEMMA TickTypes ==
  ASSUME CommissionTypeOK, RoundsAreOrderly, CommissionTick
  PROVE  CommissionTypeOK'
<1> USE ConstantsAreNumbers, RoomEnough
<1>1. resolved' \in [Pools -> 0..Never]
  <2>1. resolved' = [q \in Pools |-> Aged(resolved[q])]
    BY DEF CommissionTick
  <2>2. resolved \in [Pools -> 0..Never]
    BY DEF CommissionTypeOK
  <2> QED BY <2>1, <2>2 DEF Aged, Never
<1>2. asked' \in [Pools -> Query \cup {None}]
  <2>1. \A q \in Pools \ Asking : asked'[q] = None
    BY Zenon DEF CommissionTick
  <2>2. asked' = [q \in Pools |-> asked'[q]]
    BY Zenon DEF CommissionTick
  <2> QED BY <2>1, <2>2, OlderQuery
<1>3. nap' \in 0..Every
  <2>1. nap' = IF nap > 0 THEN nap - 1 ELSE 0
    BY DEF CommissionTick
  <2> QED BY <2>1 DEF CommissionTypeOK
<1>4. job' \in [Pools -> {"waiting", "asking", "done"}]
  <2>1. job' = IF nap = 1 THEN [q \in Pools |-> "waiting"] ELSE job
    BY DEF CommissionTick
  <2> QED BY <2>1 DEF CommissionTypeOK
<1>5. behind' \in [Live -> 0..Old]
  <2>1. behind' = [q \in Live |-> IF rate[q] = charged THEN 0
                                  ELSE IF behind[q] < Old THEN behind[q] + 1 ELSE Old]
    BY DEF CommissionTick
  <2>2. behind \in [Live -> 0..Old] /\ Old \in Nat
    BY DEF CommissionTypeOK
  <2> QED BY <2>1, <2>2
<1>6. UNCHANGED <<charged, rate, served, missed>>
  BY DEF CommissionTick
<1> QED BY <1>1, <1>2, <1>3, <1>4, <1>5, <1>6 DEF CommissionTypeOK, Query

LEMMA TypesNext ==
  CommissionTypeOK /\ RoundsAreOrderly /\ [CommissionNext]_commissionVars
    => CommissionTypeOK'
<1> SUFFICES ASSUME CommissionTypeOK, RoundsAreOrderly,
                    [CommissionNext]_commissionVars
             PROVE  CommissionTypeOK'
  OBVIOUS
<1> USE ConstantsAreNumbers, RoomEnough DEF CommissionTypeOK
<1>1. ASSUME NEW p \in Pools, Skip(p) PROVE CommissionTypeOK'
  BY <1>1 DEF Skip
<1>2. ASSUME NEW p \in Pools, Ask(p) PROVE CommissionTypeOK'
  BY <1>2 DEF Ask
<1>3. ASSUME NEW p \in Pools, Kept(p) PROVE CommissionTypeOK'
  BY <1>3 DEF Kept, Done
<1>4. ASSUME NEW p \in Pools, GetState(p) PROVE CommissionTypeOK'
  BY <1>4 DEF GetState
<1>5. CASE RoundEnds
  BY <1>5 DEF RoundEnds
<1>6. CASE GovernanceSets
  BY <1>6 DEF GovernanceSets
<1>7. CASE Restart
  BY <1>7 DEF Restart, Never
<1>8. CASE UNCHANGED commissionVars
  BY <1>8 DEF commissionVars
<1> QED
  BY <1>1, <1>2, <1>3, <1>4, <1>5, <1>6, <1>7, <1>8, AcceptedTypes, TickTypes
  DEF CommissionNext

-----------------------------------------------------------------------------

LEMMA AskingIsFinite ==
  IsFiniteSet(Asking) /\ Cardinality(Asking) \in Nat /\ Asking \subseteq Pools
<1>1. Asking \in SUBSET Pools
  BY DEF Asking
<1> QED BY <1>1, PoolsAreFinite, FS_Subset, FS_CardinalityType

LEMMA RoundsInit == CommissionInit => RoundsAreOrderly
<1> SUFFICES ASSUME CommissionInit PROVE RoundsAreOrderly OBVIOUS
<1>1. Asking = {} /\ nap = 0 /\ \A p \in Pools : job[p] = "waiting"
  BY DEF CommissionInit, FreshPools, Asking
<1> QED BY <1>1, FS_EmptySet, ConstantsAreNumbers DEF RoundsAreOrderly

(* A pool leaves its query: the others go on as they were. *)
LEMMA DoneIsOrderly ==
  ASSUME CommissionTypeOK, RoundsAreOrderly, NEW p \in Pools,
         job[p] = "asking", Done(p), UNCHANGED nap
  PROVE  RoundsAreOrderly'
<1>1. /\ job' = [job EXCEPT ![p] = "done"] /\ asked' = [asked EXCEPT ![p] = None]
      /\ job \in [Pools -> {"waiting", "asking", "done"}]
  BY DEF Done, CommissionTypeOK
<1>2. Asking' = Asking \ {p}
  BY <1>1 DEF Asking
<1>3. Cardinality(Asking') <= Cardinality(Asking)
  BY <1>2, AskingIsFinite, FS_Subset
<1>4. Cardinality(Asking') \in Nat
  BY <1>2, AskingIsFinite, FS_Subset, FS_CardinalityType
<1>5. Cardinality(Asking') <= Refreshers
  BY <1>3, <1>4, AskingIsFinite, ConstantsAreNumbers DEF RoundsAreOrderly
<1>6. \A x, y \in Pools : Ahead(x, y) /\ job'[y] # "waiting" => job'[x] # "waiting"
  BY <1>1 DEF RoundsAreOrderly
<1>7. \A x \in Pools : job'[x] = "asking" => x \in Live /\ asked'[x] \in Query
  <2>1. ASSUME NEW x \in Pools, job'[x] = "asking" PROVE x \in Live /\ asked'[x] \in Query
    <3>1. x # p /\ job[x] = "asking"
      BY <1>1, <2>1
    <3>2. asked'[x] = asked[x]
      BY <1>1, <3>1 DEF CommissionTypeOK
    <3> QED BY <3>1, <3>2 DEF RoundsAreOrderly
  <2> QED BY <2>1
<1>8. nap' > 0 => \A x \in Pools : job'[x] = "done"
  BY <1>1 DEF RoundsAreOrderly
<1> HIDE DEF Ahead
<1> QED BY <1>5, <1>6, <1>7, <1>8 DEF RoundsAreOrderly

LEMMA AskIsOrderly ==
  ASSUME CommissionTypeOK, RoundsAreOrderly, NEW p \in Pools, Ask(p)
  PROVE  RoundsAreOrderly' /\ p \in Live /\ Asking' = Asking \cup {p}
<1>1. /\ job' = [job EXCEPT ![p] = "asking"] /\ NextUp(p) /\ p \in Live /\ nap' = nap
      /\ asked' = [asked EXCEPT ![p] = [age |-> 0, rate |-> charged]]
      /\ job \in [Pools -> {"waiting", "asking", "done"}]
  BY DEF Ask, Due, Live, CommissionTypeOK
<1>2. Asking' = Asking \cup {p}
  BY <1>1 DEF Asking
<1>3. Cardinality(Asking') <= Refreshers
  <2>1. Cardinality(Asking') <= Cardinality(Asking) + 1 /\ Cardinality(Asking') \in Nat
    <3>1. /\ IsFiniteSet(Asking \cup {p})
          /\ Cardinality(Asking \cup {p})
               = IF p \in Asking THEN Cardinality(Asking) ELSE Cardinality(Asking) + 1
      BY AskingIsFinite, FS_AddElement
    <3> QED BY <1>2, <3>1, AskingIsFinite
  <2> QED BY <1>1, <2>1, AskingIsFinite, NextUpIsFirst, ConstantsAreNumbers
<1>4. \A x, y \in Pools : Ahead(x, y) /\ job'[y] # "waiting" => job'[x] # "waiting"
  <2>1. \A x \in Pools : Ahead(x, p) => job[x] # "waiting"
    BY <1>1, NextUpIsFirst
  <2> QED BY <1>1, <2>1 DEF RoundsAreOrderly
<1>5. \A x \in Pools : job'[x] = "asking" => x \in Live /\ asked'[x] \in Query
  <2>1. [age |-> 0, rate |-> charged] \in Query
    BY ConstantsAreNumbers DEF Query, CommissionTypeOK
  <2> QED BY <1>1, <2>1 DEF RoundsAreOrderly, CommissionTypeOK
<1>6. nap' > 0 => \A x \in Pools : job'[x] = "done"
  BY <1>1, NextUpIsFirst
<1> QED BY <1>1, <1>2, <1>3, <1>4, <1>5, <1>6 DEF RoundsAreOrderly

LEMMA TickIsOrderly ==
  ASSUME CommissionTypeOK, RoundsAreOrderly, CommissionTick
  PROVE  /\ RoundsAreOrderly'
         /\ nap # 1 => job' = job /\ Asking' = Asking
         /\ nap = 1 => Asking' = {} /\ \A p \in Pools : job'[p] = "waiting"
<1>1. /\ nap \in Nat /\ nap' = IF nap > 0 THEN nap - 1 ELSE 0
      /\ job' = IF nap = 1 THEN [q \in Pools |-> "waiting"] ELSE job
  BY DEF CommissionTick, CommissionTypeOK
<1>2. CASE nap = 1
  <2>1. Asking' = {} /\ nap' = 0 /\ \A p \in Pools : job'[p] = "waiting"
    BY <1>1, <1>2 DEF Asking
  <2> QED BY <1>2, <2>1, FS_EmptySet, ConstantsAreNumbers DEF RoundsAreOrderly
<1>3. CASE nap # 1
  <2>1. job' = job /\ Asking' = Asking
    BY <1>1, <1>3 DEF Asking
  <2>2. nap' > 0 => nap > 0
    BY <1>1
  <2>3. \A q \in Asking : asked'[q] \in Query
    BY OlderQuery
  <2>4. \A q \in Pools : job'[q] = "asking" => q \in Live /\ asked'[q] \in Query
    BY <2>1, <2>3 DEF RoundsAreOrderly, Asking
  <2> QED BY <1>3, <2>1, <2>2, <2>4 DEF RoundsAreOrderly
<1> QED BY <1>2, <1>3

LEMMA RoundsNext ==
  CommissionTypeOK /\ RoundsAreOrderly /\ [CommissionNext]_commissionVars
    => RoundsAreOrderly'
<1> SUFFICES ASSUME CommissionTypeOK, RoundsAreOrderly,
                    [CommissionNext]_commissionVars
             PROVE  RoundsAreOrderly'
  OBVIOUS
<1>1. ASSUME NEW p \in Pools, Skip(p) PROVE RoundsAreOrderly'
  <2>1. /\ job' = [job EXCEPT ![p] = "done"] /\ NextUp(p) /\ UNCHANGED <<asked, nap>>
        /\ job \in [Pools -> {"waiting", "asking", "done"}]
    BY <1>1 DEF Skip, CommissionTypeOK
  <2>2. Asking' = Asking
    BY <2>1, NextUpIsFirst DEF Asking
  <2>3. \A x \in Pools : Ahead(x, p) => job[x] # "waiting"
    BY <2>1, NextUpIsFirst
  <2>4. nap' = 0
    BY <2>1, NextUpIsFirst
  <2> QED BY <2>1, <2>2, <2>3, <2>4 DEF RoundsAreOrderly
<1>2. ASSUME NEW p \in Pools, Accepted(p) \/ Kept(p) PROVE RoundsAreOrderly'
  BY <1>2, DoneIsOrderly DEF Accepted, Kept
<1>3. CASE RoundEnds
  <2>1. UNCHANGED <<job, asked>> /\ \A p \in Pools : job[p] = "done"
    BY <1>3 DEF RoundEnds
  <2>2. Asking' = Asking
    BY <2>1 DEF Asking
  <2> QED BY <2>1, <2>2 DEF RoundsAreOrderly
<1>4. CASE Restart
  <2>1. Asking' = {} /\ nap' = 0 /\ \A p \in Pools : job'[p] = "waiting"
    BY <1>4 DEF Restart, Asking
  <2> QED BY <2>1, FS_EmptySet, ConstantsAreNumbers DEF RoundsAreOrderly
<1>5. ASSUME UNCHANGED <<job, asked, nap>> PROVE RoundsAreOrderly'
  <2>1. Asking' = Asking
    BY <1>5 DEF Asking
  <2> QED BY <1>5, <2>1 DEF RoundsAreOrderly
<1>6. ASSUME NEW p \in Pools, GetState(p) PROVE UNCHANGED <<job, asked, nap>>
  BY <1>6 DEF GetState
<1>7. CASE GovernanceSets
  BY <1>5, <1>7 DEF GovernanceSets
<1>8. CASE UNCHANGED commissionVars
  BY <1>5, <1>8 DEF commissionVars
<1> QED
  BY <1>1, <1>2, <1>3, <1>4, <1>5, <1>6, <1>7, <1>8, AskIsOrderly, TickIsOrderly
  DEF CommissionNext

-----------------------------------------------------------------------------

LEMMA LeastNumber ==
  ASSUME NEW S, S \subseteq Nat, S # {}
  PROVE  \E x \in S : \A y \in S : x <= y
<1>1. PICK x \in S : \A y \in S : <<y, x>> \notin OpToRel(<, Nat)
  BY NatLessThanWellFounded, WFMin
<1>2. ASSUME NEW y \in S PROVE x <= y
  <2>1. <<y, x>> \in Nat \X Nat
    OBVIOUS
  <2> QED BY <1>1, <2>1 DEF OpToRel
<1> QED BY <1>2

(* Time passes in a round only when every thread has a query, as long as   *)
(* some pool waits for its turn.                                           *)
LEMMA ThreadsAreBusy ==
  ASSUME CommissionTypeOK, RoundsAreOrderly, CommissionTick, nap = 0,
         NEW p \in Pools, job[p] = "waiting"
  PROVE  Cardinality(Asking) = Refreshers
<1> DEFINE S == {i \in DOMAIN PoolList : job[PoolList[i]] = "waiting"}
<1>1. S # {} /\ S \subseteq Nat
  BY ListIsOrder
<1>2. PICK i \in S : \A k \in S : i <= k
  BY <1>1, LeastNumber
<1>3. PoolList[i] \in Pools /\ job[PoolList[i]] = "waiting" /\ i \in Nat
  BY <1>1, <1>2, ListIsOrder
<1>4. DOMAIN PoolList = 1..Len(PoolList) /\ Len(PoolList) \in Nat
  BY CommissionAssumption
<1>5. \A k \in 1..(i - 1) : job[PoolList[k]] # "waiting"
  <2>1. ASSUME NEW k \in 1..(i - 1), job[PoolList[k]] = "waiting" PROVE FALSE
    <3>1. k \in DOMAIN PoolList /\ k < i
      BY <1>2, <1>4
    <3>2. i <= k
      BY <1>2, <2>1, <3>1
    <3> QED BY <1>3, <3>1, <3>2
  <2> QED BY <2>1
<1>6. ~NextUp(PoolList[i])
  BY <1>3 DEF CommissionTick
<1>7. ~(Cardinality(Asking) < Refreshers)
  BY <1>2, <1>3, <1>5, <1>6 DEF NextUp
<1> QED BY <1>7, AskingIsFinite, ConstantsAreNumbers DEF RoundsAreOrderly

LEMMA WorkIsFinite ==
  ASSUME NEW W, W \subseteq Pools \X (1..QueryLimit)
  PROVE  IsFiniteSet(W) /\ Cardinality(W) \in Nat
<1>1. IsFiniteSet(1..QueryLimit)
  BY FS_Interval, ConstantsAreNumbers
<1>2. IsFiniteSet(Pools \X (1..QueryLimit))
  BY <1>1, PoolsAreFinite, FS_Product
<1> QED BY <1>2, FS_Subset, FS_CardinalityType

LEMMA LessWork ==
  ASSUME NEW V, NEW W, V \subseteq W, W \subseteq Pools \X (1..QueryLimit)
  PROVE  /\ Cardinality(V) \in Nat /\ Cardinality(W) \in Nat
         /\ Cardinality(V) <= Cardinality(W)
<1>1. V \subseteq Pools \X (1..QueryLimit) /\ V \in SUBSET W
  OBVIOUS
<1> QED BY <1>1, WorkIsFinite, FS_Subset

LEMMA WorkIsWork == \A p : Work(p) \subseteq Pools \X (1..QueryLimit)
BY DEF Work

(* A tick of a round takes a tick off the query of every thread.           *)
LEMMA TickDoesWork ==
  ASSUME CommissionTypeOK, RoundsAreOrderly, CommissionTick, nap = 0,
         NEW p \in Pools, job[p] = "waiting"
  PROVE  /\ Cardinality(Work(p)) \in Nat /\ Cardinality(Work(p)') \in Nat
         /\ Cardinality(Work(p)') + Refreshers <= Cardinality(Work(p))
<1> DEFINE tick(x) == <<x, asked[x].age + 1>>
           D == {tick(x) : x \in Asking}
           f == [x \in Asking |-> tick(x)]
<1>1. \A x \in Asking : /\ x \in Pools /\ job[x] = "asking" /\ asked[x] \in Query
                        /\ asked'[x].age = asked[x].age + 1
                        /\ asked[x].age \in Nat /\ asked[x].age + 1 \in 1..QueryLimit
  <2>1. ASSUME NEW x \in Asking
        PROVE  /\ x \in Pools /\ job[x] = "asking" /\ asked[x] \in Query
               /\ asked'[x].age = asked[x].age + 1
               /\ asked[x].age \in Nat /\ asked[x].age + 1 \in 1..QueryLimit
    <3>1. asked[x] \in Query
      BY AnswersComeFromSomewhere
    <3>2. asked[x].age \in Nat
      BY <3>1 DEF Query
    <3> QED BY <3>1, <3>2, OlderQuery, ConstantsAreNumbers DEF Asking
  <2> QED BY <2>1
<1>2. D \subseteq Work(p)
  BY <1>1 DEF Work
<1>3. job' = job /\ Asking' = Asking
  BY TickIsOrderly
<1>4. Work(p)' \subseteq Work(p) \ D
  <2>1. ASSUME NEW w \in Work(p)' PROVE w \in Work(p) \ D
    <3>1. /\ w \in Pools \X (1..QueryLimit)
          /\ \/ job[w[1]] = "asking" /\ w[2] > asked'[w[1]].age
             \/ job[w[1]] = "waiting" /\ w[1] \in Live /\ Ahead(w[1], p)
      BY <1>3, <2>1 DEF Work, Ahead
    <3>2. CASE job[w[1]] = "asking"
      <4>1. w[1] \in Asking /\ w[2] > asked[w[1]].age + 1 /\ asked[w[1]].age \in Nat
        BY <1>1, <3>1, <3>2 DEF Asking
      <4>2. w[2] > asked[w[1]].age
        BY <3>1, <4>1
      <4>3. w \in Work(p)
        BY <3>1, <3>2, <4>2 DEF Work
      <4>4. \A x \in Asking : w = tick(x) => FALSE
        BY <4>1
      <4> QED BY <4>3, <4>4
    <3>3. CASE job[w[1]] = "waiting"
      <4>1. w \in Work(p)
        BY <3>1, <3>3 DEF Work
      <4>2. \A x \in Asking : w = tick(x) => FALSE
        BY <1>1, <3>3
      <4> QED BY <4>1, <4>2
    <3> QED BY <3>1, <3>2, <3>3
  <2> QED BY <2>1
<1>5. Cardinality(D) = Refreshers
  <2>1. f \in Bijection(Asking, D)
    <3>1. f \in [Asking -> D]
      OBVIOUS
    <3>2. \A x, y \in Asking : f[x] = f[y] => x = y
      OBVIOUS
    <3>3. \A d \in D : \E x \in Asking : f[x] = d
      OBVIOUS
    <3> HIDE DEF f, D
    <3> QED BY <3>1, <3>2, <3>3 DEF Bijection, Injection, Surjection, IsInjective
  <2>2. Cardinality(D) = Cardinality(Asking)
    BY <2>1, AskingIsFinite, FS_Bijection DEF ExistsBijection
  <2> QED BY <2>2, ThreadsAreBusy
<1> HIDE DEF D
<1>6. IsFiniteSet(Work(p)) /\ Cardinality(Work(p)) \in Nat
  BY WorkIsWork, WorkIsFinite
<1>7. Work(p) \cap D = D
  BY <1>2
<1>8. Cardinality(Work(p) \ D) = Cardinality(Work(p)) - Refreshers
  BY <1>5, <1>6, <1>7, FS_Difference
<1>9. Cardinality(Work(p)') \in Nat /\ Cardinality(Work(p)') <= Cardinality(Work(p) \ D)
  BY <1>4, WorkIsWork, LessWork
<1> QED BY <1>6, <1>8, <1>9, ConstantsAreNumbers

-----------------------------------------------------------------------------

(* What may still be in the way of q when it is p's turn, or just was. *)
Outstanding(p, q) == (Asking \ {p}) \cup {x \in Live : Ahead(p, x) /\ Ahead(x, q)}

LEMMA InFrontIsFinite ==
  ASSUME NEW p
  PROVE  /\ IsFiniteSet(InFront(p)) /\ Cardinality(InFront(p)) \in Nat
         /\ NextRound(p) \in Nat
<1>1. InFront(p) \in SUBSET Live
  BY DEF InFront
<1>2. IsFiniteSet(InFront(p)) /\ Cardinality(InFront(p)) \in Nat
  BY <1>1, PoolsAreFinite, FS_Subset, FS_CardinalityType
<1> QED BY <1>2, ConstantsAreNumbers DEF NextRound

LEMMA InFrontIsFewer ==
  ASSUME NEW p \in Live
  PROVE  Cardinality(InFront(p)) <= Cardinality(Live) - 1
<1>1. IsFiniteSet(Live \ {p}) /\ Cardinality(Live \ {p}) = Cardinality(Live) - 1
  BY PoolsAreFinite, FS_RemoveElement
<1>2. InFront(p) \in SUBSET (Live \ {p})
  BY ListIsOrder DEF InFront, Live
<1> QED BY <1>1, <1>2, FS_Subset

(* The pools of a round beyond p that are not q's successors, with those   *)
(* in front of p: all but p and q.                                         *)
LEMMA BetweenIsFewer ==
  ASSUME NEW p \in Live, NEW q \in Live, Ahead(p, q)
  PROVE  LET B == {x \in Live : Ahead(p, x) /\ Ahead(x, q)} IN
         /\ IsFiniteSet(B) /\ Cardinality(B) \in Nat
         /\ Cardinality(B) + Cardinality(InFront(p)) <= Cardinality(Live) - 2
<1> DEFINE B == {x \in Live : Ahead(p, x) /\ Ahead(x, q)}
<1>1. p \in Pools /\ q \in Pools /\ p # q /\ \A x \in Live : x \in Pools
  BY ListIsOrder DEF Live
<1>2. /\ IsFiniteSet(Live \ {p}) /\ Cardinality(Live \ {p}) = Cardinality(Live) - 1
      /\ IsFiniteSet((Live \ {p}) \ {q})
      /\ Cardinality((Live \ {p}) \ {q}) = Cardinality(Live) - 2
  <2>1. IsFiniteSet(Live \ {p}) /\ Cardinality(Live \ {p}) = Cardinality(Live) - 1
    BY PoolsAreFinite, FS_RemoveElement
  <2>2. q \in Live \ {p}
    BY <1>1
  <2>3. /\ IsFiniteSet((Live \ {p}) \ {q})
        /\ Cardinality((Live \ {p}) \ {q}) = Cardinality(Live \ {p}) - 1
    BY <2>1, <2>2, FS_RemoveElement
  <2> QED BY <2>1, <2>3, PoolsAreFinite
<1>3. B \in SUBSET Live /\ IsFiniteSet(B) /\ Cardinality(B) \in Nat
  <2>1. B \in SUBSET Live
    OBVIOUS
  <2> QED BY <2>1, PoolsAreFinite, FS_Subset, FS_CardinalityType
<1>4. B \cap InFront(p) = {}
  <2>1. ASSUME NEW x \in B, x \in InFront(p) PROVE FALSE
    <3>1. Ahead(p, x) /\ Ahead(x, p) /\ x \in Pools
      BY <1>1, <2>1 DEF InFront
    <3> QED BY <1>1, <3>1, ListIsOrder
  <2> QED BY <2>1
<1>5. B \cup InFront(p) \subseteq (Live \ {p}) \ {q}
  <2>1. ASSUME NEW x \in Live, (Ahead(p, x) /\ Ahead(x, q)) \/ Ahead(x, p)
        PROVE  x # p /\ x # q
    <3>1. x \in Pools
      BY <1>1
    <3>2. Ahead(x, q)
      BY <1>1, <2>1, <3>1, ListIsOrder
    <3> QED BY <1>1, <2>1, <3>1, <3>2, ListIsOrder
  <2> QED BY <2>1 DEF InFront
<1>6. /\ IsFiniteSet(B \cup InFront(p))
      /\ Cardinality(B \cup InFront(p)) = Cardinality(B) + Cardinality(InFront(p))
  BY <1>3, <1>4, InFrontIsFinite, FS_EmptySet, FS_Union
<1>7. Cardinality(B \cup InFront(p)) <= Cardinality(Live) - 2
  BY <1>2, <1>5, <1>6, FS_Subset
<1> QED BY <1>3, <1>6, <1>7

(* At p's turn, or when its query ends, no more than Refreshers - 1 other  *)
(* queries are under way: what q has to wait for after that, a last query  *)
(* and those in front of p in the next round fit into OthersTime.          *)
LEMMA OutstandingFits ==
  ASSUME NEW p \in Live, NEW q \in Live, Ahead(p, q),
         Cardinality(Asking \ {p}) <= Refreshers - 1,
         NEW W, W \subseteq Outstanding(p, q) \X (1..QueryLimit)
  PROVE  /\ Cardinality(W) \in Nat
         /\ Cardinality(W) + Refreshers * QueryLimit + NextRound(p)
              <= Refreshers * OthersTime
<1> DEFINE B == {x \in Live : Ahead(p, x) /\ Ahead(x, q)}
           A == Asking \ {p}
           a == Cardinality(A)
           b == Cardinality(B)
           i == Cardinality(InFront(p))
           l == Cardinality(Live)
<1>1. /\ Refreshers \in Nat \ {0} /\ QueryLimit \in Nat /\ OthersTime \in Int
      /\ i \in Nat /\ l \in Nat /\ b \in Nat /\ IsFiniteSet(B) /\ b + i <= l - 2
  BY ConstantsAreNumbers, RoomEnough, InFrontIsFinite, PoolsAreFinite, BetweenIsFewer
<1>2. IsFiniteSet(A) /\ a \in Nat /\ a <= Refreshers - 1
  <2>1. A \in SUBSET Asking
    OBVIOUS
  <2> QED BY <2>1, AskingIsFinite, FS_Subset, FS_CardinalityType
<1>3. Outstanding(p, q) = A \cup B
  BY DEF Outstanding
<1> HIDE DEF A, B
<1>4. IsFiniteSet(A \cup B) /\ Cardinality(A \cup B) \in Nat /\ Cardinality(A \cup B) <= a + b
  <2>1. IsFiniteSet(A \cup B) /\ Cardinality(A \cup B) = a + b - Cardinality(A \cap B)
    BY <1>1, <1>2, FS_Union
  <2>2. A \cap B \in SUBSET A
    OBVIOUS
  <2>3. Cardinality(A \cap B) \in Nat
    BY <1>2, <2>2, FS_Subset, FS_CardinalityType
  <2>4. Cardinality(A \cup B) \in Nat
    BY <2>1, FS_CardinalityType
  <2> QED BY <1>1, <1>2, <2>1, <2>3, <2>4
<1>5. IsFiniteSet(1..QueryLimit) /\ Cardinality(1..QueryLimit) = QueryLimit
  <2>1. \A n \in Int : IsFiniteSet(1..n) /\ Cardinality(1..n) = IF 1 > n THEN 0 ELSE n - 1 + 1
    BY FS_Interval
  <2> QED BY <1>1, <2>1
<1>6. /\ IsFiniteSet((A \cup B) \X (1..QueryLimit))
      /\ Cardinality((A \cup B) \X (1..QueryLimit)) = Cardinality(A \cup B) * QueryLimit
  BY <1>4, <1>5, FS_Product
<1>7. /\ Cardinality(W) \in Nat
      /\ Cardinality(W) <= Cardinality(A \cup B) * QueryLimit
  <2>1. W \in SUBSET ((A \cup B) \X (1..QueryLimit))
    BY <1>3
  <2> QED BY <1>6, <2>1, FS_Subset, FS_CardinalityType
<1> DEFINE ab == Cardinality(A \cup B)
<1>8. ab * QueryLimit <= QueryLimit * (Refreshers + l - 3 - i)
  <2>1. ab \in Nat /\ ab <= Refreshers + l - 3 - i
    BY <1>1, <1>2, <1>4
  <2> HIDE DEF ab, l, i
  <2> QED BY <1>1, <2>1
<1>9. NextRound(p) = QueryLimit * i
  BY DEF NextRound
<1>10. Refreshers * OthersTime >= QueryLimit * (l - 1 + 2 * (Refreshers - 1))
  BY RoomEnough
<1> HIDE DEF ab, a, b, i, l
<1>11. QueryLimit * (Refreshers + l - 3 - i) + Refreshers * QueryLimit + QueryLimit * i
         = QueryLimit * (l - 1 + 2 * (Refreshers - 1))
  BY <1>1
<1>12. /\ QueryLimit * (Refreshers + l - 3 - i) \in Int /\ Refreshers * QueryLimit \in Int
       /\ QueryLimit * i \in Int /\ Refreshers * OthersTime \in Int /\ ab * QueryLimit \in Int
  BY <1>1, <1>4 DEF ab
<1>13. Cardinality(W) <= ab * QueryLimit
  BY <1>7 DEF ab
<1> QED BY <1>7, <1>8, <1>9, <1>10, <1>11, <1>12, <1>13

(* p's turn is over: the others of the round, and those of the next, leave *)
(* room before governance is more than SentBy ahead.                       *)
LEMMA AfterTurn ==
  ASSUME CommissionTypeOK, RoundsAreOrderly, RoundsAreOrderly',
         NEW p \in Live, job[p] # "waiting" \/ NextUp(p),
         Asking' = Asking \ {p}, Cardinality(Asking \ {p}) <= Refreshers - 1,
         job' = [job EXCEPT ![p] = "done"],
         \A x \in Asking \ {p} : asked'[x] = asked[x],
         behind'[p] \in Nat, behind'[p] <= TTL - 1
  PROVE  DoneInTime(p)'
<1>1. /\ Refreshers \in Nat \ {0} /\ QueryLimit \in Nat /\ OthersTime \in Int /\ SentBy \in Int
      /\ Every \in Nat /\ TTL \in Nat /\ NextRound(p) \in Nat
      /\ SentBy = TTL - 1 + OthersTime + Every
  BY ConstantsAreNumbers, RoomEnough, InFrontIsFinite
<1>2. RoundWorth(p)' = Refreshers * Every + NextRound(p) /\ RoundWorth(p)' \in Int
  BY <1>1 DEF RoundWorth, NextRound, InFront, Ahead
<1> DEFINE room == SentBy - behind'[p]
<1>3. /\ room \in Int /\ Refreshers * (OthersTime + Every) <= Refreshers * room
      /\ Refreshers * (OthersTime + Every) = Refreshers * OthersTime + Refreshers * Every
  <2>1. room \in Int /\ OthersTime + Every <= room
    BY <1>1
  <2> HIDE DEF room
  <2> QED BY <1>1, <2>1
<1>4. \A work \in Int : work + NextRound(p) <= Refreshers * OthersTime
                          => work + RoundWorth(p)' <= Refreshers * room
  BY <1>1, <1>2, <1>3
<1>5. 0 + NextRound(p) <= Refreshers * OthersTime
  <2> DEFINE i == Cardinality(InFront(p))
             l == Cardinality(Live)
  <2>1. i \in Nat /\ l \in Nat /\ i <= l - 1 + 2 * (Refreshers - 1)
    BY <1>1, InFrontIsFinite, InFrontIsFewer, PoolsAreFinite
  <2>2. Refreshers * OthersTime >= QueryLimit * (l - 1 + 2 * (Refreshers - 1))
    BY RoomEnough
  <2>3. NextRound(p) = QueryLimit * i
    BY DEF NextRound
  <2> HIDE DEF i, l
  <2>4. QueryLimit * i <= QueryLimit * (l - 1 + 2 * (Refreshers - 1))
    BY <1>1, <2>1
  <2> QED BY <1>1, <2>1, <2>2, <2>3, <2>4
<1>6. ASSUME NEW q \in Asking'
      PROVE  Refreshers * (QueryLimit - asked'[q].age) + RoundWorth(p)' <= Refreshers * room
  <2>1. q \in Asking /\ q # p /\ asked'[q] = asked[q] /\ asked[q].age \in Nat
    BY <1>6, AnswersComeFromSomewhere DEF Query
  <2>2. Refreshers >= 2
    <3>1. IsFiniteSet(Asking \ {p}) /\ Asking \ {p} # {}
      BY <2>1, AskingIsFinite, FS_RemoveElement
    <3>2. Cardinality(Asking \ {p}) # 0 /\ Cardinality(Asking \ {p}) \in Nat
      BY <3>1, FS_EmptySet, FS_CardinalityType
    <3> QED BY <1>1, <3>2
  <2> DEFINE i == Cardinality(InFront(p))
             l == Cardinality(Live)
             age == asked[q].age
  <2>3. i \in Nat /\ l \in Nat /\ i <= l - 1 /\ age \in Nat
    BY <2>1, InFrontIsFinite, InFrontIsFewer, PoolsAreFinite
  <2>4. Refreshers * OthersTime >= QueryLimit * (l - 1 + 2 * (Refreshers - 1))
    BY RoomEnough
  <2>5. NextRound(p) = QueryLimit * i
    BY DEF NextRound
  <2> HIDE DEF i, l, age
  <2>6. Refreshers * (QueryLimit - age) \in Int /\ Refreshers * (QueryLimit - age) <= QueryLimit * Refreshers
    BY <1>1, <2>3
  <2>7. QueryLimit * Refreshers + QueryLimit * i <= QueryLimit * (l - 1 + 2 * (Refreshers - 1))
    <3>1. Refreshers + i <= l - 1 + 2 * (Refreshers - 1)
      BY <1>1, <2>2, <2>3
    <3>2. QueryLimit * (Refreshers + i) <= QueryLimit * (l - 1 + 2 * (Refreshers - 1))
      BY <1>1, <2>3, <3>1
    <3> QED BY <1>1, <2>3, <3>2
  <2>8. Refreshers * (QueryLimit - age) + NextRound(p) <= Refreshers * OthersTime
    BY <1>1, <2>3, <2>4, <2>5, <2>6, <2>7
  <2>9. asked'[q].age = age
    BY <2>1 DEF age
  <2> QED BY <1>4, <2>6, <2>8, <2>9
<1>7. ASSUME NEW q \in Live, job'[q] = "waiting"
      PROVE  /\ Cardinality(Work(q)') \in Nat
             /\ Cardinality(Work(q)') + Refreshers * QueryLimit + RoundWorth(p)'
                  <= Refreshers * room
  <2>1. q # p /\ job[q] = "waiting" /\ p \in Pools /\ q \in Pools
    BY <1>7 DEF CommissionTypeOK, Live
  <2>2. Ahead(p, q) /\ \A x \in Pools : Ahead(x, p) => job[x] # "waiting"
    BY <2>1, NextUpIsFirst, ListIsOrder DEF RoundsAreOrderly
  <2>3. Work(q)' \subseteq Outstanding(p, q) \X (1..QueryLimit)
    <3>1. ASSUME NEW w \in Work(q)' PROVE w \in Outstanding(p, q) \X (1..QueryLimit)
      <4>1. /\ w \in Pools \X (1..QueryLimit)
            /\ \/ job'[w[1]] = "asking"
               \/ job'[w[1]] = "waiting" /\ w[1] \in Live /\ Ahead(w[1], q)
        BY <3>1 DEF Work, Ahead, Live
      <4>2. CASE job'[w[1]] = "asking"
        <5>1. w[1] \in Asking \ {p}
          BY <4>1, <4>2 DEF Asking
        <5> QED BY <4>1, <5>1 DEF Outstanding
      <4>3. CASE job'[w[1]] = "waiting" /\ w[1] \in Live /\ Ahead(w[1], q)
        <5>1. w[1] # p /\ job[w[1]] = "waiting" /\ w[1] \in Pools
          BY <4>1, <4>3 DEF CommissionTypeOK
        <5>2. Ahead(p, w[1])
          BY <2>1, <2>2, <5>1, ListIsOrder
        <5> QED BY <4>1, <4>3, <5>2 DEF Outstanding
      <4> QED BY <4>1, <4>2, <4>3
    <3> QED BY <3>1
  <2>4. /\ Cardinality(Work(q)') \in Nat
        /\ Cardinality(Work(q)') + Refreshers * QueryLimit + NextRound(p)
             <= Refreshers * OthersTime
    BY <2>2, <2>3, OutstandingFits
  <2>5. Refreshers * QueryLimit \in Nat
    BY <1>1
  <2>6. Cardinality(Work(q)') + Refreshers * QueryLimit \in Int
    BY <2>4, <2>5
  <2> QED BY <1>4, <2>4, <2>6
<1>8. RoundWorth(p)' <= Refreshers * room
  <2>1. 0 + RoundWorth(p)' <= Refreshers * room
    BY <1>4, <1>5
  <2> QED BY <1>2, <2>1
<1> QED BY <1>6, <1>7, <1>8 DEF DoneInTime, Room, Live

-----------------------------------------------------------------------------

LEMMA RoomStays ==
  ASSUME NEW a \in Int, NEW b \in Int, NEW x \in Int, NEW y \in Int,
         b <= Refreshers * (SentBy - x), a <= b, y <= x
  PROVE  a <= Refreshers * (SentBy - y)
<1>1. Refreshers \in Nat /\ SentBy \in Int
  BY ConstantsAreNumbers, RoomEnough
<1>2. SentBy - x <= SentBy - y /\ SentBy - x \in Int /\ SentBy - y \in Int
  BY <1>1
<1>3. Refreshers * (SentBy - x) <= Refreshers * (SentBy - y)
  BY <1>1, <1>2
<1>4. Refreshers * (SentBy - x) \in Int /\ Refreshers * (SentBy - y) \in Int
  BY <1>1, <1>2
<1> QED BY <1>3, <1>4

LEMMA RoomTicks ==
  ASSUME NEW a \in Int, NEW b \in Int, NEW x \in Int, NEW y \in Int,
         b <= Refreshers * (SentBy - x), a + Refreshers <= b, y <= x + 1
  PROVE  a <= Refreshers * (SentBy - y)
<1>1. Refreshers \in Nat /\ SentBy \in Int
  BY ConstantsAreNumbers, RoomEnough
<1>2. SentBy - x - 1 <= SentBy - y /\ SentBy - x - 1 \in Int /\ SentBy - y \in Int
  BY <1>1
<1>3. Refreshers * (SentBy - x - 1) <= Refreshers * (SentBy - y)
  BY <1>1, <1>2
<1>4. /\ Refreshers * (SentBy - x - 1) = Refreshers * (SentBy - x) - Refreshers
      /\ Refreshers * (SentBy - x) \in Int /\ Refreshers * (SentBy - y) \in Int
  BY <1>1, <1>2
<1> QED BY <1>1, <1>3, <1>4

LEMMA RoomIsTime ==
  ASSUME NEW a \in Nat, NEW x \in Int, a <= Refreshers * (SentBy - x)
  PROVE  x <= SentBy
<1>1. Refreshers \in Nat \ {0} /\ SentBy \in Int
  BY ConstantsAreNumbers, RoomEnough
<1>2. ASSUME SentBy - x <= -1 PROVE FALSE
  <2>1. Refreshers * (SentBy - x) <= Refreshers * (-1)
    BY <1>1, <1>2
  <2>2. Refreshers * (SentBy - x) \in Int /\ Refreshers * (-1) = 0 - Refreshers
    BY <1>1
  <2> QED BY <1>1, <2>1, <2>2
<1> QED BY <1>1, <1>2

LEMMA RoundWorthIsNat == \A p : RoundWorth(p) \in Nat /\ NextRound(p) \in Nat
BY ConstantsAreNumbers, InFrontIsFinite DEF RoundWorth

LEMMA FrontStays == \A p : RoundWorth(p)' = RoundWorth(p) /\ NextRound(p)' = NextRound(p)
BY DEF RoundWorth, NextRound, InFront, Ahead, Live

LEMMA WorkHasSize == \A p : Cardinality(Work(p)) \in Nat
BY WorkIsFinite, WorkIsWork

(* What the four parts need of a step for a pool whose own turn it is not, *)
(* while no time passes: less to wait for, and a rate no older.            *)
LEMMA OthersStepKeeps ==
  ASSUME CommissionTypeOK, RoundsAreOrderly, InTime,
         NEW p \in Live, Current(p),
         behind[p] \in Nat, behind'[p] \in Nat, behind'[p] <= behind[p],
         job'[p] = job[p], nap' = nap, asked'[p] = asked[p],
         Asking' \subseteq Asking,
         \A x \in Asking' : asked'[x] = asked[x],
         \A q \in Live : job'[q] = "waiting"
           => job[q] = "waiting" /\ Work(q)' \subseteq Work(q)
  PROVE  /\ WaitingInTime(p)' /\ AskedInTime(p)'
         /\ DoneInTime(p)' /\ AsleepInTime(p)'
<1>1. WaitingInTime(p) /\ AskedInTime(p) /\ DoneInTime(p) /\ AsleepInTime(p)
  BY DEF InTime
<1>2. \A q \in Live : job'[q] = "waiting"
        => /\ Cardinality(Work(q)') \in Nat /\ Cardinality(Work(q)) \in Nat
           /\ Cardinality(Work(q)') <= Cardinality(Work(q))
  <2>1. ASSUME NEW q \in Live, job'[q] = "waiting"
        PROVE  /\ Cardinality(Work(q)') \in Nat /\ Cardinality(Work(q)) \in Nat
               /\ Cardinality(Work(q)') <= Cardinality(Work(q))
    BY <2>1, LessWork, WorkIsWork
  <2> QED BY <2>1
<1>3. WaitingInTime(p)'
  BY <1>1, <1>2, RoomStays DEF WaitingInTime, Room
<1>4. AskedInTime(p)'
  <2>1. ASSUME job[p] = "asking" PROVE behind'[p] <= SentBy + asked[p].age
    <3>1. asked[p].age \in Nat /\ SentBy \in Int
      BY <2>1, RoomEnough, AnswersComeFromSomewhere DEF Asking, Query, Live
    <3> QED BY <1>1, <2>1, <3>1 DEF AskedInTime
  <2> QED BY <2>1 DEF AskedInTime
<1>5. Refreshers \in Nat /\ QueryLimit \in Nat /\ nap \in Nat
      /\ NextRound(p) \in Nat /\ RoundWorth(p) \in Nat
  BY ConstantsAreNumbers, RoundWorthIsNat DEF CommissionTypeOK
<1>6. DoneInTime(p)'
  <2> SUFFICES ASSUME job'[p] = "done", nap' = 0
               PROVE  /\ Room(p, RoundWorth(p))'
                      /\ \A q \in Asking' :
                           Room(p, Refreshers * (QueryLimit - asked[q].age) + RoundWorth(p))'
                      /\ \A q \in Live : job'[q] = "waiting"
                           => Room(p, Cardinality(Work(q)) + Refreshers * QueryLimit + RoundWorth(p))'
    BY DEF DoneInTime, Live
  <2>1. /\ Room(p, RoundWorth(p))
        /\ \A q \in Asking : Room(p, Refreshers * (QueryLimit - asked[q].age) + RoundWorth(p))
        /\ \A q \in Live : job[q] = "waiting"
             => Room(p, Cardinality(Work(q)) + Refreshers * QueryLimit + RoundWorth(p))
    BY <1>1 DEF DoneInTime
  <2>2. Room(p, RoundWorth(p))'
    BY <1>5, <2>1, RoomStays, FrontStays DEF Room
  <2>3. ASSUME NEW q \in Asking'
        PROVE  Room(p, Refreshers * (QueryLimit - asked[q].age) + RoundWorth(p))'
    <3>1. q \in Asking /\ asked'[q] = asked[q] /\ asked[q].age \in Nat
      BY <2>3, AnswersComeFromSomewhere DEF Query
    <3>2. Refreshers * (QueryLimit - asked[q].age) + RoundWorth(p) \in Int
      BY <1>5, <3>1
    <3> QED BY <2>1, <3>1, <3>2, RoomStays, FrontStays DEF Room
  <2>4. ASSUME NEW q \in Live, job'[q] = "waiting"
        PROVE  Room(p, Cardinality(Work(q)) + Refreshers * QueryLimit + RoundWorth(p))'
    <3>1. Refreshers * QueryLimit \in Nat
      BY <1>5
    <3>2. /\ Cardinality(Work(q)') + Refreshers * QueryLimit + RoundWorth(p) \in Int
          /\ Cardinality(Work(q)) + Refreshers * QueryLimit + RoundWorth(p) \in Int
          /\ Cardinality(Work(q)') + Refreshers * QueryLimit + RoundWorth(p)
               <= Cardinality(Work(q)) + Refreshers * QueryLimit + RoundWorth(p)
      BY <1>2, <1>5, <2>4, <3>1
    <3> QED BY <2>1, <2>4, <3>2, RoomStays, FrontStays DEF Room
  <2> QED BY <2>2, <2>3, <2>4
<1>7. AsleepInTime(p)'
  <2>1. Refreshers * nap + NextRound(p) \in Int
    BY <1>5
  <2> QED BY <1>1, <2>1, RoomStays, FrontStays DEF AsleepInTime, Room
<1> QED BY <1>3, <1>4, <1>6, <1>7

-----------------------------------------------------------------------------

LEMMA BehindIsNumber ==
  ASSUME CommissionTypeOK, NEW p \in Live
  PROVE  behind[p] \in Nat
BY RoomEnough DEF CommissionTypeOK

LEMMA BehindGrowsByTicks ==
  ASSUME CommissionTypeOK, CommissionTick, NEW p \in Live
  PROVE  behind'[p] \in Nat /\ behind'[p] <= behind[p] + 1
<1>1. behind' = [q \in Live |-> IF rate[q] = charged THEN 0
                                ELSE IF behind[q] < Old THEN behind[q] + 1 ELSE Old]
  BY DEF CommissionTick
<1>2. behind[p] \in 0..Old /\ Old \in Nat
  BY RoomEnough DEF CommissionTypeOK
<1> QED BY <1>1, <1>2

(* What p is believed to charge after an answer, and how old that is. *)
LEMMA AcceptedIsFresh ==
  ASSUME CommissionTypeOK, RoundsAreOrderly, NEW p \in Pools, Accepted(p)
  PROVE  /\ p \in Live /\ behind'[p] \in Nat /\ behind'[p] <= asked[p].age
         /\ \A q \in Live \ {p} : behind'[q] = behind[q]
         /\ asked[p].age \in 0..QueryLimit /\ resolved'[p] = ResolvedAt(p)
<1>1. p \in Live /\ asked[p].age \in 0..QueryLimit
  BY AnswersComeFromSomewhere DEF Accepted, Asking, Query
<1>2. PICK a \in Answers(p) :
        behind' = [behind EXCEPT ![p] = IF RateOf(a) = charged THEN 0 ELSE asked[p].age]
  BY DEF Accepted
<1>3. behind \in [Live -> 0..Old] /\ resolved'[p] = ResolvedAt(p)
  BY DEF Accepted, CommissionTypeOK
<1>4. behind'[p] = 0 \/ behind'[p] = asked[p].age
  BY <1>1, <1>2, <1>3
<1>5. \A q \in Live \ {p} : behind'[q] = behind[q]
  BY <1>1, <1>2, <1>3
<1>6. behind'[p] \in Nat /\ behind'[p] <= asked[p].age
  BY <1>1, <1>4, ConstantsAreNumbers
<1> QED BY <1>1, <1>3, <1>5, <1>6

LEMMA AnswersAgeNext ==
  ASSUME CommissionTypeOK, RoundsAreOrderly, AnswersAge, [CommissionNext]_commissionVars
  PROVE  AnswersAge'
<1>1. ASSUME UNCHANGED <<behind, resolved>>,
             \A q \in Pools : ~missed'[q] => ~missed[q]
      PROVE  AnswersAge'
  BY <1>1 DEF AnswersAge, Current, Live
<1>2. ASSUME NEW p \in Pools, Kept(p) PROVE AnswersAge'
  BY <1>1, <1>2 DEF Kept, CommissionTypeOK
<1>3. ASSUME NEW p \in Pools, Skip(p) \/ Ask(p) \/ GetState(p)
      PROVE  AnswersAge'
  BY <1>1, <1>3 DEF Skip, Ask, GetState
<1>4. CASE RoundEnds \/ UNCHANGED commissionVars
  BY <1>1, <1>4 DEF RoundEnds, commissionVars
<1>5. ASSUME NEW p \in Pools, Accepted(p) PROVE AnswersAge'
  <2>1. ASSUME NEW q \in Live, q # p
        PROVE  behind'[q] = behind[q] /\ resolved'[q] = resolved[q] /\ missed'[q] = missed[q]
    BY <1>5, <2>1, AcceptedIsFresh DEF Accepted, CommissionTypeOK
  <2>2. ASSUME resolved'[p] < TTL PROVE behind'[p] <= resolved'[p]
    <3>1. /\ behind'[p] \in Nat /\ behind'[p] <= asked[p].age
          /\ asked[p].age \in 0..QueryLimit /\ resolved'[p] = ResolvedAt(p)
      BY <1>5, AcceptedIsFresh
    <3> QED BY <2>2, <3>1, ConstantsAreNumbers DEF ResolvedAt
  <2> QED BY <2>1, <2>2 DEF AnswersAge, Current, Live
<1>6. CASE GovernanceSets
  <2>1. /\ behind' = [q \in Live |-> IF rate[q] = charged' THEN 0 ELSE behind[q]]
        /\ UNCHANGED <<resolved, missed>>
    BY <1>6 DEF GovernanceSets
  <2>2. \A q \in Live : resolved[q] \in Nat /\ (behind'[q] = 0 \/ behind'[q] = behind[q])
    BY <2>1, ConstantsAreNumbers DEF CommissionTypeOK, Live, Never
  <2>3. ASSUME NEW q \in Live, Current(q), resolved[q] < TTL PROVE behind'[q] <= resolved[q]
    <3>1. behind[q] <= resolved[q]
      BY <2>3 DEF AnswersAge
    <3> QED BY <2>2, <3>1
  <2> QED BY <2>1, <2>3 DEF AnswersAge, Current, Live
<1>7. CASE Restart
  <2>1. \A q \in Pools : resolved'[q] = Never
    BY <1>7 DEF Restart
  <2> QED BY <2>1 DEF AnswersAge, Current, Live
<1>8. CASE CommissionTick
  <2>1. UNCHANGED missed /\ resolved' = [q \in Pools |-> Aged(resolved[q])]
    BY <1>8 DEF CommissionTick
  <2>2. ASSUME NEW q \in Live, Current(q)', resolved'[q] < TTL PROVE behind'[q] <= resolved'[q]
    <3>1. resolved'[q] = Aged(resolved[q]) /\ resolved[q] \in 0..Never /\ TTL \in Nat
      BY <2>1, ConstantsAreNumbers DEF CommissionTypeOK, Live
    <3>2. resolved[q] < TTL /\ resolved'[q] = resolved[q] + 1
      BY <2>2, <3>1 DEF Aged, Never
    <3>3. Current(q)
      BY <2>1, <2>2, <3>1, <3>2 DEF Current, Never
    <3>4. behind[q] <= resolved[q] /\ behind[q] \in Nat
      BY <3>2, <3>3, BehindIsNumber DEF AnswersAge
    <3>5. behind'[q] \in Nat /\ behind'[q] <= behind[q] + 1
      BY <1>8, BehindGrowsByTicks
    <3> QED BY <3>1, <3>2, <3>4, <3>5
  <2> QED BY <2>2 DEF AnswersAge, Live
<1> QED
  BY <1>2, <1>3, <1>4, <1>5, <1>6, <1>7, <1>8 DEF CommissionNext

-----------------------------------------------------------------------------

InTimeFor(p) ==
  WaitingInTime(p) /\ AskedInTime(p) /\ DoneInTime(p) /\ AsleepInTime(p)

(* The turn of p ends, skipped or answered: the others wait for less. *)
LEMMA TurnEndsForOthers ==
  ASSUME CommissionTypeOK, RoundsAreOrderly, InTime,
         NEW x \in Pools, NEW p \in Live, p # x, Current(p)',
         job' = [job EXCEPT ![x] = "done"],
         \A q \in Pools \ {x} : /\ asked'[q] = asked[q] /\ rate'[q] = rate[q]
                                /\ resolved'[q] = resolved[q] /\ missed'[q] = missed[q],
         behind'[p] = behind[p], nap' = nap
  PROVE  InTimeFor(p)'
<1>1. p \in Pools
  BY DEF Live
<1>2. Current(p) /\ behind'[p] = behind[p] /\ behind[p] \in Nat
  BY <1>1, BehindIsNumber DEF Current
<1>3. \A q \in Pools : job'[q] = IF q = x THEN "done" ELSE job[q]
  BY DEF CommissionTypeOK
<1>4. \A q \in Asking' : q \in Asking /\ asked'[q] = asked[q]
  BY <1>3 DEF Asking
<1>5. ASSUME NEW q \in Live, job'[q] = "waiting"
      PROVE  job[q] = "waiting" /\ Work(q)' \subseteq Work(q)
  BY <1>3, <1>5 DEF Work, Ahead, Live
<1>6. job'[p] = job[p] /\ asked'[p] = asked[p] /\ behind'[p] <= behind[p] /\ Asking' \subseteq Asking
  BY <1>1, <1>2, <1>3, <1>4
<1>7. /\ WaitingInTime(p)' /\ AskedInTime(p)' /\ DoneInTime(p)' /\ AsleepInTime(p)'
  BY <1>2, <1>4, <1>5, <1>6, OthersStepKeeps
<1> QED BY <1>7 DEF InTimeFor

LEMMA SkipInTime ==
  ASSUME KeepsUpInv, RoundsAreOrderly', NEW x \in Pools, Skip(x), NEW p \in Live, Current(p)'
  PROVE  InTimeFor(p)'
<1>1. /\ NextUp(x) /\ ~Due(x) /\ job' = [job EXCEPT ![x] = "done"] /\ job[x] = "waiting"
      /\ UNCHANGED <<charged, rate, resolved, asked, nap, served, missed, behind>>
      /\ nap = 0 /\ Cardinality(Asking) < Refreshers
  BY NextUpIsFirst DEF Skip
<1>2. CASE p # x
  BY <1>1, <1>2, TurnEndsForOthers DEF KeepsUpInv
<1>3. CASE p = x
  <2>1. Current(p) /\ behind'[p] = behind[p] /\ behind[p] \in Nat /\ resolved[p] < TTL
    <3>1. resolved[p] \in 0..Never /\ TTL \in Nat
      BY ConstantsAreNumbers DEF KeepsUpInv, CommissionTypeOK, Live
    <3> QED BY <1>1, <1>3, <3>1, BehindIsNumber DEF Current, Due, Live, KeepsUpInv
  <2>2. behind[p] <= TTL - 1
    <3>1. behind[p] <= resolved[p] /\ resolved[p] \in 0..Never /\ TTL \in Nat
      BY <2>1, ConstantsAreNumbers DEF KeepsUpInv, AnswersAge, CommissionTypeOK, Live
    <3> QED BY <2>1, <3>1
  <2>3. p \notin Asking /\ Asking \ {p} = Asking /\ Asking' = Asking \ {p}
    BY <1>1, <1>3 DEF Asking, KeepsUpInv, CommissionTypeOK
  <2>4. Cardinality(Asking \ {p}) <= Refreshers - 1
    BY <1>1, <2>3, AskingIsFinite, ConstantsAreNumbers
  <2>5. DoneInTime(p)'
    BY <1>1, <1>3, <2>1, <2>2, <2>3, <2>4, AfterTurn DEF KeepsUpInv
  <2>6. job'[p] = "done" /\ nap' = 0
    BY <1>1, <1>3 DEF KeepsUpInv, CommissionTypeOK
  <2> QED BY <2>5, <2>6 DEF InTimeFor, WaitingInTime, AskedInTime, AsleepInTime
<1> QED BY <1>2, <1>3

LEMMA AnswerInTime ==
  ASSUME KeepsUpInv, CommissionTypeOK', RoundsAreOrderly', QueriesAreShort,
         NEW x \in Pools, Accepted(x) \/ Kept(x), NEW p \in Live, Current(p)'
  PROVE  InTimeFor(p)'
<1>1. /\ job[x] = "asking" /\ job' = [job EXCEPT ![x] = "done"]
      /\ asked' = [asked EXCEPT ![x] = None] /\ nap' = nap
  BY DEF Accepted, Kept, Done
<1>2. CASE p # x
  <2>1. \A q \in Pools \ {x} : /\ asked'[q] = asked[q] /\ rate'[q] = rate[q]
                               /\ resolved'[q] = resolved[q] /\ missed'[q] = missed[q]
    BY DEF Accepted, Kept, Done, KeepsUpInv, CommissionTypeOK
  <2>2. behind'[p] = behind[p]
    BY <1>2, AcceptedIsFresh DEF Kept, KeepsUpInv
  <2> QED BY <1>1, <1>2, <2>1, <2>2, TurnEndsForOthers DEF KeepsUpInv
<1>3. CASE p = x
  <2>1. Accepted(p)
    BY <1>3 DEF Kept, Current, KeepsUpInv, CommissionTypeOK
  <2>2. p \in Pools
    BY <1>3
  <2>3. /\ behind'[p] \in Nat /\ behind'[p] <= asked[p].age /\ asked[p].age \in 0..QueryLimit
    BY <2>1, <2>2, AcceptedIsFresh DEF KeepsUpInv
  <2>4. behind'[p] <= TTL - 1
    BY <2>3, ConstantsAreNumbers DEF QueriesAreShort
  <2>5. /\ p \in Asking /\ Asking' = Asking \ {p} /\ job'[p] = "done"
        /\ \A q \in Asking \ {p} : asked'[q] = asked[q]
    BY <1>1, <1>3 DEF Asking, KeepsUpInv, CommissionTypeOK
  <2>6. Cardinality(Asking \ {p}) <= Refreshers - 1
    <3>1. Cardinality(Asking \ {p}) = Cardinality(Asking) - 1
      BY <2>5, AskingIsFinite, FS_RemoveElement
    <3> QED BY <3>1, AskingIsFinite, ConstantsAreNumbers DEF KeepsUpInv, RoundsAreOrderly
  <2>7. DoneInTime(p)'
    BY <1>1, <1>3, <2>3, <2>4, <2>5, <2>6, AfterTurn DEF KeepsUpInv
  <2>8. ~(nap' > 0)
    BY <1>1, <1>3 DEF KeepsUpInv, RoundsAreOrderly
  <2> QED BY <2>5, <2>7, <2>8 DEF InTimeFor, WaitingInTime, AskedInTime, AsleepInTime
<1> QED BY <1>2, <1>3

(* A query is sent: its pool had room to wait till now, and the work of    *)
(* the others is the same.                                                 *)
LEMMA AskInTime ==
  ASSUME KeepsUpInv, RoundsAreOrderly', NEW x \in Pools, Ask(x), NEW p \in Live, Current(p)'
  PROVE  InTimeFor(p)'
<1>1. /\ NextUp(x) /\ x \in Live /\ Asking' = Asking \cup {x} /\ job[x] = "waiting"
      /\ job' = [job EXCEPT ![x] = "asking"] /\ nap = 0 /\ nap' = 0
      /\ asked' = [asked EXCEPT ![x] = [age |-> 0, rate |-> charged]]
      /\ \A q \in Pools : Ahead(q, x) => job[q] # "waiting"
      /\ UNCHANGED <<charged, rate, resolved, served, missed, behind>>
  BY AskIsOrderly, NextUpIsFirst DEF Ask, KeepsUpInv
<1>2. /\ Current(p) /\ behind'[p] = behind[p] /\ behind[p] \in Nat /\ InTimeFor(p)
      /\ p \in Pools /\ SentBy \in Int /\ QueryLimit \in Nat /\ Refreshers \in Nat
      /\ RoundWorth(p) \in Nat /\ RoundWorth(p)' = RoundWorth(p)
  BY <1>1, BehindIsNumber, RoomEnough, ConstantsAreNumbers, RoundWorthIsNat, FrontStays
  DEF Current, Live, KeepsUpInv, InTime, InTimeFor
<1>3. \A q \in Pools : /\ job'[q] = IF q = x THEN "asking" ELSE job[q]
                       /\ q # x => asked'[q] = asked[q]
  BY <1>1 DEF KeepsUpInv, CommissionTypeOK
<1>4. asked'[x].age = 0
  BY <1>1 DEF KeepsUpInv, CommissionTypeOK
<1>5. ASSUME NEW q \in Live, job'[q] = "waiting"
      PROVE  /\ job[q] = "waiting" /\ Cardinality(Work(q)') \in Nat /\ Cardinality(Work(q)) \in Nat
             /\ Cardinality(Work(q)') <= Cardinality(Work(q))
  <2>1. q \in Pools /\ q # x /\ job[q] = "waiting"
    BY <1>3, <1>5 DEF Live
  <2>2. Ahead(x, q)
    BY <1>1, <2>1, ListIsOrder
  <2>3. Work(q)' \subseteq Work(q)
    <3>1. ASSUME NEW w \in Work(q)' PROVE w \in Work(q)
      <4>1. /\ w \in Pools \X (1..QueryLimit)
            /\ \/ job'[w[1]] = "asking" /\ w[2] > asked'[w[1]].age
               \/ job'[w[1]] = "waiting" /\ w[1] \in Live /\ Ahead(w[1], q)
        BY <3>1 DEF Work, Ahead, Live
      <4>2. CASE w[1] = x
        BY <1>1, <2>2, <4>1, <4>2 DEF Work
      <4>3. CASE w[1] # x
        BY <1>3, <4>1, <4>3 DEF Work
      <4> QED BY <4>2, <4>3
    <3> QED BY <3>1
  <2> QED BY <2>1, <2>3, LessWork, WorkIsWork
<1>6. WaitingInTime(p)'
  <2>1. ASSUME job'[p] = "waiting"
        PROVE  Cardinality(Work(p)') <= Refreshers * (SentBy - behind'[p])
    <3>1. Cardinality(Work(p)) <= Refreshers * (SentBy - behind[p])
      BY <1>2, <1>5, <2>1 DEF InTimeFor, WaitingInTime, Room
    <3> QED BY <1>2, <1>5, <2>1, <3>1, RoomStays
  <2> QED BY <2>1 DEF WaitingInTime, Room
<1>7. AskedInTime(p)'
  <2>1. CASE p = x
    <3>1. behind[p] <= SentBy
      <4>1. Cardinality(Work(p)) \in Nat
        BY WorkHasSize
      <4>2. Cardinality(Work(p)) <= Refreshers * (SentBy - behind[p])
        BY <1>1, <1>2, <2>1 DEF InTimeFor, WaitingInTime, Room
      <4> QED BY <1>2, <4>1, <4>2, RoomIsTime
    <3> QED BY <1>2, <1>4, <2>1, <3>1 DEF AskedInTime
  <2>2. CASE p # x
    BY <1>2, <1>3, <2>2 DEF InTimeFor, AskedInTime
  <2> QED BY <2>1, <2>2
<1>8. DoneInTime(p)'
  <2> SUFFICES ASSUME job'[p] = "done"
               PROVE  /\ RoundWorth(p) <= Refreshers * (SentBy - behind[p])
                      /\ \A q \in Asking' :
                           Refreshers * (QueryLimit - asked'[q].age) + RoundWorth(p)
                             <= Refreshers * (SentBy - behind[p])
                      /\ \A q \in Live : job'[q] = "waiting"
                           => Cardinality(Work(q)') + Refreshers * QueryLimit + RoundWorth(p)
                                <= Refreshers * (SentBy - behind[p])
    BY <1>2 DEF DoneInTime, Room, Live
  <2>1. p # x /\ job[p] = "done"
    BY <1>2, <1>3
  <2>2. /\ RoundWorth(p) <= Refreshers * (SentBy - behind[p])
        /\ \A q \in Asking :
             Refreshers * (QueryLimit - asked[q].age) + RoundWorth(p)
               <= Refreshers * (SentBy - behind[p])
        /\ \A q \in Live : job[q] = "waiting"
             => Cardinality(Work(q)) + Refreshers * QueryLimit + RoundWorth(p)
                  <= Refreshers * (SentBy - behind[p])
    BY <1>1, <1>2, <2>1 DEF InTimeFor, DoneInTime, Room
  <2>3. Refreshers * (SentBy - behind[p]) \in Int /\ Refreshers * QueryLimit \in Int
    BY <1>2
  <2>4. ASSUME NEW q \in Asking'
        PROVE  Refreshers * (QueryLimit - asked'[q].age) + RoundWorth(p)
                 <= Refreshers * (SentBy - behind[p])
    <3>1. CASE q = x
      <4>1. Cardinality(Work(x)) \in Nat
        BY WorkHasSize
      <4>2. Refreshers * (QueryLimit - asked'[q].age) = Refreshers * QueryLimit
        BY <1>2, <1>4, <3>1
      <4> QED BY <1>1, <1>2, <2>2, <2>3, <4>1, <4>2
    <3>2. CASE q # x
      BY <1>1, <1>3, <2>2, <2>4, <3>2 DEF Asking
    <3> QED BY <3>1, <3>2
  <2>5. ASSUME NEW q \in Live, job'[q] = "waiting"
        PROVE  Cardinality(Work(q)') + Refreshers * QueryLimit + RoundWorth(p)
                 <= Refreshers * (SentBy - behind[p])
    BY <1>2, <1>5, <2>2, <2>3, <2>5
  <2> QED BY <2>2, <2>4, <2>5
<1>9. AsleepInTime(p)'
  BY <1>1 DEF AsleepInTime
<1> QED BY <1>6, <1>7, <1>8, <1>9 DEF InTimeFor

LEMMA TickInTime ==
  ASSUME KeepsUpInv, CommissionTypeOK', RoundsAreOrderly', CommissionTick,
         NEW p \in Live, Current(p)'
  PROVE  InTimeFor(p)'
<1>1. p \in Pools
  BY DEF Live
<1>2. /\ Current(p) /\ InTimeFor(p) /\ behind[p] \in Nat
      /\ behind'[p] \in Nat /\ behind'[p] <= behind[p] + 1
  <2>1. resolved'[p] = Aged(resolved[p]) /\ missed' = missed /\ resolved[p] \in 0..Never
    BY <1>1 DEF CommissionTick, KeepsUpInv, CommissionTypeOK
  <2>2. Current(p)
    BY <1>1, <2>1 DEF Current, Aged
  <2>3. behind[p] \in Nat /\ behind'[p] \in Nat /\ behind'[p] <= behind[p] + 1
    BY BehindIsNumber, BehindGrowsByTicks DEF KeepsUpInv
  <2> QED BY <2>2, <2>3 DEF KeepsUpInv, InTime, InTimeFor
<1>3. /\ SentBy \in Int /\ QueryLimit \in Nat /\ Refreshers \in Nat \ {0} /\ nap \in Nat
      /\ RoundWorth(p) \in Nat /\ RoundWorth(p)' = RoundWorth(p)
      /\ NextRound(p) \in Nat /\ NextRound(p)' = NextRound(p)
      /\ nap' = IF nap > 0 THEN nap - 1 ELSE 0
  BY RoomEnough, ConstantsAreNumbers, RoundWorthIsNat, FrontStays
  DEF CommissionTick, KeepsUpInv, CommissionTypeOK
<1>4. CASE nap = 0
  <2>1. job' = job /\ Asking' = Asking /\ nap' = 0
    BY <1>3, <1>4, TickIsOrderly DEF KeepsUpInv
  <2>2. ASSUME NEW q \in Asking
        PROVE  /\ asked'[q].age = asked[q].age + 1 /\ asked[q].age \in Nat
               /\ asked[q].age < QueryLimit
    <3>1. asked[q] \in Query
      BY <2>2, AnswersComeFromSomewhere DEF KeepsUpInv
    <3>2. asked[q].age \in Nat
      BY <3>1 DEF Query
    <3> QED BY <2>2, <3>2, OlderQuery DEF KeepsUpInv
  <2>3. ASSUME NEW q \in Live, job[q] = "waiting"
        PROVE  /\ Cardinality(Work(q)) \in Nat /\ Cardinality(Work(q)') \in Nat
               /\ Cardinality(Work(q)') + Refreshers <= Cardinality(Work(q))
    BY <1>4, <2>3, TickDoesWork DEF Live, KeepsUpInv
  <2>4. WaitingInTime(p)'
    <3>1. ASSUME job[p] = "waiting"
          PROVE  Cardinality(Work(p)') <= Refreshers * (SentBy - behind'[p])
      <4>1. Cardinality(Work(p)) <= Refreshers * (SentBy - behind[p])
        BY <1>2, <3>1 DEF InTimeFor, WaitingInTime, Room
      <4> QED BY <1>2, <2>3, <3>1, <4>1, RoomTicks
    <3> QED BY <2>1, <3>1 DEF WaitingInTime, Room
  <2>5. AskedInTime(p)'
    BY <1>1, <1>2, <1>3, <2>1, <2>2 DEF InTimeFor, AskedInTime, Asking
  <2>6. DoneInTime(p)'
    <3> SUFFICES ASSUME job[p] = "done"
                 PROVE  /\ RoundWorth(p) <= Refreshers * (SentBy - behind'[p])
                        /\ \A q \in Asking :
                             Refreshers * (QueryLimit - asked'[q].age) + RoundWorth(p)
                               <= Refreshers * (SentBy - behind'[p])
                        /\ \A q \in Live : job[q] = "waiting"
                             => Cardinality(Work(q)') + Refreshers * QueryLimit + RoundWorth(p)
                                  <= Refreshers * (SentBy - behind'[p])
      BY <1>3, <2>1 DEF DoneInTime, Room, Live
    <3>1. /\ \A q \in Asking :
               Refreshers * (QueryLimit - asked[q].age) + RoundWorth(p)
                 <= Refreshers * (SentBy - behind[p])
          /\ \A q \in Live : job[q] = "waiting"
               => Cardinality(Work(q)) + Refreshers * QueryLimit + RoundWorth(p)
                    <= Refreshers * (SentBy - behind[p])
      BY <1>2, <1>4 DEF InTimeFor, DoneInTime, Room
    <3>2. ASSUME NEW q \in Asking
          PROVE  /\ Refreshers * (QueryLimit - asked[q].age - 1) \in Nat
                 /\ Refreshers * (QueryLimit - asked[q].age - 1) + Refreshers
                      = Refreshers * (QueryLimit - asked[q].age)
                 /\ asked'[q].age = asked[q].age + 1
      <4> DEFINE n == QueryLimit - asked[q].age
      <4>1. n \in Nat /\ n >= 1
        BY <1>3, <2>2, <3>2
      <4> HIDE DEF n
      <4>2. Refreshers * (n - 1) \in Nat /\ Refreshers * (n - 1) + Refreshers = Refreshers * n
        BY <1>3, <4>1
      <4> QED BY <2>2, <3>2, <4>2 DEF n
    <3>3. ASSUME NEW q \in Asking
          PROVE  /\ Refreshers * (QueryLimit - asked'[q].age) + RoundWorth(p)
                      <= Refreshers * (SentBy - behind'[p])
                 /\ RoundWorth(p) <= Refreshers * (SentBy - behind'[p])
      <4> DEFINE w == Refreshers * (QueryLimit - asked[q].age - 1)
                 z == Refreshers * (QueryLimit - asked[q].age)
      <4>1. w \in Nat /\ w + Refreshers = z /\ z \in Int
        BY <1>3, <2>2, <3>2, <3>3
      <4>2. z + RoundWorth(p) <= Refreshers * (SentBy - behind[p])
        BY <3>1, <3>3
      <4>3. asked'[q].age = asked[q].age + 1 /\ asked[q].age \in Nat
        BY <2>2, <3>3
      <4>4. Refreshers * (QueryLimit - asked'[q].age) = w
        BY <1>3, <4>3
      <4> HIDE DEF w, z
      <4>5. w + RoundWorth(p) \in Int /\ w + RoundWorth(p) + Refreshers <= z + RoundWorth(p)
            /\ z + RoundWorth(p) \in Int
        BY <1>3, <4>1
      <4>6. RoundWorth(p) + Refreshers <= z + RoundWorth(p) /\ RoundWorth(p) \in Int
        BY <1>3, <4>1
      <4>7. w + RoundWorth(p) <= Refreshers * (SentBy - behind'[p])
        BY <1>2, <4>2, <4>5, RoomTicks
      <4>8. RoundWorth(p) <= Refreshers * (SentBy - behind'[p])
        BY <1>2, <4>2, <4>5, <4>6, RoomTicks
      <4> QED BY <4>4, <4>7, <4>8
    <3>4. ASSUME NEW q \in Live, job[q] = "waiting"
          PROVE  Cardinality(Work(q)') + Refreshers * QueryLimit + RoundWorth(p)
                   <= Refreshers * (SentBy - behind'[p])
      <4> DEFINE a == Cardinality(Work(q)') + Refreshers * QueryLimit + RoundWorth(p)
                 b == Cardinality(Work(q)) + Refreshers * QueryLimit + RoundWorth(p)
      <4>1. Refreshers * QueryLimit \in Int
        BY <1>3
      <4>2. a \in Int /\ b \in Int /\ a + Refreshers <= b
        BY <1>3, <2>3, <3>4, <4>1
      <4>3. b <= Refreshers * (SentBy - behind[p])
        BY <3>1, <3>4
      <4> HIDE DEF a, b
      <4>4. a <= Refreshers * (SentBy - behind'[p])
        BY <1>2, <4>2, <4>3, RoomTicks
      <4> QED BY <4>4 DEF a
    <3>5. \E q : q \in Asking
      BY <1>4 DEF CommissionTick
    <3> QED BY <3>3, <3>4, <3>5
  <2> QED BY <2>1, <2>4, <2>5, <2>6 DEF InTimeFor, AsleepInTime
<1>5. CASE nap > 0
  <2>1. /\ \A q \in Pools : job[q] = "done"
        /\ Refreshers * nap + NextRound(p) <= Refreshers * (SentBy - behind[p])
    BY <1>2, <1>5 DEF InTimeFor, AsleepInTime, Room, KeepsUpInv, RoundsAreOrderly
  <2> DEFINE a == Refreshers * (nap - 1) + NextRound(p)
             b == Refreshers * nap + NextRound(p)
  <2>2. a \in Int /\ b \in Int /\ a + Refreshers <= b
    <3>1. Refreshers * (nap - 1) \in Int /\ Refreshers * (nap - 1) + Refreshers = Refreshers * nap
      BY <1>3
    <3> QED BY <1>3, <3>1
  <2>3. b <= Refreshers * (SentBy - behind[p])
    BY <2>1
  <2>4. a <= Refreshers * (SentBy - behind'[p])
    <3> HIDE DEF a, b
    <3> QED BY <1>2, <2>2, <2>3, RoomTicks
  <2>5. CASE nap = 1
    <3>1. nap' = 0 /\ Asking' = {} /\ \A q \in Pools : job'[q] = "waiting"
      BY <1>3, <2>5, TickIsOrderly DEF KeepsUpInv
    <3>2. Cardinality(Work(p)') \in Nat /\ Cardinality(Work(p)') <= NextRound(p)
      <4> DEFINE F == InFront(p) \X (1..QueryLimit)
      <4>1. Work(p)' \subseteq F
        BY <1>1, <3>1 DEF Work, InFront, Ahead, Live
      <4>2. \A n \in Int : IsFiniteSet(1..n) /\ Cardinality(1..n) = IF 1 > n THEN 0 ELSE n - 1 + 1
        BY FS_Interval
      <4>3. IsFiniteSet(1..QueryLimit) /\ Cardinality(1..QueryLimit) = QueryLimit
        BY <1>3, <4>2
      <4>4. IsFiniteSet(F) /\ Cardinality(F) = Cardinality(InFront(p)) * QueryLimit
        BY <4>3, InFrontIsFinite, FS_Product
      <4>5. Cardinality(F) = NextRound(p)
        BY <1>3, <4>4, InFrontIsFinite DEF NextRound
      <4> HIDE DEF F
      <4>6. Work(p)' \in SUBSET F
        BY <4>1
      <4> QED BY <4>4, <4>5, <4>6, FS_Subset, FS_CardinalityType
    <3>3. NextRound(p) <= Refreshers * (SentBy - behind'[p])
      BY <1>3, <2>4, <2>5
    <3>4. Refreshers * (SentBy - behind'[p]) \in Int
      BY <1>2, <1>3
    <3>5. Cardinality(Work(p)') <= Refreshers * (SentBy - behind'[p])
      BY <1>3, <3>2, <3>3, <3>4
    <3> QED
      BY <1>1, <3>1, <3>5
      DEF InTimeFor, WaitingInTime, AskedInTime, DoneInTime, AsleepInTime, Room
  <2>6. CASE nap # 1
    <3>1. nap' = nap - 1 /\ nap' > 0 /\ job' = job
      BY <1>3, <1>5, <2>6, TickIsOrderly DEF KeepsUpInv
    <3>2. job'[p] = "done"
      BY <1>1, <2>1, <3>1
    <3> QED
      BY <1>3, <2>4, <3>1, <3>2
      DEF InTimeFor, WaitingInTime, AskedInTime, DoneInTime, AsleepInTime, Room
  <2> QED BY <2>5, <2>6
<1> QED BY <1>3, <1>4, <1>5

LEMMA StillInTime ==
  ASSUME KeepsUpInv, NEW p \in Live, Current(p)',
         UNCHANGED <<resolved, job, asked, nap, missed>>,
         behind'[p] \in Nat, behind'[p] <= behind[p]
  PROVE  InTimeFor(p)'
<1>1. Current(p)
  BY DEF Current
<1>2. behind[p] \in Nat
  BY BehindIsNumber DEF KeepsUpInv
<1>3. Asking' = Asking /\ \A q : Work(q)' = Work(q)
  BY DEF Asking, Work, Ahead, Live
<1>4. /\ WaitingInTime(p)' /\ AskedInTime(p)' /\ DoneInTime(p)' /\ AsleepInTime(p)'
  BY <1>1, <1>2, <1>3, OthersStepKeeps DEF KeepsUpInv
<1> QED BY <1>4 DEF InTimeFor

LEMMA RoundEndsInTime ==
  ASSUME KeepsUpInv, RoundEnds, NEW p \in Live, Current(p)'
  PROVE  InTimeFor(p)'
<1>1. /\ nap = 0 /\ nap' = Every /\ \A q \in Pools : job[q] = "done"
      /\ UNCHANGED <<charged, rate, resolved, job, asked, served, missed, behind>>
      /\ p \in Pools /\ Every \in Nat \ {0}
  BY ConstantsAreNumbers DEF RoundEnds, Live
<1>2. Current(p) /\ behind'[p] = behind[p] /\ NextRound(p)' = NextRound(p)
  BY <1>1, FrontStays DEF Current
<1>3. RoundWorth(p) <= Refreshers * (SentBy - behind[p])
  BY <1>1, <1>2 DEF KeepsUpInv, InTime, DoneInTime, Room
<1> QED
  BY <1>1, <1>2, <1>3
  DEF InTimeFor, WaitingInTime, AskedInTime, DoneInTime, AsleepInTime, Room, RoundWorth

LEMMA InTimeNext ==
  ASSUME KeepsUpInv, CommissionTypeOK', RoundsAreOrderly', QueriesAreShort,
         [CommissionNext]_commissionVars
  PROVE  InTime'
<1> SUFFICES ASSUME NEW p \in Live, Current(p)' PROVE InTimeFor(p)'
  BY DEF InTime, InTimeFor, Live
<1>1. ASSUME NEW x \in Pools, Skip(x) PROVE InTimeFor(p)'
  BY <1>1, SkipInTime
<1>2. ASSUME NEW x \in Pools, Ask(x) PROVE InTimeFor(p)'
  BY <1>2, AskInTime
<1>3. ASSUME NEW x \in Pools, Accepted(x) \/ Kept(x) PROVE InTimeFor(p)'
  BY <1>3, AnswerInTime
<1>4. CASE CommissionTick
  BY <1>4, TickInTime
<1>5. CASE RoundEnds
  BY <1>5, RoundEndsInTime
<1>6. CASE Restart
  BY <1>6 DEF Restart, Current, Live
<1>7. ASSUME UNCHANGED <<resolved, job, asked, nap, missed, behind>> PROVE InTimeFor(p)'
  BY <1>7, BehindIsNumber, StillInTime DEF KeepsUpInv
<1>8. CASE GovernanceSets
  <2>1. /\ behind' = [q \in Live |-> IF rate[q] = charged' THEN 0 ELSE behind[q]]
        /\ UNCHANGED <<resolved, job, asked, nap, missed>>
    BY <1>8 DEF GovernanceSets
  <2>2. behind[p] \in Nat /\ (behind'[p] = 0 \/ behind'[p] = behind[p])
    BY <2>1, BehindIsNumber DEF KeepsUpInv
  <2>3. behind'[p] \in Nat /\ behind'[p] <= behind[p]
    BY <2>2
  <2> QED BY <2>1, <2>3, StillInTime
<1>9. ASSUME NEW x \in Pools, GetState(x) PROVE InTimeFor(p)'
  BY <1>7, <1>9 DEF GetState
<1>10. CASE UNCHANGED commissionVars
  BY <1>7, <1>10 DEF commissionVars
<1> QED
  BY <1>1, <1>2, <1>3, <1>4, <1>5, <1>6, <1>8, <1>9, <1>10 DEF CommissionNext

LEMMA KeepsUpInit == CommissionInit => KeepsUpInv
<1> SUFFICES ASSUME CommissionInit PROVE KeepsUpInv OBVIOUS
<1>1. /\ \A p \in Pools : resolved[p] = Never /\ job[p] = "waiting"
  BY DEF CommissionInit, FreshPools
<1>2. AnswersAge /\ InTime
  BY <1>1 DEF AnswersAge, InTime, Current, Live
<1> QED BY <1>2, TypesInit, RoundsInit DEF KeepsUpInv

(* The time of each of the four is within the promise. *)
LEMMA InTimeKeepsUp == KeepsUpInv => CommissionKeepsUp
<1> SUFFICES ASSUME KeepsUpInv, NEW p \in Live, Current(p)
             PROVE  behind[p] <= KeepUp
  BY DEF CommissionKeepsUp, Current
<1>1. /\ behind[p] \in Nat /\ SentBy \in Int /\ QueryLimit \in Nat /\ KeepUp \in Nat
      /\ SentBy <= KeepUp /\ Refreshers \in Nat /\ nap \in Nat
  BY BehindIsNumber, RoomEnough, ConstantsAreNumbers DEF KeepsUpInv, SentBy, CommissionTypeOK
<1>2. /\ WaitingInTime(p) /\ AskedInTime(p) /\ DoneInTime(p) /\ AsleepInTime(p)
      /\ job[p] \in {"waiting", "asking", "done"}
  BY DEF KeepsUpInv, InTime, CommissionTypeOK, Live
<1>3. \A work \in Nat : Room(p, work) => behind[p] <= KeepUp
  <2>1. \A work \in Nat : Room(p, work) => behind[p] <= SentBy
    <3>1. ASSUME NEW work \in Nat, Room(p, work) PROVE behind[p] <= SentBy
      <4>1. behind[p] \in Int /\ work <= Refreshers * (SentBy - behind[p])
        BY <1>1, <3>1 DEF Room
      <4> QED BY <4>1, RoomIsTime
    <3> QED BY <3>1
  <2> QED BY <1>1, <2>1
<1>4. CASE job[p] = "waiting"
  BY <1>3, <1>2, <1>4, WorkHasSize DEF WaitingInTime
<1>5. CASE job[p] = "asking"
  <2>1. asked[p].age \in 0..QueryLimit
    BY <1>5, AnswersComeFromSomewhere DEF KeepsUpInv, Asking, Query, Live
  <2> QED BY <1>1, <1>2, <1>5, <2>1 DEF AskedInTime, SentBy
<1>6. CASE job[p] = "done" /\ nap = 0
  BY <1>3, <1>2, <1>6, RoundWorthIsNat DEF DoneInTime
<1>7. CASE nap > 0
  <2>1. Refreshers * nap + NextRound(p) \in Nat
    BY <1>1, RoundWorthIsNat
  <2> QED BY <1>3, <1>2, <1>7, <2>1 DEF AsleepInTime
<1> QED BY <1>1, <1>2, <1>4, <1>5, <1>6, <1>7

(* get_state's promise, for every number of pools, threads, ticks and      *)
(* rates, and whatever contracts misreport: a rate in use is charged, or   *)
(* was when asked for, or came from a query sent, no longer ago than the   *)
(* TTL, the others' queries, a sleep and a query, unless a refresh of its  *)
(* pool has failed in between.  It needs fail-over to end within the TTL.  *)
THEOREM RefreshKeepsUp ==
  ASSUME QueriesAreShort
  PROVE  CommissionSpec => []CommissionKeepsUp
<1>1. CommissionInit => KeepsUpInv
  BY KeepsUpInit
<1>2. KeepsUpInv /\ [CommissionNext]_commissionVars => KeepsUpInv'
  <2> SUFFICES ASSUME KeepsUpInv, [CommissionNext]_commissionVars PROVE KeepsUpInv'
    OBVIOUS
  <2>1. CommissionTypeOK' /\ RoundsAreOrderly'
    BY TypesNext, RoundsNext DEF KeepsUpInv
  <2>2. AnswersAge' /\ InTime'
    BY <2>1, AnswersAgeNext, InTimeNext DEF KeepsUpInv
  <2> QED BY <2>1, <2>2 DEF KeepsUpInv
<1>3. KeepsUpInv => CommissionKeepsUp
  BY InTimeKeepsUp
<1> QED BY <1>1, <1>2, <1>3, PTL DEF CommissionSpec

(* Every variable of the refresh loop keeps its type, whatever a contract  *)
(* answers and however long a query takes.                                 *)
THEOREM CommissionTypes == CommissionSpec => []CommissionTypeOK
<1>1. CommissionInit => CommissionTypeOK /\ RoundsAreOrderly
  BY TypesInit, RoundsInit
<1>2. CommissionTypeOK /\ RoundsAreOrderly /\ [CommissionNext]_commissionVars
        => CommissionTypeOK' /\ RoundsAreOrderly'
  BY TypesNext, RoundsNext
<1> QED BY <1>1, <1>2, PTL DEF CommissionSpec

-----------------------------------------------------------------------------

(* What an answer may leave behind, believed or not: the default, or a     *)
(* rate under the sanity ceiling that is no twentieth of the default.      *)
RatesAreSane ==
  \A p \in Pools :
    \/ rate[p] = Default
    \/ /\ rate[p] <= Ceiling
       /\ Default > 0 => AnomalyFactor * (rate[p] + 1) > Default

LEMMA BelievableIsSane ==
  ASSUME NEW fee \in Nat, NEW raw \in Nat, Believable([fee |-> fee, raw |-> raw])
  PROVE  LET r == RateOf([fee |-> fee, raw |-> raw]) IN
         r <= Ceiling /\ (Default > 0 => AnomalyFactor * (r + 1) > Default)
<1> DEFINE n == fee * BPS
           r == n \div raw
<1>1. /\ raw > 0 /\ n \in Nat /\ n <= 2000 * raw /\ Default \in Nat
      /\ Default > 0 => 20 * n >= Default * raw
  <2>1. 20 * fee * 10000 = 20 * (fee * 10000)
    OBVIOUS
  <2> QED BY <2>1, ConstantsAreNumbers DEF Believable, AnomalyFactor, Ceiling, BPS
<1> HIDE DEF n
<1>2. r \in Nat /\ r * raw <= n /\ n < r * raw + raw
  <2>1. r \in Nat /\ n = raw * r + (n % raw) /\ n % raw \in 0..(raw - 1)
    BY <1>1
  <2>2. raw * r = r * raw
    BY <1>1, <2>1
  <2> QED BY <1>1, <2>1, <2>2
<1> HIDE DEF r
<1>3. r <= 2000
  <2>1. ASSUME r >= 2001 PROVE FALSE
    <3>1. r * raw >= 2001 * raw
      BY <1>1, <1>2, <2>1
    <3> QED BY <1>1, <1>2, <3>1
  <2> QED BY <1>2, <2>1
<1>4. ASSUME Default > 0 PROVE 20 * (r + 1) > Default
  <2>1. ASSUME 20 * (r + 1) <= Default PROVE FALSE
    <3>1. 20 * (r + 1) * raw <= Default * raw
      BY <1>1, <1>2, <2>1
    <3>2. 20 * (r + 1) * raw = 20 * (r * raw + raw)
      BY <1>1, <1>2
    <3> QED BY <1>1, <1>2, <1>4, <3>1, <3>2
  <2> QED BY <1>1, <1>2, <2>1
<1> QED BY <1>3, <1>4 DEF RateOf, Ceiling, AnomalyFactor, r, n

(* No answer, honest or not, believed or not, moves the rate of a pool out *)
(* of the band the sanity checks draw; nothing is assumed of Misreads.     *)
THEOREM RatesStaySane == CommissionSpec => []RatesAreSane
<1> DEFINE Sane == CommissionTypeOK /\ RoundsAreOrderly /\ RatesAreSane
<1>1. CommissionInit => Sane
  <2>1. CommissionInit => RatesAreSane
    BY DEF CommissionInit, FreshPools, RatesAreSane
  <2> QED BY <2>1, TypesInit, RoundsInit
<1>2. Sane /\ [CommissionNext]_commissionVars => Sane'
  <2> SUFFICES ASSUME Sane, [CommissionNext]_commissionVars PROVE RatesAreSane'
    BY TypesNext, RoundsNext
  <2>1. ASSUME NEW p \in Pools, Accepted(p) PROVE RatesAreSane'
    <3>1. PICK a \in Answers(p) : Believable(a) /\ rate' = [rate EXCEPT ![p] = RateOf(a)]
      BY <2>1 DEF Accepted
    <3>2. a \in Answer
      BY <2>1, <3>1, AnswersComeFromSomewhere DEF Accepted, Asking
    <3>3. a.fee \in Nat /\ a.raw \in Nat
      BY <3>2, AnswersAreNumbers
    <3>4. Believable([fee |-> a.fee, raw |-> a.raw])
          /\ RateOf(a) = RateOf([fee |-> a.fee, raw |-> a.raw])
      BY <3>1 DEF Believable, RateOf
    <3>5. RateOf(a) <= Ceiling /\ (Default > 0 => AnomalyFactor * (RateOf(a) + 1) > Default)
      BY <3>3, <3>4, BelievableIsSane
    <3> QED BY <3>1, <3>5 DEF RatesAreSane, CommissionTypeOK
  <2>2. CASE Restart
    BY <2>2 DEF Restart, RatesAreSane
  <2>3. ASSUME UNCHANGED rate PROVE RatesAreSane'
    BY <2>3 DEF RatesAreSane
  <2>4. ASSUME NEW p \in Pools, Skip(p) \/ Ask(p) \/ Kept(p) \/ GetState(p)
        PROVE  UNCHANGED rate
    BY <2>4 DEF Skip, Ask, Kept, GetState
  <2>5. CASE RoundEnds \/ GovernanceSets \/ CommissionTick \/ UNCHANGED commissionVars
    BY <2>3, <2>5 DEF RoundEnds, GovernanceSets, CommissionTick, commissionVars
  <2> QED BY <2>1, <2>2, <2>3, <2>4, <2>5 DEF CommissionNext
<1>3. Sane => RatesAreSane
  OBVIOUS
<1> QED BY <1>1, <1>2, <1>3, PTL DEF CommissionSpec
=============================================================================
