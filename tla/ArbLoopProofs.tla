--------------------------- MODULE ArbLoopProofs ---------------------------
(***************************************************************************)
(* Proofs about ArbLoop.  The queue of candidates is followed from the     *)
(* sort to the end of the fall-back loop: it keeps the passing candidates  *)
(* in front (Ordered), holds no all-native cycle while a token cycle       *)
(* passes (Gated), and every passing candidate is either still in it or    *)
(* cooling down (Accounted).                                               *)
(***************************************************************************)
EXTENDS ArbLoop, FiniteSetTheorems, TLAPS

Choosing == pc \in {"force", "try"}

InQueue(c) == \E i \in 1..Len(queue) : queue[i] = c

Ordered ==
  Choosing =>
    \A i, j \in 1..Len(queue) : i < j /\ queue[j] \in passes => queue[i] \in passes

Gated ==
  (Choosing /\ \E c \in passes : Token(c)) =>
    \A i \in 1..Len(queue) : Token(queue[i])

Accounted ==
  Choosing =>
    \A c \in passes : Considered(c) =>
      InQueue(c) \/ (pc = "try" /\ cool[c] = Cooldown)

(* Nothing is handed over before this loop has chosen. *)
HandedLate == pc \notin {"execute", "sleep"} => handed = NoCycle

Inv == TypeOK /\ Ordered /\ Gated /\ Accounted /\ HandedLate /\ NativesWaitForCalm

-----------------------------------------------------------------------------
(* What sorting the gated candidates yields. *)
LEMMA SortedQueue ==
  ASSUME NEW found \in SUBSET Viable, NEW clear \in SUBSET found, found # {},
         NEW s \in Sorted(TokenGate(found, clear), clear)
  PROVE  /\ s \in Seq(Viable)
         /\ Len(s) \in Nat \ {0}
         /\ DOMAIN s = 1..Len(s)
         /\ \A i, j \in 1..Len(s) : i < j /\ s[j] \in clear => s[i] \in clear
         /\ (\E c \in clear : Token(c)) => \A i \in 1..Len(s) : Token(s[i])
         /\ \A c \in clear : Token(c) \/ (~\E d \in clear : Token(d))
                               => \E i \in 1..Len(s) : s[i] = c
<1> DEFINE kept == TokenGate(found, clear)
           n == Cardinality(kept)
<1>1. kept \subseteq found /\ kept # {}
  BY DEF TokenGate
<1>2. IsFiniteSet(kept)
  <2>1. IsFiniteSet(Viable)
    BY LoopAssumption DEF LoopAssumption
  <2> QED BY <1>1, <2>1, FS_Subset
<1>3. n \in Nat /\ n # 0
  BY <1>1, <1>2, FS_CardinalityType, FS_EmptySet
<1>4. s \in [1..n -> kept]
  BY DEF Sorted
<1>5. /\ \A c \in kept : \E i \in DOMAIN s : s[i] = c
      /\ \A i, j \in DOMAIN s : i < j => ~Precedes(Rank(s[j], clear), Rank(s[i], clear))
  BY DEF Sorted
<1> HIDE DEF n, kept
<1>6. s \in Seq(Viable) /\ Len(s) = n /\ DOMAIN s = 1..n
  BY <1>1, <1>3, <1>4
<1>7. ASSUME NEW i \in 1..n, NEW j \in 1..n, i < j, s[j] \in clear, s[i] \notin clear
      PROVE  FALSE
  <2>1. ~Precedes(Rank(s[j], clear), Rank(s[i], clear))
    BY <1>5, <1>6, <1>7
  <2>2. Rank(s[j], clear)[1] = 0 /\ Rank(s[i], clear)[1] = 1
    BY <1>7 DEF Rank
  <2> QED BY <2>1, <2>2 DEF Precedes
<1>8. (\E c \in clear : Token(c)) => \A i \in 1..n : Token(s[i])
  BY <1>4 DEF kept, TokenGate
<1>9. ASSUME NEW c \in clear, Token(c) \/ (~\E d \in clear : Token(d))
      PROVE  \E i \in 1..n : s[i] = c
  <2>1. c \in kept
    BY <1>9 DEF kept, TokenGate
  <2> QED BY <1>5, <1>6, <2>1
<1> QED BY <1>3, <1>6, <1>7, <1>8, <1>9

LEMMA DiscoverableType == Discoverable \subseteq Viable
BY DEF Discoverable

LEMMA LoopConstants ==
  /\ Interval \in Nat \ {0}
  /\ MaxTried \in Nat \ {0}
  /\ Cooldown \in Nat
  /\ Slow \in Nat \ {0}
  /\ MaxArms \in Nat
  /\ NoCycle \notin Viable
BY LoopAssumption DEF LoopAssumption

(* The head of a queue that is not empty, and what is left of it. *)
LEMMA HeadAndTail ==
  ASSUME TypeOK, queue # <<>>
  PROVE  /\ Head(queue) = queue[1]
         /\ Head(queue) \in Viable
         /\ Len(queue) \in Nat \ {0}
         /\ Tail(queue) \in Seq(Viable)
         /\ Len(Tail(queue)) = Len(queue) - 1
         /\ \A i \in 1..(Len(queue) - 1) : Tail(queue)[i] = queue[i + 1]
BY DEF TypeOK

-----------------------------------------------------------------------------
LEMMA InvInit == Init => Inv
<1> SUFFICES ASSUME Init PROVE Inv
  OBVIOUS
<1>1. TypeOK
  <2>1. turn \in 0..(Interval - 1) /\ tried \in 0..MaxTried /\ arms \in 0..MaxArms
    BY LoopConstants DEF Init
  <2>2. cool \in [Viable -> 0..Cooldown]
    BY LoopConstants DEF Init
  <2>3. queue \in Seq(Viable)
    BY DEF Init
  <2> QED BY <2>1, <2>2, <2>3 DEF Init, TypeOK
<1> QED
  BY <1>1 DEF Init, Inv, Ordered, Gated, Accounted, HandedLate, NativesWaitForCalm, Choosing

(* Outside the choice the queue does not matter, and where passes and      *)
(* handed stay as they are so does the gate.                               *)
LEMMA LeavingTheChoice ==
  ASSUME Inv, ~Choosing', passes' = passes, handed' = handed,
         pc' \in {"execute", "sleep"} \/ handed = NoCycle
  PROVE  Ordered' /\ Gated' /\ Accounted' /\ HandedLate' /\ NativesWaitForCalm'
BY DEF Inv, Ordered, Gated, Accounted, HandedLate, NativesWaitForCalm

LEMMA RankStep ==
  ASSUME Inv, NEW found \in SUBSET Discoverable, NEW above \in SUBSET found,
         RankCandidates(found, above)
  PROVE  Inv'
<1>1. PICK clear : clear = passes'
  OBVIOUS
<1>2. found \in SUBSET Viable /\ clear \in SUBSET found /\ found # {}
  BY <1>1, DiscoverableType DEF RankCandidates
<1>3. PICK s \in Sorted(TokenGate(found, clear), clear) : queue' = s
  BY <1>1 DEF RankCandidates
<1>4. /\ s \in Seq(Viable)
      /\ Len(s) \in Nat \ {0}
      /\ \A i, j \in 1..Len(s) : i < j /\ s[j] \in clear => s[i] \in clear
      /\ (\E c \in clear : Token(c)) => \A i \in 1..Len(s) : Token(s[i])
      /\ \A c \in clear : Token(c) \/ (~\E d \in clear : Token(d))
                            => \E i \in 1..Len(s) : s[i] = c
  BY <1>2, <1>3, SortedQueue
<1>5. TypeOK'
  <2>1. queue' # <<>>
    BY <1>3, <1>4
  <2> QED
    BY <1>1, <1>2, <1>3, <1>4, <2>1, LoopConstants
    DEF RankCandidates, Inv, TypeOK, market, outcome
<1>6. Ordered' /\ Gated'
  BY <1>1, <1>3, <1>4 DEF Ordered, Gated
<1>7. Accounted'
  BY <1>1, <1>3, <1>4 DEF Accounted, Considered, InQueue
<1>8. HandedLate' /\ NativesWaitForCalm'
  BY DEF RankCandidates, Inv, HandedLate, NativesWaitForCalm, outcome
<1> QED
  BY <1>5, <1>6, <1>7, <1>8 DEF Inv

(* Handing over the head of the queue respects the gate. *)
LEMMA HandOverStep ==
  ASSUME Inv, Choosing, queue # <<>>, passes' = passes,
         NEW byForce \in BOOLEAN, HandOver(Head(queue), byForce)
  PROVE  Ordered' /\ Gated' /\ Accounted' /\ HandedLate' /\ NativesWaitForCalm'
<1>1. pc' = "execute" /\ handed' = Head(queue)
  BY DEF HandOver
<1>2. NativesWaitForCalm'
  <2>1. Head(queue) = queue[1] /\ 1 \in 1..Len(queue)
    BY HeadAndTail DEF Inv
  <2> QED
    BY <1>1, <2>1 DEF Inv, Gated, NativesWaitForCalm
<1> QED
  BY <1>1, <1>2 DEF Choosing, Ordered, Gated, Accounted, HandedLate

(* The queue stays; its candidates may have their turn. *)
LEMMA StartTrying ==
  ASSUME Inv, pc = "force", pc' \in {"try", "sleep"},
         UNCHANGED <<queue, passes, cool, handed>>
  PROVE  Ordered' /\ Gated' /\ Accounted' /\ HandedLate' /\ NativesWaitForCalm'
<1>1. Ordered' /\ Gated'
  BY DEF Inv, Choosing, Ordered, Gated
<1>2. Accounted'
  BY DEF Inv, Choosing, Accounted, Considered, InQueue
<1>3. HandedLate' /\ NativesWaitForCalm'
  BY DEF Inv, HandedLate, NativesWaitForCalm
<1> QED BY <1>1, <1>2, <1>3

LEMMA CandidateFailsStep == Inv /\ CandidateFails => Inv'
<1> SUFFICES ASSUME Inv, CandidateFails PROVE Inv'
  OBVIOUS
<1>1. queue # <<>> /\ Head(queue) \in passes /\ tried < MaxTried
  BY DEF CandidateFails, HasTurn
<1>2. /\ Head(queue) = queue[1]
      /\ Head(queue) \in Viable
      /\ Len(queue) \in Nat \ {0}
      /\ Tail(queue) \in Seq(Viable)
      /\ Len(Tail(queue)) = Len(queue) - 1
      /\ \A i \in 1..(Len(queue) - 1) : Tail(queue)[i] = queue[i + 1]
  BY <1>1, HeadAndTail DEF Inv
<1>3. /\ pc = "try" /\ pc' = "try"
      /\ queue' = Tail(queue)
      /\ passes' = passes
      /\ handed' = handed
      /\ cool' = [cool EXCEPT ![Head(queue)] = Cooldown]
  BY DEF CandidateFails, Mark, outcome
<1>4. TypeOK'
  BY <1>1, <1>2, <1>3, LoopConstants DEF CandidateFails, Inv, TypeOK, market, outcome
<1>5. Ordered' /\ Gated'
  <2>1. \A i \in 1..Len(queue') : i + 1 \in 1..Len(queue) /\ queue'[i] = queue[i + 1]
    BY <1>2, <1>3
  <2> QED
    BY <1>2, <1>3, <2>1 DEF Inv, Choosing, Ordered, Gated
<1>6. Accounted'
  <2> SUFFICES ASSUME NEW c \in passes, Considered(c)
               PROVE  InQueue(c)' \/ cool'[c] = Cooldown
    BY <1>3 DEF Accounted, Considered
  <2>1. c \in Viable /\ cool \in [Viable -> 0..Cooldown]
    BY DEF Inv, TypeOK
  <2>2. CASE cool[c] = Cooldown
    BY <1>2, <1>3, <2>1, <2>2
  <2>3. CASE c = Head(queue)
    BY <1>2, <1>3, <2>1, <2>3
  <2>4. CASE cool[c] # Cooldown /\ c # Head(queue)
    <3>1. PICK i \in 1..Len(queue) : queue[i] = c
      BY <1>3, <2>4 DEF Inv, Accounted, Choosing, InQueue
    <3>2. i # 1
      BY <1>2, <2>4, <3>1
    <3>3. i - 1 \in 1..Len(queue') /\ queue'[i - 1] = c
      BY <1>2, <1>3, <3>1, <3>2
    <3> QED BY <3>3 DEF InQueue
  <2> QED BY <2>2, <2>3, <2>4
<1>7. HandedLate' /\ NativesWaitForCalm'
  BY <1>3 DEF Inv, HandedLate, NativesWaitForCalm
<1> QED
  BY <1>4, <1>5, <1>6, <1>7 DEF Inv

LEMMA InvNext == Inv /\ [Next]_vars => Inv'
<1> SUFFICES ASSUME Inv, [Next]_vars PROVE Inv'
  OBVIOUS
<1> USE LoopConstants
<1>1. ASSUME NEW failing \in SUBSET Flaky, FetchStates(failing) PROVE Inv'
  <2>1. TypeOK'
    BY <1>1 DEF FetchStates, Inv, TypeOK, ranking, outcome
  <2>2. HandedLate' /\ handed' = handed /\ passes' = passes /\ ~Choosing'
        /\ handed = NoCycle
    BY <1>1 DEF FetchStates, Inv, HandedLate, Choosing, ranking, outcome
  <2> QED BY <2>1, <2>2, LeavingTheChoice DEF Inv
<1>2. CASE NothingFound
  <2>1. TypeOK'
    BY <1>2 DEF NothingFound, Inv, TypeOK, market, ranking, outcome
  <2>2. ~Choosing' /\ passes' = passes /\ handed' = handed /\ pc' = "sleep"
    BY <1>2 DEF NothingFound, Choosing, ranking, outcome
  <2> QED BY <2>1, <2>2, LeavingTheChoice DEF Inv
<1>3. ASSUME NEW found \in SUBSET Discoverable, NEW above \in SUBSET found,
             RankCandidates(found, above)
      PROVE  Inv'
  BY <1>3, RankStep
<1>4. CASE ForcedTrade
  <2>1. queue # <<>> /\ Choosing /\ passes' = passes
    BY <1>4 DEF ForcedTrade, Inv, TypeOK, Choosing, ranking
  <2>2. Ordered' /\ Gated' /\ Accounted' /\ HandedLate' /\ NativesWaitForCalm'
    BY <1>4, <2>1, HandOverStep DEF ForcedTrade
  <2>3. TypeOK /\ Head(queue) \in Viable
    BY <2>1, HeadAndTail DEF Inv
  <2>4. /\ UNCHANGED <<known, turn, cool, queue, passes, tried, arms>>
        /\ handed' \in Viable
        /\ pc' = "execute" /\ forced' \in BOOLEAN /\ armed' \in BOOLEAN
    BY <1>4, <2>3 DEF ForcedTrade, Disarm, HandOver, market, ranking
  <2>5. forcedRuns' \in Nat
    BY <1>4, <2>3 DEF ForcedTrade, TypeOK
  <2>6. TypeOK'
    BY <2>3, <2>4, <2>5 DEF TypeOK
  <2> QED BY <2>2, <2>6 DEF Inv
<1>5. CASE ForcedTooSmall
  <2>1. TypeOK'
    BY <1>5 DEF ForcedTooSmall, Disarm, Inv, TypeOK, market, ranking, outcome
  <2>2. pc = "force" /\ pc' \in {"try", "sleep"}
        /\ UNCHANGED <<queue, passes, cool, handed>>
    BY <1>5 DEF ForcedTooSmall, ranking, outcome
  <2> QED BY <2>1, <2>2, StartTrying DEF Inv
<1>6. CASE ForcedRefused
  <2>1. TypeOK'
    BY <1>6 DEF ForcedRefused, Disarm, Inv, TypeOK, market, ranking, outcome
  <2>2. pc = "force" /\ pc' \in {"try", "sleep"}
        /\ UNCHANGED <<queue, passes, cool, handed>>
    BY <1>6 DEF ForcedRefused, ranking, outcome
  <2> QED BY <2>1, <2>2, StartTrying DEF Inv
<1>7. CASE NotForced
  <2>1. TypeOK'
    BY <1>7 DEF NotForced, Inv, TypeOK, market, ranking, outcome
  <2>2. pc = "force" /\ pc' \in {"try", "sleep"}
        /\ UNCHANGED <<queue, passes, cool, handed>>
    BY <1>7 DEF NotForced, ranking, outcome
  <2> QED BY <2>1, <2>2, StartTrying DEF Inv
<1>8. CASE CandidateFails
  BY <1>8, CandidateFailsStep
<1>9. CASE CandidateWins
  <2>1. queue # <<>> /\ Choosing /\ passes' = passes
    BY <1>9 DEF CandidateWins, HasTurn, Choosing
  <2>2. Ordered' /\ Gated' /\ Accounted' /\ HandedLate' /\ NativesWaitForCalm'
    BY <1>9, <2>1, HandOverStep DEF CandidateWins
  <2>3. tried' = tried + 1 /\ tried < MaxTried
    BY <1>9 DEF CandidateWins, HasTurn
  <2>4. TypeOK /\ Head(queue) \in Viable /\ Tail(queue) \in Seq(Viable)
    BY <2>1, HeadAndTail DEF Inv
  <2>5. /\ UNCHANGED <<known, turn, cool, passes, armed, arms, forcedRuns>>
        /\ queue' \in Seq(Viable)
        /\ handed' \in Viable
        /\ pc' = "execute" /\ forced' \in BOOLEAN
    BY <1>9, <2>4 DEF CandidateWins, HandOver, market
  <2>6. tried' \in 0..MaxTried
    BY <2>3, <2>4 DEF TypeOK
  <2>7. TypeOK'
    BY <2>4, <2>5, <2>6 DEF TypeOK
  <2> QED BY <2>2, <2>7 DEF Inv
<1>10. CASE NoSurvivor
  <2>1. TypeOK'
    BY <1>10 DEF NoSurvivor, Inv, TypeOK, market, ranking, outcome
  <2>2. ~Choosing' /\ passes' = passes /\ handed' = handed /\ pc' = "sleep"
    BY <1>10 DEF NoSurvivor, Choosing, ranking, outcome
  <2> QED BY <2>1, <2>2, LeavingTheChoice DEF Inv
<1>11. CASE Execute
  <2>1. TypeOK'
    BY <1>11 DEF Execute, Inv, TypeOK, market, ranking, outcome
  <2>2. ~Choosing' /\ passes' = passes /\ handed' = handed /\ pc' = "sleep"
    BY <1>11 DEF Execute, Choosing, ranking, outcome
  <2> QED BY <2>1, <2>2, LeavingTheChoice DEF Inv
<1>12. ASSUME NEW ticks \in 1..Slow, Sleep(ticks) PROVE Inv'
  <2>1. cool' \in [Viable -> 0..Cooldown]
    BY <1>12 DEF Sleep, Inv, TypeOK
  <2>2. turn' \in 0..(Interval - 1)
    BY <1>12 DEF Sleep, Inv, TypeOK
  <2>3. queue' \in Seq(Viable) /\ tried' \in 0..MaxTried
    BY <1>12 DEF Sleep
  <2>4. TypeOK'
    BY <1>12, <2>1, <2>2, <2>3 DEF Sleep, Inv, TypeOK
  <2>5. Ordered' /\ Gated' /\ Accounted' /\ HandedLate' /\ NativesWaitForCalm'
    BY <1>12 DEF Sleep, Choosing, Ordered, Gated, Accounted, HandedLate,
                 NativesWaitForCalm
  <2> QED BY <2>4, <2>5 DEF Inv
<1>13. CASE Arm
  <2>1. TypeOK'
    BY <1>13 DEF Arm, Inv, TypeOK, market, ranking, outcome
  <2>2. UNCHANGED <<pc, queue, passes, cool, handed>>
    BY <1>13 DEF Arm, ranking, outcome
  <2> QED
    BY <2>1, <2>2 DEF Inv, Choosing, Ordered, Gated, Accounted, Considered, InQueue,
                      HandedLate, NativesWaitForCalm
<1>14. CASE UNCHANGED vars
  BY <1>14 DEF vars, market, ranking, outcome, Inv, TypeOK, Choosing, Ordered, Gated,
               Accounted, Considered, InQueue, HandedLate, NativesWaitForCalm
<1> QED
  BY <1>1, <1>2, <1>3, <1>4, <1>5, <1>6, <1>7, <1>8, <1>9, <1>10, <1>11, <1>12, <1>13,
     <1>14
  DEF Next, Loop

LEMMA InvHolds == Spec => []Inv
<1>1. Init => Inv
  BY InvInit
<1>2. Inv /\ [Next]_vars => Inv'
  BY InvNext
<1> QED BY <1>1, <1>2, PTL DEF Spec

-----------------------------------------------------------------------------
(* All variables keep their types; in particular run_once never takes the  *)
(* first element of an empty list, however the gate thins it out.          *)
THEOREM LoopTypeCorrect == Spec => []TypeOK
<1>1. Inv => TypeOK
  BY DEF Inv
<1> QED BY <1>1, InvHolds, PTL

(* A loop in which some token cycle passed never hands over an all-native  *)
(* one, for any pools, start assets, limits and cooldown.                  *)
THEOREM NativesWaitForCalmHolds == Spec => []NativesWaitForCalm
<1>1. Inv => NativesWaitForCalm
  BY DEF Inv
<1> QED BY <1>1, InvHolds, PTL

(* The fall-back loop's early exit skips no passing candidate: the sort    *)
(* keeps them in front, and those already taken out are cooling down.      *)
THEOREM NoneOverlookedHolds == Spec => []NoneOverlooked
<1>1. Inv => NoneOverlooked
  <2> SUFFICES ASSUME Inv, pc = "try", ~HasTurn, tried < MaxTried,
                      NEW c \in passes, Considered(c)
               PROVE  cool[c] = Cooldown
    BY DEF NoneOverlooked
  <2>1. ~InQueue(c)
    <3> SUFFICES ASSUME NEW i \in 1..Len(queue), queue[i] = c PROVE FALSE
      BY DEF InQueue
    <3>1. queue # <<>>
      OBVIOUS
    <3>2. Head(queue) = queue[1] /\ Head(queue) \notin passes /\ Len(queue) \in Nat
      BY <3>1, HeadAndTail DEF Inv, HasTurn
    <3>3. CASE i = 1
      BY <3>2, <3>3
    <3>4. CASE i # 1
      BY <3>2, <3>4 DEF Inv, Ordered, Choosing
    <3> QED BY <3>3, <3>4
  <2> QED BY <2>1 DEF Inv, Accounted, Choosing
<1> QED BY <1>1, InvHolds, PTL

(* One typed keyword forces at most one trade, whenever it is typed and    *)
(* whatever becomes of the loop that consumes it.                          *)
THEOREM OneTradePerArmingHolds == Spec => []OneTradePerArming
<1>1. Init => OneTradePerArming
  BY DEF Init, OneTradePerArming
<1>2. TypeOK /\ OneTradePerArming /\ [Next]_vars => OneTradePerArming'
  <2> SUFFICES ASSUME TypeOK, OneTradePerArming, [Next]_vars
               PROVE  OneTradePerArming'
    OBVIOUS
  <2>1. armed \in BOOLEAN /\ arms \in Nat /\ forcedRuns \in Nat
    BY LoopConstants DEF TypeOK
  <2>2. CASE ForcedTrade
    BY <2>1, <2>2 DEF ForcedTrade, Disarm, OneTradePerArming
  <2>3. CASE ForcedTooSmall \/ ForcedRefused
    BY <2>1, <2>3 DEF ForcedTooSmall, ForcedRefused, Disarm, OneTradePerArming, outcome
  <2>4. CASE Arm
    BY <2>1, <2>4 DEF Arm, OneTradePerArming, outcome
  <2>5. CASE UNCHANGED <<armed, arms, forcedRuns>>
    BY <2>5 DEF OneTradePerArming
  <2> QED
    BY <2>2, <2>3, <2>4, <2>5
    DEF Next, Loop, vars, FetchStates, NothingFound, RankCandidates, NotForced,
        CandidateFails, CandidateWins, NoSurvivor, Execute, Sleep, HandOver, outcome
<1> QED BY <1>1, <1>2, LoopTypeCorrect, PTL DEF Spec

=============================================================================
