---------------------------- MODULE AmountProofs ----------------------------
(***************************************************************************)
(* What an execution may cost the wallet: an atomic cycle that lands loses *)
(* no more than a tolerance, and a sequential leg spends no more than the  *)
(* one before it brought in.                                               *)
(***************************************************************************)
EXTENDS TraderProofs

USE DEF execVars, clientVars, chainVars, vars

(* A walk that touches no asset twice before it closes; find_cycles only   *)
(* rules out using a pool twice, and on a walk that passes through an      *)
(* asset twice the tolerances of two legs add up.                          *)
SimpleCycles == \A c \in Cycles : \A i, j \in Legs(c) : c[i] = c[j] => i = j

-----------------------------------------------------------------------------
(* Atomic execution. *)

(* The messages of a whole cycle: each leg offers what the one before is   *)
(* planned to deliver, and demands that but for the tolerance.             *)
Chained(m) ==
  /\ m \in Seq(Message) /\ Len(m) \in Nat /\ Len(m) >= 2
  /\ m[Len(m)].out = m[1].in
  /\ m[Len(m)].offer + Gain = m[1].offer + Len(m) * Gain
  /\ \A i \in 1..Len(m) : m[i].min >= m[i].offer + Gain - Tolerance
  /\ \A i \in 1..(Len(m) - 1) : /\ m[i].out = m[i + 1].in
                                /\ m[i + 1].offer = m[i].offer + Gain
  /\ \A i, j \in 1..Len(m) : m[i].in = m[j].in => i = j

Planned ==
  /\ call.stage # "none" /\ call.tx.tag.leg = 0 => Chained(call.tx.msgs)
  /\ \A t \in mempool : t.tag.leg = 0 => Chained(t.msgs)

(* What the i-th input is worth to the wallet, fee aside, after k messages.*)
Floor(m, k, i) ==
  IF i = 1 THEN IF k = 0 THEN 0
                ELSE IF k < Len(m) THEN -m[1].offer
                ELSE Len(m) * Gain - Tolerance
  ELSE IF i <= k THEN -Tolerance
  ELSE IF i = k + 1 THEN m[i].offer - Tolerance
  ELSE 0

Above(bal, base, m, k) ==
  \A i \in 1..Len(m) : bal[m[i].in] - base[m[i].in] >= Floor(m, k, i)

Scratch ==
  (block # NoBlock /\ block.tx.tag.leg = 0) =>
    LET m == block.tx.msgs
    IN  /\ block.next \in 1..(Len(m) + 1)
        /\ Above(block.bal, ChargeFee(block.tx.gas), m, block.next - 1)

(* The balances after one swap. *)
Moved(bal, msg, paid) ==
  [bal EXCEPT ![msg.in] = @ - msg.offer, ![msg.out] = @ + paid]

LEMMA MessagesChained ==
  ASSUME SimpleCycles, TypeOK, job \in Job, mode.atomic
  PROVE  Chained(Messages)
  <1> DEFINE c == job.cycle
             m == Messages
  <1>1. /\ c \in Cycles /\ c \in Seq(Assets) /\ Len(c) \in Nat /\ Len(c) >= 3
        /\ c[1] = c[Len(c)] /\ job.amount \in Nat
        /\ Gain \in Nat /\ Tolerance \in Nat
    BY ExecutionAssumption, ChainAssumption DEF Job
  <1>2. Last = Len(c) - 1 /\ Last \in Nat /\ Last >= 2
    BY <1>1 DEF Last
  <1>3. m = [i \in 1..Last |-> SwapMsg(i, LegOffer(i))] /\ m \in Seq(Message)
        /\ Len(m) = Last
    <2>1. m = [i \in 1..Last |-> SwapMsg(i, LegOffer(i))]
      BY DEF Messages
    <2>2. m \in Seq(Message)
      BY MessagesType DEF TypeOK
    <2> QED BY <1>2, <2>1, <2>2
  <1>4. \A i \in 1..Last : /\ m[i].in = c[i] /\ m[i].out = c[i + 1]
                           /\ m[i].offer = job.amount + (i - 1) * Gain
                           /\ m[i].min = MinPayout(i, LegOffer(i))
    BY <1>3 DEF SwapMsg, LegOffer, PlannedOffer
  <1>5. \A i \in 1..Last : (i - 1) * Gain \in Int /\ i * Gain = (i - 1) * Gain + Gain
    BY <1>1, <1>2
  <1> HIDE DEF m
  <1>6. \A i \in 1..Last : m[i].min >= m[i].offer + Gain - Tolerance
    <2> TAKE i \in 1..Last
    <2>1. m[i].offer = LegOffer(i) /\ PlannedOffer(i) = LegOffer(i) /\ m[i].offer \in Int
      BY <1>1, <1>4, <1>5 DEF LegOffer, PlannedOffer
    <2>2. m[i].min = IF m[i].offer + Gain > Tolerance
                     THEN m[i].offer + Gain - Tolerance ELSE 0
      BY <1>4, <2>1 DEF MinPayout
    <2> QED BY <1>1, <2>1, <2>2
  <1>7. \A i \in 1..(Last - 1) : m[i].out = m[i + 1].in /\ m[i + 1].offer = m[i].offer + Gain
    <2> TAKE i \in 1..(Last - 1)
    <2>1. i \in 1..Last /\ i + 1 \in 1..Last /\ (i + 1) - 1 = i
      BY <1>2
    <2>2. m[i + 1].offer = job.amount + i * Gain /\ m[i].offer = job.amount + (i - 1) * Gain
      BY <1>4, <2>1
    <2>3. m[i].out = m[i + 1].in
      BY <1>4, <2>1
    <2>4. (i - 1) * Gain \in Int /\ i * Gain = (i - 1) * Gain + Gain
      BY <1>5, <2>1
    <2>5. m[i + 1].offer = m[i].offer + Gain
      BY <1>1, <2>2, <2>4
    <2> QED BY <2>3, <2>5
  <1>8. m[Last].out = m[1].in
    <2>1. 1 \in 1..Last /\ Last \in 1..Last /\ Last + 1 = Len(c)
      BY <1>1, <1>2
    <2> QED BY <1>1, <1>4, <2>1
  <1>9. m[Last].offer + Gain = m[1].offer + Last * Gain
    <2>1. 1 \in 1..Last /\ Last \in 1..Last
      BY <1>2
    <2>2. m[1].offer = job.amount
      BY <1>1, <1>4, <2>1
    <2>3. m[Last].offer = job.amount + (Last - 1) * Gain
      BY <1>4, <2>1
    <2>4. (Last - 1) * Gain \in Int /\ Last * Gain = (Last - 1) * Gain + Gain
      BY <1>5, <2>1
    <2> QED BY <1>1, <2>2, <2>3, <2>4
  <1>10. \A i, j \in 1..Last : m[i].in = m[j].in => i = j
    BY <1>1, <1>2, <1>4 DEF SimpleCycles, Legs
  <1>11. Chained(m)
    BY <1>2, <1>3, <1>6, <1>7, <1>8, <1>9, <1>10 DEF Chained
  <1> QED BY <1>11 DEF m

LEMMA PlannedStep ==
  ASSUME SimpleCycles, AllInv, Planned, [Next]_vars
  PROVE  Planned'
  <1> USE DEF Planned
  <1>0. /\ call \in [stage : CallStages, tx : Tx] /\ NoCall.stage = "none"
        /\ leg \in Nat \ {0}
    BY DEF AllInv, Base, TypeOK, ClientTypeOK, ExecTypeOK, NoCall
  <1>1. CASE Trade
    <2>1. mempool' = mempool
      BY <1>1, TradeLeavesChain
    <2>2. CASE UNCHANGED call \/ call' = NoCall
      BY <1>0, <2>1, <2>2
    <2>3. CASE Send
      <3>1. call'.tx.msgs = Messages /\ call'.tx.tag = CallTag
        BY <2>3 DEF Send, StartCall, NoTx
      <3>2. job \in Job
        BY <2>3 DEF Send, AllInv, Base, TypeOK, ExecTypeOK
      <3>3. call'.tx.tag.leg = 0 => mode.atomic
        BY <1>0, <3>1 DEF CallTag
      <3>4. mode.atomic => Chained(Messages)
        BY <3>2, MessagesChained DEF AllInv, Base
      <3> QED BY <2>1, <3>1, <3>3, <3>4
    <2> QED BY <1>1, <2>2, <2>3, TradeLeavesChain
  <1>2. CASE Client
    <2>1. CASE CreateAndSign
      <3>1. PICK gas \in Fees :
              call' = [stage |-> "broadcast",
                       tx |-> [call.tx EXCEPT !.seq = SignSeq, !.gas = gas]]
        BY <2>1 DEF CreateAndSign
      <3>2. call'.tx.msgs = call.tx.msgs /\ call'.tx.tag = call.tx.tag
        BY <1>0, <3>1 DEF Tx
      <3> QED BY <2>1, <3>2 DEF CreateAndSign
    <2>2. CASE UNCHANGED chainVars /\ (\E stage \in {"raised", "refresh", "ok"} : Goto(stage))
               /\ call.stage \notin {"none", "ok"}
      BY <1>0, <2>2 DEF Goto
    <2>3. CASE call.stage = "broadcast" /\ Enqueue(call.tx)
               /\ \E stage \in {"wait", "raised"} : Goto(stage)
      BY <1>0, <2>3 DEF Goto, Enqueue
    <2> QED BY <1>2, <2>1, <2>2, <2>3
        DEF Client, SignAndBroadcast, SignRaises, BroadcastAccepted, BroadcastRejected,
            BroadcastConnectionLost, LostAnswerStage, ConfirmSuccess, ConfirmFailure,
            GiveUpWaiting, NotFoundStage, RefreshAccount
  <1>3. CASE World
    <2>1. mempool' \subseteq mempool /\ UNCHANGED call
      BY <1>3, ChainSteps DEF World, AllInv, Base, TypeOK
    <2> QED BY <2>1
  <1>4. CASE Clock \/ UNCHANGED vars
    BY <1>4 DEF Clock, Tick
  <1> QED BY <1>1, <1>2, <1>3, <1>4 DEF Next

(* Sums and differences, as the steps below need them.                     *)
LEMMA Rises ==
  ASSUME NEW x \in Int, NEW y \in Int, NEW p \in Int, NEW lo \in Int, NEW o \in Int,
         x - y >= lo, p >= o
  PROVE  (x + p) - y >= lo + o
  OBVIOUS

LEMMA Falls ==
  ASSUME NEW x \in Int, NEW y \in Int, NEW o \in Int, NEW lo \in Int, x - y >= lo
  PROVE  (x - o) - y >= lo - o
  OBVIOUS

(* One message of a chained transaction moves two assets of the floor up   *)
(* or down by what it offers and what it pays, and leaves the others.      *)
LEMMA ScratchMoves ==
  ASSUME NEW m, Chained(m), NEW k \in 0..(Len(m) - 1), NEW e, e = k + 1,
         NEW bal \in [Assets -> Int], NEW base \in [Assets -> Int],
         NEW paid \in Int, paid >= m[e].min,
         Above(bal, base, m, k)
  PROVE  Above(Moved(bal, m[e], paid), base, m, e)
  <1> DEFINE after == Moved(bal, m[e], paid)
  <1> SUFFICES ASSUME NEW n, n = Len(m)
               PROVE  \A i \in 1..n : after[m[i].in] - base[m[i].in] >= Floor(m, e, i)
    BY DEF Above
  <1>a. /\ after = [bal EXCEPT ![m[e].in] = @ - m[e].offer, ![m[e].out] = @ + paid]
        /\ \A i \in 1..n : bal[m[i].in] - base[m[i].in] >= Floor(m, k, i)
    BY DEF Moved, Above
  <1> HIDE DEF after
  <1>1. /\ n \in Nat /\ n >= 2 /\ e \in 1..n /\ k \in Nat /\ e \in Nat
        /\ Gain \in Nat /\ Tolerance \in Nat /\ n * Gain \in Int
    BY ExecutionAssumption, ChainAssumption DEF Chained
  <1>2. \A i \in 1..n : /\ m[i].in \in Assets /\ m[i].out \in Assets
                        /\ m[i].offer \in Nat /\ m[i].min \in Nat
    <2>1. \A i \in 1..n : m[i] \in Message
      BY DEF Chained
    <2> QED BY <2>1 DEF Message
  <1>0. /\ m[n].out = m[1].in
        /\ m[n].offer + Gain = m[1].offer + n * Gain
        /\ \A i \in 1..n : m[i].min >= m[i].offer + Gain - Tolerance
        /\ \A i \in 1..(n - 1) : /\ m[i].out = m[i + 1].in
                                /\ m[i + 1].offer = m[i].offer + Gain
        /\ \A i, j \in 1..n : m[i].in = m[j].in => i = j
    BY DEF Chained
  <1>3. paid >= m[e].offer + Gain - Tolerance
    <2>1. m[e].min >= m[e].offer + Gain - Tolerance /\ m[e].min \in Nat /\ m[e].offer \in Nat
      BY <1>0, <1>1, <1>2
    <2> QED BY <1>1, <2>1
  (* Whose input the payout is: the next leg's, or the first's.            *)
  <1> DEFINE s == IF e < n THEN e + 1 ELSE 1
  <1>4. /\ s \in 1..n /\ s # e /\ m[e].out = m[s].in
        /\ e < n => s = e + 1
        /\ e < n => m[s].offer = m[e].offer + Gain
        /\ e = n => s = 1
    <2>1. CASE e < n
      <3>1. e + 1 \in 1..n /\ e \in 1..(n - 1) /\ e + 1 # e
        BY <1>1, <2>1
      <3>2. s = e + 1 /\ ~(e = n)
        BY <1>1, <2>1
      <3>3. m[e].out = m[e + 1].in /\ m[e + 1].offer = m[e].offer + Gain
        BY <1>0, <3>1
      <3> HIDE DEF s
      <3> QED BY <2>1, <3>1, <3>2, <3>3
    <2>2. CASE e = n
      <3>1. 1 \in 1..n /\ 1 # n
        BY <1>1
      <3>2. ~(e < n)
        BY <1>1, <2>2
      <3> QED BY <1>0, <2>2, <3>1, <3>2
    <2> QED BY <1>1, <2>1, <2>2
  <1> HIDE DEF s
  <1>6. ASSUME NEW i \in 1..n
        PROVE  after[m[i].in] = IF i = e THEN bal[m[i].in] - m[e].offer
                                ELSE IF i = s THEN bal[m[i].in] + paid
                                ELSE bal[m[i].in]
    <2>1. /\ m[i].in \in Assets /\ m[e].in \in Assets /\ m[e].out \in Assets
          /\ (m[i].in = m[e].in) <=> (i = e)
          /\ (m[i].in = m[e].out) <=> (i = s)
      BY <1>0, <1>1, <1>2, <1>4
    <2>2. CASE i = e
      BY <1>a, <1>4, <2>1, <2>2
    <2>3. CASE i # e
      BY <1>a, <1>4, <2>1, <2>3
    <2> QED BY <2>2, <2>3
  <1>7. ASSUME NEW i \in 1..n
        PROVE  after[m[i].in] - base[m[i].in] >= Floor(m, e, i)
    <2>1. /\ bal[m[i].in] \in Int /\ base[m[i].in] \in Int
          /\ bal[m[i].in] - base[m[i].in] >= Floor(m, k, i)
          /\ m[i].offer \in Nat /\ m[1].offer \in Nat /\ m[e].offer \in Nat
          /\ i \in Nat /\ i >= 1 /\ Len(m) = n
      BY <1>a, <1>1, <1>2
    <2>2. CASE i = e
      <3>1. after[m[i].in] = bal[m[i].in] - m[i].offer
        BY <1>6, <2>2
      <3>2. CASE i = 1
        <4>1. Floor(m, k, i) = 0 /\ Floor(m, e, i) = -m[i].offer
          BY <1>1, <2>1, <2>2, <3>2 DEF Floor
        <4>2. bal[m[i].in] - base[m[i].in] >= 0
          BY <2>1, <4>1
        <4>3. bal[m[i].in] - m[i].offer - base[m[i].in] >= -m[i].offer
          BY <2>1, <4>2
        <4> QED BY <3>1, <4>1, <4>3
      <3>3. CASE i # 1
        <4>1. Floor(m, k, i) = m[i].offer - Tolerance /\ Floor(m, e, i) = -Tolerance
          BY <1>1, <2>1, <2>2, <3>3 DEF Floor
        <4>2. bal[m[i].in] - base[m[i].in] >= m[i].offer - Tolerance
          BY <2>1, <4>1
        <4>3. m[i].offer - Tolerance \in Int /\ m[i].offer - Tolerance - m[i].offer = -Tolerance
          BY <1>1, <2>1
        <4>4. bal[m[i].in] - m[i].offer - base[m[i].in] >= -Tolerance
          BY <2>1, <4>2, <4>3, Falls
        <4> QED BY <3>1, <4>1, <4>4
      <3> QED BY <3>2, <3>3
    <2>3. CASE i = s
      <3>1. after[m[i].in] = bal[m[i].in] + paid
        BY <1>4, <1>6, <2>3
      <3>2. CASE e < n
        <4>1. i = e + 1 /\ m[i].offer = m[e].offer + Gain
          BY <1>4, <2>3, <3>2
        <4>2. Floor(m, k, i) = 0 /\ Floor(m, e, i) = m[i].offer - Tolerance
          BY <1>1, <2>1, <4>1 DEF Floor
        <4>3. bal[m[i].in] - base[m[i].in] >= 0
          BY <2>1, <4>2
        <4>4. /\ m[i].offer - Tolerance \in Int /\ paid >= m[i].offer - Tolerance
              /\ 0 + (m[i].offer - Tolerance) = m[i].offer - Tolerance
          <5>1. PICK a \in Int : a = m[e].offer
            BY <2>1
          <5>2. PICK b \in Int : b = m[i].offer
            BY <2>1
          <5>3. b = a + Gain /\ paid >= a + Gain - Tolerance
            BY <1>3, <4>1, <5>1, <5>2
          <5>4. /\ b - Tolerance \in Int /\ paid >= b - Tolerance
                /\ 0 + (b - Tolerance) = b - Tolerance
            BY <1>1, <5>3
          <5> QED BY <5>2, <5>4
        <4>5. (bal[m[i].in] + paid) - base[m[i].in] >= 0 + (m[i].offer - Tolerance)
          BY <2>1, <4>3, <4>4, Rises
        <4>6. (bal[m[i].in] + paid) - base[m[i].in] >= m[i].offer - Tolerance
          BY <4>4, <4>5, Zenon
        <4> QED BY <3>1, <4>2, <4>6, Zenon
      <3>3. CASE e = n
        <4>1. i = 1 /\ m[e].offer + Gain = m[1].offer + n * Gain
          BY <1>0, <1>4, <2>3, <3>3
        <4>2. Floor(m, k, 1) = -m[1].offer /\ Floor(m, e, 1) = n * Gain - Tolerance
          BY <1>1, <2>1, <3>3 DEF Floor
        <4>3. bal[m[i].in] - base[m[i].in] >= -m[1].offer
          BY <2>1, <4>1, <4>2
        <4>4. /\ m[e].offer + Gain - Tolerance \in Int /\ -m[1].offer \in Int
              /\ -m[1].offer + (m[e].offer + Gain - Tolerance) = n * Gain - Tolerance
          <5>1. /\ m[e].offer \in Int /\ m[1].offer \in Int /\ Gain \in Int
                /\ n * Gain \in Int /\ Tolerance \in Int
            BY <1>1, <2>1
          <5>2. PICK z \in Int : z = n * Gain
            BY <1>1
          <5>3. PICK a \in Int : a = m[e].offer
            BY <5>1
          <5>4. PICK b \in Int : b = m[1].offer
            BY <5>1
          <5>5. a + Gain = b + z
            BY <4>1, <5>2, <5>3, <5>4
          <5>6. /\ a + Gain - Tolerance \in Int /\ -b \in Int
                /\ -b + (a + Gain - Tolerance) = z - Tolerance
            BY <5>1, <5>5
          <5> QED BY <5>2, <5>3, <5>4, <5>6
        <4>5. (bal[m[i].in] + paid) - base[m[i].in]
                >= -m[1].offer + (m[e].offer + Gain - Tolerance)
          BY <1>3, <2>1, <4>3, <4>4, Rises
        <4>6. (bal[m[i].in] + paid) - base[m[i].in] >= n * Gain - Tolerance
          BY <4>4, <4>5, Zenon
        <4>7. Floor(m, e, i) = n * Gain - Tolerance
          BY <4>1, <4>2, Zenon
        <4> QED BY <3>1, <4>6, <4>7, Zenon
      <3> QED BY <1>1, <3>2, <3>3
    <2>4. CASE i # e /\ i # s
      <3>1. after[m[i].in] = bal[m[i].in]
        BY <1>6, <2>4
      <3>2. Floor(m, e, i) = Floor(m, k, i)
        <4>1. CASE i = 1
          <5>1. 0 < k /\ e < n
            BY <1>1, <1>4, <2>1, <2>4, <4>1
          <5> QED BY <1>1, <2>1, <4>1, <5>1 DEF Floor
        <4>2. CASE i # 1 /\ i < e
          BY <1>1, <2>1, <4>2 DEF Floor
        <4>3. CASE i # 1 /\ i > e
          <5>1. i # e + 1
            BY <1>1, <1>4, <2>1, <2>4, <4>3
          <5> QED BY <1>1, <2>1, <4>3, <5>1 DEF Floor
        <4> QED BY <1>1, <2>1, <2>4, <4>1, <4>2, <4>3
      <3> QED BY <2>1, <3>1, <3>2
    <2> QED BY <2>2, <2>3, <2>4
  <1> QED BY <1>7

LEMMA ScratchBegins ==
  ASSUME TypeOK, Planned, NEW t \in mempool, BeginTx(t)
  PROVE  Scratch'
  <1> DEFINE m == t.msgs
  <1>1. /\ block'.tx = t /\ block'.next = 1 /\ block'.bal = ChargeFee(t.gas)
        /\ ChargeFee(t.gas)' = ChargeFee(t.gas)
    BY DEF BeginTx, ChargeFee
  <1>2. SUFFICES ASSUME t.tag.leg = 0
                 PROVE  /\ 1 \in 1..(Len(m) + 1)
                        /\ \A i \in 1..Len(m) :
                             ChargeFee(t.gas)[m[i].in] - ChargeFee(t.gas)[m[i].in]
                               >= Floor(m, 0, i)
    BY <1>1 DEF Scratch, Above
  <1>3. Chained(m)
    BY <1>2 DEF Planned
  <1>4. /\ Len(m) \in Nat /\ Tolerance \in Nat
        /\ m[1].offer \in Nat /\ 1 \in 1..Len(m)
        /\ \A i \in 1..Len(m) : m[i].in \in Assets
        /\ \A i, j \in 1..Len(m) : m[i].in = m[j].in => i = j
    <2>1. \A i \in 1..Len(m) : m[i] \in Message
      BY <1>3 DEF Chained
    <2>2. Len(m) \in Nat /\ 1 \in 1..Len(m)
      BY <1>3 DEF Chained
    <2> QED BY <1>3, <2>1, <2>2, ExecutionAssumption DEF Chained, Message
  <1>5. ChargeFee(t.gas) \in [Assets -> Int]
    BY ChainAssumption DEF TypeOK, ChainTypeOK, Tx, ChargeFee
  <1>6. ASSUME NEW i \in 1..Len(m)
        PROVE  ChargeFee(t.gas)[m[i].in] - ChargeFee(t.gas)[m[i].in] >= Floor(m, 0, i)
    <2>1. ChargeFee(t.gas)[m[i].in] - ChargeFee(t.gas)[m[i].in] = 0
      <3>1. ChargeFee(t.gas)[m[i].in] \in Int
        BY <1>4, <1>5
      <3> QED BY <3>1
    <2>2. Floor(m, 0, i) = 0
      <3>1. i # 1 => ~(i <= 0) /\ ~(i = 0 + 1)
        BY <1>4
      <3> QED BY <3>1 DEF Floor
    <2> QED BY <2>1, <2>2
  <1> QED BY <1>4, <1>6

LEMMA ScratchRuns ==
  ASSUME TypeOK, Planned, Scratch, RunMessage
  PROVE  Scratch'
  <1> DEFINE t == block.tx
             m == t.msgs
             k == block.next - 1
             e == block.next
             base == ChargeFee(t.gas)
  <1>1. /\ block \in Block /\ block # NoBlock /\ t \in mempool /\ t \in Tx
        /\ block.next \in Nat \ {0} /\ block.bal \in [Assets -> Int]
    BY DEF RunMessage, TypeOK, ChainTypeOK, Block
  <1>2. PICK drift \in 0..MaxDrift :
          /\ m[e].offer + Gain - drift >= m[e].min
          /\ block' = [tx |-> t, next |-> e + 1,
                       paid |-> m[e].offer + Gain - drift,
                       bal |-> Moved(block.bal, m[e], m[e].offer + Gain - drift)]
    BY DEF RunMessage, Moved
  <1> DEFINE paid == m[e].offer + Gain - drift
  <1>3. /\ block'.tx = t /\ block'.next = e + 1 /\ base' = base
        /\ block'.bal = Moved(block.bal, m[e], paid)
    <2>1. UNCHANGED wallet
      BY DEF RunMessage
    <2> QED BY <1>2, <2>1 DEF ChargeFee
  <1>4. SUFFICES ASSUME t.tag.leg = 0
                 PROVE  /\ e + 1 \in 1..(Len(m) + 1)
                        /\ Above(block'.bal, base, m, e)
    <2>1. \A x \in Nat : (x + 1) - 1 = x
      OBVIOUS
    <2>2. block'.next - 1 = e
      BY <1>1, <1>3, <2>1
    <2>3. ChargeFee(block.tx.gas)' = base
      BY <1>3
    <2> QED BY <1>3, <2>2, <2>3 DEF Scratch, Above
  <1>5. Chained(m)
    BY <1>1, <1>4 DEF Planned
  <1>6. /\ k \in 0..(Len(m) - 1) /\ e = k + 1 /\ e \in 1..Len(m)
        /\ e + 1 \in 1..(Len(m) + 1)
    <2>1. Len(m) \in Nat /\ e <= Len(m)
      BY <1>5 DEF Chained, RunMessage
    <2> QED BY <1>1, <2>1
  <1>7. base \in [Assets -> Int]
    BY <1>1, ChainAssumption DEF TypeOK, ChainTypeOK, Tx, ChargeFee
  <1>8. paid \in Int /\ paid >= m[e].min
    <2>1. m[e] \in Message
      BY <1>5, <1>6 DEF Chained
    <2>2. m[e].offer \in Nat
      BY <2>1 DEF Message
    <2> QED BY <1>2, <2>2, ChainAssumption
  <1>9. Above(block.bal, base, m, k)
    BY <1>1, <1>4 DEF Scratch
  <1>10. Above(block'.bal, base, m, e)
    <2> HIDE DEF m, k, e, base, paid
    <2>1. Above(Moved(block.bal, m[e], paid), base, m, e)
      BY <1>1, <1>5, <1>6, <1>7, <1>8, <1>9, ScratchMoves
    <2> QED BY <1>3, <2>1
  <1> QED BY <1>6, <1>10

LEMMA ScratchStep == AllInv /\ Planned /\ Scratch /\ [Next]_vars => Scratch'
  <1> SUFFICES ASSUME AllInv, Planned, Scratch, [Next]_vars
               PROVE  Scratch'
    OBVIOUS
  <1>0. TypeOK
    BY DEF AllInv, Base
  <1>a. ASSUME UNCHANGED <<block, wallet>>
        PROVE  Scratch'
    BY <1>a DEF Scratch, ChargeFee, Above
  <1>b. ASSUME block' = NoBlock
        PROVE  Scratch'
    BY <1>b DEF Scratch
  <1>1. CASE World
    <2>1. ASSUME NEW t \in mempool, EvictTx(t)
          PROVE  Scratch'
      BY <1>a, <2>1 DEF EvictTx
    <2>2. CASE RevertTx \/ CommitTx \/ \E a \in Assets : OutsideTx(a)
      BY <1>b, <2>2 DEF RevertTx, CommitTx, OutsideTx, Commit
    <2> QED BY <1>0, <1>1, <2>1, <2>2, ScratchBegins, ScratchRuns DEF World, ChainNext
  <1>2. CASE ~World
    BY <1>a, <1>2, TradeLeavesChain, ClientSteps
       DEF Next, Client, Clock, Tick, Enqueue, CreateAndSign
  <1> QED BY <1>1, <1>2

LEMMA LandingLoss ==
  ASSUME TypeOK, Planned, Scratch, CommitTx, block.tx.tag.leg = 0
  PROVE  LET t == block.tx
             n == Len(t.msgs)
             Change(a) == wallet'[a] - wallet[a] + (IF a = LUNC THEN t.gas ELSE 0)
         IN  /\ Change(t.msgs[1].in) >= n * Gain - Tolerance
             /\ \A i \in 1..(n - 1) : Change(t.msgs[i].out) >= -Tolerance
  <1> DEFINE t == block.tx
             m == t.msgs
             n == Len(m)
             Change(a) == wallet'[a] - wallet[a] + (IF a = LUNC THEN t.gas ELSE 0)
  <1>1. /\ block # NoBlock /\ block \in Block /\ t \in mempool /\ t \in Tx
        /\ wallet' = block.bal /\ block.bal \in [Assets -> Int]
        /\ wallet \in [Assets -> Int] /\ t.gas \in Nat /\ block.next \in Nat
    BY DEF CommitTx, Commit, TypeOK, ChainTypeOK, Block, Tx
  <1>2. Chained(m)
    BY <1>1 DEF Planned
  <1>3. /\ n \in Nat /\ n >= 2 /\ m \in Seq(Message) /\ m[n].out = m[1].in
        /\ \A i \in 1..(n - 1) : m[i].out = m[i + 1].in
    BY <1>2 DEF Chained
  <1>4. block.next - 1 = n
    <2>1. block.next \in 1..(n + 1) /\ block.next > n
      BY <1>1 DEF Scratch, CommitTx
    <2> QED BY <1>1, <1>3, <2>1
  <1>5. \A i \in 1..n : block.bal[m[i].in] - ChargeFee(t.gas)[m[i].in] >= Floor(m, n, i)
    BY <1>1, <1>4 DEF Scratch, Above
  <1>6. \A a \in Assets : Change(a) = block.bal[a] - ChargeFee(t.gas)[a]
    <2> TAKE a \in Assets
    <2>1. ChargeFee(t.gas)[a] = IF a = LUNC THEN wallet[a] - t.gas ELSE wallet[a]
      BY <1>1, ChainAssumption DEF ChargeFee
    <2>2. wallet[a] \in Int /\ block.bal[a] \in Int /\ t.gas \in Int
      BY <1>1
    <2>3. CASE a = LUNC
      <3>1. Change(a) = block.bal[a] - wallet[a] + t.gas
        BY <1>1, <2>3
      <3>2. ChargeFee(t.gas)[a] = wallet[a] - t.gas
        BY <2>1, <2>3
      <3> HIDE DEF Change, t
      <3> QED BY <2>2, <3>1, <3>2
    <2>4. CASE a # LUNC
      <3>1. Change(a) = block.bal[a] - wallet[a] + 0
        BY <1>1, <2>4
      <3>2. ChargeFee(t.gas)[a] = wallet[a]
        BY <2>1, <2>4
      <3> HIDE DEF Change, t
      <3> QED BY <2>2, <3>1, <3>2
    <2> QED BY <2>3, <2>4
  <1>7. \A i \in 1..n : m[i].in \in Assets
    <2>1. \A i \in 1..n : m[i] \in Message
      BY <1>3
    <2> QED BY <2>1 DEF Message
  <1> HIDE DEF Change, m, n
  <1>8. Change(m[1].in) >= n * Gain - Tolerance
    <2>1. 1 \in 1..n /\ ~(n = 0) /\ ~(n < n)
      BY <1>3
    <2>2. Floor(m, n, 1) = n * Gain - Tolerance
      BY <2>1 DEF Floor, n
    <2>3. Change(m[1].in) = block.bal[m[1].in] - ChargeFee(t.gas)[m[1].in]
      BY <1>6, <1>7, <2>1
    <2>4. block.bal[m[1].in] - ChargeFee(t.gas)[m[1].in] >= Floor(m, n, 1)
      BY <1>5, <2>1
    <2> QED BY <2>2, <2>3, <2>4, Zenon
  <1>9. ASSUME NEW i \in 1..(n - 1)
        PROVE  Change(m[i].out) >= -Tolerance
    <2>1. i + 1 \in 1..n /\ i + 1 # 1 /\ i + 1 <= n /\ m[i].out = m[i + 1].in
      BY <1>3
    <2>2. Floor(m, n, i + 1) = -Tolerance
      BY <2>1 DEF Floor
    <2>3. Change(m[i].out) = block.bal[m[i + 1].in] - ChargeFee(t.gas)[m[i + 1].in]
      BY <1>6, <1>7, <2>1
    <2>4. block.bal[m[i + 1].in] - ChargeFee(t.gas)[m[i + 1].in] >= Floor(m, n, i + 1)
      BY <1>5, <2>1
    <2> QED BY <2>2, <2>3, <2>4, Zenon
  <1> QED BY <1>8, <1>9 DEF Change, m, n

LEMMA BoundedStep ==
  ASSUME AllInv, Planned, Scratch, [Next]_vars, NEW t \in landed' \ landed,
         t.tag.leg = 0
  PROVE  LET n == Len(t.msgs)
             Change(a) == wallet'[a] - wallet[a] + (IF a = LUNC THEN t.gas ELSE 0)
         IN  /\ Change(t.msgs[1].in) >= n * Gain - Tolerance
             /\ \A i \in 1..(n - 1) : Change(t.msgs[i].out) >= -Tolerance
  <1>1. CommitTx /\ t = block.tx
    <2>1. CASE World
      BY <2>1 DEF World, ChainNext, BeginTx, EvictTx, RunMessage, RevertTx, CommitTx,
                  OutsideTx, Commit
    <2>2. CASE ~World
      BY <2>2, TradeLeavesChain, ClientSteps DEF Next, Client, Clock, Tick, Enqueue, CreateAndSign
    <2> QED BY <2>1, <2>2
  <1>2. TypeOK
    BY DEF AllInv, Base
  <1> QED BY <1>1, <1>2, LandingLoss

LEMMA AmountsInit == Init => Planned /\ Scratch
  BY DEF Init, Planned, Scratch, NoCall

(* execute_cycle_atomic: a cycle that touches no asset twice and lands     *)
(* brings at least its planned gain less one tolerance, and draws on what  *)
(* the wallet held of any asset in between by at most one tolerance,       *)
(* whatever the pools did before the transaction landed.                   *)
THEOREM AtomicLossIsBoundedHolds == SimpleCycles => (Spec => AtomicLossIsBounded)
  <1> SUFFICES ASSUME SimpleCycles PROVE Spec => AtomicLossIsBounded
    OBVIOUS
  <1>1. AllInv /\ Planned /\ Scratch /\ [Next]_vars => Planned' /\ Scratch'
    BY PlannedStep, ScratchStep
  <1>2. AllInv /\ Planned /\ Scratch /\ [Next]_vars =>
          [\A t \in landed' \ landed :
             (t.tag.leg = 0) =>
               LET n == Len(t.msgs)
                   Change(a) == wallet'[a] - wallet[a]
                                  + (IF a = LUNC THEN t.gas ELSE 0)
               IN  /\ Change(t.msgs[1].in) >= n * Gain - Tolerance
                   /\ \A i \in 1..(n - 1) : Change(t.msgs[i].out) >= -Tolerance]_vars
    BY BoundedStep
  <1> QED BY <1>1, <1>2, AmountsInit, AllInvHolds, PTL DEF Spec, AtomicLossIsBounded

-----------------------------------------------------------------------------
(***************************************************************************)
(* Sequential execution: a leg spends no more than the one before it       *)
(* brought in.  The invariants follow a leg from the measurement before    *)
(* it, over its landing and whatever else moves the wallet, to the         *)
(* measurement after.                                                      *)
(***************************************************************************)

(* The call under way is for a leg that has taken effect. *)
OwnLanded ==
  ~mode.atomic /\ ~mode.dry /\ call.stage # "none" /\ call.tx \in landed

(* A leg has been measured, and the next one not yet. *)
Between == ~mode.dry /\ pc = "before" /\ leg > 1

OneMessage ==
  (~mode.atomic /\ call.stage # "none") =>
    /\ Len(call.tx.msgs) = 1
    /\ call.tx.msgs[1] \in Message
    /\ call.tx.msgs[1].in = LegIn
    /\ call.tx.msgs[1].out = LegOut

(* The scratch balances of a transaction of one message.                   *)
HalfDone ==
  (block # NoBlock /\ Len(block.tx.msgs) = 1) =>
    LET charged == ChargeFee(block.tx.gas)
    IN  \/ block.next = 1 /\ block.bal = charged
        \/ block.next = 2 /\ block.bal = Moved(charged, block.tx.msgs[1], block.paid)

(* Once a leg has taken effect nothing of this wallet is waiting.          *)
Settled == (OwnLanded \/ Between) => Pending = {} /\ block = NoBlock

(* The leg took something out of every asset but the one it paid out, so a *)
(* lagging node shows no less of the others.                               *)
Sunk ==
  /\ OwnLanded => \A a \in Assets \ {LegOut} : lagging[a] >= wallet[a]
  /\ Between => \A a \in Assets \ {LegIn} : lagging[a] >= wallet[a]

(* Until the leg takes effect, what was measured before it is no less than *)
(* what the wallet holds ...                                               *)
Measured ==
  (quiet /\ ~mode.atomic /\ ~mode.dry /\ pc \in {"send", "wait"} /\ ~OwnLanded) =>
    before[LegOut] >= wallet[LegOut]

(* ... and from then on the difference is within the leg's proceeds.       *)
Within ==
  (quiet /\ OwnLanded) =>
    /\ (wallet[LegOut] - before[LegOut]) + (IF LegOut = LUNC THEN call.tx.gas ELSE 0)
          <= proceeds
    /\ lagging[LegOut] <= before[LegOut]

Spending == OneMessage /\ HalfDone /\ Settled /\ Sunk /\ Measured /\ Within

LEMMA SpendingInit == Init => Spending
  BY DEF Init, Spending, OneMessage, HalfDone, Settled, Sunk, Measured, Within,
         OwnLanded, Between, NoCall

(* The assets of the leg under way. *)
LEMMA LegAssets ==
  ASSUME TypeOK, job # NoJob
  PROVE  LegIn \in Assets /\ LegOut \in Assets /\ LegIn # LegOut
  <1>1. job.cycle \in Cycles /\ leg \in 1..Last
    BY DEF TypeOK, ExecTypeOK, Job
  <1>2. leg \in Legs(job.cycle)
    BY <1>1 DEF Legs, Last
  <1> QED BY <1>1, <1>2, CycleType, ExecutionAssumption DEF LegIn, LegOut

(* A call that has not been broadcast has not landed.                      *)
LEMMA NotYet ==
  ASSUME AllInv, call.stage \in {"sign", "broadcast"}
  PROVE  call.tx \notin landed
  BY DEF AllInv, Base, FreshTag, Known

-----------------------------------------------------------------------------
(* The trading thread. *)
LEMMA SpendingFinish ==
  ASSUME AllInv, Spending, NEW outcome, Finish(outcome)
  PROVE  Spending'
  <1>1. UNCHANGED chainVars /\ call' = NoCall /\ NoCall.stage = "none" /\ pc' = "idle"
    BY DEF Finish, NoCall
  <1>2. HalfDone'
    BY <1>1 DEF Spending, HalfDone, ChargeFee, Moved
  <1> QED BY <1>1, <1>2
          DEF Spending, OneMessage, Settled, Sunk, Measured, Within, OwnLanded, Between

LEMMA SpendingNext ==
  ASSUME AllInv, Spending, NEW offer, NextLeg(offer), pc = "after",
         ~mode.dry => ~mode.atomic
  PROVE  Spending'
  <1>1. /\ UNCHANGED chainVars /\ call' = NoCall /\ NoCall.stage = "none"
        /\ pc' = "before" /\ leg' = leg + 1 /\ UNCHANGED <<mode, job>>
    BY DEF NextLeg, NoCall
  <1>2. HalfDone'
    BY <1>1 DEF Spending, HalfDone, ChargeFee, Moved
  <1>3. ~mode.dry => OwnLanded
    BY DEF AllInv, InStep, Confirmed, OwnLanded
  <1>4. LegIn' = LegOut /\ Pending' = Pending
    BY <1>1 DEF LegIn, LegOut, Pending
  <1>5. Settled' /\ Sunk'
    BY <1>1, <1>3, <1>4 DEF Spending, Settled, Sunk, OwnLanded, Between
  <1> QED BY <1>1, <1>2, <1>5 DEF Spending, OneMessage, Measured, Within, OwnLanded

(* A move of the thread that leaves the call and the measurement alone.    *)
LEMMA SpendingStep ==
  ASSUME AllInv, Spending, NEW place, Step(place), UNCHANGED chainVars,
         UNCHANGED <<call, before, quiet>> \/ call.stage = "none",
         UNCHANGED call,
         place = "before" => leg = 1,
         place = "send" => mode.atomic, place # "wait"
  PROVE  Spending'
  <1>1. UNCHANGED <<mode, job, leg>> /\ pc' = place
    BY DEF Step
  <1>2. HalfDone' /\ OneMessage'
    BY <1>1 DEF Spending, HalfDone, OneMessage, ChargeFee, Moved, LegIn, LegOut
  <1>3. OwnLanded' = OwnLanded /\ ~Between' /\ LegOut' = LegOut /\ Pending' = Pending
    BY <1>1 DEF OwnLanded, Between, LegOut, Pending
  <1>4. Settled' /\ Sunk'
    BY <1>1, <1>3 DEF Spending, Settled, Sunk
  <1>5. Measured'
    BY <1>1 DEF Measured
  <1>6. Within'
    <2>1. CASE call.stage = "none"
      BY <1>3, <2>1 DEF Within, OwnLanded
    <2>2. CASE UNCHANGED <<call, before, quiet>>
      BY <1>3, <2>2 DEF Spending, Within
    <2> QED BY <2>1, <2>2
  <1> QED BY <1>2, <1>4, <1>5, <1>6 DEF Spending

LEMMA SpendingMeasure ==
  ASSUME AllInv, Spending, MeasureBefore
  PROVE  Spending'
  <1>1. /\ pc = "before" /\ UNCHANGED <<chainVars, call, mode, job, leg>>
        /\ pc' = IF mode.atomic THEN "plan" ELSE "send"
    BY DEF MeasureBefore, Step
  <1>2. call.stage = "none"
    BY <1>1 DEF AllInv, Base, CallOfJob
  <1>3. HalfDone' /\ OneMessage'
    BY <1>1 DEF Spending, HalfDone, OneMessage, ChargeFee, Moved, LegIn, LegOut
  <1>4. ~OwnLanded' /\ ~Between'
    BY <1>1, <1>2 DEF OwnLanded, Between
  <1>5. ASSUME quiet', ~mode.atomic, ~mode.dry
        PROVE  before'[LegOut] >= wallet[LegOut]
    <2>1. before' \in {wallet, lagging} /\ (leg = 1 => before' = wallet)
      BY <1>5 DEF MeasureBefore, Readings, AllInv, Base, TypeOK, ExecTypeOK
    <2>2. leg \in Nat \ {0} /\ job # NoJob /\ wallet \in [Assets -> Int]
      BY <1>1 DEF AllInv, Base, TypeOK, ExecTypeOK, ChainTypeOK
    <2>3. LegOut \in Assets /\ LegOut # LegIn /\ wallet[LegOut] \in Int
      BY <2>2, LegAssets DEF AllInv, Base
    <2>4. CASE leg = 1
      BY <2>1, <2>3, <2>4
    <2>5. CASE leg # 1
      <3>1. Between
        BY <1>1, <1>5, <2>2, <2>5 DEF Between
      <3>2. lagging[LegOut] >= wallet[LegOut]
        BY <2>3, <3>1 DEF Spending, Sunk
      <3> QED BY <2>1, <2>3, <3>2
    <2> QED BY <2>4, <2>5
  <1>6. Measured'
    BY <1>1, <1>5 DEF Measured, LegOut
  <1> QED BY <1>3, <1>4, <1>6 DEF Spending, Settled, Sunk, Within

LEMMA SpendingSend ==
  ASSUME AllInv, AllInv', Spending, Send
  PROVE  Spending'
  <1>1. /\ pc = "send" /\ pc' = "wait" /\ call'.stage = "sign"
        /\ call'.tx.msgs = Messages
        /\ UNCHANGED <<chainVars, before, quiet, mode, job, leg, current>>
    BY DEF Send, StartCall, Step, NoTx
  <1>2. call.stage = "none"
    BY <1>1 DEF AllInv, Base, CallOfJob
  <1>3. ~OwnLanded /\ ~OwnLanded' /\ ~Between'
    <2>1. (call.tx \notin landed)'
      <3>1. (call.stage \in {"sign", "broadcast"} =>
               \A t \in Known : t.tag # call.tx.tag)'
        BY DEF AllInv, Base, FreshTag
      <3> QED BY <1>1, <3>1 DEF Known
    <2> QED BY <1>1, <1>2, <2>1 DEF OwnLanded, Between
  <1>4. OneMessage'
    <2>1. CASE ~mode.atomic
      <3>1. job \in Job /\ Messages = <<SwapMsg(leg, current)>>
        BY <1>1, <2>1 DEF Messages, AllInv, Base, TypeOK, ExecTypeOK
      <3>2. leg \in 1..Last /\ current \in Nat
        BY <3>1, NoJobAssumption DEF AllInv, Base, TypeOK, ExecTypeOK
      <3>3. SwapMsg(leg, current) \in Message
        BY <3>1, <3>2, SwapMsgType
      <3>4. SwapMsg(leg, current).in = LegIn /\ SwapMsg(leg, current).out = LegOut
        BY DEF SwapMsg, LegIn, LegOut
      <3>5. Len(Messages) = 1 /\ Messages[1] = SwapMsg(leg, current)
        BY <3>1
      <3>6. LegIn' = LegIn /\ LegOut' = LegOut
        BY <1>1 DEF LegIn, LegOut
      <3> QED BY <1>1, <3>3, <3>4, <3>5, <3>6 DEF OneMessage
    <2>2. CASE mode.atomic
      BY <1>1, <2>2 DEF OneMessage
    <2> QED BY <2>1, <2>2
  <1>5. HalfDone'
    BY <1>1 DEF Spending, HalfDone, ChargeFee, Moved
  <1>6. Measured'
    BY <1>1, <1>3 DEF Spending, Measured, LegOut
  <1> QED BY <1>3, <1>4, <1>5, <1>6 DEF Spending, Settled, Sunk, Within

LEMMA SpendingTrade ==
  ASSUME AllInv, AllInv', Spending, Trade
  PROVE  Spending'
  <1>0. UNCHANGED chainVars
    BY TradeLeavesChain
  <1>a. pc \notin {"wait", "after"} => call.stage = "none"
    BY DEF AllInv, Base, CallOfJob
  <1>b. pc \in {"reserve", "plan", "check"} => leg = 1
    BY DEF AllInv, InStep, FirstLeg
  <1>1. CASE StartLoop \/ NoCandidate \/ ReservePasses \/ KeepPlan
    BY <1>0, <1>1, <1>a, <1>b, SpendingStep
       DEF StartLoop, NoCandidate, ReservePasses, KeepPlan
  <1>2. CASE CheckPasses \/ SendDry \/ SendReturns
    BY <1>0, <1>2, <1>a, <1>b, SpendingStep DEF CheckPasses, SendDry, SendReturns
  <1>3. CASE (\E c \in Cycles, amount \in Amounts, gas \in Fees : Approve(c, amount, gas))
             \/ \E gas \in Fees : SplitPlan(gas)
    <2>1. UNCHANGED call /\ call.stage = "none" /\ pc' \in {"reserve", "check"}
      BY <1>3, <1>a DEF Approve, SplitPlan
    <2>2. HalfDone'
      BY <1>0 DEF Spending, HalfDone, ChargeFee, Moved
    <2> QED BY <2>1, <2>2 DEF Spending, OneMessage, Settled, Sunk, Measured, Within,
                              OwnLanded, Between
  <1>4. CASE ReserveRefuses \/ CheckRefuses \/ SendRaises \/ AfterAtomic \/ QueryRaises
    BY <1>4, SpendingFinish
       DEF ReserveRefuses, CheckRefuses, SendRaises, AfterAtomic, QueryRaises
  <1>5. CASE LegDelivered \/ AfterDry
    BY <1>5, SpendingFinish, SpendingNext DEF LegDelivered, AfterDry
  <1>6. CASE MeasureBefore
    BY <1>6, SpendingMeasure
  <1>7. CASE Send
    BY <1>7, SpendingSend
  <1> QED BY <1>1, <1>2, <1>3, <1>4, <1>5, <1>6, <1>7 DEF Trade

-----------------------------------------------------------------------------
(* The client. *)
LEMMA SpendingClient ==
  ASSUME AllInv, AllInv', Spending, Client
  PROVE  Spending'
  <1>1. UNCHANGED execVars /\ call \in [stage : CallStages, tx : Tx]
    BY DEF Client, AllInv, Base, TypeOK, ClientTypeOK
  <1>a. LegIn' = LegIn /\ LegOut' = LegOut /\ Between' = Between
    BY <1>1 DEF LegIn, LegOut, Between
  <1>2. CASE CreateAndSign
    <2>1. PICK gas \in Fees :
            call' = [stage |-> "broadcast",
                     tx |-> [call.tx EXCEPT !.seq = SignSeq, !.gas = gas]]
      BY <1>2 DEF CreateAndSign
    <2>2. /\ call'.tx.msgs = call.tx.msgs /\ call'.stage = "broadcast"
          /\ call.stage = "sign" /\ UNCHANGED chainVars
      BY <1>1, <1>2, <2>1 DEF CreateAndSign, Tx
    <2>3. ~OwnLanded
      BY <2>2, NotYet DEF OwnLanded
    <2>4. ~OwnLanded'
      <3>1. (call.stage \in {"sign", "broadcast"} =>
               \A t \in Known : t.tag # call.tx.tag)'
        BY DEF AllInv, Base, FreshTag
      <3> QED BY <2>2, <3>1 DEF OwnLanded, Known
    <2>5. OneMessage' /\ HalfDone'
      BY <1>1, <1>a, <2>2 DEF Spending, OneMessage, HalfDone, ChargeFee, Moved
    <2>6. Settled' /\ Sunk'
      BY <1>a, <2>2, <2>4 DEF Spending, Settled, Sunk, Pending
    <2> QED BY <1>1, <1>a, <2>2, <2>3, <2>4, <2>5, <2>6 DEF Spending, Measured, Within
  <1>3. CASE /\ UNCHANGED chainVars
             /\ \E stage \in {"raised", "refresh", "ok"} : Goto(stage)
             /\ call.stage \notin {"none", "ok"}
    <2>1. call'.tx = call.tx /\ call.stage # "none" /\ call'.stage # "none"
      BY <1>1, <1>3 DEF Goto
    <2>2. OwnLanded' = OwnLanded
      BY <1>1, <1>3, <2>1 DEF OwnLanded
    <2>3. OneMessage' /\ HalfDone'
      BY <1>1, <1>a, <1>3, <2>1 DEF Spending, OneMessage, HalfDone, ChargeFee, Moved
    <2>4. Settled' /\ Sunk'
      BY <1>a, <1>3, <2>2 DEF Spending, Settled, Sunk, Pending
    <2> QED BY <1>1, <1>a, <1>3, <2>1, <2>2, <2>3, <2>4 DEF Spending, Measured, Within
  <1>4. CASE /\ call.stage = "broadcast"
             /\ Enqueue(call.tx)
             /\ \E stage \in {"wait", "raised"} : Goto(stage)
    <2>1. /\ call'.tx = call.tx /\ call'.stage # "none"
          /\ UNCHANGED <<wallet, lagging, chainSeq, block, landed, proceeds>>
      BY <1>1, <1>4 DEF Goto, Enqueue
    <2>2. ~OwnLanded /\ ~OwnLanded'
      BY <1>4, <2>1, NotYet DEF OwnLanded
    <2>3. ~Between
      BY <1>4 DEF Between, AllInv, Base, CallOfJob
    <2>4. OneMessage' /\ HalfDone'
      BY <1>1, <1>a, <1>4, <2>1 DEF Spending, OneMessage, HalfDone, ChargeFee, Moved
    <2> QED BY <1>1, <1>a, <2>1, <2>2, <2>3, <2>4
            DEF Spending, Settled, Sunk, Measured, Within
  <1> QED BY <1>2, <1>3, <1>4, ClientSteps DEF Client

-----------------------------------------------------------------------------
(* The chain. *)

(* A block's transaction is not the one of a call that has landed, and of  *)
(* the calls under way only one that waits can be in a block.              *)
LEMMA BlockBusy ==
  ASSUME AllInv, Spending, block # NoBlock
  PROVE  ~OwnLanded /\ ~Between
  BY DEF Spending, Settled

LEMMA BlockIsOwn ==
  ASSUME AllInv, block # NoBlock, block.tx = call.tx
  PROVE  call.stage # "none"
  <1>1. block.tx \in Known
    BY DEF AllInv, Base, TypeOK, ChainTypeOK, Known
  <1>2. jobs \in Nat /\ block.tx.tag.job \in 1..jobs
    BY <1>1, ExecutionAssumption DEF AllInv, Base, FreshTag, TypeOK, ExecTypeOK
  <1>3. NoCall.tx.tag.job = 0
    BY DEF NoCall, NoTx
  <1> QED BY <1>2, <1>3 DEF AllInv, Base, CallOfJob

LEMMA SpendingBegin ==
  ASSUME AllInv, Spending, World, NEW t \in mempool, BeginTx(t)
  PROVE  Spending'
  <1>1. /\ UNCHANGED <<wallet, lagging, chainSeq, mempool, landed, reverted, proceeds>>
        /\ UNCHANGED <<clientVars, mode, pc, job, jobs, leg, current, before>>
        /\ quiet' = quiet /\ t \in Pending
        /\ block' = [tx |-> t, next |-> 1, paid |-> 0, bal |-> ChargeFee(t.gas)]
    BY PendingTags DEF World, BeginTx, Disturbs, AllInv, Base, TypeOK, ExecTypeOK
  <1>2. ~OwnLanded /\ ~Between
    BY <1>1 DEF Spending, Settled
  <1>3. HalfDone'
    BY <1>1 DEF HalfDone, ChargeFee
  <1>4. ~OwnLanded' /\ ~Between' /\ LegOut' = LegOut /\ LegIn' = LegIn
    BY <1>1, <1>2 DEF OwnLanded, Between, LegOut, LegIn
  <1> QED BY <1>1, <1>2, <1>3, <1>4
          DEF Spending, OneMessage, Settled, Sunk, Measured, Within

LEMMA SpendingRun ==
  ASSUME AllInv, Spending, World, RunMessage
  PROVE  Spending'
  <1>1. /\ UNCHANGED <<wallet, lagging, chainSeq, mempool, landed, reverted, proceeds>>
        /\ UNCHANGED <<clientVars, mode, pc, job, jobs, leg, current, before>>
        /\ quiet' = quiet /\ block # NoBlock
    BY DEF World, RunMessage, Disturbs, AllInv, Base, TypeOK, ExecTypeOK
  <1>2. ~OwnLanded /\ ~Between
    BY <1>1, BlockBusy
  <1>3. HalfDone'
    <2>1. PICK paid :
            block' = [tx |-> block.tx, next |-> block.next + 1, paid |-> paid,
                      bal |-> Moved(block.bal, block.tx.msgs[block.next], paid)]
      BY DEF RunMessage, Moved
    <2>2. block.next <= Len(block.tx.msgs) /\ block.next \in Nat \ {0}
      BY <1>1 DEF RunMessage, AllInv, Base, TypeOK, ChainTypeOK, Block
    <2>3. ASSUME Len(block.tx.msgs) = 1
          PROVE  /\ block'.next = 2
                 /\ block'.bal = Moved(ChargeFee(block.tx.gas), block.tx.msgs[1], block'.paid)
      <3>1. block.next = 1
        BY <2>2, <2>3
      <3>2. block.bal = ChargeFee(block.tx.gas)
        BY <1>1, <2>3, <3>1 DEF Spending, HalfDone
      <3> QED BY <2>1, <3>1, <3>2
    <2>4. block'.tx = block.tx /\ ChargeFee(block.tx.gas)' = ChargeFee(block.tx.gas)
      BY <1>1, <2>1 DEF ChargeFee
    <2> QED BY <2>3, <2>4 DEF HalfDone, Moved
  <1>4. ~OwnLanded' /\ ~Between' /\ LegOut' = LegOut /\ LegIn' = LegIn
    BY <1>1, <1>2 DEF OwnLanded, Between, LegOut, LegIn
  <1> QED BY <1>1, <1>2, <1>3, <1>4
          DEF Spending, OneMessage, Settled, Sunk, Measured, Within

LEMMA SpendingEvict ==
  ASSUME AllInv, Spending, World, NEW t \in mempool, EvictTx(t)
  PROVE  Spending'
  <1>1. /\ UNCHANGED <<wallet, lagging, chainSeq, block, landed, reverted, proceeds>>
        /\ UNCHANGED <<clientVars, mode, pc, job, jobs, leg, current, before>>
        /\ quiet' = quiet /\ Pending' \subseteq Pending
    BY DEF World, EvictTx, Disturbs, Pending, AllInv, Base, TypeOK, ExecTypeOK
  <1>2. /\ OwnLanded' = OwnLanded /\ Between' = Between
        /\ LegOut' = LegOut /\ LegIn' = LegIn
    BY <1>1 DEF OwnLanded, Between, LegOut, LegIn
  <1>3. HalfDone' /\ OneMessage'
    BY <1>1, <1>2 DEF Spending, HalfDone, OneMessage, ChargeFee, Moved
  <1>4. Settled' /\ Sunk'
    BY <1>1, <1>2 DEF Spending, Settled, Sunk
  <1> QED BY <1>1, <1>2, <1>3, <1>4 DEF Spending, Measured, Within

LEMMA SpendingRevert ==
  ASSUME AllInv, Spending, World, RevertTx
  PROVE  Spending'
  <1>1. /\ UNCHANGED <<clientVars, mode, pc, job, jobs, leg, current, before, landed>>
        /\ (quiet' => quiet) /\ block # NoBlock /\ block' = NoBlock
        /\ wallet' = ChargeFee(block.tx.gas)
    BY DEF World, RevertTx, Commit
  <1>2. /\ ~OwnLanded /\ ~OwnLanded' /\ ~Between' /\ ~Between
        /\ LegOut' = LegOut /\ LegIn' = LegIn
    BY <1>1, BlockBusy DEF OwnLanded, Between, LegOut, LegIn
  <1>3. Measured'
    <2> SUFFICES ASSUME quiet, ~mode.atomic, ~mode.dry, pc \in {"send", "wait"}
                 PROVE  before[LegOut] >= wallet'[LegOut]
      BY <1>1, <1>2 DEF Measured
    <2>1. before[LegOut] >= wallet[LegOut]
      BY <1>2 DEF Spending, Measured
    <2>2. LegOut \in Assets /\ before[LegOut] \in Int /\ wallet[LegOut] \in Int
      <3>1. job # NoJob
        BY DEF AllInv, Base, TypeOK, ExecTypeOK
      <3>2. LegOut \in Assets
        BY <3>1, LegAssets DEF AllInv, Base
      <3> QED BY <3>2 DEF AllInv, Base, TypeOK, ChainTypeOK, ExecTypeOK
    <2>3. wallet'[LegOut] <= wallet[LegOut]
      <3>1. block.tx.gas \in Nat /\ wallet \in [Assets -> Int]
        BY <1>1 DEF AllInv, Base, TypeOK, ChainTypeOK, Block, Tx
      <3>2. wallet'[LegOut] = IF LegOut = LUNC THEN wallet[LUNC] - block.tx.gas
                                                ELSE wallet[LegOut]
        BY <1>1, <2>2, <3>1, ChainAssumption DEF ChargeFee
      <3> QED BY <2>2, <3>1, <3>2
    <2>4. wallet'[LegOut] \in Int
      <3>1. wallet' \in [Assets -> Int]
        BY <1>1, ChainAssumption DEF ChargeFee, AllInv, Base, TypeOK, ChainTypeOK, Block, Tx
      <3> QED BY <2>2, <3>1
    <2> QED BY <2>1, <2>2, <2>3, <2>4
  <1> QED BY <1>1, <1>2, <1>3
          DEF Spending, OneMessage, HalfDone, Settled, Sunk, Within

(* Somebody else moves the wallet: what was measured is forgotten.         *)
LEMMA SpendingOutside ==
  ASSUME AllInv, Spending, World, NEW a \in Assets, OutsideTx(a)
  PROVE  Spending'
  <1>1. /\ UNCHANGED <<clientVars, mode, pc, job, jobs, leg, current, before, landed,
                       mempool, reverted>>
        /\ block' = NoBlock /\ lagging' = wallet /\ chainSeq' = chainSeq + 1
        /\ wallet' = [wallet EXCEPT ![a] = @ - 1] /\ wallet \in [Assets -> Int]
    BY DEF World, OutsideTx, Commit, AllInv, Base, TypeOK, ChainTypeOK
  <1>2. wallet' # wallet
    <2>1. wallet'[a] = wallet[a] - 1 /\ wallet[a] \in Int
      BY <1>1
    <2> QED BY <2>1
  <1>3. ~quiet'
    BY <1>1, <1>2 DEF World, Disturbs, OwnTxIncluded
  <1>4. Pending' = {}
    BY <1>1, PendingTags DEF Pending, AllInv, Base, OneSlot
  <1>5. /\ OwnLanded' = OwnLanded /\ Between' = Between
        /\ LegOut' = LegOut /\ LegIn' = LegIn
    BY <1>1 DEF OwnLanded, Between, LegOut, LegIn
  <1>6. \A b \in Assets : lagging'[b] >= wallet'[b]
    <2> TAKE b \in Assets
    <2>1. wallet[b] \in Int /\ wallet'[b] = IF b = a THEN wallet[b] - 1 ELSE wallet[b]
      BY <1>1
    <2> QED BY <1>1, <2>1
  <1>7. Sunk' /\ Settled'
    BY <1>1, <1>4, <1>5, <1>6 DEF Sunk, Settled
  <1> QED BY <1>1, <1>3, <1>5, <1>7
          DEF Spending, OneMessage, HalfDone, Measured, Within

(* The transaction of a leg lands: its proceeds are what the wallet gains, *)
(* the fee aside, and nothing else in the wallet grows.                    *)
LEMMA OwnLands ==
  ASSUME AllInv, Spending, CommitTx, block.tx = call.tx, ~mode.atomic
  PROVE  LET fee == IF LegOut = LUNC THEN call.tx.gas ELSE 0
         IN  /\ job # NoJob /\ pc \in {"wait", "after"} /\ fee \in Nat
             /\ wallet'[LegOut] = (wallet[LegOut] - fee) + proceeds'
             /\ \A a \in Assets \ {LegOut} : wallet'[a] <= wallet[a]
  <1> DEFINE gas == call.tx.gas
             msg == call.tx.msgs[1]
             charged == ChargeFee(gas)
  <1>1. /\ block # NoBlock /\ block \in Block /\ call.stage # "none"
        /\ wallet' = block.bal /\ proceeds' = block.paid /\ wallet \in [Assets -> Int]
        /\ block.paid \in Nat /\ block.next \in Nat /\ gas \in Nat
    BY BlockIsOwn DEF CommitTx, Commit, AllInv, Base, TypeOK, ChainTypeOK, Block, Tx
  <1>2. pc \in {"wait", "after"} /\ job # NoJob
    BY <1>1 DEF AllInv, Base, CallOfJob, TypeOK, ExecTypeOK
  <1>3. /\ Len(call.tx.msgs) = 1 /\ msg.in = LegIn /\ msg.out = LegOut
        /\ msg.offer \in Nat
    BY <1>1 DEF Spending, OneMessage, Message
  <1>4. wallet' = Moved(charged, msg, proceeds')
    <2>1. block.next > 1
      BY <1>3 DEF CommitTx
    <2>2. block.next # 1
      BY <1>1, <2>1
    <2> QED BY <1>1, <1>3, <2>2 DEF Spending, HalfDone
  <1>5. LegIn \in Assets /\ LegOut \in Assets /\ LegIn # LegOut
    BY <1>2, LegAssets DEF AllInv, Base
  <1>6. \A a \in Assets : /\ charged[a] = IF a = LUNC THEN wallet[a] - gas ELSE wallet[a]
                          /\ charged[a] \in Int /\ wallet[a] \in Int
    BY <1>1, ChainAssumption DEF ChargeFee
  <1>7. charged \in [Assets -> Int]
    BY <1>1, ChainAssumption DEF ChargeFee
  <1> HIDE DEF charged, msg, gas
  <1>8. \A a \in Assets : wallet'[a] = IF a = LegOut THEN charged[a] + proceeds'
                                       ELSE IF a = LegIn THEN charged[a] - msg.offer
                                       ELSE charged[a]
    BY <1>3, <1>4, <1>5, <1>7 DEF Moved
  <1>9. ASSUME NEW a \in Assets, a # LegOut
        PROVE  wallet'[a] <= wallet[a]
    <2>1. charged[a] <= wallet[a] /\ charged[a] \in Int /\ wallet[a] \in Int
      BY <1>1, <1>6
    <2>2. wallet'[a] = charged[a] - msg.offer \/ wallet'[a] = charged[a]
      BY <1>8, <1>9
    <2> QED BY <1>3, <2>1, <2>2
  <1>10. wallet'[LegOut] = charged[LegOut] + proceeds'
    BY <1>5, <1>8
  <1>11. charged[LegOut] = wallet[LegOut] - (IF LegOut = LUNC THEN gas ELSE 0)
    <2>1. wallet[LegOut] \in Int /\ gas \in Int
      BY <1>1, <1>5
    <2> QED BY <1>5, <1>6, <2>1
  <1> QED BY <1>1, <1>2, <1>9, <1>10, <1>11 DEF gas

LEMMA SpendingCommit ==
  ASSUME AllInv, Spending, World, CommitTx
  PROVE  Spending'
  <1>1. /\ UNCHANGED <<clientVars, mode, pc, job, jobs, leg, current, before>>
        /\ block # NoBlock /\ block' = NoBlock /\ lagging' = wallet
        /\ mempool' \subseteq mempool
        /\ chainSeq' = chainSeq + 1 /\ landed' = landed \cup {block.tx}
        /\ wallet \in [Assets -> Int] /\ before \in [Assets -> Int]
        /\ (quiet' => quiet)
    BY DEF World, CommitTx, Commit, AllInv, Base, TypeOK, ChainTypeOK, ExecTypeOK
  <1>2. /\ ~OwnLanded /\ ~Between /\ ~Between'
        /\ LegOut' = LegOut /\ LegIn' = LegIn
    BY <1>1, BlockBusy DEF Between, LegOut, LegIn
  <1>3. Pending' = {}
    BY <1>1, PendingTags DEF Pending, AllInv, Base, OneSlot
  <1>4. HalfDone' /\ OneMessage' /\ Settled'
    BY <1>1, <1>2, <1>3 DEF Spending, HalfDone, OneMessage, Settled
  <1>5. CASE OwnLanded'
    <2>1. ~mode.atomic /\ ~mode.dry /\ call.stage # "none" /\ block.tx = call.tx
      BY <1>1, <1>2, <1>5 DEF OwnLanded
    <2> DEFINE fee == IF LegOut = LUNC THEN call.tx.gas ELSE 0
    <2>2. /\ job # NoJob /\ pc \in {"wait", "after"} /\ fee \in Nat
          /\ wallet'[LegOut] = (wallet[LegOut] - fee) + proceeds'
          /\ \A a \in Assets \ {LegOut} : wallet'[a] <= wallet[a]
      BY <2>1, OwnLands
    <2>3. pc = "wait"
      BY <1>2, <2>1, <2>2 DEF AllInv, InStep, Confirmed, OwnLanded
    <2>4. wallet' \in [Assets -> Int] /\ proceeds' \in Int
      BY DEF CommitTx, Commit, AllInv, Base, TypeOK, ChainTypeOK, Block
    <2>5. Sunk'
      <3>1. \A a \in Assets \ {LegOut} : lagging'[a] >= wallet'[a]
        BY <1>1, <2>2, <2>4
      <3> QED BY <1>2, <3>1 DEF Sunk
    <2>6. Within'
      <3> SUFFICES ASSUME quiet
                   PROVE  /\ (wallet'[LegOut] - before[LegOut]) + fee <= proceeds'
                          /\ wallet[LegOut] <= before[LegOut]
        BY <1>1, <1>2 DEF Within
      <3>1. before[LegOut] >= wallet[LegOut]
        BY <1>2, <2>1, <2>3 DEF Spending, Measured
      <3>2. wallet[LegOut] \in Int /\ before[LegOut] \in Int /\ wallet'[LegOut] \in Int
        BY <1>1, <2>2, <2>4, LegAssets DEF AllInv, Base
      <3>3. \A w, b, f, p \in Int : b >= w => (((w - f) + p) - b) + f <= p
        OBVIOUS
      <3> HIDE DEF fee
      <3>4. (((wallet[LegOut] - fee) + proceeds') - before[LegOut]) + fee <= proceeds'
        BY <2>2, <2>4, <3>1, <3>2, <3>3
      <3> QED BY <2>2, <3>1, <3>2, <3>4
    <2>7. Measured'
      BY <1>5 DEF Measured
    <2> QED BY <1>4, <2>5, <2>6, <2>7 DEF Spending
  <1>6. CASE ~OwnLanded'
    <2>1. Sunk' /\ Within'
      BY <1>2, <1>6 DEF Sunk, Within
    <2>2. Measured'
      <3> SUFFICES ASSUME quiet', ~mode.atomic, ~mode.dry, pc \in {"send", "wait"}
                   PROVE  before[LegOut] >= wallet'[LegOut]
        BY <1>1, <1>2 DEF Measured
      <3>1. before[LegOut] >= wallet[LegOut]
        BY <1>1, <1>2 DEF Spending, Measured
      <3>2. block.tx # call.tx
        BY <1>1, <1>6, BlockIsOwn DEF OwnLanded
      <3>3. ~OwnTxIncluded
        BY <3>2 DEF OwnTxIncluded, CommitTx
      <3>4. wallet' = wallet
        BY <3>3 DEF World, Disturbs
      <3> QED BY <3>1, <3>4
    <2> QED BY <1>4, <2>1, <2>2 DEF Spending
  <1> QED BY <1>5, <1>6

LEMMA SpendingAlways == Spec => []Spending
  <1>1. AllInv /\ AllInv' /\ Spending /\ [Next]_vars => Spending'
    <2> SUFFICES ASSUME AllInv, AllInv', Spending, [Next]_vars PROVE Spending'
      OBVIOUS
    <2>1. CASE World
      BY <2>1, SpendingBegin, SpendingRun, SpendingEvict, SpendingRevert, SpendingCommit,
         SpendingOutside DEF World, ChainNext
    <2>2. CASE Clock \/ UNCHANGED vars
      <3>1. UNCHANGED <<execVars, chainVars, call>>
        BY <2>2 DEF Clock, Tick
      <3>2. /\ OwnLanded' = OwnLanded /\ Between' = Between /\ Pending' = Pending
            /\ LegIn' = LegIn /\ LegOut' = LegOut
        BY <3>1 DEF OwnLanded, Between, Pending, LegIn, LegOut
      <3>3. OneMessage' /\ HalfDone'
        BY <3>1, <3>2 DEF Spending, OneMessage, HalfDone, ChargeFee, Moved
      <3>4. Settled' /\ Sunk'
        BY <3>1, <3>2 DEF Spending, Settled, Sunk
      <3> QED BY <3>1, <3>2, <3>3, <3>4 DEF Spending, Measured, Within
    <2> QED BY <2>1, <2>2, SpendingTrade, SpendingClient DEF Next
  <1> QED BY <1>1, SpendingInit, AllInvHolds, PTL DEF Spec

-----------------------------------------------------------------------------
(* execute_leg by execute_leg: what a leg offers was paid out by the leg   *)
(* before it, whichever node answered and whatever its transaction met,    *)
(* or is, after a leg into LUNC, no more than the fee.                     *)
THEOREM LegSpendsOnlyProceedsHolds == Spec => LegSpendsOnlyProceeds
  <1>1. ASSUME AllInv, Spending, [Next]_vars, leg' = leg + 1, ~mode.dry, quiet
        PROVE  current' <= proceeds \/ (LegOut = LUNC /\ current' <= call.tx.gas)
    <2>1. leg \in Nat \ {0} /\ leg' # leg /\ leg' # 1
      BY <1>1 DEF AllInv, Base, TypeOK, ExecTypeOK
    <2>2. LegDelivered
      <3>1. Trade
        BY <1>1, <2>1 DEF Next, Client, World, Clock
      <3> QED BY <1>1, <2>1, <3>1
              DEF Trade, StartLoop, NoCandidate, Approve, ReservePasses, ReserveRefuses,
                  CheckPasses, CheckRefuses, MeasureBefore, SplitPlan, KeepPlan, Send,
                  SendDry, SendReturns, SendRaises, AfterAtomic, AfterDry, QueryRaises,
                  Finish, Step
    <2>3. PICK balance \in Readings, fee \in ParsedFees :
            LET received == Received(LegOut, balance, fee) IN
              ~NoProceeds(received) /\ current' = received
      BY <2>1, <2>2 DEF LegDelivered, Finish, NextLeg, OfferNext
    <2>4. OwnLanded /\ job # NoJob
      BY <1>1, <2>2 DEF LegDelivered, AllInv, InStep, Confirmed, OwnLanded, Base, TypeOK,
                  ExecTypeOK
    <2>5. /\ (wallet[LegOut] - before[LegOut]) + (IF LegOut = LUNC THEN call.tx.gas ELSE 0)
                <= proceeds
          /\ lagging[LegOut] <= before[LegOut]
      BY <1>1, <2>4 DEF Spending, Within
    <2>6. /\ LegOut \in Assets /\ wallet[LegOut] \in Int /\ lagging[LegOut] \in Int
          /\ before[LegOut] \in Int /\ call.tx.gas \in Nat /\ proceeds \in Nat
      BY <1>1, <2>4, LegAssets
         DEF AllInv, Base, TypeOK, ChainTypeOK, ClientTypeOK, ExecTypeOK, Tx
    <2>7. current' = (balance[LegOut] - before[LegOut]) + (IF LegOut = LUNC THEN fee ELSE 0)
          /\ current' > 0 /\ fee \in {call.tx.gas, 0} /\ balance \in {wallet, lagging}
      BY <2>3, <2>6 DEF Received, NoProceeds, ParsedFees, Readings
    <2>8. CASE balance = wallet
      BY <2>5, <2>6, <2>7, <2>8
    <2>9. CASE balance = lagging
      <3>1. lagging[LegOut] - before[LegOut] <= 0
        BY <2>5, <2>6
      <3> QED BY <2>6, <2>7, <2>9, <3>1
    <2> QED BY <2>7, <2>8, <2>9
  <1>2. AllInv /\ Spending /\ [Next]_vars =>
          [(leg' = leg + 1 /\ ~mode.dry /\ quiet) =>
             current' <= proceeds \/ (LegOut = LUNC /\ current' <= call.tx.gas)]_vars
    BY <1>1
  <1> QED BY <1>2, SpendingAlways, AllInvHolds, PTL DEF Spec, LegSpendsOnlyProceeds
=============================================================================
