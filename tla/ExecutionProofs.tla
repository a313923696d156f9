-------------------------- MODULE ExecutionProofs --------------------------
(***************************************************************************)
(* Machine-checked proofs about Execution, for every set of assets, cycles *)
(* and amounts, every gain, drift, tolerance and bound.                    *)
(***************************************************************************)
EXTENDS ExecutionProps, FiniteSetTheorems, TLAPS

USE DEF execVars, clientVars, chainVars, vars

-----------------------------------------------------------------------------
(* Facts about the operators the model is built from. *)

(* A balance reading is always a balance sheet. *)
LEMMA ReadingsType ==
  ASSUME ChainTypeOK, NEW balance \in Readings
  PROVE  balance \in [Assets -> Int]
  BY DEF ChainTypeOK, Readings

(* The legs of an approved candidate start and end in assets, and both are *)
(* within its cycle.                                                       *)
LEMMA CycleType ==
  ASSUME NEW c \in Cycles, NEW i \in Legs(c)
  PROVE  /\ c \in Seq(Assets) /\ Len(c) \in Nat
         /\ i \in Nat \ {0}
         /\ c[i] \in Assets /\ c[i + 1] \in Assets
  <1>1. c \in Seq(Assets) /\ Len(c) \in Nat
    BY ExecutionAssumption
  <1>2. i \in 1..Len(c) /\ i + 1 \in 1..Len(c) /\ i \in Nat \ {0}
    BY <1>1 DEF Legs
  <1> QED BY <1>1, <1>2

(* An approved candidate has at least two legs. *)
LEMMA LastType ==
  ASSUME job \in Job
  PROVE  Last \in Nat /\ Last >= 2
  <1>1. job.cycle \in Cycles
    BY DEF Job
  <1>2. Len(job.cycle) \in Nat /\ Len(job.cycle) >= 3
    BY <1>1, ExecutionAssumption
  <1> QED BY <1>2 DEF Last

(* A leg's message is well typed: what it demands is never negative.       *)
LEMMA SwapMsgType ==
  ASSUME job \in Job, NEW i \in 1..Last, NEW offer \in Nat
  PROVE  SwapMsg(i, offer) \in Message
  <1>1. job.cycle \in Cycles /\ job.amount \in Nat
    BY ExecutionAssumption DEF Job
  <1>2. i \in Legs(job.cycle)
    BY DEF Last, Legs
  <1>3. i \in Nat \ {0} /\ job.cycle[i] \in Assets /\ job.cycle[i + 1] \in Assets
    BY <1>1, <1>2, CycleType
  <1>4. Gain \in Nat /\ Tolerance \in Nat
    BY ChainAssumption, ExecutionAssumption
  <1>5. (i - 1) * Gain \in Nat
    <2>1. i - 1 \in Nat
      BY <1>3
    <2> QED BY <2>1, <1>4
  <1>6. PlannedOffer(i) \in Nat
    BY <1>1, <1>5 DEF PlannedOffer
  <1>7. MinPayout(i, offer) \in Nat
    BY <1>4, <1>6 DEF MinPayout
  <1> QED BY <1>3, <1>7 DEF SwapMsg, Message

(* What is handed to sign_and_broadcast is a list of messages. *)
LEMMA MessagesType ==
  ASSUME ExecTypeOK, job \in Job
  PROVE  Messages \in Seq(Message)
  <1>1. job.cycle \in Cycles /\ Last \in Nat /\ job.amount \in Nat
    BY LastType, ExecutionAssumption DEF Job
  <1>2. leg \in 1..Last /\ current \in Nat
    BY NoJobAssumption DEF ExecTypeOK
  <1>3. \A i \in 1..Last : LegOffer(i) \in Nat
    <2> TAKE i \in 1..Last
    <2>1. i - 1 \in Nat /\ Gain \in Nat
      BY ChainAssumption
    <2>2. (i - 1) * Gain \in Nat
      BY <2>1
    <2> QED BY <2>2, <1>1 DEF LegOffer, PlannedOffer
  <1>4. \A i \in 1..Last : SwapMsg(i, LegOffer(i)) \in Message
    BY <1>3, SwapMsgType
  <1>5. SwapMsg(leg, current) \in Message
    BY <1>2, SwapMsgType
  <1>6. [i \in 1..Last |-> SwapMsg(i, LegOffer(i))] \in Seq(Message)
    BY <1>1, <1>4
  <1> QED BY <1>5, <1>6 DEF Messages

-----------------------------------------------------------------------------
(* The type invariant. *)

(* The chain's own steps keep the chain's types. *)
LEMMA ChainTypes ==
  ASSUME ChainTypeOK, ChainNext
  PROVE  ChainTypeOK'
  <1> USE DEF ChainTypeOK
  <1>0. \A gas \in Nat : ChargeFee(gas) \in [Assets -> Int]
    BY ChainAssumption DEF ChargeFee
  <1>1. \A t \in mempool : t \in Tx /\ t.gas \in Nat
    BY DEF Tx
  <1>2. block # NoBlock => /\ block \in Block /\ block.tx \in Tx
                           /\ block.tx.gas \in Nat /\ block.bal \in [Assets -> Int]
                           /\ block.paid \in Nat /\ block.next \in Nat \ {0}
    BY DEF Block, Tx
  <1>3. ASSUME NEW t \in mempool, BeginTx(t)
        PROVE  ChainTypeOK'
    <2>1. [tx |-> t, next |-> 1, paid |-> 0, bal |-> ChargeFee(t.gas)] \in Block
      BY <1>0, <1>1 DEF Block
    <2> QED BY <2>1, <1>3 DEF BeginTx
  <1>4. ASSUME NEW t \in mempool, EvictTx(t)
        PROVE  ChainTypeOK'
    BY <1>4 DEF EvictTx
  <1>5. CASE RunMessage
    <2>1. block \in Block /\ block # NoBlock
      BY <1>2, <1>5 DEF RunMessage
    <2> DEFINE m == block.tx.msgs[block.next]
    <2>2. m \in Message
      <3>1. block.tx \in Tx /\ block.next \in Nat \ {0}
        BY <2>1 DEF Block
      <3>2. block.tx.msgs \in Seq(Message)
        BY <3>1 DEF Tx
      <3>3. block.next \in 1..Len(block.tx.msgs)
        <4>1. block.next <= Len(block.tx.msgs)
          BY <1>5 DEF RunMessage
        <4>2. Len(block.tx.msgs) \in Nat
          BY <3>2
        <4> QED BY <3>1, <4>1, <4>2
      <3> QED BY <3>2, <3>3
    <2>3. m.in \in Assets /\ m.out \in Assets /\ m.offer \in Nat /\ m.min \in Nat
      BY <2>2 DEF Message
    <2>4. PICK drift \in 0..MaxDrift :
            /\ m.offer + Gain - drift >= m.min
            /\ block' = [tx |-> block.tx, next |-> block.next + 1,
                         paid |-> m.offer + Gain - drift,
                         bal |-> [block.bal EXCEPT
                                    ![m.in] = @ - m.offer,
                                    ![m.out] = @ + (m.offer + Gain - drift)]]
      BY <1>5 DEF RunMessage
    <2> DEFINE paid == m.offer + Gain - drift
    <2>5. paid \in Nat
      <3> HIDE DEF m
      <3> QED BY <2>3, <2>4, ChainAssumption
    <2>6. [block.bal EXCEPT ![m.in] = @ - m.offer, ![m.out] = @ + paid]
             \in [Assets -> Int]
      BY <2>3, <2>5, <1>2, <2>1
    <2>7. block' \in Block /\ block'.tx = block.tx
      <3> DEFINE bal == [block.bal EXCEPT ![m.in] = @ - m.offer,
                                          ![m.out] = @ + paid]
      <3>1. block' = [tx |-> block.tx, next |-> block.next + 1, paid |-> paid,
                      bal |-> bal]
        BY <2>4
      <3>2. block.next + 1 \in Nat \ {0}
        BY <2>1 DEF Block
      <3>3. bal \in [Assets -> Int]
        BY <2>6
      <3> HIDE DEF m, paid, bal
      <3> QED BY <2>1, <2>5, <3>1, <3>2, <3>3 DEF Block
    <2>8. block' # NoBlock
      BY <2>7, NoBlockAssumption
    <2> QED BY <2>1, <2>7, <2>8, <1>5 DEF RunMessage
  <1>6. CASE RevertTx
    BY <1>0, <1>2, <1>6 DEF RevertTx, Commit
  <1>7. CASE CommitTx
    BY <1>2, <1>7 DEF CommitTx, Commit
  <1>8. ASSUME NEW a \in Assets, OutsideTx(a)
        PROVE  ChainTypeOK'
    <2>1. [wallet EXCEPT ![a] = @ - 1] \in [Assets -> Int]
      OBVIOUS
    <2> QED BY <2>1, <1>8, ChainAssumption DEF OutsideTx, Commit
  <1> QED BY <1>3, <1>4, <1>5, <1>6, <1>7, <1>8 DEF ChainNext

(* Steps of sign_and_broadcast keep the types of the client and the chain. *)
LEMMA ClientTypes ==
  ASSUME ChainTypeOK, ClientTypeOK, SignAndBroadcast
  PROVE  ChainTypeOK' /\ ClientTypeOK'
  <1> USE DEF ClientTypeOK
  <1>0. call.tx \in Tx /\ call \in [stage : CallStages, tx : Tx]
    OBVIOUS
  <1>a. UNCHANGED chainVars => ChainTypeOK'
    BY DEF ChainTypeOK
  <1>b. Enqueue(call.tx) => ChainTypeOK'
    BY <1>0 DEF ChainTypeOK, Enqueue
  <1>c. \A stage \in CallStages :
           Goto(stage) => call' \in [stage : CallStages, tx : Tx]
    BY DEF Goto
  <1>d. /\ "raised" \in CallStages /\ "broadcast" \in CallStages
        /\ "wait" \in CallStages /\ "refresh" \in CallStages /\ "ok" \in CallStages
    BY DEF CallStages
  <1>1. CASE CreateAndSign
    <2>1. PICK gas \in Fees :
            call' = [stage |-> "broadcast",
                     tx |-> [call.tx EXCEPT !.seq = SignSeq, !.gas = gas]]
      BY <1>1 DEF CreateAndSign
    <2>2. SignSeq \in Nat /\ gas \in Nat
      BY ClientAssumption DEF SignSeq, ChainTypeOK
    <2>3. call' \in [stage : CallStages, tx : Tx]
      BY <1>0, <1>d, <2>1, <2>2 DEF Tx
    <2> QED BY <1>a, <1>1, <2>3 DEF CreateAndSign
  <1>2. CASE SignRaises
    BY <1>a, <1>c, <1>d, <1>2 DEF SignRaises
  <1>3. CASE BroadcastAccepted
    BY <1>b, <1>c, <1>d, <1>3 DEF BroadcastAccepted
  <1>4. CASE BroadcastRejected
    BY <1>a, <1>c, <1>d, <1>4 DEF BroadcastRejected
  <1>5. CASE BroadcastConnectionLost
    BY <1>a, <1>b, <1>c, <1>d, <1>5 DEF BroadcastConnectionLost, LostAnswerStage
  <1>6. CASE ConfirmSuccess
    BY <1>a, <1>c, <1>d, <1>6 DEF ConfirmSuccess
  <1>7. CASE ConfirmFailure
    BY <1>a, <1>c, <1>d, <1>7 DEF ConfirmFailure
  <1>8. CASE GiveUpWaiting
    BY <1>a, <1>c, <1>d, <1>8 DEF GiveUpWaiting, NotFoundStage
  <1>9. CASE RefreshAccount
    <2>1. cachedSeq' \in Nat \cup {NoSeq} /\ cacheAge' \in 0..CacheTTL
      BY <1>9, ClientAssumption
         DEF RefreshAccount, FetchAccount, SeqReadings, KeepAccount, ChainTypeOK
    <2> QED BY <1>a, <1>c, <1>d, <1>9, <2>1 DEF RefreshAccount
  <1> QED BY <1>1, <1>2, <1>3, <1>4, <1>5, <1>6, <1>7, <1>8, <1>9
          DEF SignAndBroadcast

(* Ending an execution restores the trading thread's idle state. *)
LEMMA FinishTypes ==
  ASSUME TypeOK, NEW outcome \in Outcomes, Finish(outcome)
  PROVE  TypeOK'
  <1>1. ChainTypeOK'
    BY DEF TypeOK, ChainTypeOK, Finish
  <1>2. NoCall \in [stage : CallStages, tx : Tx]
    BY DEF NoCall, NoTx, CallStages, Tx, Tag
  <1>3. ClientTypeOK'
    BY <1>2 DEF TypeOK, ClientTypeOK, Finish
  <1>4. [a \in Assets |-> 0] \in [Assets -> Int]
    OBVIOUS
  <1>5. [outcome |-> outcome, job |-> jobs] \in [outcome : Outcomes, job : Nat]
    BY ExecutionAssumption DEF TypeOK, ExecTypeOK
  <1>6. ExecTypeOK'
    BY <1>4, <1>5 DEF TypeOK, ExecTypeOK, Finish, Places
  <1> QED BY <1>1, <1>3, <1>6 DEF TypeOK

(* Advancing to the next leg stays within the cycle. *)
LEMMA NextLegTypes ==
  ASSUME TypeOK, NEW offer \in Nat, NextLeg(offer), job # NoJob, leg < Last
  PROVE  TypeOK'
  <1>1. ChainTypeOK'
    BY DEF TypeOK, ChainTypeOK, NextLeg
  <1>2. NoCall \in [stage : CallStages, tx : Tx]
    BY DEF NoCall, NoTx, CallStages, Tx, Tag
  <1>3. ClientTypeOK'
    BY <1>2 DEF TypeOK, ClientTypeOK, NextLeg
  <1>4. job \in Job /\ leg \in 1..Last
    BY DEF TypeOK, ExecTypeOK
  <1>5. Last \in Nat
    BY <1>4, LastType
  <1>6. leg + 1 \in 1..Last /\ leg + 1 \in Nat \ {0} /\ Last' = Last
    BY <1>4, <1>5 DEF NextLeg, Last
  <1>7. ExecTypeOK'
    BY <1>4, <1>6 DEF TypeOK, ExecTypeOK, NextLeg, Places
  <1> QED BY <1>1, <1>3, <1>7 DEF TypeOK

(* The balance arithmetic of the proceeds stays within the integers. *)
LEMMA ReceivedType ==
  ASSUME TypeOK, NEW balance \in Readings, NEW fee \in ParsedFees,
         NEW asset \in Assets
  PROVE  Received(asset, balance, fee) \in Int
  <1>1. balance[asset] \in Int /\ before[asset] \in Int
    BY ReadingsType DEF TypeOK, ExecTypeOK
  <1>2. fee \in Int
    BY DEF TypeOK, ClientTypeOK, ParsedFees, Tx
  <1> QED BY <1>1, <1>2 DEF Received

LEMMA TypeInit == Init => TypeOK
  <1> SUFFICES ASSUME Init PROVE TypeOK
    OBVIOUS
  <1>1. wallet \in [Assets -> Int]
    BY ExecutionAssumption DEF Init
  <1>2. ChainTypeOK
    BY <1>1, ChainAssumption DEF Init, ChainTypeOK
  <1>3. NoCall \in [stage : CallStages, tx : Tx]
    BY DEF NoCall, NoTx, CallStages, Tx, Tag
  <1>4. ClientTypeOK
    BY <1>3, ClientAssumption DEF Init, ClientTypeOK
  <1>5. [a \in Assets |-> 0] \in [Assets -> Int]
    OBVIOUS
  <1>6. ExecTypeOK
    BY <1>5, ExecutionAssumption DEF Init, ExecTypeOK, Places, Outcomes
  <1> QED BY <1>2, <1>4, <1>6 DEF TypeOK

(* Every step of the trading thread keeps the types. *)
LEMMA TradeTypes ==
  ASSUME TypeOK, Trade
  PROVE  TypeOK'
  <1> USE DEF TypeOK
  <1>a. UNCHANGED chainVars => ChainTypeOK'
    BY DEF ChainTypeOK
  <1>b. UNCHANGED clientVars => ClientTypeOK'
    BY DEF ClientTypeOK
  <1>c. ASSUME NEW place \in Places, Step(place),
               before' \in [Assets -> Int], quiet' \in BOOLEAN,
               (place \in {"idle", "loop"}) <=> (pc \in {"idle", "loop"})
        PROVE  ExecTypeOK'
    BY <1>c DEF ExecTypeOK, Step, Last
  <1>d. before \in [Assets -> Int] /\ quiet \in BOOLEAN
    BY DEF ExecTypeOK
  <1>e. /\ {"idle", "loop", "reserve", "before", "plan", "check", "send",
         "wait", "after"} = Places
        /\ {"none", "dry", "refused", "failed", "raised", "noproceeds",
            "complete", "underperformed"} = Outcomes
    BY DEF Places, Outcomes
  <1>1. CASE StartLoop
    <2>1. ClientTypeOK'
      BY <1>1, ClientAssumption
         DEF StartLoop, GetAccount, CacheFresh, CacheHit, FetchAccount,
             SeqReadings, KeepAccount, ClientTypeOK, ChainTypeOK
    <2>2. ExecTypeOK'
      BY <1>c, <1>d, <1>e, <1>1 DEF StartLoop
    <2> QED BY <1>a, <1>1, <2>1, <2>2 DEF StartLoop
  <1>2. CASE NoCandidate
    BY <1>a, <1>b, <1>c, <1>d, <1>e, <1>2 DEF NoCandidate
  <1>3. ASSUME NEW c \in Cycles, NEW amount \in Amounts, NEW gas \in Fees,
               Approve(c, amount, gas)
        PROVE  TypeOK'
    <2>1. [cycle |-> c, amount |-> amount, gas |-> gas] \in Job
      BY DEF Job
    <2>2. Len(c) \in Nat /\ Len(c) >= 3
      BY ExecutionAssumption
    <2>3. job' \in Job /\ job' # NoJob /\ leg' \in 1..Last'
      BY <2>1, <2>2, <1>3, NoJobAssumption DEF Approve, Last
    <2>4. current' \in Nat
      BY <1>3, ExecutionAssumption DEF Approve
    <2>5. jobs' \in 0..MaxJobs
      BY <1>3, ExecutionAssumption DEF Approve, ExecTypeOK
    <2>6. ExecTypeOK'
      BY <1>3, <2>3, <2>4, <2>5, <1>e DEF Approve, ExecTypeOK
    <2> QED BY <1>a, <1>b, <1>3, <2>6 DEF Approve
  <1>4. CASE ReservePasses
    BY <1>a, <1>b, <1>c, <1>d, <1>e, <1>4 DEF ReservePasses
  <1>5. CASE ReserveRefuses
    BY <1>e, <1>5, FinishTypes DEF ReserveRefuses
  <1>6. CASE CheckPasses
    BY <1>a, <1>b, <1>c, <1>d, <1>e, <1>6 DEF CheckPasses
  <1>7. CASE CheckRefuses
    BY <1>e, <1>7, FinishTypes DEF CheckRefuses
  <1>8. CASE MeasureBefore
    <2>1. before' \in [Assets -> Int]
      BY <1>d, <1>8, ReadingsType DEF MeasureBefore, ChainTypeOK
    <2>2. quiet' \in BOOLEAN
      BY <1>d, <1>8 DEF MeasureBefore
    <2> QED BY <1>a, <1>b, <1>c, <1>e, <1>8, <2>1, <2>2 DEF MeasureBefore
  <1>9. CASE Send
    <2>1. job \in Job
      BY <1>9 DEF Send, ExecTypeOK
    <2>2. Messages \in Seq(Message)
      BY <2>1, MessagesType
    <2>3. CallTag \in Tag
      BY ExecutionAssumption DEF ExecTypeOK, CallTag, Tag
    <2>4. [NoTx EXCEPT !.msgs = Messages, !.tag = CallTag] \in Tx
      BY <2>2, <2>3 DEF NoTx, Tx
    <2>5. ClientTypeOK'
      BY <2>4, <1>9 DEF Send, StartCall, ClientTypeOK, CallStages
    <2> QED BY <1>a, <1>c, <1>d, <1>e, <1>9, <2>5 DEF Send
  <1>10. CASE SendDry
    BY <1>a, <1>b, <1>c, <1>d, <1>e, <1>10 DEF SendDry
  <1>11. CASE SendReturns
    BY <1>a, <1>b, <1>c, <1>d, <1>e, <1>11 DEF SendReturns
  <1>12. CASE SendRaises
    BY <1>e, <1>12, FinishTypes DEF SendRaises
  <1>13. CASE AfterAtomic
    BY <1>e, <1>13, FinishTypes DEF AfterAtomic
  <1>14. CASE LegDelivered
    <2>1. job \in Job /\ job # NoJob /\ leg \in 1..Last
      BY <1>14 DEF LegDelivered, ExecTypeOK
    <2>2. LegOut \in Assets
      BY <2>1, CycleType DEF LegOut, Job, Last, Legs
    <2>3. PICK balance \in Readings, fee \in ParsedFees :
            LET received == Received(LegOut, balance, fee) IN
              IF NoProceeds(received) THEN Finish("noproceeds")
              ELSE IF leg < Last THEN NextLeg(OfferNext(received))
              ELSE Finish("complete")
      BY <1>14 DEF LegDelivered
    <2> DEFINE received == Received(LegOut, balance, fee)
    <2>4. received \in Int
      BY <2>2, ReceivedType
    <2>5. CASE NoProceeds(received)
      BY <2>3, <2>5, <1>e, FinishTypes
    <2>6. CASE ~NoProceeds(received) /\ leg < Last
      <3>1. OfferNext(received) \in Nat
        BY <2>4, <2>6 DEF NoProceeds, OfferNext
      <3> QED BY <2>1, <2>3, <2>6, <3>1, NextLegTypes
    <2>7. CASE ~NoProceeds(received) /\ ~(leg < Last)
      BY <2>3, <2>7, <1>e, FinishTypes
    <2> QED BY <2>5, <2>6, <2>7
  <1>15. CASE AfterDry
    <2>1. job \in Job /\ job # NoJob /\ leg \in 1..Last
      BY <1>15 DEF AfterDry, ExecTypeOK
    <2>2. CASE mode.atomic \/ leg = Last
      BY <1>15, <2>2, <1>e, FinishTypes DEF AfterDry
    <2>3. CASE ~(mode.atomic \/ leg = Last)
      <3>1. leg < Last
        BY <2>1, <2>3, LastType
      <3>2. job.amount \in Nat /\ leg \in Nat /\ Gain \in Nat
        <4>1. job.amount \in Amounts
          BY <2>1 DEF Job
        <4>2. leg \in Nat
          BY <2>1, LastType
        <4> QED BY <4>1, <4>2, ExecutionAssumption, ChainAssumption
      <3>3. PlannedOffer(leg + 1) \in Nat
        BY <3>2 DEF PlannedOffer
      <3> QED BY <1>15, <2>1, <2>3, <3>1, <3>3, NextLegTypes DEF AfterDry
    <2> QED BY <2>2, <2>3
  <1>16. CASE QueryRaises
    BY <1>e, <1>16, FinishTypes DEF QueryRaises
  <1>17. ASSUME NEW gas \in Fees, SplitPlan(gas)
         PROVE  TypeOK'
    <2>1. job \in Job
      BY <1>17 DEF SplitPlan, ExecTypeOK
    <2>2. job' \in Job /\ Last' = Last
      BY <2>1, <1>17 DEF SplitPlan, Job, Last
    <2>3. ExecTypeOK'
      BY <1>17, <2>1, <2>2, <1>e, NoJobAssumption DEF SplitPlan, ExecTypeOK
    <2> QED BY <1>a, <1>b, <1>17, <2>3 DEF SplitPlan
  <1>18. CASE KeepPlan
    BY <1>a, <1>b, <1>c, <1>d, <1>e, <1>18 DEF KeepPlan
  <1> QED BY <1>1, <1>2, <1>3, <1>4, <1>5, <1>6, <1>7, <1>8, <1>9, <1>10, <1>11,
             <1>12, <1>13, <1>14, <1>15, <1>16, <1>17, <1>18 DEF Trade

LEMMA TypeStep == TypeOK /\ [Next]_vars => TypeOK'
  <1> SUFFICES ASSUME TypeOK, [Next]_vars PROVE TypeOK'
    OBVIOUS
  <1>1. CASE Trade
    BY <1>1, TradeTypes
  <1>2. UNCHANGED execVars => ExecTypeOK'
    BY DEF TypeOK, ExecTypeOK, Last
  <1>3. CASE Client
    BY <1>2, <1>3, ClientTypes DEF Client, TypeOK
  <1>4. CASE World
    <2>1. ChainTypeOK'
      BY <1>4, ChainTypes DEF World, TypeOK
    <2>2. ClientTypeOK'
      BY <1>4 DEF World, TypeOK, ClientTypeOK
    <2>3. quiet' \in BOOLEAN
      BY <1>4 DEF World
    <2>4. ExecTypeOK'
      BY <1>4, <2>3 DEF World, TypeOK, ExecTypeOK, Last
    <2> QED BY <2>1, <2>2, <2>4 DEF TypeOK
  <1>5. CASE Clock
    <2>1. cacheAge' \in 0..CacheTTL
      BY <1>5, ClientAssumption DEF Clock, Tick, TypeOK, ClientTypeOK
    <2> QED BY <1>2, <1>5, <2>1
            DEF Clock, Tick, TypeOK, ChainTypeOK, ClientTypeOK
  <1>6. CASE UNCHANGED vars
    BY <1>2, <1>6 DEF TypeOK, ChainTypeOK, ClientTypeOK
  <1> QED BY <1>1, <1>3, <1>4, <1>5, <1>6 DEF Next

(* Every reachable state is well typed; above all, whatever the nodes      *)
(* answered and the parser found, the offer handed to the next leg is a    *)
(* natural number and the leg is one of the cycle (the received <= 0 test  *)
(* of _execute_winning_cycle).                                             *)
THEOREM TypeCorrect == Spec => []TypeOK
  BY TypeInit, TypeStep, PTL DEF Spec

-----------------------------------------------------------------------------
(* One transaction in flight. *)

(* The trading thread touches neither the chain nor a signed transaction:  *)
(* it starts a call, forgets one, or leaves it alone.                      *)
LEMMA TradeLeavesChain ==
  ASSUME Trade
  PROVE  /\ UNCHANGED chainVars
         /\ \/ UNCHANGED call
            \/ call' = NoCall
            \/ Send
  BY DEF Trade, StartLoop, NoCandidate, Approve, ReservePasses, ReserveRefuses,
         CheckPasses, CheckRefuses, MeasureBefore, SplitPlan, KeepPlan, SendDry,
         SendReturns, SendRaises, AfterAtomic, LegDelivered, AfterDry, QueryRaises, Finish,
         NextLeg, Send

(* What a step of sign_and_broadcast does to the mempool and to the call.  *)
LEMMA ClientSteps ==
  ASSUME SignAndBroadcast
  PROVE  \/ CreateAndSign
         \/ /\ UNCHANGED chainVars
            /\ \E stage \in {"raised", "refresh", "ok"} : Goto(stage)
            /\ call.stage \notin {"none", "ok"}
         \/ /\ call.stage = "broadcast"
            /\ CheckTxAdmits(call.tx)
            /\ Enqueue(call.tx)
            /\ \E stage \in {"wait", "raised"} : Goto(stage)
  BY DEF SignAndBroadcast, SignRaises, BroadcastAccepted, BroadcastRejected,
         BroadcastConnectionLost, ConfirmSuccess, ConfirmFailure, GiveUpWaiting,
         RefreshAccount, LostAnswerStage, NotFoundStage

(* The chain only ever forgets or includes what it was given.              *)
LEMMA ChainSteps ==
  ASSUME ChainTypeOK, ChainNext
  PROVE  /\ mempool' \subseteq mempool
         /\ Known' \subseteq Known
         /\ chainSeq' \in {chainSeq, chainSeq + 1}
         /\ wallet' # wallet =>
              \/ landed' \cup reverted' = landed \cup reverted
              \/ landed' \cup reverted' = landed \cup reverted \cup {block.tx}
                 /\ block.tx \in mempool
  <1>1. ASSUME NEW t \in mempool, BeginTx(t) \/ EvictTx(t)
        PROVE  /\ mempool' \subseteq mempool
               /\ UNCHANGED <<chainSeq, landed, reverted, wallet>>
    BY <1>1 DEF BeginTx, EvictTx
  <1>2. ASSUME RunMessage
        PROVE  UNCHANGED <<mempool, chainSeq, landed, reverted, wallet>>
    BY <1>2 DEF RunMessage
  <1>3. ASSUME RevertTx \/ CommitTx
        PROVE  /\ mempool' \subseteq mempool /\ block.tx \in mempool
               /\ chainSeq' = chainSeq + 1
               /\ landed' \cup reverted' = landed \cup reverted \cup {block.tx}
    BY <1>3 DEF RevertTx, CommitTx, Commit, ChainTypeOK
  <1>4. ASSUME NEW a \in Assets, OutsideTx(a)
        PROVE  UNCHANGED <<mempool, landed, reverted>> /\ chainSeq' = chainSeq + 1
    BY <1>4 DEF OutsideTx, Commit
  <1> QED BY <1>1, <1>2, <1>3, <1>4 DEF ChainNext, Known

(* Signing fills in the sequence and the fee and nothing else.             *)
LEMMA SignedTx ==
  ASSUME ClientTypeOK, CreateAndSign
  PROVE  /\ UNCHANGED chainVars
         /\ call.stage = "sign" /\ call'.stage = "broadcast"
         /\ call'.tx.seq = chainSeq
         /\ call'.tx.tag = call.tx.tag
  <1>1. PICK gas \in Fees :
          call' = [stage |-> "broadcast",
                   tx |-> [call.tx EXCEPT !.seq = SignSeq, !.gas = gas]]
    BY DEF CreateAndSign
  <1>2. call.tx \in Tx
    BY DEF ClientTypeOK
  <1>3. call'.stage = "broadcast"
    BY <1>1
  <1>4. call'.tx = [call.tx EXCEPT !.seq = SignSeq, !.gas = gas]
    BY <1>1
  <1>5. call'.tx.seq = SignSeq /\ call'.tx.tag = call.tx.tag
    BY <1>2, <1>4 DEF Tx
  <1> QED BY <1>3, <1>5 DEF CreateAndSign, SignSeq

LEMMA OneSlotInit == Init => OneSlot
  BY FS_EmptySet DEF Init, OneSlot, OneTxInFlight, Pending, NoCall

LEMMA OneSlotStep == TypeOK /\ OneSlot /\ [Next]_vars => OneSlot'
  <1> SUFFICES ASSUME TypeOK, OneSlot, [Next]_vars PROVE OneSlot'
    OBVIOUS
  <1>0. /\ chainSeq \in Nat /\ mempool \subseteq Tx
        /\ \A t \in Tx : t.seq \in Nat
        /\ call.tx \in Tx /\ call \in [stage : CallStages, tx : Tx]
    BY DEF TypeOK, ChainTypeOK, ClientTypeOK, Tx
  <1>a. UNCHANGED chainVars /\ (call'.stage = "broadcast" => call'.tx.seq <= chainSeq)
           => OneSlot'
    BY DEF OneSlot, OneTxInFlight, Pending
  <1>1. CASE Trade
    <2>1. Send => call'.stage = "sign"
      BY DEF Send, StartCall
    <2> QED BY <1>a, <1>1, <2>1, TradeLeavesChain DEF NoCall, OneSlot
  <1>2. CASE Client
    <2>1. CASE CreateAndSign
      BY <1>0, <1>a, <2>1, SignedTx DEF TypeOK
    <2>2. CASE UNCHANGED chainVars /\ \E stage \in {"raised", "refresh", "ok"} :
                                         Goto(stage)
      BY <1>0, <1>a, <2>2 DEF Goto
    <2>3. CASE /\ call.stage = "broadcast"
               /\ CheckTxAdmits(call.tx)
               /\ Enqueue(call.tx)
               /\ \E stage \in {"wait", "raised"} : Goto(stage)
      <3>1. IsFiniteSet(Pending)
        BY FS_Subset DEF Pending, OneSlot
      <3>2. call.tx.seq = chainSeq + Cardinality(Pending) /\ call.tx.seq <= chainSeq
        BY <2>3 DEF CheckTxAdmits, CheckSeq, OneSlot
      <3>3. Cardinality(Pending) = 0
        BY <1>0, <3>1, <3>2, FS_CardinalityType
      <3>4. Pending = {} /\ call.tx.seq = chainSeq
        BY <1>0, <3>1, <3>2, <3>3, FS_EmptySet
      <3>5. mempool' = mempool \cup {call.tx} /\ chainSeq' = chainSeq
        BY <2>3 DEF Enqueue
      <3>6. IsFiniteSet(mempool')
        BY <3>5, FS_AddElement DEF OneSlot
      <3>7. Pending' = {call.tx}
        BY <1>0, <3>4, <3>5 DEF Pending
      <3>8. call'.stage # "broadcast"
        BY <1>0, <2>3 DEF Goto
      <3> QED BY <1>0, <3>4, <3>5, <3>6, <3>7, <3>8 DEF OneSlot, OneTxInFlight
    <2> QED BY <1>2, <2>1, <2>2, <2>3, ClientSteps DEF Client
  <1>3. CASE World
    <2>1. /\ mempool' \subseteq mempool /\ chainSeq' \in {chainSeq, chainSeq + 1}
          /\ UNCHANGED call
      BY <1>3, ChainSteps DEF World, TypeOK
    <2>2. IsFiniteSet(mempool')
      BY <2>1, FS_Subset DEF OneSlot
    <2>3. \A t \in mempool' : t.seq <= chainSeq' /\ t.seq \in Nat
      BY <1>0, <2>1 DEF OneSlot
    <2>4. Pending' \subseteq Pending
      BY <1>0, <2>1, <2>3 DEF Pending
    <2> QED BY <1>0, <2>1, <2>2, <2>3, <2>4 DEF OneSlot, OneTxInFlight
  <1>4. CASE Clock \/ UNCHANGED vars
    BY <1>a, <1>4 DEF Clock, Tick, OneSlot
  <1> QED BY <1>1, <1>2, <1>3, <1>4 DEF Next

(* The wallet never has two live transactions in the mempool: whatever the *)
(* fate of an earlier broadcast, sign_and_broadcast signs the next one     *)
(* with the committed sequence and CheckTx refuses it until the slot is    *)
(* free.                                                                   *)
THEOREM OneTxInFlightHolds == Spec => []OneTxInFlight
  <1>1. OneSlot => OneTxInFlight
    BY DEF OneSlot
  <1> QED BY <1>1, TypeInit, TypeStep, OneSlotInit, OneSlotStep, PTL DEF Spec

-----------------------------------------------------------------------------
(* No double send. *)

LEMMA CallOfJobInit == Init => CallOfJob
  BY DEF Init, CallOfJob, NoCall

LEMMA CallOfJobStep == TypeOK /\ CallOfJob /\ [Next]_vars => CallOfJob'
  <1> SUFFICES ASSUME TypeOK, CallOfJob, [Next]_vars PROVE CallOfJob'
    OBVIOUS
  <1>0. /\ call \in [stage : CallStages, tx : Tx] /\ mode.atomic \in BOOLEAN
        /\ NoCall.stage = "none"
    BY DEF TypeOK, ClientTypeOK, ExecTypeOK, NoCall
  <1>a. UNCHANGED <<mode, jobs, leg>> => CallTag' = CallTag
    BY DEF CallTag
  <1>b. ASSUME NEW outcome, Finish(outcome)
        PROVE  CallOfJob'
    BY <1>0, <1>b DEF Finish, CallOfJob
  <1>c. ASSUME NEW offer, NextLeg(offer), ~mode.atomic, pc = "after"
        PROVE  CallOfJob'
    BY <1>0, <1>c DEF NextLeg, CallOfJob
  <1>d. ASSUME NEW place, Step(place), UNCHANGED call,
               call.stage # "none" => place \in {"wait", "after"},
               call.stage \notin {"none", "ok"} => place = "wait",
               place \in {"idle", "loop"} \/ pc \notin {"idle", "loop"}
        PROVE  CallOfJob'
    BY <1>a, <1>d DEF Step, CallOfJob
  <1>1. CASE Trade
    <2>1. CASE StartLoop
      BY <1>d, <2>1 DEF StartLoop, CallOfJob
    <2>2. CASE NoCandidate
      BY <1>d, <2>2 DEF NoCandidate, CallOfJob
    <2>3. ASSUME NEW c \in Cycles, NEW amount \in Amounts, NEW gas \in Fees,
                 Approve(c, amount, gas)
          PROVE  CallOfJob'
      BY <1>0, <2>3, ExecutionAssumption DEF Approve, CallOfJob, TypeOK, ExecTypeOK
    <2>4. CASE ReservePasses
      BY <1>d, <2>4 DEF ReservePasses, CallOfJob
    <2>5. CASE ReserveRefuses
      BY <1>b, <2>5 DEF ReserveRefuses
    <2>6. CASE CheckPasses
      BY <1>d, <2>6 DEF CheckPasses, CallOfJob
    <2>7. CASE CheckRefuses
      BY <1>b, <2>7 DEF CheckRefuses
    <2>8. CASE MeasureBefore
      BY <1>d, <2>8 DEF MeasureBefore, CallOfJob
    <2>9. CASE Send
      <3>1. call'.stage = "sign" /\ call'.tx.tag = CallTag /\ pc' = "wait"
        BY <2>9 DEF Send, StartCall, Step, NoTx
      <3>2. UNCHANGED <<mode, jobs, leg>>
        BY <2>9 DEF Send, Step
      <3> QED BY <1>a, <2>9, <3>1, <3>2 DEF Send, CallOfJob
    <2>10. CASE SendDry
      BY <1>d, <2>10 DEF SendDry, CallOfJob
    <2>11. CASE SendReturns
      BY <1>d, <2>11 DEF SendReturns, CallOfJob
    <2>12. CASE SendRaises
      BY <1>b, <2>12 DEF SendRaises
    <2>13. CASE AfterAtomic
      BY <1>b, <2>13 DEF AfterAtomic
    <2>14. CASE LegDelivered
      BY <1>b, <1>c, <2>14 DEF LegDelivered
    <2>15. CASE AfterDry
      BY <1>b, <1>c, <2>15 DEF AfterDry
    <2>16. CASE QueryRaises
      BY <1>b, <2>16 DEF QueryRaises
    <2>17. ASSUME NEW gas \in Fees, SplitPlan(gas)
           PROVE  CallOfJob'
      BY <1>a, <2>17 DEF SplitPlan, CallOfJob
    <2>18. CASE KeepPlan
      BY <1>d, <2>18 DEF KeepPlan, CallOfJob
    <2> QED BY <1>1, <2>1, <2>2, <2>3, <2>4, <2>5, <2>6, <2>7, <2>8, <2>9, <2>10,
               <2>11, <2>12, <2>13, <2>14, <2>15, <2>16, <2>17, <2>18 DEF Trade
  <1>2. CASE Client
    <2>1. UNCHANGED <<mode, jobs, leg, pc>> /\ CallTag' = CallTag
      BY <1>a, <1>2 DEF Client
    <2>2. CASE CreateAndSign
      BY <2>1, <2>2, SignedTx DEF TypeOK, CallOfJob
    <2>3. CASE call.stage \notin {"none", "ok"} /\
               \E stage \in {"raised", "refresh", "ok", "wait"} : Goto(stage)
      <3>1. PICK stage \in {"raised", "refresh", "ok", "wait"} : Goto(stage)
        BY <2>3
      <3>2. call'.stage = stage /\ call'.tx = call.tx
        BY <1>0, <3>1 DEF Goto
      <3> QED BY <2>1, <2>3, <3>2 DEF CallOfJob
    <2> QED BY <1>2, <2>2, <2>3, ClientSteps DEF Client
  <1>3. CASE World \/ Clock \/ UNCHANGED vars
    BY <1>3 DEF World, Clock, Tick, CallOfJob, CallTag
  <1> QED BY <1>1, <1>2, <1>3 DEF Next

LEMMA FreshTagInit == Init => FreshTag
  BY DEF Init, FreshTag, Known, NoCall

(* With the mempool and the inclusions as they were, freshness only        *)
(* depends on where the trading thread goes.                               *)
LEMMA FreshTagTrade ==
  ASSUME TypeOK, CallOfJob, FreshTag, Trade
  PROVE  FreshTag'
  <1>0. /\ Known' = Known /\ Known \subseteq Tx
        /\ \A t \in Tx : t.tag.job \in Nat /\ t.tag.leg \in Nat
        /\ jobs \in Nat /\ leg \in Nat \ {0} /\ NoCall.stage = "none"
    BY TradeLeavesChain, ExecutionAssumption
       DEF TypeOK, ChainTypeOK, ExecTypeOK, Known, Tx, Tag, NoCall
  <1>a. UNCHANGED <<mode, jobs, leg>> => CallTag' = CallTag
    BY DEF CallTag
  <1>b. ASSUME NEW outcome, Finish(outcome)
        PROVE  FreshTag'
    BY <1>0, <1>b DEF Finish, FreshTag
  <1>c. ASSUME NEW offer, NextLeg(offer), ~mode.atomic, pc = "after"
        PROVE  FreshTag'
    <2>1. CallTag.leg = leg
      BY <1>c DEF CallTag
    <2>2. \A t \in Known : t.tag.job = jobs => t.tag.leg < leg + 1
      BY <1>0, <1>c, <2>1 DEF FreshTag
    <2> QED BY <1>0, <1>c, <2>2 DEF NextLeg, FreshTag
  <1>d. ASSUME NEW place, Step(place), UNCHANGED call,
               place \in {"idle", "loop"}
               \/ place = pc
               \/ {place, pc} \subseteq {"reserve", "before", "plan", "check", "send"}
               \/ {place, pc} \subseteq {"wait", "after"}
        PROVE  FreshTag'
    BY <1>0, <1>a, <1>d DEF Step, FreshTag
  <1>e. pc = "send" => \A t \in Known : t.tag.job = jobs => t.tag.leg < CallTag.leg
    BY <1>0 DEF FreshTag, CallTag
  <1>1. CASE StartLoop
    BY <1>d, <1>1 DEF StartLoop
  <1>2. CASE NoCandidate
    BY <1>d, <1>2 DEF NoCandidate
  <1>3. ASSUME NEW c \in Cycles, NEW amount \in Amounts, NEW gas \in Fees,
               Approve(c, amount, gas)
        PROVE  FreshTag'
    <2>1. jobs' = jobs + 1 /\ pc' = "reserve" /\ UNCHANGED call /\ pc = "loop"
      BY <1>3 DEF Approve
    <2>2. \A t \in Known : t.tag.job \in 1..jobs' /\ t.tag.job # jobs'
      BY <1>0, <2>1 DEF FreshTag
    <2> QED BY <1>0, <2>1, <2>2 DEF FreshTag
  <1>4. CASE ReservePasses
    BY <1>d, <1>4 DEF ReservePasses
  <1>5. CASE ReserveRefuses
    BY <1>b, <1>5 DEF ReserveRefuses
  <1>6. CASE CheckPasses
    BY <1>d, <1>6 DEF CheckPasses
  <1>7. CASE CheckRefuses
    BY <1>b, <1>7 DEF CheckRefuses
  <1>8. CASE MeasureBefore
    BY <1>d, <1>8 DEF MeasureBefore
  <1>9. CASE Send
    <2>1. /\ call'.tx.tag = CallTag /\ pc' = "wait" /\ pc = "send"
          /\ UNCHANGED <<mode, jobs, leg>>
      BY <1>9 DEF Send, StartCall, Step, NoTx
    <2>2. CallTag.job = jobs /\ CallTag.leg \in Nat
      BY <1>0 DEF CallTag
    <2>3. \A t \in Known : t.tag # CallTag
      BY <1>0, <1>e, <2>1, <2>2
    <2>4. \A t \in Known : t.tag.job = jobs => t.tag.leg <= CallTag.leg
      BY <1>0, <1>e, <2>1, <2>2
    <2> QED BY <1>0, <1>a, <2>1, <2>3, <2>4 DEF FreshTag
  <1>10. CASE SendDry
    <2>1. \A t \in Known : t.tag.job = jobs => t.tag.leg <= CallTag.leg
      BY <1>0, <1>e, <1>10 DEF SendDry, CallTag
    <2> QED BY <1>0, <1>a, <1>10, <2>1 DEF SendDry, Step, FreshTag
  <1>11. CASE SendReturns
    BY <1>d, <1>11 DEF SendReturns
  <1>12. CASE SendRaises
    BY <1>b, <1>12 DEF SendRaises
  <1>13. CASE AfterAtomic
    BY <1>b, <1>13 DEF AfterAtomic
  <1>14. CASE LegDelivered
    BY <1>b, <1>c, <1>14 DEF LegDelivered
  <1>15. CASE AfterDry
    BY <1>b, <1>c, <1>15 DEF AfterDry
  <1>16. CASE QueryRaises
    BY <1>b, <1>16 DEF QueryRaises
  <1>17. ASSUME NEW gas \in Fees, SplitPlan(gas)
         PROVE  FreshTag'
    BY <1>0, <1>a, <1>17 DEF SplitPlan, FreshTag
  <1>18. CASE KeepPlan
    BY <1>d, <1>18 DEF KeepPlan
  <1> QED BY <1>1, <1>2, <1>3, <1>4, <1>5, <1>6, <1>7, <1>8, <1>9, <1>10, <1>11,
             <1>12, <1>13, <1>14, <1>15, <1>16, <1>17, <1>18 DEF Trade

LEMMA FreshTagStep == TypeOK /\ CallOfJob /\ FreshTag /\ [Next]_vars => FreshTag'
  <1> SUFFICES ASSUME TypeOK, CallOfJob, FreshTag, [Next]_vars PROVE FreshTag'
    OBVIOUS
  <1>0. /\ call \in [stage : CallStages, tx : Tx] /\ call.tx \in Tx
        /\ jobs \in Nat /\ leg \in Nat \ {0}
        /\ CallTag.job = jobs /\ CallTag.leg \in Nat
    BY ExecutionAssumption DEF TypeOK, ClientTypeOK, ExecTypeOK, CallTag
  <1>1. CASE Trade
    BY <1>1, FreshTagTrade
  <1>2. CASE Client
    <2>1. UNCHANGED <<mode, jobs, leg, pc>> /\ CallTag' = CallTag
      BY <1>2 DEF Client, CallTag
    <2>2. CASE CreateAndSign
      <3>1. UNCHANGED chainVars /\ call'.tx.tag = call.tx.tag /\ call.stage = "sign"
        BY <2>2, SignedTx DEF TypeOK
      <3>2. Known' = Known
        BY <3>1 DEF Known
      <3> QED BY <2>1, <3>1, <3>2 DEF FreshTag
    <2>3. CASE UNCHANGED chainVars /\ \E stage \in {"raised", "refresh", "ok"} :
                                         Goto(stage)
      <3>1. Known' = Known
        BY <2>3 DEF Known
      <3>2. call'.stage \notin {"sign", "broadcast"}
        BY <1>0, <2>3 DEF Goto
      <3> QED BY <2>1, <3>1, <3>2 DEF FreshTag
    <2>4. CASE /\ call.stage = "broadcast"
               /\ Enqueue(call.tx)
               /\ \E stage \in {"wait", "raised"} : Goto(stage)
      <3>1. Known' = Known \cup {call.tx}
        BY <2>4 DEF Enqueue, Known
      <3>2. call'.stage \notin {"sign", "broadcast"}
        BY <1>0, <2>4 DEF Goto
      <3>3. /\ \A t \in Known : t.tag # call.tx.tag
            /\ call.tx.tag = CallTag /\ pc = "wait"
        BY <2>4 DEF FreshTag, CallOfJob
      <3>4. jobs >= 1
        BY <3>3 DEF CallOfJob
      <3> QED BY <1>0, <2>1, <3>1, <3>2, <3>3, <3>4 DEF FreshTag
    <2> QED BY <1>2, <2>2, <2>3, <2>4, ClientSteps DEF Client
  <1>3. CASE World
    <2>1. Known' \subseteq Known /\ UNCHANGED <<call, mode, jobs, leg, pc>>
      BY <1>3, ChainSteps DEF World, TypeOK
    <2>2. CallTag' = CallTag
      BY <2>1 DEF CallTag
    <2> QED BY <2>1, <2>2 DEF FreshTag
  <1>4. CASE Clock \/ UNCHANGED vars
    BY <1>4 DEF Clock, Tick, FreshTag, Known, CallTag
  <1> QED BY <1>1, <1>2, <1>3, <1>4 DEF Next

(* No leg, and no atomic cycle, is ever executed twice, whichever answers  *)
(* of the nodes are lost and whenever the polling gives up.                *)
THEOREM NoDoubleSendHolds == Spec => []NoDoubleSend
  <1>1. FreshTag => NoDoubleSend
    BY DEF FreshTag, NoDoubleSend, Known
  <1> QED BY <1>1, TypeInit, TypeStep, CallOfJobInit, CallOfJobStep, FreshTagInit,
             FreshTagStep, PTL DEF Spec

-----------------------------------------------------------------------------
(* Dry runs, and the pre-broadcast check. *)

LEMMA DryRunInit == Init => DryRunIsSilent
  BY DEF Init, DryRunIsSilent, Known

LEMMA DryRunStep == TypeOK /\ DryRunIsSilent /\ [Next]_vars => DryRunIsSilent'
  <1> SUFFICES ASSUME TypeOK, DryRunIsSilent, [Next]_vars, mode'.dry
               PROVE  call' = NoCall /\ Known' = {}
    BY DEF DryRunIsSilent
  <1>0. /\ NoCall.stage = "none" /\ mode' = mode
        /\ call = NoCall /\ Known = {}
    BY DEF NoCall, DryRunIsSilent, Next, Trade, Client, World, Clock, StartLoop,
           NoCandidate, Approve, ReservePasses, ReserveRefuses, CheckPasses,
           CheckRefuses, MeasureBefore, SplitPlan, KeepPlan, Send, SendDry, SendReturns, SendRaises,
           AfterAtomic, LegDelivered, AfterDry, QueryRaises, Step, Finish, NextLeg
  <1>1. CASE Trade
    <2>1. ~Send
      BY <1>0 DEF Send, SkipsBroadcast
    <2> QED BY <1>0, <1>1, <2>1, TradeLeavesChain DEF Known
  <1>2. CASE Client
    BY <1>0, <1>2, ClientSteps DEF Client, CreateAndSign
  <1>3. CASE World
    BY <1>0, <1>3, ChainSteps DEF World, TypeOK
  <1>4. CASE Clock \/ UNCHANGED vars
    BY <1>0, <1>4 DEF Clock, Tick, Known
  <1> QED BY <1>1, <1>2, <1>3, <1>4 DEF Next

(* In DRY_RUN nothing reaches sign_and_broadcast, in either mode, in any   *)
(* leg of any number of jobs.                                              *)
THEOREM DryRunIsSilentHolds == Spec => []DryRunIsSilent
  BY TypeInit, TypeStep, DryRunInit, DryRunStep, PTL DEF Spec

LEMMA StillCoveredInit == Init => StillCovered
  BY DEF Init, StillCovered, Checked

LEMMA StillCoveredStep ==
  TypeOK /\ CallOfJob /\ FreshTag /\ StillCovered /\ [Next]_vars => StillCovered'
  <1> SUFFICES ASSUME TypeOK, CallOfJob, FreshTag, StillCovered, [Next]_vars
               PROVE  StillCovered'
    OBVIOUS
  <1>0. leg \in Nat \ {0} /\ jobs \in Nat /\ call \in [stage : CallStages, tx : Tx]
    BY ExecutionAssumption DEF TypeOK, ExecTypeOK, ClientTypeOK
  <1>a. UNCHANGED <<mode, job>> => /\ MustCover' = MustCover
                                   /\ Required' = Required
    BY DEF MustCover, Required, Start
  <1>b. ASSUME NEW outcome, Finish(outcome)
        PROVE  StillCovered'
    BY <1>b DEF Finish, StillCovered, Checked
  <1>c. ASSUME NEW offer, NextLeg(offer)
        PROVE  StillCovered'
    BY <1>0, <1>c DEF NextLeg, StillCovered
  <1>d. ASSUME NEW place, Step(place),
               place \in {"idle", "loop", "plan", "check", "after"}
        PROVE  StillCovered'
    BY <1>d DEF Step, StillCovered, Checked
  <1>1. CASE Trade
    <2>0. UNCHANGED chainVars
      BY <1>1, TradeLeavesChain
    <2>1. CASE StartLoop
      BY <1>d, <2>1 DEF StartLoop
    <2>2. CASE NoCandidate
      BY <1>d, <2>2 DEF NoCandidate
    <2>3. ASSUME NEW c \in Cycles, NEW amount \in Amounts, NEW gas \in Fees,
                 Approve(c, amount, gas)
          PROVE  StillCovered'
      BY <2>3 DEF Approve, StillCovered, Checked
    <2>4. CASE ReservePasses
      BY <2>4 DEF ReservePasses, Step, StillCovered, Checked
    <2>5. CASE ReserveRefuses
      BY <1>b, <2>5 DEF ReserveRefuses
    <2>6. CASE CheckPasses
      BY <1>a, <2>0, <2>6 DEF CheckPasses, Step, StillCovered
    <2>7. CASE CheckRefuses
      BY <1>b, <2>7 DEF CheckRefuses
    <2>8. CASE MeasureBefore
      <3>1. CASE mode.atomic
        BY <1>d, <2>8, <3>1 DEF MeasureBefore, Step, StillCovered, Checked
      <3>2. CASE ~mode.atomic
        <4>1. UNCHANGED <<mode, job, leg, wallet>> /\ pc = "before"
          BY <2>0, <2>8 DEF MeasureBefore, Step
        <4>2. leg = 1 => (quiet' => quiet)
          <5> SUFFICES ASSUME leg = 1 PROVE quiet' => quiet
            OBVIOUS
          <5>1. quiet' = (mode.atomic \/ leg > 1 \/ (quiet /\ before' = wallet))
            BY <2>8 DEF MeasureBefore
          <5>2. ~(leg > 1)
            OBVIOUS
          <5> QED BY <3>2, <5>1, <5>2
        <4> QED BY <1>a, <3>2, <4>1, <4>2 DEF StillCovered, Checked
      <3> QED BY <3>1, <3>2
    <2>9. CASE Send
      <3>1. UNCHANGED <<mode, job, leg, wallet, quiet>> /\ pc = "send"
        BY <2>0, <2>9 DEF Send, Step
      <3> QED BY <1>a, <3>1 DEF StillCovered, Checked
    <2>10. CASE SendDry
      BY <1>d, <2>10 DEF SendDry
    <2>11. CASE SendReturns
      BY <1>d, <2>11 DEF SendReturns
    <2>12. CASE SendRaises
      BY <1>b, <2>12 DEF SendRaises
    <2>13. CASE AfterAtomic
      BY <1>b, <2>13 DEF AfterAtomic
    <2>14. CASE LegDelivered
      BY <1>b, <1>c, <2>14 DEF LegDelivered
    <2>15. CASE AfterDry
      BY <1>b, <1>c, <2>15 DEF AfterDry
    <2>16. CASE QueryRaises
      BY <1>b, <2>16 DEF QueryRaises
    <2>17. ASSUME NEW gas \in Fees, SplitPlan(gas)
           PROVE  StillCovered'
      BY <2>17 DEF SplitPlan, StillCovered, Checked
    <2>18. CASE KeepPlan
      BY <1>d, <2>18 DEF KeepPlan, CallOfJob
    <2> QED BY <1>1, <2>1, <2>2, <2>3, <2>4, <2>5, <2>6, <2>7, <2>8, <2>9, <2>10,
               <2>11, <2>12, <2>13, <2>14, <2>15, <2>16, <2>17, <2>18 DEF Trade
  <1>2. CASE Client
    <2>1. /\ UNCHANGED <<mode, job, leg, pc, quiet>>
          /\ wallet' = wallet
      BY <1>2, ClientSteps DEF Client, CreateAndSign, Enqueue
    <2>2. call'.stage \in {"sign", "broadcast"} => call.stage \in {"sign", "broadcast"}
      BY <1>0, <1>2, ClientSteps DEF Client, CreateAndSign, Goto
    <2> QED BY <1>a, <2>1, <2>2 DEF StillCovered, Checked
  <1>3. CASE World
    <2>0. UNCHANGED <<mode, job, leg, pc, call>>
      BY <1>3 DEF World
    <2> SUFFICES ASSUME Checked, quiet'
                 PROVE  wallet' = wallet /\ quiet
      BY <1>a, <2>0 DEF StillCovered, Checked
    <2>1. call.tx \notin Known
      <3>1. CASE call.stage \in {"sign", "broadcast"}
        BY <3>1 DEF FreshTag
      <3>2. CASE call.stage \notin {"sign", "broadcast"}
        <4>1. call = NoCall
          BY <3>2 DEF CallOfJob, Checked
        <4>2. call.tx.tag.job = 0
          BY <4>1 DEF NoCall, NoTx
        <4> QED BY <1>0, <4>2 DEF FreshTag
      <3> QED BY <3>1, <3>2
    <2>2. ~OwnTxIncluded
      BY <1>3, <2>1, ChainSteps DEF World, TypeOK, OwnTxIncluded, Known
    <2> QED BY <1>3, <2>2 DEF World, Disturbs
  <1>4. CASE Clock \/ UNCHANGED vars
    BY <1>4 DEF Clock, Tick, StillCovered, Checked, MustCover, Required, Start
  <1> QED BY <1>1, <1>2, <1>3, <1>4 DEF Next

LEMMA CoveredStep ==
  TypeOK /\ CallOfJob /\ DryRunIsSilent /\ StillCovered /\ [Next]_vars
    => [CoveredBroadcast]_vars
  <1> SUFFICES ASSUME TypeOK, CallOfJob, DryRunIsSilent, StillCovered, Next,
                      Broadcasts, Start = LUNC, leg = 1, quiet
               PROVE  wallet[LUNC] >= job.amount + job.gas
    BY DEF CoveredBroadcast
  <1>1. Client
    BY TradeLeavesChain, ChainSteps
       DEF Next, Broadcasts, World, Clock, Tick, TypeOK
  <1>2. call.stage = "broadcast"
    BY <1>1, ClientSteps DEF Client, CreateAndSign, Broadcasts
  <1>3. pc = "wait" /\ ~mode.dry
    BY <1>2 DEF CallOfJob, DryRunIsSilent, NoCall
  <1>4. Required <= wallet[LUNC]
    BY <1>2, <1>3 DEF StillCovered, Checked, MustCover
  <1>5. job \in Job
    BY <1>3 DEF TypeOK, ExecTypeOK
  <1>6. job.amount \in Nat /\ job.gas \in Nat
    <2>1. job.amount \in Amounts /\ job.gas \in Fees
      BY <1>5 DEF Job
    <2>2. Amounts \subseteq Nat
      BY ExecutionAssumption
    <2>3. Fees \subseteq Nat
      BY ClientAssumption
    <2> QED BY <2>1, <2>2, <2>3
  <1>7. wallet[LUNC] \in Int
    BY ChainAssumption DEF TypeOK, ChainTypeOK
  <1> QED BY <1>4, <1>6, <1>7 DEF Required

(* The hard pre-broadcast check does its work in both modes: unless        *)
(* somebody else moves the wallet in between, what is broadcast is covered *)
(* at the moment the node takes it.                                        *)
THEOREM BroadcastIsCoveredHolds == Spec => BroadcastIsCovered
  BY TypeInit, TypeStep, CallOfJobInit, CallOfJobStep, FreshTagInit, FreshTagStep,
     DryRunInit, DryRunStep, StillCoveredInit, StillCoveredStep, CoveredStep, PTL
     DEF Spec, BroadcastIsCovered
=============================================================================
