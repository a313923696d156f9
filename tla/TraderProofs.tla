---------------------------- MODULE TraderProofs ----------------------------
(***************************************************************************)
(* Legs land in order, completion is real, and Execution implements the    *)
(* abstract Trader, for every set of assets, cycles, amounts and bounds.   *)
(* On top of the invariants of ExecutionProofs it needs InStep: where the  *)
(* trading thread is tells which legs have landed.                         *)
(***************************************************************************)
EXTENDS ExecutionProofs

USE DEF execVars, clientVars, chainVars, vars

Base == TypeOK /\ OneSlot /\ CallOfJob /\ FreshTag /\ DryRunIsSilent

AllInv == Base /\ InStep

LEMMA InStepInit == Init => InStep
  BY DEF Init, InStep, LegsBehind, KnownInOrder, Confirmed, FirstLeg, Known, NoCall

(* When a call has returned, its leg has landed: the one under way.        *)
LEMMA AfterIsDone ==
  ASSUME AllInv, pc = "after", ~mode.dry
  PROVE  Done(jobs, CallTag.leg)
  <1>1. call.stage = "ok" /\ call.tx \in landed
    BY DEF AllInv, InStep, Confirmed
  <1>2. call.tx.tag = [job |-> jobs, leg |-> CallTag.leg]
    BY <1>1 DEF AllInv, Base, CallOfJob, CallTag
  <1> QED BY <1>1, <1>2 DEF Done

LEMMA InStepTrade ==
  ASSUME AllInv, Trade
  PROVE  InStep'
  <1> USE DEF InStep, AllInv, Base
  <1>0. /\ UNCHANGED chainVars /\ Known' = Known
        /\ leg \in Nat \ {0} /\ NoCall.stage = "none"
    BY TradeLeavesChain DEF TypeOK, ExecTypeOK, Known, NoCall
  <1>1. KnownInOrder'
    BY <1>0 DEF KnownInOrder, Done
  <1>a. ASSUME NEW outcome, Finish(outcome)
        PROVE  InStep'
    BY <1>0, <1>1, <1>a DEF Finish, LegsBehind, Confirmed, FirstLeg
  <1>b. ASSUME NEW offer, NextLeg(offer), pc = "after", ~mode.atomic
        PROVE  InStep'
    <2>1. ~mode.dry => \A l \in 1..leg : Done(jobs, l)
      <3>1. ~mode.dry => Done(jobs, leg)
        BY <1>b, AfterIsDone DEF CallTag
      <3>2. job # NoJob
        BY <1>b DEF TypeOK, ExecTypeOK
      <3> QED BY <1>0, <3>1, <3>2 DEF LegsBehind
    <2>2. LegsBehind'
      BY <1>0, <1>b, <2>1 DEF NextLeg, LegsBehind, Done
    <2> QED BY <1>0, <1>1, <1>b, <2>2 DEF NextLeg, Confirmed, FirstLeg
  <1>c. ASSUME NEW place, Step(place), UNCHANGED call,
               place = "after" /\ ~mode.dry => call.stage = "ok",
               place \in {"reserve", "plan", "check"} => leg = 1
        PROVE  InStep'
    <2>1. LegsBehind'
      BY <1>0, <1>c DEF Step, LegsBehind, Done
    <2> QED BY <1>0, <1>1, <1>c, <2>1 DEF Step, Confirmed, FirstLeg
  <1>2. CASE StartLoop \/ NoCandidate
    BY <1>c, <1>2 DEF StartLoop, NoCandidate
  <1>3. ASSUME NEW c \in Cycles, NEW amount \in Amounts, NEW gas \in Fees,
               Approve(c, amount, gas)
        PROVE  InStep'
    <2>1. LegsBehind'
      BY <1>3 DEF Approve, LegsBehind
    <2> QED BY <1>0, <1>1, <1>3, <2>1 DEF Approve, Confirmed, FirstLeg
  <1>4. CASE ReservePasses
    BY <1>c, <1>4 DEF ReservePasses, FirstLeg
  <1>5. CASE ReserveRefuses \/ CheckRefuses \/ SendRaises \/ QueryRaises
    BY <1>a, <1>5 DEF ReserveRefuses, CheckRefuses, SendRaises, QueryRaises
  <1>6. CASE CheckPasses
    BY <1>c, <1>6 DEF CheckPasses
  <1>7. CASE MeasureBefore
    BY <1>c, <1>7 DEF MeasureBefore, CallOfJob
  <1>8. CASE Send
    <2>1. LegsBehind'
      BY <1>0, <1>8 DEF Send, Step, LegsBehind, Done
    <2>2. call'.stage = "sign" /\ pc' = "wait"
      BY <1>8 DEF Send, StartCall, Step
    <2> QED BY <1>0, <1>1, <2>1, <2>2 DEF Confirmed, FirstLeg
  <1>9. CASE SendDry
    BY <1>c, <1>9 DEF SendDry, SkipsBroadcast
  <1>10. CASE SendReturns
    BY <1>c, <1>10 DEF SendReturns
  <1>11. CASE AfterAtomic
    BY <1>a, <1>11 DEF AfterAtomic
  <1>12. CASE LegDelivered
    BY <1>a, <1>b, <1>12 DEF LegDelivered
  <1>13. CASE AfterDry
    <2>1. CASE Finish("dry")
      BY <1>a, <2>1
    <2>2. CASE NextLeg(PlannedOffer(leg + 1)) /\ ~mode.atomic
      BY <1>b, <1>13, <2>2 DEF AfterDry
    <2> QED BY <1>13, <2>1, <2>2 DEF AfterDry
  <1>14. ASSUME NEW gas \in Fees, SplitPlan(gas)
         PROVE  InStep'
    <2>1. job # NoJob
      BY <1>14 DEF SplitPlan, TypeOK, ExecTypeOK
    <2>2. LegsBehind'
      BY <1>0, <1>14, <2>1 DEF SplitPlan, LegsBehind, Done
    <2> QED BY <1>0, <1>1, <1>14, <2>2 DEF SplitPlan, Confirmed, FirstLeg
  <1>15. CASE KeepPlan
    BY <1>c, <1>15 DEF KeepPlan, FirstLeg
  <1> QED BY <1>2, <1>3, <1>4, <1>5, <1>6, <1>7, <1>8, <1>9, <1>10, <1>11, <1>12,
             <1>13, <1>14, <1>15 DEF Trade

(* What a step of sign_and_broadcast that broadcasts puts into the slot:   *)
(* a part of the order under way, whose predecessor has landed.            *)
LEMMA BroadcastPart ==
  ASSUME AllInv, call.stage = "broadcast"
  PROVE  /\ pc = "wait" /\ job # NoJob /\ ~mode.dry
         /\ call.tx.tag = CallTag
         /\ call.tx.tag.leg > 1 =>
              Done(call.tx.tag.job, call.tx.tag.leg - 1)
  <1> USE DEF AllInv, Base
  <1>1. pc = "wait" /\ call.tx.tag = CallTag
    BY DEF CallOfJob
  <1>2. job # NoJob
    BY <1>1 DEF TypeOK, ExecTypeOK
  <1>3. ~mode.dry
    BY DEF DryRunIsSilent, NoCall
  <1>4. call.tx.tag.leg > 1 => Done(jobs, call.tx.tag.leg - 1)
    <2>1. leg \in Nat \ {0}
      BY DEF TypeOK, ExecTypeOK
    <2>2. CASE mode.atomic
      BY <1>1, <2>2 DEF CallTag
    <2>3. CASE ~mode.atomic
      <3>1. call.tx.tag.leg = leg
        BY <1>1, <2>3 DEF CallTag
      <3> QED BY <1>2, <1>3, <2>1, <3>1 DEF InStep, LegsBehind
    <2> QED BY <2>2, <2>3
  <1> QED BY <1>1, <1>2, <1>3, <1>4 DEF CallTag

LEMMA InStepClient ==
  ASSUME AllInv, Client
  PROVE  InStep'
  <1> USE DEF InStep, AllInv, Base
  <1>0. /\ call \in [stage : CallStages, tx : Tx]
        /\ UNCHANGED <<mode, pc, job, jobs, leg>>
        /\ landed' = landed /\ UNCHANGED <<block, chainSeq>>
    <2>1. call \in [stage : CallStages, tx : Tx]
      BY DEF TypeOK, ClientTypeOK
    <2> QED BY <2>1, ClientSteps DEF Client, CreateAndSign, Enqueue
  <1>1. LegsBehind' /\ FirstLeg'
    BY <1>0 DEF LegsBehind, FirstLeg, Done
  <1>2. CASE CreateAndSign
    <2>1. Known' = Known /\ call'.stage = "broadcast" /\ call.stage = "sign"
      BY <1>2, SignedTx DEF Known, TypeOK
    <2>2. pc = "wait"
      BY <2>1 DEF CallOfJob
    <2> QED BY <1>0, <1>1, <2>1, <2>2 DEF KnownInOrder, Confirmed, Done
  <1>3. CASE SignRaises \/ BroadcastRejected \/ ConfirmFailure \/ GiveUpWaiting
             \/ (UNCHANGED chainVars /\ Goto("raised") /\ call.stage = "broadcast")
    <2>1. Known' = Known /\ Goto("raised") /\ call.stage \notin {"none", "ok"}
      BY <1>3 DEF SignRaises, BroadcastRejected, ConfirmFailure, GiveUpWaiting,
                  NotFoundStage, Known
    <2>2. pc = "wait" /\ call'.stage = "raised"
      BY <1>0, <2>1 DEF CallOfJob, Goto
    <2> QED BY <1>0, <1>1, <2>1, <2>2 DEF KnownInOrder, Confirmed, Done
  <1>4. CASE ConfirmSuccess \/ RefreshAccount
    <2>1. /\ Known' = Known /\ call.tx \in landed
          /\ \E stage \in {"refresh", "ok"} : Goto(stage)
          /\ call.stage \in {"wait", "refresh"}
      BY <1>4 DEF ConfirmSuccess, RefreshAccount, Known, Confirmed
    <2>2. pc = "wait" /\ call'.tx = call.tx
      BY <1>0, <2>1 DEF CallOfJob, Goto
    <2> QED BY <1>0, <1>1, <2>1, <2>2 DEF KnownInOrder, Confirmed, Done
  <1>5. CASE /\ call.stage = "broadcast" /\ Enqueue(call.tx)
             /\ \E stage \in {"wait", "raised"} : Goto(stage)
    <2>1. Known' = Known \cup {call.tx}
      BY <1>5 DEF Enqueue, Known
    <2>2. pc = "wait" /\ call'.stage \in {"wait", "raised"}
      BY <1>0, <1>5, BroadcastPart DEF Goto
    <2>3. KnownInOrder'
      BY <1>0, <1>5, <2>1, BroadcastPart DEF KnownInOrder, Done
    <2> QED BY <1>0, <1>1, <2>2, <2>3 DEF Confirmed
  <1> QED BY <1>2, <1>3, <1>4, <1>5
          DEF Client, SignAndBroadcast, BroadcastAccepted, BroadcastConnectionLost,
              LostAnswerStage

LEMMA ChainEffects ==
  ASSUME AllInv, ChainNext
  PROVE  /\ landed \subseteq landed'
         /\ Known' \subseteq Known
         /\ block' # NoBlock => block'.tx.seq = chainSeq'
         /\ \/ UNCHANGED <<chainSeq, landed>> /\ mempool' \subseteq mempool
            \/ /\ chainSeq' = chainSeq + 1 /\ mempool' \subseteq mempool
               /\ \/ landed' = landed
                  \/ landed' = landed \cup {block.tx} /\ block.tx \in Pending
  <1> USE DEF AllInv, Base, InStep, FirstLeg
  <1>0. chainSeq \in Nat
    BY DEF TypeOK, ChainTypeOK
  <1>1. ASSUME NEW t \in mempool, BeginTx(t)
        PROVE  /\ UNCHANGED <<mempool, chainSeq, landed, reverted>>
               /\ block'.tx.seq = chainSeq
    BY <1>1 DEF BeginTx
  <1>2. ASSUME NEW t \in mempool, EvictTx(t)
        PROVE  /\ UNCHANGED <<chainSeq, landed, reverted, block>>
               /\ mempool' \subseteq mempool /\ block = NoBlock
    BY <1>2 DEF EvictTx
  <1>3. ASSUME RunMessage
        PROVE  /\ UNCHANGED <<mempool, chainSeq, landed, reverted>>
               /\ block'.tx = block.tx /\ block # NoBlock
    <2>1. PICK paid, bal : block' = [tx |-> block.tx, next |-> block.next + 1,
                                     paid |-> paid, bal |-> bal]
      BY <1>3 DEF RunMessage
    <2> QED BY <1>3, <2>1 DEF RunMessage
  <1>4. ASSUME RevertTx
        PROVE  /\ chainSeq' = chainSeq + 1 /\ landed' = landed
               /\ mempool' \subseteq mempool /\ block' = NoBlock
               /\ Known' \subseteq Known
    BY <1>4 DEF RevertTx, Commit, Known, TypeOK, ChainTypeOK
  <1>5. ASSUME CommitTx
        PROVE  /\ chainSeq' = chainSeq + 1
               /\ landed' = landed \cup {block.tx} /\ block.tx \in Pending
               /\ mempool' \subseteq mempool /\ block' = NoBlock
               /\ Known' \subseteq Known
    BY <1>0, <1>5 DEF CommitTx, Commit, Known, TypeOK, ChainTypeOK, Pending
  <1>6. ASSUME NEW a \in Assets, OutsideTx(a)
        PROVE  /\ UNCHANGED <<mempool, landed, reverted>>
               /\ chainSeq' = chainSeq + 1 /\ block' = NoBlock
    BY <1>6 DEF OutsideTx, Commit
  <1> QED BY <1>1, <1>2, <1>3, <1>4, <1>5, <1>6 DEF ChainNext, Known

LEMMA InStepWorld ==
  ASSUME AllInv, World
  PROVE  InStep'
  <1> USE DEF InStep, AllInv, Base
  <1>1. UNCHANGED <<call, mode, pc, job, jobs, leg>>
    BY DEF World
  <1>2. /\ landed \subseteq landed' /\ Known' \subseteq Known
        /\ block' # NoBlock => block'.tx.seq = chainSeq'
    BY ChainEffects DEF World
  <1>3. ASSUME NEW j, NEW l, Done(j, l)
        PROVE  \E t \in landed' : t.tag = [job |-> j, leg |-> l]
    BY <1>2, <1>3 DEF Done
  <1>4. LegsBehind' /\ KnownInOrder'
    BY <1>1, <1>2, <1>3 DEF LegsBehind, KnownInOrder, Done
  <1> QED BY <1>1, <1>2, <1>4 DEF Confirmed, FirstLeg

LEMMA InStepStep == AllInv /\ [Next]_vars => InStep'
  <1> SUFFICES ASSUME AllInv, [Next]_vars PROVE InStep'
    OBVIOUS
  <1>1. CASE Clock \/ UNCHANGED vars
    BY <1>1 DEF Clock, Tick, AllInv, InStep, LegsBehind, KnownInOrder, Confirmed,
                FirstLeg, Known, Done
  <1> QED BY <1>1, InStepTrade, InStepClient, InStepWorld DEF Next

LEMMA AllInvHolds == Spec => []AllInv
  <1>1. Init => AllInv
    BY TypeInit, OneSlotInit, CallOfJobInit, FreshTagInit, DryRunInit, InStepInit
       DEF AllInv, Base
  <1>2. AllInv /\ [Next]_vars => AllInv'
    BY TypeStep, OneSlotStep, CallOfJobStep, FreshTagStep, DryRunStep, InStepStep
       DEF AllInv, Base
  <1> QED BY <1>1, <1>2, PTL DEF Spec

(* An aborted sequential cycle is a prefix of the cycle: whatever fails or *)
(* is answered late, no leg lands before the one it spends.                *)
THEOREM LegsInOrderHolds == Spec => []LegsInOrder
  <1>1. AllInv => LegsInOrder
    BY DEF AllInv, InStep, KnownInOrder, LegsInOrder, Known
  <1> QED BY <1>1, AllInvHolds, PTL

-----------------------------------------------------------------------------
(* Verdicts. *)

Tags(S) == {t.tag : t \in S}

(* What a verdict on the order under way says of the chain.                *)
Supported(outcome) ==
  /\ outcome \in Outcomes \ {"none"}
  /\ outcome = "dry" => PartsOf = {}
  /\ outcome = "refused" => PartsOf \cap (Tags(Pending) \cup Tags(landed)) = {}
  /\ outcome = "noproceeds" => PartsOf \cap Tags(landed) # {}
  /\ outcome \in {"complete", "underperformed"} =>
       PartsOf # {} /\ PartsOf \subseteq Tags(landed)

(* Before the first broadcast of an order no part of it is known anywhere. *)
LEMMA NothingIssued ==
  ASSUME AllInv, pc \in {"reserve", "check"}
  PROVE  PartsOf \cap (Tags(Pending) \cup Tags(landed)) = {}
  <1>1. leg = 1
    BY DEF AllInv, InStep, FirstLeg
  <1>2. \A t \in Known : t.tag.job = jobs => ~mode.atomic /\ t.tag.leg < 1
    BY <1>1 DEF AllInv, Base, FreshTag
  <1>3. Pending \cup landed \subseteq Known
    BY DEF Pending, Known
  <1>4. Last \in Nat \/ job = NoJob
    BY LastType DEF AllInv, Base, TypeOK, ExecTypeOK
  <1>5. ASSUME NEW t \in Known, t.tag \in PartsOf
        PROVE  FALSE
    <2>1. t.tag.job = jobs
      BY <1>5 DEF PartsOf
    <2>2. CASE mode.atomic
      BY <1>2, <1>5, <2>1, <2>2
    <2>3. CASE ~mode.atomic
      <3>1. PICK l \in 1..Last : t.tag = [job |-> jobs, leg |-> l]
        BY <1>5, <2>3 DEF PartsOf
      <3>2. job # NoJob
        BY <1>5 DEF PartsOf
      <3> QED BY <1>2, <1>4, <1>5, <2>1, <3>1, <3>2
    <2> QED BY <2>2, <2>3
  <1> QED BY <1>3, <1>5 DEF Tags

(* After the call of a leg has returned, the parts up to it have landed.   *)
LEMMA PartsLanded ==
  ASSUME AllInv, pc = "after", ~mode.dry
  PROVE  /\ PartsOf \cap Tags(landed) # {}
         /\ mode.atomic \/ leg = Last => PartsOf \subseteq Tags(landed)
  <1>1. job # NoJob /\ leg \in 1..Last /\ leg \in Nat /\ job \in Job
    BY DEF AllInv, Base, TypeOK, ExecTypeOK
  <1>2. Last \in Nat
    BY <1>1, LastType
  <1>3. Done(jobs, CallTag.leg)
    BY AfterIsDone
  <1>4. \A l : Done(jobs, l) => [job |-> jobs, leg |-> l] \in Tags(landed)
    BY DEF Done, Tags
  <1>5. CASE mode.atomic
    <2>1. PartsOf = {[job |-> jobs, leg |-> 0]} /\ CallTag.leg = 0
      BY <1>1, <1>5 DEF PartsOf, CallTag
    <2> QED BY <1>3, <1>4, <2>1
  <1>6. CASE ~mode.atomic
    <2>1. PartsOf = {[job |-> jobs, leg |-> l] : l \in 1..Last} /\ CallTag.leg = leg
      BY <1>1, <1>6 DEF PartsOf, CallTag
    <2>2. \A l \in 1..(leg - 1) : Done(jobs, l)
      BY <1>1 DEF AllInv, InStep, LegsBehind
    <2>3. \A l \in 1..leg : Done(jobs, l)
      BY <1>1, <1>3, <2>1, <2>2
    <2>4. \A l \in 1..leg : [job |-> jobs, leg |-> l] \in Tags(landed)
      BY <1>4, <2>3
    <2>5. [job |-> jobs, leg |-> leg] \in PartsOf \cap Tags(landed)
      BY <1>1, <2>1, <2>4
    <2>6. leg = Last => PartsOf \subseteq Tags(landed)
      BY <2>1, <2>4
    <2> QED BY <1>6, <2>5, <2>6
  <1> QED BY <1>5, <1>6

LEMMA TradeVerdicts ==
  ASSUME AllInv, Trade
  PROVE  \/ /\ UNCHANGED <<jobs, report>>
            /\ (job' # NoJob) = (job # NoJob)
            /\ PartsOf' = PartsOf
         \/ /\ job = NoJob /\ job' # NoJob
            /\ jobs' = jobs + 1 /\ UNCHANGED report
         \/ \E outcome : Finish(outcome) /\ job # NoJob /\ Supported(outcome)
  <1> DEFINE Goal ==
         \/ /\ UNCHANGED <<jobs, report>>
            /\ (job' # NoJob) = (job # NoJob)
            /\ PartsOf' = PartsOf
         \/ /\ job = NoJob /\ job' # NoJob
            /\ jobs' = jobs + 1 /\ UNCHANGED report
         \/ \E outcome : Finish(outcome) /\ job # NoJob /\ Supported(outcome)
  <1>0. (job = NoJob) <=> (pc \in {"idle", "loop"})
    BY DEF AllInv, Base, TypeOK, ExecTypeOK
  <1>a. ASSUME UNCHANGED <<mode, job, jobs, report>>
        PROVE  Goal
    <2>1. PartsOf' = PartsOf
      BY <1>a DEF PartsOf, Last
    <2> QED BY <1>a, <2>1
  <1>b. ASSUME NEW outcome, Finish(outcome), job # NoJob, Supported(outcome)
        PROVE  Goal
    BY <1>b
  <1>c. ASSUME NEW outcome \in {"failed", "raised"}
        PROVE  Supported(outcome)
    BY DEF Supported, Outcomes
  <1>1. CASE StartLoop \/ NoCandidate \/ ReservePasses \/ CheckPasses
             \/ MeasureBefore \/ KeepPlan \/ Send \/ SendDry \/ SendReturns
    BY <1>a, <1>1 DEF StartLoop, NoCandidate, ReservePasses, CheckPasses,
                      MeasureBefore, KeepPlan, Send, SendDry, SendReturns, Step
  <1>2. ASSUME NEW c \in Cycles, NEW amount \in Amounts, NEW gas \in Fees,
               Approve(c, amount, gas)
        PROVE  Goal
    <2>1. job' \in Job
      BY <1>2 DEF Approve, Job
    <2> QED BY <1>0, <1>2, <2>1, NoJobAssumption DEF Approve
  <1>3. CASE ReserveRefuses \/ CheckRefuses
    <2>1. pc \in {"reserve", "check"} /\ Finish("refused")
      BY <1>3 DEF ReserveRefuses, CheckRefuses
    <2>2. Supported("refused")
      BY <2>1, NothingIssued DEF Supported, Outcomes
    <2> QED BY <1>0, <1>b, <2>1, <2>2
  <1>4. CASE SendRaises
    <2>1. pc = "wait" /\ \E outcome \in {"failed", "raised"} : Finish(outcome)
      BY <1>4 DEF SendRaises
    <2> QED BY <1>0, <1>b, <1>c, <2>1
  <1>5. CASE QueryRaises
    <2>1. pc \notin {"idle", "loop"} /\ Finish("raised")
      BY <1>5 DEF QueryRaises
    <2> QED BY <1>0, <1>b, <1>c, <2>1
  <1>6. CASE AfterAtomic
    <2>1. /\ pc = "after" /\ ~mode.dry /\ mode.atomic
          /\ \E outcome \in {"complete", "underperformed"} : Finish(outcome)
      BY <1>6 DEF AfterAtomic
    <2>2. PartsOf # {} /\ PartsOf \subseteq Tags(landed)
      BY <2>1, PartsLanded
    <2>3. \A outcome \in {"complete", "underperformed"} : Supported(outcome)
      BY <2>2 DEF Supported, Outcomes
    <2> QED BY <1>0, <1>b, <2>1, <2>3
  <1>7. CASE LegDelivered
    <2>1. pc = "after" /\ ~mode.dry /\ job # NoJob
      BY <1>0, <1>7 DEF LegDelivered
    <2>2. CASE Finish("noproceeds")
      <3>1. Supported("noproceeds")
        BY <2>1, PartsLanded DEF Supported, Outcomes
      <3> QED BY <1>b, <2>1, <2>2, <3>1
    <2>3. CASE \E offer : NextLeg(offer)
      BY <1>a, <2>3 DEF NextLeg
    <2>4. CASE Finish("complete") /\ ~(leg < Last)
      <3>1. leg = Last
        <4>1. leg \in 1..Last /\ job \in Job /\ leg \in Nat
          BY <2>1 DEF AllInv, Base, TypeOK, ExecTypeOK
        <4> QED BY <2>4, <4>1, LastType
      <3>2. Supported("complete")
        BY <2>1, <3>1, PartsLanded DEF Supported, Outcomes
      <3> QED BY <1>b, <2>1, <2>4, <3>2
    <2> QED BY <1>7, <2>2, <2>3, <2>4 DEF LegDelivered
  <1>8. CASE AfterDry
    <2>1. pc = "after" /\ mode.dry /\ job # NoJob
      BY <1>0, <1>8 DEF AfterDry
    <2>2. Supported("dry")
      BY <2>1 DEF Supported, Outcomes, PartsOf
    <2>3. CASE Finish("dry")
      BY <1>b, <2>1, <2>2, <2>3
    <2>4. CASE \E offer : NextLeg(offer)
      BY <1>a, <2>4 DEF NextLeg
    <2> QED BY <1>8, <2>3, <2>4 DEF AfterDry
  <1>9. ASSUME NEW gas \in Fees, SplitPlan(gas)
        PROVE  Goal
    <2>1. job \in Job /\ job # NoJob
      BY <1>0, <1>9 DEF SplitPlan, AllInv, Base, TypeOK, ExecTypeOK
    <2>2. job' = [job EXCEPT !.gas = gas] /\ UNCHANGED <<mode, jobs, report>>
      BY <1>9 DEF SplitPlan
    <2>3. job' \in Job /\ job'.cycle = job.cycle
      BY <2>1, <2>2 DEF Job
    <2>4. PartsOf' = PartsOf
      BY <2>1, <2>2, <2>3, NoJobAssumption DEF PartsOf, Last
    <2> QED BY <2>1, <2>2, <2>3, <2>4, NoJobAssumption
  <1> QED BY <1>1, <1>2, <1>3, <1>4, <1>5, <1>6, <1>7, <1>8, <1>9 DEF Trade

(* An execution reported as complete, or as complete but below prediction, *)
(* has moved every leg of its cycle, whichever node answered the polling.  *)
THEOREM CompletionIsRealHolds == Spec => CompletionIsReal
  <1> DEFINE Reports ==
        report' # report /\ report'.outcome \in {"complete", "underperformed"}
  <1> DEFINE Real == IF mode.atomic THEN Done(jobs, 0)
                                    ELSE \A l \in 1..Last : Done(jobs, l)
  <1>1. ASSUME AllInv, Next, Reports
        PROVE  Real
    <2>1. Trade
      BY <1>1 DEF Next, Client, World, Clock
    <2>2. PICK outcome : Finish(outcome) /\ job # NoJob /\ Supported(outcome)
      BY <1>1, <2>1, TradeVerdicts
    <2>3. PartsOf # {} /\ PartsOf \subseteq Tags(landed)
      BY <1>1, <2>2 DEF Finish, Supported
    <2>4. ~mode.dry
      BY <2>3 DEF PartsOf
    <2>5. \A l : [job |-> jobs, leg |-> l] \in Tags(landed) => Done(jobs, l)
      BY DEF Tags, Done
    <2>6. CASE mode.atomic
      BY <2>2, <2>3, <2>4, <2>5, <2>6 DEF PartsOf
    <2>7. CASE ~mode.atomic
      BY <2>2, <2>3, <2>4, <2>5, <2>7 DEF PartsOf
    <2> QED BY <2>6, <2>7
  <1>2. AllInv /\ [Next]_vars => [Reports => Real]_vars
    BY <1>1
  <1> QED BY <1>2, AllInvHolds, PTL DEF Spec, CompletionIsReal

-----------------------------------------------------------------------------
(* Refinement. *)

(* What the client and the chain do to the slot and to what has landed.    *)
LEMMA PendingTags ==
  ASSUME AllInv
  PROVE  /\ \A t, u \in Pending : t = u
         /\ Pending = {t \in mempool : t.seq = chainSeq}
         /\ chainSeq \in Nat /\ \A t \in mempool : t.seq \in Nat
  <1>1. chainSeq \in Nat /\ \A t \in mempool : t.seq \in Nat
    BY DEF AllInv, Base, TypeOK, ChainTypeOK, Tx
  <1>2. \A t \in mempool : t.seq <= chainSeq
    BY DEF AllInv, Base, OneSlot
  <1> QED BY <1>1, <1>2 DEF AllInv, Base, OneSlot, OneTxInFlight, Pending

LEMMA RefineInit == Init => Abstract!Init
  BY DEF Init, Abstract!Init, PartsOf, Pending

LEMMA RefineTrade ==
  ASSUME AllInv, Trade
  PROVE  [Abstract!Next]_Abstract!traderVars
  <1>0. UNCHANGED <<landed, mempool, chainSeq>> /\ Pending' = Pending
    BY TradeLeavesChain DEF Pending
  <1>1. CASE /\ UNCHANGED <<jobs, report>>
             /\ (job' # NoJob) = (job # NoJob)
             /\ PartsOf' = PartsOf
    BY <1>0, <1>1 DEF Abstract!traderVars
  <1>2. CASE /\ job = NoJob /\ job' # NoJob
             /\ jobs' = jobs + 1 /\ UNCHANGED report
    <2>1. job' \in Job
      BY <1>2, TradeTypes DEF AllInv, Base, TypeOK, ExecTypeOK
    <2>2. Last' \in Nat
      BY <2>1, ExecutionAssumption DEF Job, Last
    <2>3. Abstract!IsOrder(PartsOf', jobs')
      BY <2>2 DEF PartsOf, Abstract!IsOrder, Abstract!Before
    <2>4. Abstract!Accept
      BY <1>0, <1>2, <2>3 DEF Abstract!Accept
    <2> QED BY <2>4 DEF Abstract!Next
  <1>3. ASSUME NEW outcome, Finish(outcome), job # NoJob, Supported(outcome)
        PROVE  Abstract!Settle
    <2>1. job' = NoJob /\ report' = [outcome |-> outcome, job |-> jobs]
          /\ jobs' = jobs
      BY <1>3 DEF Finish
    <2>2. PartsOf' = {}
      BY <2>1 DEF PartsOf
    <2>3. Abstract!Supports(outcome)
      BY <1>3 DEF Supported, Abstract!Supports, Outcomes, Tags
    <2> QED BY <1>0, <1>3, <2>1, <2>2, <2>3 DEF Abstract!Settle
  <1> QED BY <1>1, <1>2, <1>3, TradeVerdicts DEF Abstract!Next

LEMMA RefineClient ==
  ASSUME AllInv, Client
  PROVE  [Abstract!Next]_Abstract!traderVars
  <1>0. /\ UNCHANGED <<mode, job, jobs, report>> /\ PartsOf' = PartsOf
        /\ call \in [stage : CallStages, tx : Tx]
    BY DEF Client, PartsOf, Last, AllInv, Base, TypeOK, ClientTypeOK
  <1>1. CASE UNCHANGED chainVars
    BY <1>0, <1>1 DEF Abstract!traderVars, Pending
  <1>2. CASE call.stage = "broadcast" /\ CheckTxAdmits(call.tx) /\ Enqueue(call.tx)
    <2>1. IsFiniteSet(Pending) /\ chainSeq \in Nat
      BY PendingTags, FS_Subset DEF AllInv, Base, OneSlot, Pending
    <2>2. /\ call.tx.seq = chainSeq + Cardinality(Pending)
          /\ call.tx.seq <= chainSeq
      BY <1>2 DEF CheckTxAdmits, CheckSeq, AllInv, Base, OneSlot
    <2>3. Cardinality(Pending) = 0
      BY <2>1, <2>2, FS_CardinalityType
    <2>4. Pending = {} /\ call.tx.seq = chainSeq
      BY <2>1, <2>2, <2>3, FS_EmptySet
    <2>5. /\ mempool' = mempool \cup {call.tx}
          /\ UNCHANGED <<chainSeq, landed>>
      BY <1>2 DEF Enqueue
    <2>6. Pending' = {call.tx}
      BY <2>1, <2>4, <2>5, PendingTags DEF Pending
    <2>7. /\ job # NoJob /\ ~mode.dry /\ call.tx.tag = CallTag
          /\ call.tx.tag.leg > 1 => Done(call.tx.tag.job, call.tx.tag.leg - 1)
      BY <1>2, BroadcastPart
    <2>8. call.tx.tag \in PartsOf
      BY <2>7 DEF PartsOf, CallTag, AllInv, Base, TypeOK, ExecTypeOK
    <2>9. call.tx.tag \notin {t.tag : t \in landed}
      BY <1>2 DEF AllInv, Base, FreshTag, Known
    <2>10. Abstract!Before(call.tx.tag) \subseteq {t.tag : t \in landed}
      BY <2>7 DEF Abstract!Before, Done
    <2>11. Abstract!Issue(call.tx.tag)
      BY <1>0, <2>4, <2>5, <2>6, <2>7, <2>9, <2>10 DEF Abstract!Issue
    <2>12. \E part \in PartsOf : Abstract!Issue(part)
      BY <2>8, <2>11 DEF Abstract!Issue
    <2>13. Abstract!Next
      BY <2>12 DEF Abstract!Next
    <2> QED BY <2>13
  <1> QED BY <1>1, <1>2, ClientSteps DEF Client, CreateAndSign

LEMMA RefineWorld ==
  ASSUME AllInv, World
  PROVE  [Abstract!Next]_Abstract!traderVars
  <1>0. /\ UNCHANGED <<mode, job, jobs, report>> /\ PartsOf' = PartsOf
    BY DEF World, PartsOf, Last
  <1>1. /\ mempool' \subseteq mempool
        /\ \/ UNCHANGED <<chainSeq, landed>>
           \/ /\ chainSeq' = chainSeq + 1
              /\ \/ landed' = landed
                 \/ landed' = landed \cup {block.tx} /\ block.tx \in Pending
    BY ChainEffects DEF World
  <1>2. CASE UNCHANGED <<chainSeq, landed>>
    <2>1. Pending' \subseteq Pending
      BY <1>1, <1>2 DEF Pending
    <2>2. CASE Pending' = Pending
      BY <1>0, <1>2, <2>2 DEF Abstract!traderVars
    <2>3. CASE Pending' = {}
      <3>1. Abstract!Lose
        BY <1>0, <1>2, <2>3 DEF Abstract!Lose
      <3> QED BY <3>1 DEF Abstract!Next
    <2> QED BY <2>1, <2>2, <2>3, PendingTags
  <1>3. CASE chainSeq' = chainSeq + 1
    <2>1. Pending' = {}
      BY <1>1, <1>3, PendingTags DEF Pending, AllInv, Base, OneSlot
    <2>2. CASE landed' = landed
      <3>1. Abstract!Lose
        BY <1>0, <2>1, <2>2 DEF Abstract!Lose
      <3> QED BY <3>1 DEF Abstract!Next
    <2>3. CASE landed' = landed \cup {block.tx} /\ block.tx \in Pending
      <3>1. Abstract!Fill(block.tx.tag)
        BY <1>0, <2>1, <2>3 DEF Abstract!Fill
      <3>2. block.tx.tag \in {t.tag : t \in Pending}
        BY <2>3
      <3>3. \E part \in {t.tag : t \in Pending} : Abstract!Fill(part)
        BY <3>1, <3>2 DEF Abstract!Fill
      <3>4. Abstract!Next
        BY <3>3 DEF Abstract!Next
      <3> QED BY <3>4
    <2> QED BY <1>1, <1>3, <2>2, <2>3, PendingTags
  <1> QED BY <1>1, <1>2, <1>3

LEMMA RefineStep == AllInv /\ [Next]_vars => [Abstract!Next]_Abstract!traderVars
  <1> SUFFICES ASSUME AllInv, [Next]_vars
               PROVE  [Abstract!Next]_Abstract!traderVars
    OBVIOUS
  <1>1. CASE Clock \/ UNCHANGED vars
    BY <1>1 DEF Clock, Tick, Abstract!traderVars, PartsOf, Last, Pending
  <1> QED BY <1>1, RefineTrade, RefineClient, RefineWorld DEF Next

(* _execute_winning_cycle with its client, its caches and a chain that     *)
(* loses, delays and reverts implements the abstract trader: one part out  *)
(* at a time, each after its predecessor and never twice, every verdict    *)
(* true.                                                                   *)
THEOREM ExecutionImplementsTrader == Spec => ImplementsTrader
  BY RefineInit, RefineStep, AllInvHolds, PTL DEF Spec, ImplementsTrader, Abstract!Spec
=============================================================================
