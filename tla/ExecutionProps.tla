--------------------------- MODULE ExecutionProps ---------------------------
(***************************************************************************)
(* What executing a candidate must and must not do.                        *)
(***************************************************************************)
EXTENDS Execution

(* Every transaction this wallet has broadcast and a node still knows of. *)
Known == mempool \cup landed \cup reverted

(* The types of all variables; in particular the offer of a leg is always  *)
(* a natural number, however oddly the balances were measured, and the leg *)
(* being executed is one of the job's cycle.                               *)
ExecTypeOK ==
  /\ mode \in [dry : BOOLEAN, atomic : BOOLEAN]
  /\ pc \in Places
  /\ job \in Job \cup {NoJob}
  /\ (job = NoJob) <=> (pc \in {"idle", "loop"})
  /\ jobs \in 0..MaxJobs
  /\ leg \in Nat \ {0}
  /\ job # NoJob => leg \in 1..Last
  /\ current \in Nat
  /\ before \in [Assets -> Int]
  /\ report \in [outcome : Outcomes, job : Nat]
  /\ quiet \in BOOLEAN

TypeOK == ChainTypeOK /\ ClientTypeOK /\ ExecTypeOK

(* The wallet never has two live transactions in the mempool: after a      *)
(* broadcast whose fate is unknown, the next one is signed with the        *)
(* committed sequence and is refused until the first is included or gone.  *)
OneTxInFlight == \A t, u \in Pending : t = u

(* No leg of a job, and no atomic job, is ever executed twice: a lost      *)
(* answer or a timeout is not followed by a second broadcast of the same   *)
(* trade (config.LCD_FALLBACK_URLS: broadcast does not fail over).         *)
NoDoubleSend == \A t, u \in landed : t.tag = u.tag => t = u

(* An execution that ends without any complaint has really moved every leg *)
(* of its cycle; whatever is stuck half way was reported as an exception   *)
(* or as missing proceeds.                                                 *)
Done(j, l) == \E t \in landed : t.tag = [job |-> j, leg |-> l]

CompletionIsReal ==
  [][(report' # report /\ report'.outcome \in {"complete", "underperformed"}) =>
       IF mode.atomic THEN Done(jobs, 0)
                      ELSE \A l \in 1..Last : Done(jobs, l)]_vars

(* Sequential legs land in order and without gaps: leg n only after every  *)
(* leg before it, so an aborted cycle is a prefix of the cycle.            *)
LegsInOrder ==
  \A t \in landed : t.tag.leg > 1 => Done(t.tag.job, t.tag.leg - 1)

(* In DRY_RUN nothing is ever signed or broadcast.                         *)
DryRunIsSilent == mode.dry => call = NoCall /\ Known = {}

(* When a job starting in LUNC is broadcast, and the balance the           *)
(* pre-broadcast check read was the committed one and nobody else moved    *)
(* the wallet since, the balance still covers the offer and the approved   *)
(* gas together.                                                           *)
Broadcasts == mempool' \ mempool # {}

CoveredBroadcast ==
  (Broadcasts /\ Start = LUNC /\ leg = 1 /\ quiet)
    => wallet[LUNC] >= job.amount + job.gas

BroadcastIsCovered == [][CoveredBroadcast]_vars

(* The offer of a later leg never exceeds what the leg before it really    *)
(* paid out, so a sequential cycle never dips into what the wallet already *)
(* held of an intermediate asset, however much the node lags that answers  *)
(* between the legs, provided the first reading was the committed balance  *)
(* and nobody else moved the wallet while the leg was being measured.  One *)
(* exception is the code's own: after a leg into LUNC a node that has not  *)
(* seen the block shows no proceeds, and the fee is added back all the     *)
(* same, so that the next offer may be as much as the fee.                 *)
LegSpendsOnlyProceeds ==
  [][(leg' = leg + 1 /\ ~mode.dry /\ quiet) =>
       current' <= proceeds \/ (LegOut = LUNC /\ current' <= call.tx.gas)]_vars

(* An atomic cycle that lands is worth what was planned, less at most the  *)
(* tolerance of its last leg and the fee; and it draws on no intermediate  *)
(* holding by more than one leg's tolerance.                               *)
AtomicLossIsBounded ==
  [][\A t \in landed' \ landed :
       (t.tag.leg = 0) =>
         LET n == Len(t.msgs)
             Change(a) == wallet'[a] - wallet[a]
                            + (IF a = LUNC THEN t.gas ELSE 0)
         IN  /\ Change(t.msgs[1].in) >= n * Gain - Tolerance
             /\ \A i \in 1..(n - 1) : Change(t.msgs[i].out) >= -Tolerance]_vars

(* A cached sequence that is not the chain's, because a broadcast ended    *)
(* badly or the account was used from elsewhere, does not stay in use for  *)
(* ever: it is corrected or its TTL runs out, however often loops use it.  *)
StaleSequenceHeals ==
  (cachedSeq # NoSeq /\ cachedSeq # chainSeq)
     ~> (cachedSeq = chainSeq \/ ~CacheFresh)

(* Whatever the chain does or fails to do, an execution that was started   *)
(* ends and the loop comes round again.                                    *)
ExecutionEnds == (pc = "reserve") ~> (pc = "idle")

-----------------------------------------------------------------------------
(* The parts of the job under way, as the abstract trader names them.      *)
PartsOf ==
  IF job = NoJob \/ mode.dry THEN {}
  ELSE IF mode.atomic THEN {[job |-> jobs, leg |-> 0]}
  ELSE {[job |-> jobs, leg |-> l] : l \in 1..Last}

Abstract == INSTANCE Trader WITH
  turn    <- jobs,
  open    <- job # NoJob,
  parts   <- PartsOf,
  owed    <- {t.tag : t \in Pending},
  filled  <- {t.tag : t \in landed},
  verdict <- report

(* Behind sequence numbers, lost answers, time-outs, evictions and traffic *)
(* from elsewhere, the bot is a trader that has one part of one order out  *)
(* at a time, issues a part only after its predecessor took effect and     *)
(* never again once it did, and whose every verdict on an order (completed,*)
(* refused, without proceeds, dry) is true of the chain when it is given.  *)
ImplementsTrader == Abstract!Spec

-----------------------------------------------------------------------------
(* What comments in the code say of it, and the code does not do. *)

(* arbitrage_bot.py, on a broadcast that raised: "No funds moved beyond    *)
(* gas for this attempt" -- the trade it reports on does not happen later. *)
FailureReportIsFinal ==
  [][\A t \in landed' \ landed :
       ~(report.outcome = "failed" /\ report.job = t.tag.job)]_vars

(* arbitrage_bot.py: amount+gross_profit is "directly comparable to        *)
(* `received`" -- a trade whose measured gain is the whole predicted       *)
(* profit, whichever node and parser answered, is not warned about.        *)
WarnsOnlyOnShortfall ==
  [][(/\ pc = "after"
      /\ mode.atomic
      /\ \A balance \in Readings, fee \in ParsedFees :
           Received(Start, balance, fee) >= GrossProfit)
       => report'.outcome # "underperformed"]_vars

-----------------------------------------------------------------------------
(* Strengthenings of the safety properties that are inductive. *)

(* Everything this wallet has waiting carries the committed sequence, and  *)
(* a signed transaction never carries a later one: CheckTx admits it only  *)
(* into an empty slot.                                                     *)
OneSlot ==
  /\ IsFiniteSet(mempool)
  /\ \A t \in mempool : t.seq <= chainSeq
  /\ OneTxInFlight
  /\ call.stage = "broadcast" => call.tx.seq <= chainSeq

(* The call under way belongs to the job and leg under way. *)
CallOfJob ==
  /\ call.stage = "none" => call = NoCall
  /\ call.stage # "none" => pc \in {"wait", "after"} /\ call.tx.tag = CallTag
  /\ call.stage \notin {"none", "ok"} => pc = "wait"
  /\ pc \notin {"idle", "loop"} => jobs >= 1
  /\ ~mode.atomic \/ leg = 1

(* Whatever was broadcast for the present job was for an earlier leg, and  *)
(* for this leg only once its call is past the broadcast.                  *)
FreshTag ==
  /\ \A t, u \in Known : t.tag = u.tag => t = u
  /\ \A t \in Known : t.tag.job \in 1..jobs
  /\ call.stage \in {"sign", "broadcast"} => \A t \in Known : t.tag # call.tx.tag
  /\ pc \in {"reserve", "before", "plan", "check", "send"} =>
       \A t \in Known : t.tag.job = jobs => ~mode.atomic /\ t.tag.leg < leg
  /\ pc \in {"wait", "after"} =>
       \A t \in Known : t.tag.job = jobs => t.tag.leg <= CallTag.leg

(* Between the hard check and the broadcast of a job's first transaction   *)
(* nothing but somebody else can lower the balance that was checked.       *)
Checked ==
  \/ pc = "send"
  \/ pc = "before" /\ ~mode.atomic
  \/ pc = "wait" /\ call.stage \in {"sign", "broadcast"}

StillCovered ==
  (Checked /\ leg = 1 /\ quiet /\ MustCover) => Required <= wallet[LUNC]

(* The legs behind the one under way have landed, and so has the call that *)
(* was confirmed; whatever is known to a node has its predecessor landed.  *)
LegsBehind ==
  (job # NoJob /\ ~mode.dry) => \A l \in 1..(leg - 1) : Done(jobs, l)

KnownInOrder ==
  \A t \in Known : t.tag.leg > 1 => Done(t.tag.job, t.tag.leg - 1)

Confirmed ==
  /\ call.stage \in {"refresh", "ok"} => call.tx \in landed
  /\ pc = "after" /\ ~mode.dry => call.stage = "ok"

FirstLeg ==
  /\ pc \in {"reserve", "plan", "check"} => leg = 1
  /\ block # NoBlock => block.tx.seq = chainSeq

InStep == LegsBehind /\ KnownInOrder /\ Confirmed /\ FirstLeg
=============================================================================
