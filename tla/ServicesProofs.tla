---------------------------- MODULE ServicesProofs ----------------------------
(***************************************************************************)
(* The restart wrapper paces its launches, for every limit, window and     *)
(* pause; the deadline pool recovers from any outage, for every number of  *)
(* workers and endpoints and every limit; and the three services together  *)
(* are what each of them is.                                               *)
(***************************************************************************)
EXTENDS Services, CommissionProofs

(***************************************************************************)
(* The restart wrapper.                                                    *)
(***************************************************************************)

(* What the count says of the launches: while the bot runs, each launch of *)
(* the burst stands for a counted run, and the last launch is as far back  *)
(* as the run has lasted; while the wrapper sleeps, the next launch is     *)
(* either far from the last one or the count has covered it.               *)
Paced ==
  /\ bot = "running" =>
       /\ burst <= fast /\ fast < MaxFast
       /\ since >= Least(ran, Long)
  /\ bot = "pausing" =>
       \/ since + pause >= Long
       \/ burst + 1 <= fast /\ fast < MaxFast

WrapperInv == WrapperTypeOK /\ Paced /\ BurstIsBounded

LEMMA LongIsNat == Long \in Nat /\ Least(Window, Long) + NormalDelay >= Long
<1>1. Window \in Nat /\ Backoff \in Nat /\ NormalDelay \in Nat
  BY WrapperAssumption
<1> QED BY <1>1 DEF Long, Least

LEMMA WrapperInvInit == WrapperInit => WrapperInv
<1> SUFFICES ASSUME WrapperInit PROVE WrapperInv OBVIOUS
<1>1. WrapperTypeOK
  BY LongIsNat, WrapperAssumption DEF WrapperInit, WrapperTypeOK
<1>2. Paced /\ BurstIsBounded
  BY LongIsNat, WrapperAssumption
  DEF WrapperInit, Paced, BurstIsBounded, Least
<1> QED BY <1>1, <1>2 DEF WrapperInv

LEMMA WrapperInvNext == WrapperInv /\ [WrapperNext]_wrapperVars => WrapperInv'
<1> SUFFICES ASSUME WrapperInv, [WrapperNext]_wrapperVars PROVE WrapperInv'
  OBVIOUS
<1> USE WrapperAssumption, LongIsNat
<1> USE DEF WrapperInv, WrapperTypeOK, Paced, BurstIsBounded
<1>1. CASE BotExits
  BY <1>1 DEF BotExits, CountedTo, RestartDelay, Least, Long
<1>2. CASE Launch
  BY <1>2 DEF Launch, CountAfterPause, Least
<1>3. CASE TrapAfterSleep
  BY <1>3 DEF TrapAfterSleep
<1>4. CASE Interrupt
  BY <1>4 DEF Interrupt
<1>5. CASE EditEnv
  BY <1>5 DEF EditEnv
<1>6. CASE WrapperTick
  <2>1. WrapperTypeOK'
    BY <1>6 DEF WrapperTick, Least
  <2>2. CASE bot = "running"
    BY <1>6, <2>1, <2>2 DEF WrapperTick, Least
  <2>3. CASE bot = "pausing"
    BY <1>6, <2>1, <2>3 DEF WrapperTick, Least
  <2> QED BY <1>6, <2>1, <2>2, <2>3 DEF WrapperTick
<1>7. CASE UNCHANGED wrapperVars
  BY <1>7 DEF wrapperVars
<1> QED
  BY <1>1, <1>2, <1>3, <1>4, <1>5, <1>6, <1>7 DEF WrapperNext

LEMMA WrapperInvHolds == WrapperSpec => []WrapperInv
BY WrapperInvInit, WrapperInvNext, PTL DEF WrapperSpec

(* Every variable of the wrapper keeps its type.                           *)
THEOREM WrapperTypes == WrapperSpec => []WrapperTypeOK
<1>1. WrapperInv => WrapperTypeOK BY DEF WrapperInv
<1> QED BY <1>1, WrapperInvHolds, PTL

(* run_bot.sh's rate limit holds whatever its four numbers are: fewer than *)
(* MaxFast launches in a row follow one another quickly.                   *)
THEOREM LaunchesArePaced == WrapperSpec => []BurstIsBounded
<1>1. WrapperInv => BurstIsBounded BY DEF WrapperInv
<1> QED BY <1>1, WrapperInvHolds, PTL

-----------------------------------------------------------------------------

(***************************************************************************)
(* The deadline pool.                                                      *)
(***************************************************************************)

(* A hung call was started in an outage, so none is younger than the time  *)
(* endpoints have been healthy for.                                        *)
HangsAreOld ==
  \A w \in Threads : worker[w].busy /\ worker[w].hangs => healthy <= worker[w].age

(* What the caller waits for is queued or running.                         *)
CallIsSomewhere ==
  endpoint > 0 => \/ \E i \in DOMAIN queue : queue[i]
                  \/ \E w \in Threads : worker[w].busy /\ worker[w].wanted

NotWaiting == endpoint = 0 => waited = 0

OutageIsNow == outage => healthy = 0

DeadlineInv ==
  /\ DeadlineTypeOK /\ OutageIsNow /\ HangsAreOld /\ CallIsSomewhere /\ NotWaiting
  /\ RecoversAfterOutage

(* The call that goes out next is at the end of the queue.                 *)
LEMMA AppendedIsSomewhere ==
  ASSUME NEW q \in Seq(BOOLEAN)
  PROVE  /\ Append(q, TRUE) \in Seq(BOOLEAN)
         /\ Len(Append(q, TRUE)) = Len(q) + 1
         /\ \E i \in DOMAIN Append(q, TRUE) : Append(q, TRUE)[i]
<1>1. /\ Append(q, TRUE) \in Seq(BOOLEAN)
      /\ Len(Append(q, TRUE)) = Len(q) + 1
      /\ Append(q, TRUE)[Len(q) + 1] = TRUE
  OBVIOUS
<1>2. Len(q) + 1 \in DOMAIN Append(q, TRUE)
  BY <1>1
<1> QED BY <1>1, <1>2

LEMMA AbandonKeepsLength ==
  ASSUME NEW q \in Seq(BOOLEAN)
  PROVE  Abandon(q) \in Seq(BOOLEAN) /\ Len(Abandon(q)) = Len(q)
<1>1. DOMAIN q = 1..Len(q) /\ Len(q) \in Nat
  OBVIOUS
<1>2. Abandon(q) = [i \in 1..Len(q) |-> FALSE]
  BY <1>1 DEF Abandon
<1> QED BY <1>1, <1>2

(* Taking the oldest call leaves every other where it is.                  *)
LEMMA TailKeepsRest ==
  ASSUME NEW q \in Seq(BOOLEAN), q # <<>>,
         NEW i \in DOMAIN q, q[i]
  PROVE  \/ Head(q)
         \/ \E j \in DOMAIN Tail(q) : Tail(q)[j]
<1>1. /\ DOMAIN q = 1..Len(q) /\ Len(q) \in Nat \ {0}
      /\ DOMAIN Tail(q) = 1..(Len(q) - 1)
      /\ Head(q) = q[1]
  BY SMT
<1>2. CASE i = 1
  BY <1>1, <1>2
<1>3. CASE i # 1
  <2>1. i - 1 \in 1..(Len(q) - 1)
    BY <1>1, <1>3
  <2>2. Tail(q)[i - 1] = q[(i - 1) + 1]
    BY <1>1, <2>1
  <2>3. (i - 1) + 1 = i
    BY <1>1
  <2>4. i - 1 \in DOMAIN Tail(q) /\ Tail(q)[i - 1]
    BY <1>1, <2>1, <2>2, <2>3
  <2> QED BY <2>4
<1> QED BY <1>2, <1>3

LEMMA DeadlineInvInit == DeadlineInit => DeadlineInv
<1> SUFFICES ASSUME DeadlineInit PROVE DeadlineInv OBVIOUS
<1> USE DeadlineAssumption DEF DeadlineInit
<1>1. worker \in [Threads -> Call_] /\ \A w \in Threads : ~worker[w].busy
  BY DEF Idle, Call_
<1>2. queue \in Seq(BOOLEAN) /\ Len(queue) = 0
  BY SMT
<1>3. DeadlineTypeOK
  <2>1. endpoint \in 0..Endpoints /\ waited \in 0..Limit /\ 0 <= QueueBound
    BY SMT
  <2>2. healthy \in 0..(HangLimit + 1)
    BY SMT
  <2> QED BY <1>1, <1>2, <2>1, <2>2 DEF DeadlineTypeOK
<1> QED
  BY <1>1, <1>3
  DEF DeadlineInv, HangsAreOld, CallIsSomewhere, NotWaiting, RecoversAfterOutage,
      OutageIsNow

(* A call that fails over, over calls that left room for one more.         *)
LEMMA FailOverKeeps ==
  ASSUME DeadlineTypeOK, NEW q \in Seq(BOOLEAN), Len(q) < QueueBound,
         FailOver(q)
  PROVE  /\ queue' \in Seq(BOOLEAN) /\ Len(queue') <= QueueBound
         /\ endpoint' \in 0..Endpoints
         /\ endpoint' > 0 => \E i \in DOMAIN queue' : queue'[i]
<1> USE DeadlineAssumption DEF DeadlineTypeOK
<1>1. CASE endpoint < Endpoints
  <2>1. queue' = Append(q, TRUE) /\ endpoint' = endpoint + 1
    BY <1>1 DEF FailOver
  <2>2. Len(q) \in Nat
    OBVIOUS
  <2>3. queue' \in Seq(BOOLEAN) /\ Len(queue') = Len(q) + 1 /\ \E i \in DOMAIN queue' : queue'[i]
    BY <2>1, AppendedIsSomewhere
  <2>4. Len(queue') <= QueueBound
    BY <2>2, <2>3
  <2> QED BY <1>1, <2>1, <2>3, <2>4
<1>2. CASE ~(endpoint < Endpoints)
  BY <1>2 DEF FailOver
<1> QED BY <1>1, <1>2

(* The workers once nobody waits for what they run.                        *)
AbandonedWorkers == [w \in Threads |-> [worker[w] EXCEPT !.wanted = FALSE]]

LEMMA AbandonedKeepTheirAge ==
  ASSUME DeadlineTypeOK
  PROVE  /\ AbandonedWorkers \in [Threads -> Call_]
         /\ \A w \in Threads :
              /\ AbandonedWorkers[w].busy = worker[w].busy
              /\ AbandonedWorkers[w].hangs = worker[w].hangs
              /\ AbandonedWorkers[w].age = worker[w].age
  BY DEF DeadlineTypeOK, AbandonedWorkers, Call_

LEMMA DeadlineInvNext == DeadlineInv /\ [DeadlineNext]_deadlineVars => DeadlineInv'
<1> SUFFICES ASSUME DeadlineInv, [DeadlineNext]_deadlineVars PROVE DeadlineInv'
  OBVIOUS
<1> USE DeadlineAssumption
<1> USE DEF DeadlineInv, DeadlineTypeOK, HangsAreOld, CallIsSomewhere,
            NotWaiting, RecoversAfterOutage, OutageIsNow, Call_, Idle, Busy
<1>1. CASE Call
  BY <1>1, AppendedIsSomewhere DEF Call
<1>2. ASSUME NEW w \in Threads, Start(w) PROVE DeadlineInv'
  <2>1. /\ Tail(queue) \in Seq(BOOLEAN) /\ Len(Tail(queue)) <= QueueBound
        /\ Head(queue) \in BOOLEAN
    BY <1>2 DEF Start
  <2>2. PICK h \in {FALSE, outage} :
          worker' = [worker EXCEPT ![w] = [busy |-> TRUE, wanted |-> Head(queue),
                                           hangs |-> h, age |-> 0]]
    BY <1>2 DEF Start
  <2>h. h \in BOOLEAN /\ (h => healthy = 0)
    <3>1. CASE h = FALSE
      BY <3>1
    <3>2. CASE h = outage
      BY <3>2
    <3> QED BY <3>1, <3>2
  <2>a. [busy |-> TRUE, wanted |-> Head(queue), hangs |-> h, age |-> 0] \in Call_
    BY <2>1, <2>h
  <2>3. DeadlineTypeOK'
    BY <1>2, <2>1, <2>2, <2>a DEF Start
  <2>4. HangsAreOld'
    <3>1. SUFFICES ASSUME NEW v \in Threads, worker'[v].busy, worker'[v].hangs
                   PROVE  healthy <= worker'[v].age
      BY <1>2 DEF Start
    <3>2. CASE v = w
      <4>1. worker'[w].hangs = h /\ worker'[w].age = 0
        BY <2>2
      <4> QED BY <2>h, <3>1, <3>2, <4>1
    <3>3. CASE v # w
      BY <2>2, <3>1, <3>3
    <3> QED BY <3>2, <3>3
  <2>5. CallIsSomewhere'
    <3>1. CASE \E i \in DOMAIN queue : queue[i]
      BY <1>2, <2>2, <3>1, TailKeepsRest DEF Start
    <3>2. CASE \E v \in Threads : worker[v].busy /\ worker[v].wanted
      BY <1>2, <2>2, <3>2 DEF Start
    <3> QED BY <1>2, <3>1, <3>2 DEF Start
  <2> QED BY <1>2, <2>3, <2>4, <2>5 DEF Start
<1>3. ASSUME NEW w \in Threads, Answered(w) PROVE DeadlineInv'
  BY <1>3 DEF Answered, Released
<1>4. ASSUME NEW w \in Threads, Raised(w) PROVE DeadlineInv'
  <2>1. FailOver(queue) /\ Len(queue) < QueueBound
    BY <1>4 DEF Raised
  <2>2. /\ queue' \in Seq(BOOLEAN) /\ Len(queue') <= QueueBound
        /\ endpoint' \in 0..Endpoints
        /\ endpoint' > 0 => \E i \in DOMAIN queue' : queue'[i]
    BY <2>1, FailOverKeeps
  <2>3. worker' \in [Threads -> Call_]
    BY <1>4 DEF Raised, Released
  <2>4. DeadlineTypeOK' /\ OutageIsNow'
    BY <1>4, <2>2, <2>3 DEF Raised
  <2>5. HangsAreOld'
    BY <1>4 DEF Raised, Released
  <2> QED BY <1>4, <2>2, <2>4, <2>5 DEF Raised
<1>5. ASSUME NEW w \in Threads, Dropped(w) PROVE DeadlineInv'
  BY <1>5 DEF Dropped, Released
<1>6. CASE TimesOut
  <2>1. FailOver(Abandon(queue)) /\ Abandon(queue) \in Seq(BOOLEAN)
          /\ Len(Abandon(queue)) < QueueBound
    BY <1>6, AbandonKeepsLength DEF TimesOut
  <2>2. /\ queue' \in Seq(BOOLEAN) /\ Len(queue') <= QueueBound
        /\ endpoint' \in 0..Endpoints
        /\ endpoint' > 0 => \E i \in DOMAIN queue' : queue'[i]
    BY <2>1, FailOverKeeps
  <2>3. worker' = AbandonedWorkers /\ UNCHANGED <<outage, closing, healthy>>
          /\ waited' = 0
    BY <1>6 DEF TimesOut, AbandonedWorkers
  <2>4. DeadlineTypeOK' /\ HangsAreOld' /\ OutageIsNow'
    BY <2>2, <2>3, AbandonedKeepTheirAge
  <2> QED BY <2>2, <2>3, <2>4
<1>7. CASE MainEnds
  <2>1. queue' \in Seq(BOOLEAN) /\ Len(queue') <= QueueBound
    BY <1>7, AbandonKeepsLength DEF MainEnds
  <2>2. /\ worker' = AbandonedWorkers /\ UNCHANGED <<outage, healthy>>
        /\ waited' = 0 /\ endpoint' = 0 /\ closing' = TRUE
    BY <1>7 DEF MainEnds, AbandonedWorkers
  <2>3. DeadlineTypeOK' /\ HangsAreOld' /\ OutageIsNow'
    BY <2>1, <2>2, AbandonedKeepTheirAge
  <2> QED BY <2>2, <2>3
<1>8. CASE ProcessEnds
  <2>1. UNCHANGED <<queue, worker, endpoint, waited, outage, healthy>>
          /\ closing' = FALSE
    BY <1>8 DEF ProcessEnds
  <2>2. DeadlineTypeOK' /\ HangsAreOld' /\ OutageIsNow'
    BY <2>1
  <2>3. CallIsSomewhere' /\ NotWaiting' /\ RecoversAfterOutage'
    BY <2>1
  <2> QED BY <2>2, <2>3
<1>9. CASE OutageBegins \/ OutageEnds
  <2>1. /\ UNCHANGED <<queue, worker, endpoint, waited, closing>>
        /\ outage' \in BOOLEAN /\ healthy' = 0
    BY <1>9 DEF OutageBegins, OutageEnds
  <2>2. \A w \in Threads : worker[w].busy => 0 <= worker[w].age
    OBVIOUS
  <2>3. DeadlineTypeOK' /\ HangsAreOld' /\ OutageIsNow'
    BY <2>1, <2>2
  <2>4. CallIsSomewhere' /\ NotWaiting' /\ RecoversAfterOutage'
    BY <2>1
  <2> QED BY <2>3, <2>4
<1>10. CASE DeadlineTick
  <2>a. worker' \in [Threads -> Call_]
    <3>1. \A w \in Threads : w \in Busy => worker[w].age + 1 \in 0..HangLimit
      BY <1>10 DEF DeadlineTick
    <3>2. \A w \in Busy : [worker[w] EXCEPT !.age = @ + 1] \in Call_
      BY <3>1
    <3>3. Idle \in Call_
      OBVIOUS
    <3>4. worker' = [w \in Threads |->
                       IF w \in Busy THEN [worker[w] EXCEPT !.age = @ + 1] ELSE Idle]
      BY <1>10 DEF DeadlineTick
    <3> HIDE DEF Call_, Idle, Busy
    <3> QED BY <3>2, <3>3, <3>4
  <2>b. healthy' \in 0..(HangLimit + 1)
    BY <1>10 DEF DeadlineTick
  <2>1. DeadlineTypeOK' /\ OutageIsNow'
    BY <1>10, <2>a, <2>b DEF DeadlineTick
  <2>2. HangsAreOld' /\ NotWaiting'
    BY <1>10 DEF DeadlineTick
  <2>3. CallIsSomewhere'
    BY <1>10 DEF DeadlineTick
  (* After HangLimit healthy ticks no call still hangs: nothing is running *)
  (* when time passes, so nothing is queued, so nobody waits.              *)
  <2>4. ASSUME healthy' > HangLimit PROVE waited' = 0
    <3>1. healthy >= HangLimit
      BY <1>10, <2>4 DEF DeadlineTick
    <3>2. Busy = {}
      BY <1>10, <3>1 DEF DeadlineTick
    <3>3. queue = <<>>
      BY <1>10, <3>2 DEF DeadlineTick
    <3>4. endpoint = 0
      BY <3>2, <3>3
    <3> QED BY <1>10, <3>4 DEF DeadlineTick
  <2> QED BY <2>1, <2>2, <2>3, <2>4
<1>11. CASE UNCHANGED deadlineVars
  BY <1>11 DEF deadlineVars
<1> QED
  BY <1>1, <1>2, <1>3, <1>4, <1>5, <1>6, <1>7, <1>8, <1>9, <1>10, <1>11
  DEF DeadlineNext

LEMMA DeadlineInvHolds == DeadlineSpec => []DeadlineInv
BY DeadlineInvInit, DeadlineInvNext, PTL DEF DeadlineSpec

(* Every variable of the deadline pool keeps its type.                     *)
THEOREM DeadlineTypes == DeadlineSpec => []DeadlineTypeOK
<1>1. DeadlineInv => DeadlineTypeOK BY DEF DeadlineInv
<1> QED BY <1>1, DeadlineInvHolds, PTL

(* Whatever an outage left behind, abandoned calls in every worker and a   *)
(* backlog behind them, a caller that asks healthy endpoints waits for     *)
(* nobody once they have been healthy for longer than a call can hang.     *)
THEOREM PoolRecovers == DeadlineSpec => []RecoversAfterOutage
<1>1. DeadlineInv => RecoversAfterOutage BY DEF DeadlineInv
<1> QED BY <1>1, DeadlineInvHolds, PTL

-----------------------------------------------------------------------------

(***************************************************************************)
(* The three together: each goes through the steps of its own              *)
(* specification, or stands still.                                         *)
(***************************************************************************)

LEMMA ServicesAreServices == Spec => WrapperSpec /\ CommissionSpec /\ DeadlineSpec
<1>1. Init => WrapperInit /\ CommissionInit /\ DeadlineInit
  BY DEF Init
<1>2. [Next]_serviceVars
        => /\ [WrapperNext]_wrapperVars /\ [CommissionNext]_commissionVars
           /\ [DeadlineNext]_deadlineVars
  BY DEF Next, WrapperStep, CommissionStep, DeadlineStep, Returned, serviceVars
<1> QED BY <1>1, <1>2, PTL DEF Spec, WrapperSpec, CommissionSpec, DeadlineSpec

(* Every variable of the wrapper, the refresh loop and the deadline pool   *)
(* keeps its type, for all constants.                                      *)
THEOREM ServicesTypes == Spec => []TypeOK
<1>1. WrapperTypeOK /\ CommissionTypeOK /\ DeadlineTypeOK => TypeOK
  BY DEF TypeOK
<1> QED
  BY <1>1, ServicesAreServices, WrapperTypes, CommissionTypes, DeadlineTypes, PTL
=============================================================================
