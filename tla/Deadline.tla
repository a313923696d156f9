------------------------------ MODULE Deadline ------------------------------
(***************************************************************************)
(* terra_client._call_with_deadline: SDK calls run in a pool of worker     *)
(* threads, and the main thread, their only caller, waits for an answer no *)
(* longer than a deadline.  A call given up on keeps its place, in the     *)
(* queue or in its worker, until it has run to its own end; a failed or    *)
(* late one sends the caller to the next endpoint.  When the main thread   *)
(* ends, the interpreter waits for what is still queued or running.        *)
(*                                                                         *)
(* Time is counted in ticks.  An endpoint answers at once unless there is  *)
(* an outage; a call started in one may take up to HangLimit ticks.        *)
(***************************************************************************)
EXTENDS Integers, Sequences

CONSTANTS
  Threads,     \* the workers of _deadline_executor
  Limit,       \* SIMULATE_FEE_TIMEOUT_SECONDS
  HangLimit,   \* the SDK's own time-out (aiohttp's five minutes)
  Endpoints,   \* how many LCD_URLS there are
  QueueBound   \* bound: calls that wait for a worker

ASSUME DeadlineAssumption ==
  /\ Threads # {}
  /\ Limit \in Nat \ {0}
  /\ HangLimit \in Nat
  /\ Endpoints \in Nat \ {0}
  /\ QueueBound \in Nat \ {0}

VARIABLES
  queue,     \* calls no worker has taken: TRUE if the caller waits for it
  worker,    \* what each thread runs
  endpoint,  \* the endpoint the caller is at, 0 when it is not calling
  waited,    \* ticks the caller has waited for this call
  outage,    \* endpoints may hang
  closing,   \* the main thread has ended
  healthy    \* history: ticks since the last outage, up to HangLimit + 1

deadlineVars == <<queue, worker, endpoint, waited, outage, closing, healthy>>

Idle == [busy |-> FALSE, wanted |-> FALSE, hangs |-> FALSE, age |-> 0]

Busy == {w \in Threads : worker[w].busy}

DeadlineInit ==
  /\ queue = <<>>
  /\ worker = [w \in Threads |-> Idle]
  /\ endpoint = 0 /\ waited = 0
  /\ outage \in BOOLEAN
  /\ healthy = IF outage THEN 0 ELSE HangLimit + 1
  /\ closing = FALSE

(* simulate_fee or _wait_for_tx: one call at a time, from endpoint 1 on.   *)
Call ==
  /\ endpoint = 0 /\ ~closing
  /\ Len(queue) < QueueBound
  /\ endpoint' = 1 /\ waited' = 0
  /\ queue' = Append(queue, TRUE)
  /\ UNCHANGED <<worker, outage, closing, healthy>>

(* A free worker takes the oldest call.                                    *)
Start(w) ==
  /\ ~worker[w].busy /\ queue # <<>>
  /\ queue' = Tail(queue)
  /\ \E h \in {FALSE, outage} :
       worker' = [worker EXCEPT ![w] = [busy |-> TRUE, wanted |-> Head(queue),
                                        hangs |-> h, age |-> 0]]
  /\ UNCHANGED <<endpoint, waited, outage, closing, healthy>>

Released(w) == [worker EXCEPT ![w] = Idle]

(* The call on to the next endpoint, over the calls q, if there is one     *)
(* left: the fail-over loop of both callers.                               *)
FailOver(q) ==
  IF endpoint < Endpoints
  THEN /\ endpoint' = endpoint + 1
       /\ queue' = Append(q, TRUE)
  ELSE endpoint' = 0 /\ queue' = q

Answered(w) ==
  /\ worker[w].busy /\ worker[w].wanted
  /\ worker' = Released(w)
  /\ waited' = 0 /\ endpoint' = 0
  /\ UNCHANGED <<queue, outage, closing, healthy>>

Raised(w) ==
  /\ worker[w].busy /\ worker[w].wanted
  /\ Len(queue) < QueueBound
  /\ worker' = Released(w)
  /\ waited' = 0 /\ FailOver(queue)
  /\ UNCHANGED <<outage, closing, healthy>>

RetriedInBackground(w) ==
  /\ worker[w].busy /\ ~worker[w].wanted
  /\ worker' = [worker EXCEPT ![w].age = 0]
  /\ UNCHANGED <<queue, endpoint, waited, outage, closing, healthy>>

(* An abandoned call comes to its end: nobody reads what it returns.       *)
Dropped(w) ==
  /\ worker[w].busy /\ ~worker[w].wanted
  /\ worker' = Released(w)
  /\ UNCHANGED <<queue, endpoint, waited, outage, closing, healthy>>

Abandon(q) == [i \in DOMAIN q |-> FALSE]

(* future.result raises TimeoutError; the call itself goes on.             *)
TimesOut ==
  /\ endpoint > 0 /\ waited = Limit
  /\ Len(queue) < QueueBound
  /\ worker' = [w \in Threads |-> [worker[w] EXCEPT !.wanted = FALSE]]
  /\ waited' = 0 /\ FailOver(Abandon(queue))
  /\ UNCHANGED <<outage, closing, healthy>>

(* Ctrl+C or an error outside run_once: no more calls, nobody waits.       *)
MainEnds ==
  /\ ~closing
  /\ closing' = TRUE /\ endpoint' = 0 /\ waited' = 0
  /\ queue' = Abandon(queue)
  /\ worker' = [w \in Threads |-> [worker[w] EXCEPT !.wanted = FALSE]]
  /\ UNCHANGED <<outage, healthy>>

(* The executor's threads are joined at exit; then the wrapper relaunches. *)
ProcessEnds ==
  /\ closing /\ queue = <<>> /\ Busy = {}
  /\ closing' = FALSE
  /\ UNCHANGED <<queue, worker, endpoint, waited, outage, healthy>>

OutageBegins ==
  /\ ~outage
  /\ outage' = TRUE /\ healthy' = 0
  /\ UNCHANGED <<queue, worker, endpoint, waited, closing>>

OutageEnds ==
  /\ outage
  /\ outage' = FALSE /\ healthy' = 0
  /\ UNCHANGED <<queue, worker, endpoint, waited, closing>>

(* Free workers start at once, a healthy call ends within the tick, a hung *)
(* one at its limit, and the caller wakes at its deadline.                 *)
DeadlineTick ==
  /\ queue # <<>> => Busy = Threads
  /\ \A w \in Busy : worker[w].hangs /\ worker[w].age < HangLimit
  /\ endpoint > 0 => waited < Limit
  /\ worker' = [w \in Threads |->
                 IF w \in Busy THEN [worker[w] EXCEPT !.age = @ + 1] ELSE Idle]
  /\ waited' = IF endpoint > 0 THEN waited + 1 ELSE 0
  /\ healthy' = IF outage THEN 0
                ELSE IF healthy <= HangLimit THEN healthy + 1 ELSE healthy
  /\ UNCHANGED <<queue, endpoint, outage, closing>>

DeadlineNext ==
  \/ \E w \in Threads : Start(w) \/ Answered(w) \/ Raised(w) \/ Dropped(w)
  \/ Call \/ TimesOut \/ MainEnds \/ ProcessEnds
  \/ OutageBegins \/ OutageEnds \/ DeadlineTick

DeadlineSpec == DeadlineInit /\ [][DeadlineNext]_deadlineVars

-----------------------------------------------------------------------------

Call_ == [busy : BOOLEAN, wanted : BOOLEAN, hangs : BOOLEAN, age : 0..HangLimit]

DeadlineTypeOK ==
  /\ queue \in Seq(BOOLEAN) /\ Len(queue) <= QueueBound
  /\ worker \in [Threads -> Call_]
  /\ endpoint \in 0..Endpoints
  /\ waited \in 0..Limit
  /\ outage \in BOOLEAN /\ closing \in BOOLEAN
  /\ healthy \in 0..(HangLimit + 1)

(* Calls given up on hold the workers, and the backlog of those that never *)
(* started has no limit of its own ("the small shared pool below caps how  *)
(* many such orphaned calls can pile up" is true of the running ones): a   *)
(* healthy endpoint can be timed out without being asked.  That ends: once *)
(* endpoints have been healthy for longer than a hung call can last, no    *)
(* caller waits for an answer, however long the outage was.                *)
RecoversAfterOutage == healthy > HangLimit => waited = 0
=============================================================================
