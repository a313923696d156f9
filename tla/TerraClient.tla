---------------------------- MODULE TerraClient ----------------------------
(***************************************************************************)
(* terra_client.TerraClient: signing, broadcasting and confirming one      *)
(* transaction, and the (account_number, sequence) pair that is cached     *)
(* across loops and handed to simulate_fee.                                *)
(*                                                                         *)
(* sign_and_broadcast runs in the bot's only trading thread, so at most    *)
(* one call is under way; its progress is the variable call.  Signing,     *)
(* broadcasting and polling are separate steps because the chain moves     *)
(* between them.                                                           *)
(***************************************************************************)
EXTENDS Chain

CONSTANTS
  Fees,         \* the fees create_and_sign_tx may estimate
  CacheTTL,     \* _ACCOUNT_CACHE_TTL_SECONDS, in ticks of the clock
  NoSeq         \* no sequence: nothing cached, or the fetch failed

ASSUME ClientAssumption ==
  /\ Fees \subseteq Nat
  /\ CacheTTL \in Nat \ {0}
  /\ NoSeq \notin Nat

VARIABLES
  call,         \* the sign_and_broadcast call under way
  cachedSeq,    \* _cached_sequence
  cacheAge,     \* now - _account_cache_ts, counted up to CacheTTL
  served        \* what get_account_number_and_sequence gave this loop

clientVars == <<call, cachedSeq, cacheAge, served>>

CallStages == {"none", "sign", "broadcast", "wait", "refresh", "ok", "raised"}
NoTx   == [seq |-> 0, gas |-> 0, msgs |-> <<>>, tag |-> [job |-> 0, leg |-> 0]]
NoCall == [stage |-> "none", tx |-> NoTx]

Goto(stage) == call' = [call EXCEPT !.stage = stage]

StartCall(msgs, tag) ==
  call' = [stage |-> "sign", tx |-> [NoTx EXCEPT !.msgs = msgs, !.tag = tag]]

-----------------------------------------------------------------------------
(* get_account_number_and_sequence *)

CacheFresh == cachedSeq # NoSeq /\ cacheAge < CacheTTL

(* The node that answers may lag one block behind, like any other query.   *)
SeqReadings == {chainSeq} \cup (IF chainSeq > 0 THEN {chainSeq - 1} ELSE {})

FetchAccount ==
  /\ cachedSeq' \in SeqReadings
  /\ cacheAge' = 0

KeepAccount == UNCHANGED <<cachedSeq, cacheAge>>

(* Mutant: every use of the cached pair renews its lease. *)
RenewOnHit == cachedSeq' = cachedSeq /\ cacheAge' = 0

CacheHit == KeepAccount

(* The once-per-loop call of run_once: a fresh cache answers, otherwise    *)
(* the chain does, and a failed fetch hands out None.                      *)
GetAccount ==
  \/ /\ CacheFresh
     /\ served' = cachedSeq
     /\ CacheHit
  \/ /\ ~CacheFresh
     /\ FetchAccount
     /\ served' = cachedSeq'
  \/ /\ ~CacheFresh
     /\ served' = NoSeq
     /\ KeepAccount

(* simulate_fee signs locally with the served sequence and asks a node for *)
(* the gas; the node checks the sequence against its own pending state.    *)
(* Any endpoint may answer: the primary has seen what this wallet has in   *)
(* the mempool, a fallback may not have.  With None served the SDK looks   *)
(* the committed sequence up itself.                                       *)
SimulateSucceeds ==
  (IF served = NoSeq THEN chainSeq ELSE served) \in {chainSeq, CheckSeq}

-----------------------------------------------------------------------------
(* sign_and_broadcast *)

(* Mutants.  A locally advanced sequence instead of the committed one, and *)
(* a broadcast that is signed again when the node's answer is lost.        *)
BumpedSeq   == CheckSeq
RetryStage  == "sign"

SignSeq == chainSeq

(* create_and_sign_tx looks the account up on the primary and estimates    *)
(* the fee of exactly these messages.                                      *)
CreateAndSign ==
  /\ call.stage = "sign"
  /\ \E gas \in Fees :
       call' = [stage |-> "broadcast",
                tx |-> [call.tx EXCEPT !.seq = SignSeq, !.gas = gas]]
  /\ UNCHANGED <<chainVars, cachedSeq, cacheAge, served>>

SignRaises ==
  /\ call.stage = "sign"
  /\ Goto("raised")
  /\ UNCHANGED <<chainVars, cachedSeq, cacheAge, served>>

CheckTxAdmits(t) == t.seq = CheckSeq /\ wallet[LUNC] >= t.gas

Enqueue(t) ==
  /\ mempool' = mempool \cup {t}
  /\ UNCHANGED <<wallet, lagging, chainSeq, block, landed, reverted, proceeds,
                 outside>>

(* broadcast_sync answers code 0: the transaction is in the mempool. *)
BroadcastAccepted ==
  /\ call.stage = "broadcast"
  /\ CheckTxAdmits(call.tx)
  /\ Enqueue(call.tx)
  /\ Goto("wait")
  /\ UNCHANGED <<cachedSeq, cacheAge, served>>

(* A nonzero CheckTx code: nothing entered the mempool. *)
BroadcastRejected ==
  /\ call.stage = "broadcast"
  /\ ~CheckTxAdmits(call.tx)
  /\ Goto("raised")
  /\ UNCHANGED <<chainVars, cachedSeq, cacheAge, served>>

(* What follows when the connection breaks: there is no second broadcast. *)
LostAnswerStage == "raised"

(* The connection to the node breaks before its answer arrives.  Whether   *)
(* the transaction got through first is not known to the client.           *)
BroadcastConnectionLost ==
  /\ call.stage = "broadcast"
  /\ \/ CheckTxAdmits(call.tx) /\ Enqueue(call.tx)
     \/ UNCHANGED chainVars
  /\ Goto(LostAnswerStage)
  /\ UNCHANGED <<cachedSeq, cacheAge, served>>

(* _wait_for_tx: some node reports the transaction included. *)
ConfirmSuccess ==
  /\ call.stage = "wait"
  /\ call.tx \in landed
  /\ Goto("refresh")
  /\ UNCHANGED <<chainVars, cachedSeq, cacheAge, served>>

ConfirmFailure ==
  /\ call.stage = "wait"
  /\ call.tx \in reverted
  /\ Goto("raised")
  /\ UNCHANGED <<chainVars, cachedSeq, cacheAge, served>>

(* Mutants: polling has no last attempt; running out of attempts returns   *)
(* instead of raising.                                                     *)
PollForever   == call.stage = "wait" /\ UNCHANGED <<chainVars, clientVars>>
AssumeSuccess == "refresh"

NotFoundStage == "raised"

(* max_attempts polls found no node that answers with the transaction; it  *)
(* may be pending, dropped, or included already.                           *)
GiveUpWaiting ==
  /\ call.stage = "wait"
  /\ Goto(NotFoundStage)
  /\ UNCHANGED <<chainVars, cachedSeq, cacheAge, served>>

(* After a confirmed success the account is fetched again; a failure of    *)
(* that fetch is only logged.                                              *)
RefreshAccount ==
  /\ call.stage = "refresh"
  /\ FetchAccount \/ KeepAccount
  /\ Goto("ok")
  /\ UNCHANGED <<chainVars, served>>

(* Time passes for the cache; its age saturates once it has expired. *)
Tick ==
  /\ cachedSeq # NoSeq
  /\ cacheAge < CacheTTL
  /\ cacheAge' = cacheAge + 1
  /\ UNCHANGED <<chainVars, call, cachedSeq, served>>

(* The types of the client's variables. *)
ClientTypeOK ==
  /\ call \in [stage : CallStages, tx : Tx]
  /\ cachedSeq \in Nat \cup {NoSeq}
  /\ cacheAge \in 0..CacheTTL
  /\ served \in Nat \cup {NoSeq}

SignAndBroadcast ==
  \/ CreateAndSign \/ SignRaises
  \/ BroadcastAccepted \/ BroadcastRejected \/ BroadcastConnectionLost
  \/ ConfirmSuccess \/ ConfirmFailure \/ GiveUpWaiting
  \/ RefreshAccount
=============================================================================
