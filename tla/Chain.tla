------------------------------- MODULE Chain -------------------------------
(***************************************************************************)
(* The wallet's view of the Terra Classic chain.  The chain is not part of *)
(* this repository: it is modelled from the way terra_client.py and        *)
(* executor.py use it.  A transaction is a list of swap messages carrying  *)
(* one account sequence number.  CheckTx admits it to the mempool, a block *)
(* executes its messages one after another on a scratch copy of the        *)
(* balances, and either every message takes effect or only the fee does.   *)
(*                                                                         *)
(* Prices are abstracted to a premium: a pool pays the offer plus Gain     *)
(* when nothing moved, and up to MaxDrift less when somebody traded first. *)
(***************************************************************************)
EXTENDS Integers, Sequences, FiniteSets

CONSTANTS
  Assets,       \* the assets the wallet can hold
  LUNC,         \* the asset gas is paid in
  Gain,         \* what a swap pays over its offer at the planned price
  MaxDrift,     \* the most a pool's payout can fall short of the plan
  MaxOutside,   \* bound: transactions sent from the same account elsewhere
  NoBlock       \* no transaction is being executed

ASSUME ChainAssumption ==
  /\ LUNC \in Assets
  /\ Gain \in Nat
  /\ MaxDrift \in Nat
  /\ MaxOutside \in Nat

VARIABLES
  wallet,       \* committed balances
  lagging,      \* balances one commit ago: what a lagging node still answers
  chainSeq,     \* the account's committed sequence number
  mempool,      \* transactions CheckTx admitted and no block included yet
  block,        \* the transaction being executed on a scratch copy, if any
  landed,       \* transactions included with every message applied
  reverted,     \* transactions included with only their fee taken
  proceeds,     \* history: what the last swap of the last landed tx paid out
  outside       \* how many transactions were sent from elsewhere

chainVars == <<wallet, lagging, chainSeq, mempool, block, landed, reverted,
               proceeds, outside>>

Message == [in : Assets, out : Assets, offer : Nat, min : Nat]
Tag     == [job : Nat, leg : Nat]
Tx      == [seq : Nat, gas : Nat, msgs : Seq(Message), tag : Tag]
Block   == [tx : Tx, next : Nat \ {0}, paid : Nat, bal : [Assets -> Int]]

ASSUME NoBlockAssumption == NoBlock \notin Block

(* A transaction whose sequence has already been consumed can never be     *)
(* included; the others are what the mempool really holds.                 *)
Pending == {t \in mempool : t.seq >= chainSeq}

(* The sequence CheckTx expects next: the committed one, advanced by what  *)
(* is already waiting in the mempool.                                      *)
CheckSeq == chainSeq + Cardinality(Pending)

Commit(bal) ==
  /\ wallet' = bal
  /\ lagging' = wallet
  /\ chainSeq' = chainSeq + 1
  /\ block' = NoBlock

ChargeFee(gas) == [wallet EXCEPT ![LUNC] = @ - gas]

-----------------------------------------------------------------------------
(* A block picks up the next transaction in sequence and takes its fee. *)
BeginTx(t) ==
  /\ block = NoBlock
  /\ t.seq = chainSeq
  /\ wallet[LUNC] >= t.gas
  /\ block' = [tx |-> t, next |-> 1, paid |-> 0, bal |-> ChargeFee(t.gas)]
  /\ UNCHANGED <<wallet, lagging, chainSeq, mempool, landed, reverted, proceeds,
                 outside>>

(* The message's offer is there and the pool pays at least what the        *)
(* message demands: the swap takes effect on the scratch balances.         *)
RunMessage ==
  /\ block # NoBlock
  /\ block.next <= Len(block.tx.msgs)
  /\ LET m == block.tx.msgs[block.next] IN
       /\ block.bal[m.in] >= m.offer
       /\ \E drift \in 0..MaxDrift :
            LET paid == m.offer + Gain - drift IN
              /\ paid >= m.min
              /\ block' = [tx |-> block.tx, next |-> block.next + 1, paid |-> paid,
                           bal |-> [block.bal EXCEPT ![m.in] = @ - m.offer,
                                                     ![m.out] = @ + paid]]
  /\ UNCHANGED <<wallet, lagging, chainSeq, mempool, landed, reverted, proceeds,
                 outside>>

(* The offer is not covered, the pool moved past the message's limit, or   *)
(* the message fails for a reason of its own: only the fee is kept.        *)
RevertTx ==
  /\ block # NoBlock
  /\ block.next <= Len(block.tx.msgs)
  /\ Commit(ChargeFee(block.tx.gas))
  /\ mempool' = mempool \ {block.tx}
  /\ reverted' = reverted \cup {block.tx}
  /\ UNCHANGED <<landed, proceeds, outside>>

CommitTx ==
  /\ block # NoBlock
  /\ block.next > Len(block.tx.msgs)
  /\ Commit(block.bal)
  /\ mempool' = mempool \ {block.tx}
  /\ landed' = landed \cup {block.tx}
  /\ proceeds' = block.paid
  /\ UNCHANGED <<reverted, outside>>

(* A node drops the transaction: evicted, or its sequence already used. *)
EvictTx(t) ==
  /\ block = NoBlock
  /\ mempool' = mempool \ {t}
  /\ UNCHANGED <<wallet, lagging, chainSeq, block, landed, reverted, proceeds,
                 outside>>

(* The same account signs from somewhere else: the operator moves a unit   *)
(* of some asset out of the wallet, and a sequence number is consumed.     *)
OutsideTx(a) ==
  /\ block = NoBlock
  /\ outside < MaxOutside
  /\ wallet[a] > 0
  /\ Commit([wallet EXCEPT ![a] = @ - 1])
  /\ outside' = outside + 1
  /\ UNCHANGED <<mempool, landed, reverted, proceeds>>

(* The types of the chain's variables; the transaction under execution is  *)
(* one the mempool still holds.                                            *)
ChainTypeOK ==
  /\ wallet \in [Assets -> Int]
  /\ lagging \in [Assets -> Int]
  /\ chainSeq \in Nat
  /\ mempool \subseteq Tx
  /\ block \in Block \cup {NoBlock}
  /\ block # NoBlock => block.tx \in mempool
  /\ landed \subseteq Tx
  /\ reverted \subseteq Tx
  /\ proceeds \in Nat
  /\ outside \in 0..MaxOutside

ChainNext ==
  \/ \E t \in mempool : BeginTx(t) \/ EvictTx(t)
  \/ RunMessage
  \/ RevertTx
  \/ CommitTx
  \/ \E a \in Assets : OutsideTx(a)
=============================================================================
