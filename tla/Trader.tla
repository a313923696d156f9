------------------------------- MODULE Trader -------------------------------
(***************************************************************************)
(* What _execute_winning_cycle promises about the wallet, without clients, *)
(* sequence numbers or blocks.  A candidate is accepted as an order: no    *)
(* part (a dry run), one (an atomic cycle), or one for each leg.  Parts are*)
(* issued one at a time, each once its predecessor has been filled, and an *)
(* issued part is filled or lost at a time nobody chooses, even after the  *)
(* order has been settled.  What the order is settled as says something    *)
(* true of its parts.                                                      *)
(***************************************************************************)
EXTENDS Integers

VARIABLES
  turn,     \* how many orders have been accepted
  open,     \* an order is being worked on
  parts,    \* its parts, [job, leg]
  owed,     \* parts issued and neither filled nor lost: at most one
  filled,   \* every part that has taken effect
  verdict   \* how the last order was settled

traderVars == <<turn, open, parts, owed, filled, verdict>>

(* The part that has to be filled before this one, if there is one.        *)
Before(t) == IF t.leg > 1 THEN {[job |-> t.job, leg |-> t.leg - 1]} ELSE {}

IsOrder(s, n) == \A t \in s : t.job = n /\ Before(t) \subseteq s

Init ==
  /\ turn = 0
  /\ open = FALSE
  /\ parts = {} /\ owed = {} /\ filled = {}
  /\ verdict = [outcome |-> "none", job |-> 0]

Accept ==
  /\ ~open /\ open' = TRUE
  /\ turn' = turn + 1
  /\ IsOrder(parts', turn')
  /\ UNCHANGED <<owed, filled, verdict>>

Issue(t) ==
  /\ open
  /\ owed = {} /\ t \notin filled
  /\ Before(t) \subseteq filled
  /\ owed' = {t}
  /\ UNCHANGED <<turn, open, parts, filled, verdict>>

Fill(t) ==
  /\ owed' = {}
  /\ filled' = filled \cup {t}
  /\ UNCHANGED <<turn, open, parts, verdict>>

Lose ==
  /\ owed' = {}
  /\ UNCHANGED <<turn, open, parts, filled, verdict>>

(* What each verdict says.  "failed" and "raised" admit to knowing nothing.*)
Supports(outcome) ==
  CASE outcome = "dry"     -> parts = {}
    [] outcome = "refused" -> parts \cap (owed \cup filled) = {}
    [] outcome = "noproceeds" -> parts \cap filled # {}
    [] outcome \in {"complete", "underperformed"} ->
         parts # {} /\ parts \subseteq filled
    [] OTHER -> outcome \in {"failed", "raised"}

Settle ==
  /\ open /\ open' = FALSE
  /\ parts' = {}
  /\ verdict'.job = turn
  /\ Supports(verdict'.outcome)
  /\ UNCHANGED <<turn, owed, filled>>

Next ==
  \/ Accept
  \/ \E t \in parts : Issue(t)
  \/ \E t \in owed : Fill(t)
  \/ Lose
  \/ Settle

Spec == Init /\ [][Next]_traderVars
=============================================================================
