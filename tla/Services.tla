------------------------------ MODULE Services ------------------------------
(***************************************************************************)
(* The restart wrapper, the commission refresh and the deadline pool.      *)
(* They share no variable (Restart and ProcessEnds leave open when the     *)
(* process ends), so each property below speaks of one of them and         *)
(* interleaving them would only multiply their states: a behaviour takes   *)
(* the steps of one.                                                       *)
(***************************************************************************)
EXTENDS Wrapper, Commission, Deadline

VARIABLE component

serviceVars == <<wrapperVars, commissionVars, deadlineVars, component>>

Init ==
  /\ WrapperInit /\ CommissionInit /\ DeadlineInit
  /\ component \in {"wrapper", "commission", "deadline"}

WrapperStep ==
  /\ component = "wrapper" /\ WrapperNext
  /\ UNCHANGED <<commissionVars, deadlineVars, component>>

(* The wrapper has returned to its shell.                                  *)
Returned == component = "wrapper" /\ bot = "stopped" /\ UNCHANGED serviceVars

CommissionStep ==
  /\ component = "commission" /\ CommissionNext
  /\ UNCHANGED <<wrapperVars, deadlineVars, component>>

DeadlineStep ==
  /\ component = "deadline" /\ DeadlineNext
  /\ UNCHANGED <<wrapperVars, commissionVars, component>>

Next == WrapperStep \/ Returned \/ CommissionStep \/ DeadlineStep

Spec == Init /\ [][Next]_serviceVars

(* Every variable of the three keeps its type.                             *)
TypeOK == WrapperTypeOK /\ CommissionTypeOK /\ DeadlineTypeOK
=============================================================================
