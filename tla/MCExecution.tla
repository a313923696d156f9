---------------------------- MODULE MCExecution ----------------------------
(* A small instance: two cycles over LUNC and two tokens, one of them      *)
(* through a Garuda pool, one starting in LUNC and one not.                *)
EXTENDS ExecutionProps, TLC

CONSTANTS A, B

MCCycles  == {<<LUNC, A, LUNC>>, <<A, LUNC, B, A>>}
MCGaruda  == {<<B, A>>}
MCWallets == {(LUNC :> 6 @@ A :> 1 @@ B :> 0), (LUNC :> 3 @@ A :> 4 @@ B :> 0)}
MCScarce  == {(LUNC :> 4 @@ A :> 1 @@ B :> 0), (LUNC :> 3 @@ A :> 4 @@ B :> 0)}
MCLean    == {(LUNC :> 4 @@ A :> 0 @@ B :> 0), (LUNC :> 3 @@ A :> 4 @@ B :> 0)}

(* Once the account has been used from elsewhere, estimates keep to the    *)
(* lower fee, and it is not used from elsewhere while the higher one is in *)
(* play: a bound on the states, which leaves every step of the bot's own   *)
(* code an alternative.                                                    *)
OneSurprise == outside > 0 => (job = NoJob \/ job.gas = 1) /\ call.tx.gas <= 1

MCNext == Next /\ OneSurprise'

MCFairSpec ==
  Init /\ [][MCNext]_vars /\ WF_vars(Trade) /\ WF_vars(Client) /\ WF_vars(Clock)
=============================================================================
