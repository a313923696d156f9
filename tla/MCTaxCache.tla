----------------------------- MODULE MCTaxCache -----------------------------
(* A small instance: one denom whose zero cap is confirmed and one whose   *)
(* zero cap is not.  Governance starts from one rate, and from no cap on   *)
(* the first; its vote, and whether the endpoint works, are left open.     *)
EXTENDS TaxCache

CONSTANTS ULuna, UsdcAxl

MCInit ==
  /\ Init
  /\ truth[RateKey] = 1
  /\ truth[UsdcAxl] = 0

MCSpec == MCInit /\ [][Next]_vars /\ WF_vars(Calculate) /\ WF_vars(Tick)
=============================================================================
