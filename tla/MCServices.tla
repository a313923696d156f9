----------------------------- MODULE MCServices -----------------------------
(***************************************************************************)
(* Small constants for the three services; a component that takes no step  *)
(* starts in one state only.                                               *)
(***************************************************************************)
EXTENDS Services, TLC

CONSTANTS Mnemonic, PoolOne, PoolTwo, X, Y, P1, P2, P3, G

Env(m, a, b) == (Mnemonic :> m @@ PoolOne :> a @@ PoolTwo :> b)
MCEnvs == {Env(X, X, Y), Env(Empty, X, Y), Env(X, X, X), Env(X, Empty, Empty)}
MCPoolList == <<P1, P2, G, P3>>
MCMisreads == {[fee |-> 2, raw |-> 10000], [fee |-> 1, raw |-> 2],
               [fee |-> 0, raw |-> 1], [fee |-> 0, raw |-> 0],
               [fee |-> 90, raw |-> 10000], [fee |-> 200, raw |-> 10000]}

MCInit ==
  /\ Init
  /\ component # "wrapper" => env = Env(X, X, Y)
  /\ component # "commission" => charged = 30
  /\ component # "deadline" => ~outage

MCSpec == MCInit /\ [][Next]_serviceVars
=============================================================================
