------------------------------ MODULE MCRouting -------------------------------
(***************************************************************************)
(* Every registry of three models over all four tiers; priorities and the  *)
(* two ways of being unusable vary for the first two of them.              *)
(***************************************************************************)
EXTENDS Routing

Plain == [registered : {TRUE}, tier : Tiers, priority : {1},
          enabled : {TRUE}, capable : {TRUE}]

Any == [registered : BOOLEAN, tier : Tiers, priority : {1},
        enabled : BOOLEAN, capable : BOOLEAN]

Ranked == [registered : {TRUE}, tier : Tiers, priority : {0, 1},
           enabled : {TRUE}, capable : {TRUE}]

AllRegistries ==
  {r \in [Models -> Plain \cup Any \cup Ranked] :
     r[1] \in Any /\ r[2] \in Ranked /\ r[3] \in Plain}
=============================================================================
