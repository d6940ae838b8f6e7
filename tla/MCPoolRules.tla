---- MODULE MCPoolRules ----
(* A pool of two instances, made with one of two rules.                   *)
EXTENDS PoolRules
====
