---- MODULE MCRuleBuilder ----
(* Rule names for TLC that may be exchanged for one another.              *)
EXTENDS RuleBuilder

CONSTANTS n1, n2, n3
MCNames == {n1, n2, n3}
NameSymmetry == Permutations(MCNames)

(* The capacity doubles: the least power of two that is enough *)
MCGrownTo ==
  [n \in 0 .. Cardinality(MCNames) |->
     IF n = 0 THEN 0 ELSE CHOOSE c \in {2 ^ k : k \in 0 .. n} : c >= n /\ c < 2 * n]
====
