---- MODULE MCRuleReaders ----
(* Two rule names that may be exchanged for one another.                  *)
EXTENDS RuleReaders

CONSTANTS n1, n2
MCNames == {n1, n2}
NameSymmetry == Permutations(MCNames)

(* The capacity doubles: the least power of two that is enough *)
MCGrownTo ==
  [n \in 0 .. Cardinality(MCNames) |->
     IF n = 0 THEN 0 ELSE CHOOSE c \in {2 ^ k : k \in 0 .. n} : c >= n /\ c < 2 * n]
====
