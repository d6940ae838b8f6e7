---- MODULE MCGenginePool ----
(* Instances of GenginePool for TLC: one regular and one additional        *)
(* instance, and more calls than instances.                                *)
EXTENDS GenginePool, TLC

CONSTANTS r1, r2, r3

(* The calls are interchangeable: nothing in the pool orders them. *)
CallSymmetry == Permutations(Requests)
====
