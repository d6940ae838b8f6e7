---------------------------- MODULE MCConcBlock ----------------------------
(***************************************************************************)
(* Instances of ConcBlock.  Two statements meet at a target of every kind: *)
(*   conc { x += 1  x += 2  y() }             x is a variable of the rule, *)
(*                                   y a function the embedder adds or not *)
(*   conc { s.b += 1  s.b = 2  p = 3 }        s.b a field of a registered  *)
(*                                        struct, p a registered pointer   *)
(*   conc { p = 3  y = 4  y += 1 }            y a variable or, once added, *)
(*                                                  a registered pointer   *)
(***************************************************************************)
EXTENDS ConcBlock

Statement(kind, name, n) == [kind |-> kind, name |-> name, n |-> n]

BlockVars  == <<Statement("+=", "x", 1), Statement("+=", "x", 2), Statement("call", "y", 1)>>
BlockField == <<Statement("+=", "s", 1), Statement("=", "s", 2), Statement("=", "p", 3)>>
BlockAdded == <<Statement("=", "p", 3), Statement("=", "y", 4), Statement("+=", "y", 1)>>
MCBlocks == {BlockVars, BlockField, BlockAdded}
============================================================================
