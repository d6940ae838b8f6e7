--------------------------- MODULE MCInterpreter ---------------------------
(* Rules with every statement kind, loops nested in loops and in branches.  *)
EXTENDS Interpreter

Block(l, r) == [list |-> l, ret |-> r]
Leaf(k) == [kind |-> k]
If(t, es, h, e) == [kind |-> "if", then |-> t, elifs |-> es, hasElse |-> h, else |-> e]
Loop(k, b) == [kind |-> k, body |-> b]

Leaves == {Block(<<>>, "none"), Block(<<>>, "expression"), Block(<<>>, "bare"),
           Block(<<Leaf("simple")>>, "none"),
           Block(<<Leaf("break"), Leaf("simple")>>, "none"),
           Block(<<Leaf("continue"), Leaf("simple")>>, "none")}
Ifs == {If(t, <<>>, FALSE, Block(<<>>, "none")) : t \in Leaves}
         \cup {If(t, <<e>>, TRUE, Block(<<Leaf("simple")>>, "none")) : t, e \in Leaves}
Loops == {Loop(k, Block(<<i, Leaf("simple")>>, "none")) : k \in {"for", "range"}, i \in Ifs}
Nested == {Loop(k, Block(<<l, Leaf("simple")>>, r)) :
             k \in {"for", "range"}, r \in {"none", "expression"},
             l \in {m \in Loops : m.body.list[1].elifs = <<>>}}
MCPrograms == {Block(<<s, Leaf("simple")>>, "expression") : s \in Ifs \cup Loops \cup Nested}
============================================================================
