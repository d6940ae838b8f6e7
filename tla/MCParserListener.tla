-------------------------- MODULE MCParserListener -------------------------
(* Three kinds of texts: several rules with a header and a body of simple   *)
(* statements, statements nested in statements, expressions in expressions. *)
EXTENDS ParserListener, TLC

CONSTANTS n1, n2

\* No handler tells one name from another.
MCNames == {n1, n2}
NameSymmetry == Permutations(MCNames)

HeaderNest ==
  [s \in {"ifStmt", "forStmt", "forRangeStmt", "concStatement", "methodCall", "threeLevelCall",
           "mathExpression", "functionArgs"} |-> 0] @@ [expression |-> 1, ruleEntity |-> 2]
StatementNest ==
  [s \in {"mathExpression", "functionArgs", "constant", "mapVar", "methodCall",
           "ruleDescription", "salience"} |-> 0]
    @@ [statements |-> 2, expression |-> 1, ruleEntity |-> 1]
ExpressionNest ==
  [s \in {"statement", "constant", "mapVar", "threeLevelCall", "ruleDescription", "salience"} |-> 0]
    @@ [expression |-> 2, mathExpression |-> 2, functionArgs |-> 1, ruleEntity |-> 1]
MCNests == {HeaderNest, StatementNest, ExpressionNest}
============================================================================
