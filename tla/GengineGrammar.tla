--------------------------- MODULE GengineGrammar --------------------------
(***************************************************************************)
(* The rule language of gengine.g4 as the shapes of its parse trees: for   *)
(* every rule the sequences of sub-rules a node of it may have.  Tokens    *)
(* carry no listener call and are left out; a rule without sub-rules is a  *)
(* leaf.  An optional or repeated part is a rule of its own that no        *)
(* listener call belongs to.                                               *)
(***************************************************************************)
EXTENDS Naturals, Sequences

Just(S) == {<<s>> : s \in S}
Maybe(S) == {<<>>} \cup Just(S)
Many(s, more) == {<<>>, <<s, more>>}

Calls == {"functionCall", "methodCall", "threeLevelCall"}

RuleShapes ==
  [primary |-> {<<"ruleEntity", "moreRules">>},
   moreRules |-> Many("ruleEntity", "moreRules"),
   ruleEntity |-> {<<"ruleName", "descPart", "saliencePart", "ruleContent">>},
   descPart |-> Maybe({"ruleDescription"}),
   saliencePart |-> Maybe({"salience"}),
   ruleName |-> Just({"stringLiteral"}),
   ruleDescription |-> Just({"stringLiteral"}),
   salience |-> Just({"integer"}),
   ruleContent |-> Just({"statements"}),
   statements |-> {<<"moreStatements", "returnPart">>},
   moreStatements |-> Many("statement", "moreStatements"),
   returnPart |-> Maybe({"returnStmt"}),
   returnStmt |-> Maybe({"expression"})]

StatementShapes ==
  [statement |-> Just({"ifStmt", "assignment", "concStatement", "forStmt", "breakStmt",
                       "forRangeStmt", "continueStmt"} \cup Calls),
   concStatement |-> {<<"moreConc">>},
   moreConc |-> {<<>>} \cup {<<s, "moreConc">> : s \in Calls \cup {"assignment"}},
   assignment |-> UNION {{<<t, "assignOperator", e>> : e \in {"mathExpression", "expression"}} :
                           t \in {"mapVar", "variable"}},
   ifStmt |-> {<<"expression", "statements", "moreElseIf", "elsePart">>},
   moreElseIf |-> Many("elseIfStmt", "moreElseIf"),
   elsePart |-> Maybe({"elseStmt"}),
   elseIfStmt |-> {<<"expression", "statements">>},
   elseStmt |-> Just({"statements"}),
   forStmt |-> {<<"assignment", "expression", "assignment", "statements">>},
   forRangeStmt |-> {<<"variable", "rangeOperator", "variable", "statements">>}]

ExpressionShapes ==
  [expression |-> Just({"mathExpression"})
                    \cup {<<"expression", op, "expression">> :
                            op \in {"comparisonOperator", "logicalOperator"}}
                    \cup {<<"notPart", "expressionAtom">>, <<"notPart", "expression">>},
   notPart |-> Maybe({"notOperator"}),
   mathExpression |-> {<<"mathExpression", op, "mathExpression">> :
                         op \in {"mathMdOperator", "mathPmOperator"}}
                        \cup Just({"expressionAtom", "mathExpression"}),
   expressionAtom |-> Just(Calls \cup {"constant", "mapVar", "variable"}),
   constant |-> Just({"booleanLiteral", "integer", "realLiteral", "stringLiteral",
                      "atName", "atId", "atDesc", "atSal"}),
   mapVar |-> {<<"variable", k>> : k \in {"integer", "stringLiteral", "variable"}}]

Arguments == Calls \cup {"constant", "variable", "mapVar", "expression"}

CallShapes ==
  [c \in Calls |-> Maybe({"functionArgs"})]

ArgumentShapes ==
  [functionArgs |-> {<<a, "moreArgs">> : a \in Arguments},
   moreArgs |-> {<<>>} \cup {<<a, "moreArgs">> : a \in Arguments}]

Tables == <<RuleShapes, StatementShapes, ExpressionShapes, CallShapes, ArgumentShapes>>

\* The shapes of a node of rule s; a rule in no table is a leaf.
Shapes(s) ==
  IF \E i \in 1..Len(Tables) : s \in DOMAIN Tables[i]
  THEN UNION {Tables[i][s] : i \in {j \in 1..Len(Tables) : s \in DOMAIN Tables[j]}}
  ELSE {<<>>}

\* The parts of a shape that are not nodes of the tree.
Parts == {"moreRules", "descPart", "saliencePart", "moreStatements", "returnPart",
          "moreConc", "moreElseIf", "elsePart", "notPart", "moreArgs"}
============================================================================
