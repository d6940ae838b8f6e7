------------------------- MODULE ParserListener_proof -------------------------
(***************************************************************************)
(* For any names, saliences and depth of nesting, and for trees cut short  *)
(* at any one place: what the walker still has to enter and leave fits the *)
(* nodes on the listener's stack, so that every node finds below it a node *)
(* that accepts it and every rule is registered under the header it was    *)
(* read with; and in trees without an error what a node has and what is    *)
(* still to come to it make it complete when it is handed over.            *)
(***************************************************************************)
EXTENDS ParserListener, SequenceTheorems, FiniteSetTheorems, TLAPS

-----------------------------------------------------------------------------
(* Which rules of the grammar are met under which node of the stack *)

Top0 == {"primary", "moreRules", "ruleEntity"}
HeaderRules == {"ruleName", "ruleDescription", "salience"}

(* The node a rule belongs to that is not handed to one by Accept *)
Home ==
  [primary |-> "nothing", moreRules |-> "nothing", ruleEntity |-> "nothing",
   ruleName |-> "ruleEntity", descPart |-> "ruleEntity", ruleDescription |-> "ruleEntity",
   saliencePart |-> "ruleEntity", salience |-> "ruleEntity",
   moreStatements |-> "statements", returnPart |-> "statements", moreConc |-> "concStatement",
   moreElseIf |-> "ifStmt", elsePart |-> "ifStmt", rangeOperator |-> "forRangeStmt",
   notPart |-> "expression", moreArgs |-> "functionArgs"]

Fit(s, p) ==
  IF s \in DOMAIN Home THEN p = Home[s]
  ELSE \/ p \in Pushed /\ s \in DOMAIN Accepts[p]
       \/ p = "ruleEntity" /\ s \in {"stringLiteral", "integer"}

LEMMA AcceptedChildren ==
  /\ Pushed = {"ruleEntity", "ruleContent", "statements", "statement", "concStatement", "assignment",
               "ifStmt", "elseIfStmt", "elseStmt", "forStmt", "forRangeStmt", "returnStmt", "expression",
               "mathExpression", "expressionAtom", "constant", "mapVar", "functionArgs", "functionCall",
               "methodCall", "threeLevelCall", "breakStmt", "continueStmt"}
  /\ DOMAIN Accepts["ruleEntity"] = {"ruleContent"}
  /\ DOMAIN Accepts["ruleContent"] = {"statements"}
  /\ DOMAIN Accepts["statements"] = {"statement", "returnStmt"}
  /\ DOMAIN Accepts["statement"] =
       {"functionCall", "methodCall", "threeLevelCall", "assignment", "ifStmt", "concStatement",
        "forStmt", "forRangeStmt", "breakStmt", "continueStmt"}
  /\ DOMAIN Accepts["concStatement"] = {"functionCall", "methodCall", "threeLevelCall", "assignment"}
  /\ DOMAIN Accepts["assignment"] = {"mathExpression", "expression", "variable", "mapVar", "assignOperator"}
  /\ DOMAIN Accepts["ifStmt"] = {"expression", "statements", "elseIfStmt", "elseStmt"}
  /\ DOMAIN Accepts["elseIfStmt"] = {"expression", "statements"}
  /\ DOMAIN Accepts["elseStmt"] = {"statements"}
  /\ DOMAIN Accepts["forStmt"] = {"assignment", "expression", "statements"}
  /\ DOMAIN Accepts["forRangeStmt"] = {"variable", "statements"}
  /\ DOMAIN Accepts["returnStmt"] = {"expression"}
  /\ DOMAIN Accepts["expression"] =
       {"expressionAtom", "mathExpression", "expression", "logicalOperator", "notOperator", "comparisonOperator"}
  /\ DOMAIN Accepts["mathExpression"] = {"mathExpression", "expressionAtom", "mathPmOperator", "mathMdOperator"}
  /\ DOMAIN Accepts["expressionAtom"] =
       {"variable", "constant", "functionCall", "methodCall", "threeLevelCall", "mapVar"}
  /\ DOMAIN Accepts["constant"] =
       {"stringLiteral", "integer", "booleanLiteral", "realLiteral", "atName", "atId", "atDesc", "atSal"}
  /\ DOMAIN Accepts["mapVar"] = {"variable", "integer", "stringLiteral"}
  /\ DOMAIN Accepts["functionArgs"] =
       {"functionCall", "methodCall", "threeLevelCall", "constant", "variable", "mapVar", "expression"}
  /\ DOMAIN Accepts["functionCall"] = {"functionArgs"}
  /\ DOMAIN Accepts["methodCall"] = {"functionArgs"}
  /\ DOMAIN Accepts["threeLevelCall"] = {"functionArgs"}
  /\ DOMAIN Accepts["breakStmt"] = {} /\ DOMAIN Accepts["continueStmt"] = {}
<1>1. Pushed = {"ruleEntity", "ruleContent", "statements", "statement", "concStatement", "assignment",
               "ifStmt", "elseIfStmt", "elseStmt", "forStmt", "forRangeStmt", "returnStmt", "expression",
               "mathExpression", "expressionAtom", "constant", "mapVar", "functionArgs", "functionCall",
               "methodCall", "threeLevelCall", "breakStmt", "continueStmt"}
  BY DEF Pushed, Accepts
<1>2. /\ DOMAIN Accepts["ruleEntity"] = {"ruleContent"}
      /\ DOMAIN Accepts["ruleContent"] = {"statements"}
      /\ DOMAIN Accepts["statements"] = {"statement", "returnStmt"}
      /\ DOMAIN Accepts["statement"] =
           {"functionCall", "methodCall", "threeLevelCall", "assignment", "ifStmt", "concStatement",
            "forStmt", "forRangeStmt", "breakStmt", "continueStmt"}
      /\ DOMAIN Accepts["concStatement"] = {"functionCall", "methodCall", "threeLevelCall", "assignment"}
      /\ DOMAIN Accepts["assignment"] = {"mathExpression", "expression", "variable", "mapVar", "assignOperator"}
  BY DEF Accepts, EntityAccepts, ContentAccepts, StatementsAccept, StatementAccepts, ConcAccepts, AssignmentAccepts
<1>3. /\ DOMAIN Accepts["ifStmt"] = {"expression", "statements", "elseIfStmt", "elseStmt"}
      /\ DOMAIN Accepts["elseIfStmt"] = {"expression", "statements"}
      /\ DOMAIN Accepts["elseStmt"] = {"statements"}
      /\ DOMAIN Accepts["forStmt"] = {"assignment", "expression", "statements"}
      /\ DOMAIN Accepts["forRangeStmt"] = {"variable", "statements"}
      /\ DOMAIN Accepts["returnStmt"] = {"expression"}
  BY DEF Accepts, IfAccepts, ElseIfAccepts, ElseAccepts, ForAccepts, ForRangeAccepts, ReturnAccepts
<1>4. /\ DOMAIN Accepts["expression"] =
           {"expressionAtom", "mathExpression", "expression", "logicalOperator", "notOperator", "comparisonOperator"}
      /\ DOMAIN Accepts["mathExpression"] = {"mathExpression", "expressionAtom", "mathPmOperator", "mathMdOperator"}
      /\ DOMAIN Accepts["expressionAtom"] =
           {"variable", "constant", "functionCall", "methodCall", "threeLevelCall", "mapVar"}
  BY DEF Accepts, ExpressionAccepts, MathAccepts, AtomAccepts
<1>5. /\ DOMAIN Accepts["constant"] =
           {"stringLiteral", "integer", "booleanLiteral", "realLiteral", "atName", "atId", "atDesc", "atSal"}
      /\ DOMAIN Accepts["mapVar"] = {"variable", "integer", "stringLiteral"}
      /\ DOMAIN Accepts["functionArgs"] =
           {"functionCall", "methodCall", "threeLevelCall", "constant", "variable", "mapVar", "expression"}
  BY DEF Accepts, ConstantAccepts, MapVarAccepts, ArgsAccept, Arguments, Calls
<1>6. /\ DOMAIN Accepts["functionCall"] = {"functionArgs"}
      /\ DOMAIN Accepts["methodCall"] = {"functionArgs"}
      /\ DOMAIN Accepts["threeLevelCall"] = {"functionArgs"}
      /\ DOMAIN Accepts["breakStmt"] = {} /\ DOMAIN Accepts["continueStmt"] = {}
  BY DEF Accepts, FunctionCallAccepts, MethodCallAccepts, ThreeLevelCallAccepts
<1> QED BY <1>1, <1>2, <1>3, <1>4, <1>5, <1>6

LEMMA TableDomains ==
  /\ DOMAIN RuleShapes = {"primary", "moreRules", "ruleEntity", "descPart", "saliencePart", "ruleName",
       "ruleDescription", "salience", "ruleContent", "statements", "moreStatements", "returnPart", "returnStmt"}
  /\ DOMAIN StatementShapes = {"statement", "concStatement", "moreConc", "assignment", "ifStmt", "moreElseIf",
       "elsePart", "elseIfStmt", "elseStmt", "forStmt", "forRangeStmt"}
  /\ DOMAIN ExpressionShapes = {"expression", "notPart", "mathExpression", "expressionAtom", "constant", "mapVar"}
  /\ DOMAIN CallShapes = {"functionCall", "methodCall", "threeLevelCall"}
  /\ DOMAIN ArgumentShapes = {"functionArgs", "moreArgs"}
<1>1. DOMAIN RuleShapes = {"primary", "moreRules", "ruleEntity", "descPart", "saliencePart", "ruleName",
       "ruleDescription", "salience", "ruleContent", "statements", "moreStatements", "returnPart", "returnStmt"}
  BY DEF RuleShapes
<1>2. DOMAIN StatementShapes = {"statement", "concStatement", "moreConc", "assignment", "ifStmt", "moreElseIf",
       "elsePart", "elseIfStmt", "elseStmt", "forStmt", "forRangeStmt"}
  BY DEF StatementShapes
<1>3. DOMAIN ExpressionShapes = {"expression", "notPart", "mathExpression", "expressionAtom", "constant", "mapVar"}
  BY DEF ExpressionShapes
<1>4. DOMAIN CallShapes = {"functionCall", "methodCall", "threeLevelCall"} /\ DOMAIN ArgumentShapes = {"functionArgs", "moreArgs"}
  BY DEF CallShapes, ArgumentShapes, Calls
<1> QED BY <1>1, <1>2, <1>3, <1>4

LEMMA ShapesOfTable ==
  ASSUME NEW s, NEW i \in 1 .. 5, s \in DOMAIN Tables[i],
         \A j \in 1 .. 5 : s \in DOMAIN Tables[j] => j = i
  PROVE  Shapes(s) = Tables[i][s]
<1>1. Len(Tables) = 5
  BY DEF Tables
<1>2. {j \in 1 .. Len(Tables) : s \in DOMAIN Tables[j]} = {i}
  BY <1>1
<1>3. Shapes(s) = UNION {Tables[k][s] : k \in {i}}
  BY <1>1, <1>2 DEF Shapes
<1> QED BY <1>3

LEMMA ShapesAre ==
  /\ \A s \in DOMAIN RuleShapes : Shapes(s) = RuleShapes[s]
  /\ \A s \in DOMAIN StatementShapes : Shapes(s) = StatementShapes[s]
  /\ \A s \in DOMAIN ExpressionShapes : Shapes(s) = ExpressionShapes[s]
  /\ \A s \in DOMAIN CallShapes : Shapes(s) = CallShapes[s]
  /\ \A s \in DOMAIN ArgumentShapes : Shapes(s) = ArgumentShapes[s]
  /\ \A s : s \notin DOMAIN RuleShapes \cup DOMAIN StatementShapes \cup DOMAIN ExpressionShapes
                      \cup DOMAIN CallShapes \cup DOMAIN ArgumentShapes => Shapes(s) = {<<>>}
<1>1. /\ Len(Tables) = 5 /\ Tables[1] = RuleShapes /\ Tables[2] = StatementShapes /\ Tables[3] = ExpressionShapes
      /\ Tables[4] = CallShapes /\ Tables[5] = ArgumentShapes
  BY DEF Tables
<1>2. \A s : \A i, j \in 1 .. 5 : s \in DOMAIN Tables[i] /\ s \in DOMAIN Tables[j] => i = j
  BY <1>1, TableDomains
<1>3. \A s : \A i \in 1 .. 5 : s \in DOMAIN Tables[i] => Shapes(s) = Tables[i][s]
  BY <1>2, ShapesOfTable
<1>4. ASSUME NEW s, \A i \in 1 .. 5 : s \notin DOMAIN Tables[i] PROVE Shapes(s) = {<<>>}
  BY <1>1, <1>4 DEF Shapes
<1>5. /\ \A s \in DOMAIN RuleShapes : Shapes(s) = RuleShapes[s]
      /\ \A s \in DOMAIN StatementShapes : Shapes(s) = StatementShapes[s]
      /\ \A s \in DOMAIN ExpressionShapes : Shapes(s) = ExpressionShapes[s]
      /\ \A s \in DOMAIN CallShapes : Shapes(s) = CallShapes[s]
      /\ \A s \in DOMAIN ArgumentShapes : Shapes(s) = ArgumentShapes[s]
  BY <1>1, <1>3
<1>6. ASSUME NEW s, s \notin DOMAIN RuleShapes \cup DOMAIN StatementShapes \cup DOMAIN ExpressionShapes
                      \cup DOMAIN CallShapes \cup DOMAIN ArgumentShapes
      PROVE Shapes(s) = {<<>>}
  <2>1. \A i \in 1 .. 5 : i = 1 \/ i = 2 \/ i = 3 \/ i = 4 \/ i = 5
    OBVIOUS
  <2>2. \A i \in 1 .. 5 : s \notin DOMAIN Tables[i]
    BY <1>1, <1>6, <2>1
  <2> QED BY <1>4, <2>2
<1> QED BY <1>5, <1>6

-----------------------------------------------------------------------------
(* A child of a node of any shape fits under the node on the stack that is *)
(* to accept it.                                                           *)
Listed(shape) == \E T : shape \in Seq(T)
FitsUnder(shape, q) ==
  /\ Listed(shape) /\ Len(shape) \in 0 .. 4 /\ DOMAIN shape = 1 .. Len(shape)
  /\ \A i \in 1 .. Len(shape) : Fit(shape[i], q)
ChildrenFit(s, q) == \A shape \in Shapes(s) : FitsUnder(shape, q)

LEMMA ShortShapes ==
  ASSUME NEW q
  PROVE  /\ FitsUnder(<<>>, q)
         /\ \A a : Fit(a, q) => FitsUnder(<<a>>, q)
         /\ \A a, b : Fit(a, q) /\ Fit(b, q) => FitsUnder(<<a, b>>, q)
         /\ \A a, b, c : Fit(a, q) /\ Fit(b, q) /\ Fit(c, q) => FitsUnder(<<a, b, c>>, q)
         /\ \A a, b, c, d : Fit(a, q) /\ Fit(b, q) /\ Fit(c, q) /\ Fit(d, q) => FitsUnder(<<a, b, c, d>>, q)
<1>1. FitsUnder(<<>>, q)
  <2>1. <<>> \in Seq({})
    OBVIOUS
  <2> QED BY <2>1 DEF FitsUnder, Listed
<1>2. ASSUME NEW a, Fit(a, q) PROVE FitsUnder(<<a>>, q)
  <2>1. <<a>> \in Seq({a})
    OBVIOUS
  <2>2. Listed(<<a>>)
    BY <2>1, Zenon DEF Listed
  <2> QED BY <1>2, <2>2 DEF FitsUnder
<1>3. ASSUME NEW a, NEW b, Fit(a, q), Fit(b, q) PROVE FitsUnder(<<a, b>>, q)
  <2>1. <<a, b>> \in Seq({a, b})
    OBVIOUS
  <2>2. Listed(<<a, b>>)
    BY <2>1, Zenon DEF Listed
  <2> QED BY <1>3, <2>2 DEF FitsUnder
<1>4. ASSUME NEW a, NEW b, NEW c, Fit(a, q), Fit(b, q), Fit(c, q) PROVE FitsUnder(<<a, b, c>>, q)
  <2>1. <<a, b, c>> \in Seq({a, b, c})
    OBVIOUS
  <2>2. Listed(<<a, b, c>>)
    BY <2>1, Zenon DEF Listed
  <2> QED BY <1>4, <2>2 DEF FitsUnder
<1>5. ASSUME NEW a, NEW b, NEW c, NEW d, Fit(a, q), Fit(b, q), Fit(c, q), Fit(d, q)
      PROVE  FitsUnder(<<a, b, c, d>>, q)
  <2>1. <<a, b, c, d>> \in Seq({a, b, c, d})
    OBVIOUS
  <2>2. Listed(<<a, b, c, d>>)
    BY <2>1, Zenon DEF Listed
  <2> QED BY <1>5, <2>2 DEF FitsUnder
<1> QED BY <1>1, <1>2, <1>3, <1>4, <1>5

LEMMA PartsFit ==
  ASSUME NEW q
  PROVE  /\ \A S : (\A s \in S : Fit(s, q)) => \A shape \in Just(S) \cup Maybe(S) : FitsUnder(shape, q)
         /\ \A s, more : Fit(s, q) /\ Fit(more, q) => \A shape \in Many(s, more) : FitsUnder(shape, q)
<1>1. ASSUME NEW S, \A s \in S : Fit(s, q), NEW shape \in Just(S) \cup Maybe(S)
      PROVE  FitsUnder(shape, q)
  <2>1. shape = <<>> \/ \E s \in S : shape = <<s>>
    BY <1>1 DEF Just, Maybe
  <2> QED BY <1>1, <2>1, ShortShapes
<1>2. ASSUME NEW s, NEW more, Fit(s, q), Fit(more, q), NEW shape \in Many(s, more)
      PROVE  FitsUnder(shape, q)
  BY <1>2, ShortShapes DEF Many
<1> QED BY <1>1, <1>2

LEMMA RuleShapeFit ==
  /\ ChildrenFit("primary", "nothing")
  /\ ChildrenFit("moreRules", "nothing")
  /\ ChildrenFit("ruleEntity", "ruleEntity")
  /\ ChildrenFit("descPart", "ruleEntity")
  /\ ChildrenFit("saliencePart", "ruleEntity")
  /\ ChildrenFit("ruleName", "ruleEntity")
  /\ ChildrenFit("ruleDescription", "ruleEntity")
  /\ ChildrenFit("salience", "ruleEntity")
  /\ ChildrenFit("ruleContent", "ruleContent")
  /\ ChildrenFit("statements", "statements")
  /\ ChildrenFit("moreStatements", "statements")
  /\ ChildrenFit("returnPart", "statements")
  /\ ChildrenFit("returnStmt", "returnStmt")
<1>1. ChildrenFit("primary", "nothing")
  <2>1. Fit("ruleEntity", "nothing") /\ Fit("moreRules", "nothing")
    BY AcceptedChildren DEF Fit, Home
  <2>2. Shapes("primary") = {<<"ruleEntity", "moreRules">>}
    BY ShapesAre, TableDomains DEF RuleShapes
  <2> QED BY <2>1, <2>2, PartsFit, ShortShapes DEF ChildrenFit
<1>2. ChildrenFit("moreRules", "nothing")
  <2>1. Fit("ruleEntity", "nothing") /\ Fit("moreRules", "nothing")
    BY AcceptedChildren DEF Fit, Home
  <2>2. Shapes("moreRules") = Many("ruleEntity", "moreRules")
    BY ShapesAre, TableDomains DEF RuleShapes
  <2> QED BY <2>1, <2>2, PartsFit, ShortShapes DEF ChildrenFit
<1>3. ChildrenFit("ruleEntity", "ruleEntity")
  <2>1. Fit("ruleName", "ruleEntity") /\ Fit("descPart", "ruleEntity") /\ Fit("saliencePart", "ruleEntity") /\ Fit("ruleContent", "ruleEntity")
    BY AcceptedChildren DEF Fit, Home
  <2>2. Shapes("ruleEntity") = {<<"ruleName", "descPart", "saliencePart", "ruleContent">>}
    BY ShapesAre, TableDomains DEF RuleShapes
  <2> QED BY <2>1, <2>2, PartsFit, ShortShapes DEF ChildrenFit
<1>4. ChildrenFit("descPart", "ruleEntity")
  <2>1. \A c \in {"ruleDescription"} : Fit(c, "ruleEntity")
    BY AcceptedChildren DEF Fit, Home
  <2>2. Shapes("descPart") = Maybe({"ruleDescription"})
    BY ShapesAre, TableDomains DEF RuleShapes
  <2> QED BY <2>1, <2>2, PartsFit, ShortShapes DEF ChildrenFit
<1>5. ChildrenFit("saliencePart", "ruleEntity")
  <2>1. \A c \in {"salience"} : Fit(c, "ruleEntity")
    BY AcceptedChildren DEF Fit, Home
  <2>2. Shapes("saliencePart") = Maybe({"salience"})
    BY ShapesAre, TableDomains DEF RuleShapes
  <2> QED BY <2>1, <2>2, PartsFit, ShortShapes DEF ChildrenFit
<1>6. ChildrenFit("ruleName", "ruleEntity")
  <2>1. \A c \in {"stringLiteral"} : Fit(c, "ruleEntity")
    BY AcceptedChildren DEF Fit, Home
  <2>2. Shapes("ruleName") = Just({"stringLiteral"})
    BY ShapesAre, TableDomains DEF RuleShapes
  <2> QED BY <2>1, <2>2, PartsFit, ShortShapes DEF ChildrenFit
<1>7. ChildrenFit("ruleDescription", "ruleEntity")
  <2>1. \A c \in {"stringLiteral"} : Fit(c, "ruleEntity")
    BY AcceptedChildren DEF Fit, Home
  <2>2. Shapes("ruleDescription") = Just({"stringLiteral"})
    BY ShapesAre, TableDomains DEF RuleShapes
  <2> QED BY <2>1, <2>2, PartsFit, ShortShapes DEF ChildrenFit
<1>8. ChildrenFit("salience", "ruleEntity")
  <2>1. \A c \in {"integer"} : Fit(c, "ruleEntity")
    BY AcceptedChildren DEF Fit, Home
  <2>2. Shapes("salience") = Just({"integer"})
    BY ShapesAre, TableDomains DEF RuleShapes
  <2> QED BY <2>1, <2>2, PartsFit, ShortShapes DEF ChildrenFit
<1>9. ChildrenFit("ruleContent", "ruleContent")
  <2>1. \A c \in {"statements"} : Fit(c, "ruleContent")
    BY AcceptedChildren DEF Fit, Home
  <2>2. Shapes("ruleContent") = Just({"statements"})
    BY ShapesAre, TableDomains DEF RuleShapes
  <2> QED BY <2>1, <2>2, PartsFit, ShortShapes DEF ChildrenFit
<1>10. ChildrenFit("statements", "statements")
  <2>1. Fit("moreStatements", "statements") /\ Fit("returnPart", "statements")
    BY AcceptedChildren DEF Fit, Home
  <2>2. Shapes("statements") = {<<"moreStatements", "returnPart">>}
    BY ShapesAre, TableDomains DEF RuleShapes
  <2> QED BY <2>1, <2>2, PartsFit, ShortShapes DEF ChildrenFit
<1>11. ChildrenFit("moreStatements", "statements")
  <2>1. Fit("statement", "statements") /\ Fit("moreStatements", "statements")
    BY AcceptedChildren DEF Fit, Home
  <2>2. Shapes("moreStatements") = Many("statement", "moreStatements")
    BY ShapesAre, TableDomains DEF RuleShapes
  <2> QED BY <2>1, <2>2, PartsFit, ShortShapes DEF ChildrenFit
<1>12. ChildrenFit("returnPart", "statements")
  <2>1. \A c \in {"returnStmt"} : Fit(c, "statements")
    BY AcceptedChildren DEF Fit, Home
  <2>2. Shapes("returnPart") = Maybe({"returnStmt"})
    BY ShapesAre, TableDomains DEF RuleShapes
  <2> QED BY <2>1, <2>2, PartsFit, ShortShapes DEF ChildrenFit
<1>13. ChildrenFit("returnStmt", "returnStmt")
  <2>1. \A c \in {"expression"} : Fit(c, "returnStmt")
    BY AcceptedChildren DEF Fit, Home
  <2>2. Shapes("returnStmt") = Maybe({"expression"})
    BY ShapesAre, TableDomains DEF RuleShapes
  <2> QED BY <2>1, <2>2, PartsFit, ShortShapes DEF ChildrenFit
<1> QED BY <1>1, <1>2, <1>3, <1>4, <1>5, <1>6, <1>7, <1>8, <1>9, <1>10, <1>11, <1>12, <1>13

LEMMA StatementShapeFit ==
  /\ ChildrenFit("statement", "statement")
  /\ ChildrenFit("concStatement", "concStatement")
  /\ ChildrenFit("moreConc", "concStatement")
  /\ ChildrenFit("assignment", "assignment")
  /\ ChildrenFit("ifStmt", "ifStmt")
  /\ ChildrenFit("moreElseIf", "ifStmt")
  /\ ChildrenFit("elsePart", "ifStmt")
  /\ ChildrenFit("elseIfStmt", "elseIfStmt")
  /\ ChildrenFit("elseStmt", "elseStmt")
  /\ ChildrenFit("forStmt", "forStmt")
  /\ ChildrenFit("forRangeStmt", "forRangeStmt")
<1>1. ChildrenFit("statement", "statement")
  <2>1. \A c \in {"ifStmt", "assignment", "concStatement", "forStmt", "breakStmt", "forRangeStmt", "continueStmt"} \cup Calls : Fit(c, "statement")
    BY AcceptedChildren DEF Fit, Home, Calls
  <2>2. StatementShapes["statement"] = Just({"ifStmt", "assignment", "concStatement", "forStmt", "breakStmt", "forRangeStmt", "continueStmt"} \cup Calls)
    BY DEF StatementShapes
  <2>3. Shapes("statement") = StatementShapes["statement"]
    BY ShapesAre, TableDomains
  <2> QED BY <2>1, <2>2, <2>3, PartsFit, ShortShapes DEF ChildrenFit
<1>2. ChildrenFit("concStatement", "concStatement")
  <2>1. Fit("moreConc", "concStatement")
    BY AcceptedChildren DEF Fit, Home, Calls
  <2>2. StatementShapes["concStatement"] = {<<"moreConc">>}
    BY DEF StatementShapes
  <2>3. Shapes("concStatement") = StatementShapes["concStatement"]
    BY ShapesAre, TableDomains
  <2> QED BY <2>1, <2>2, <2>3, PartsFit, ShortShapes DEF ChildrenFit
<1>3. ChildrenFit("moreConc", "concStatement")
  <2>1. Fit("moreConc", "concStatement") /\ \A c \in Calls \cup {"assignment"} : Fit(c, "concStatement")
    BY AcceptedChildren DEF Fit, Home, Calls
  <2>2. StatementShapes["moreConc"] = {<<>>} \cup {<<s, "moreConc">> : s \in Calls \cup {"assignment"}}
    BY DEF StatementShapes
  <2>3. Shapes("moreConc") = StatementShapes["moreConc"]
    BY ShapesAre, TableDomains
  <2> QED BY <2>1, <2>2, <2>3, PartsFit, ShortShapes DEF ChildrenFit
<1>4. ChildrenFit("assignment", "assignment")
  <2>1. \A c \in {"mapVar", "variable", "assignOperator", "mathExpression", "expression"} : Fit(c, "assignment")
    BY AcceptedChildren DEF Fit, Home, Calls
  <2>2. StatementShapes["assignment"] = UNION {{<<t, "assignOperator", e>> : e \in {"mathExpression", "expression"}} : t \in {"mapVar", "variable"}}
    BY DEF StatementShapes
  <2>3. Shapes("assignment") = StatementShapes["assignment"]
    BY ShapesAre, TableDomains
  <2> QED BY <2>1, <2>2, <2>3, PartsFit, ShortShapes, SMTT(30) DEF ChildrenFit
<1>5. ChildrenFit("ifStmt", "ifStmt")
  <2>1. Fit("expression", "ifStmt") /\ Fit("statements", "ifStmt") /\ Fit("moreElseIf", "ifStmt") /\ Fit("elsePart", "ifStmt")
    BY AcceptedChildren DEF Fit, Home, Calls
  <2>2. StatementShapes["ifStmt"] = {<<"expression", "statements", "moreElseIf", "elsePart">>}
    BY DEF StatementShapes
  <2>3. Shapes("ifStmt") = StatementShapes["ifStmt"]
    BY ShapesAre, TableDomains
  <2> QED BY <2>1, <2>2, <2>3, PartsFit, ShortShapes DEF ChildrenFit
<1>6. ChildrenFit("moreElseIf", "ifStmt")
  <2>1. Fit("elseIfStmt", "ifStmt") /\ Fit("moreElseIf", "ifStmt")
    BY AcceptedChildren DEF Fit, Home, Calls
  <2>2. StatementShapes["moreElseIf"] = Many("elseIfStmt", "moreElseIf")
    BY DEF StatementShapes
  <2>3. Shapes("moreElseIf") = StatementShapes["moreElseIf"]
    BY ShapesAre, TableDomains
  <2> QED BY <2>1, <2>2, <2>3, PartsFit, ShortShapes DEF ChildrenFit
<1>7. ChildrenFit("elsePart", "ifStmt")
  <2>1. \A c \in {"elseStmt"} : Fit(c, "ifStmt")
    BY AcceptedChildren DEF Fit, Home, Calls
  <2>2. StatementShapes["elsePart"] = Maybe({"elseStmt"})
    BY DEF StatementShapes
  <2>3. Shapes("elsePart") = StatementShapes["elsePart"]
    BY ShapesAre, TableDomains
  <2> QED BY <2>1, <2>2, <2>3, PartsFit, ShortShapes DEF ChildrenFit
<1>8. ChildrenFit("elseIfStmt", "elseIfStmt")
  <2>1. Fit("expression", "elseIfStmt") /\ Fit("statements", "elseIfStmt")
    BY AcceptedChildren DEF Fit, Home, Calls
  <2>2. StatementShapes["elseIfStmt"] = {<<"expression", "statements">>}
    BY DEF StatementShapes
  <2>3. Shapes("elseIfStmt") = StatementShapes["elseIfStmt"]
    BY ShapesAre, TableDomains
  <2> QED BY <2>1, <2>2, <2>3, PartsFit, ShortShapes DEF ChildrenFit
<1>9. ChildrenFit("elseStmt", "elseStmt")
  <2>1. \A c \in {"statements"} : Fit(c, "elseStmt")
    BY AcceptedChildren DEF Fit, Home, Calls
  <2>2. StatementShapes["elseStmt"] = Just({"statements"})
    BY DEF StatementShapes
  <2>3. Shapes("elseStmt") = StatementShapes["elseStmt"]
    BY ShapesAre, TableDomains
  <2> QED BY <2>1, <2>2, <2>3, PartsFit, ShortShapes DEF ChildrenFit
<1>10. ChildrenFit("forStmt", "forStmt")
  <2>1. Fit("assignment", "forStmt") /\ Fit("expression", "forStmt") /\ Fit("statements", "forStmt")
    BY AcceptedChildren DEF Fit, Home, Calls
  <2>2. StatementShapes["forStmt"] = {<<"assignment", "expression", "assignment", "statements">>}
    BY DEF StatementShapes
  <2>3. Shapes("forStmt") = StatementShapes["forStmt"]
    BY ShapesAre, TableDomains
  <2>4. FitsUnder(<<"assignment", "expression", "assignment", "statements">>, "forStmt")
    BY <2>1, ShortShapes
  <2> QED BY <2>2, <2>3, <2>4 DEF ChildrenFit
<1>11. ChildrenFit("forRangeStmt", "forRangeStmt")
  <2>1. Fit("variable", "forRangeStmt") /\ Fit("rangeOperator", "forRangeStmt") /\ Fit("statements", "forRangeStmt")
    BY AcceptedChildren DEF Fit, Home, Calls
  <2>2. StatementShapes["forRangeStmt"] = {<<"variable", "rangeOperator", "variable", "statements">>}
    BY DEF StatementShapes
  <2>3. Shapes("forRangeStmt") = StatementShapes["forRangeStmt"]
    BY ShapesAre, TableDomains
  <2>4. FitsUnder(<<"variable", "rangeOperator", "variable", "statements">>, "forRangeStmt")
    BY <2>1, ShortShapes
  <2> QED BY <2>2, <2>3, <2>4 DEF ChildrenFit
<1> QED BY <1>1, <1>2, <1>3, <1>4, <1>5, <1>6, <1>7, <1>8, <1>9, <1>10, <1>11

LEMMA ExpressionShapeFit ==
  /\ ChildrenFit("expression", "expression")
  /\ ChildrenFit("notPart", "expression")
  /\ ChildrenFit("mathExpression", "mathExpression")
  /\ ChildrenFit("expressionAtom", "expressionAtom")
  /\ ChildrenFit("constant", "constant")
  /\ ChildrenFit("mapVar", "mapVar")
<1>1. ChildrenFit("expression", "expression")
  <2>1. \A c \in {"mathExpression", "expression", "comparisonOperator", "logicalOperator", "notPart", "expressionAtom"} : Fit(c, "expression")
    BY AcceptedChildren DEF Fit, Home, Calls
  <2>2. Shapes("expression") = Just({"mathExpression"}) \cup {<<"expression", op, "expression">> : op \in {"comparisonOperator", "logicalOperator"}} \cup {<<"notPart", "expressionAtom">>, <<"notPart", "expression">>}
    BY ShapesAre, TableDomains DEF ExpressionShapes
  <2>3. ASSUME NEW op \in {"comparisonOperator", "logicalOperator"}
        PROVE  FitsUnder(<<"expression", op, "expression">>, "expression")
    BY <2>1, ShortShapes
  <2>4. /\ FitsUnder(<<"notPart", "expressionAtom">>, "expression")
        /\ FitsUnder(<<"notPart", "expression">>, "expression")
    BY <2>1, ShortShapes
  <2>5. \A shape \in Just({"mathExpression"}) : FitsUnder(shape, "expression")
    BY <2>1, PartsFit
  <2> QED BY <2>2, <2>3, <2>4, <2>5 DEF ChildrenFit
<1>2. ChildrenFit("notPart", "expression")
  <2>1. \A c \in {"notOperator"} : Fit(c, "expression")
    BY AcceptedChildren DEF Fit, Home, Calls
  <2>2. Shapes("notPart") = Maybe({"notOperator"})
    BY ShapesAre, TableDomains DEF ExpressionShapes
  <2> QED BY <2>1, <2>2, PartsFit, ShortShapes DEF ChildrenFit
<1>3. ChildrenFit("mathExpression", "mathExpression")
  <2>1. \A c \in {"mathExpression", "mathMdOperator", "mathPmOperator", "expressionAtom"} : Fit(c, "mathExpression")
    BY AcceptedChildren DEF Fit, Home, Calls
  <2>2. Shapes("mathExpression") = {<<"mathExpression", op, "mathExpression">> : op \in {"mathMdOperator", "mathPmOperator"}} \cup Just({"expressionAtom", "mathExpression"})
    BY ShapesAre, TableDomains DEF ExpressionShapes
  <2>3. ASSUME NEW op \in {"mathMdOperator", "mathPmOperator"}
        PROVE  FitsUnder(<<"mathExpression", op, "mathExpression">>, "mathExpression")
    BY <2>1, ShortShapes
  <2>4. \A shape \in Just({"expressionAtom", "mathExpression"}) : FitsUnder(shape, "mathExpression")
    BY <2>1, PartsFit
  <2> QED BY <2>2, <2>3, <2>4 DEF ChildrenFit
<1>4. ChildrenFit("expressionAtom", "expressionAtom")
  <2>1. \A c \in Calls \cup {"constant", "mapVar", "variable"} : Fit(c, "expressionAtom")
    BY AcceptedChildren DEF Fit, Home, Calls
  <2>2. Shapes("expressionAtom") = Just(Calls \cup {"constant", "mapVar", "variable"})
    BY ShapesAre, TableDomains DEF ExpressionShapes
  <2> QED BY <2>1, <2>2, PartsFit, ShortShapes DEF ChildrenFit
<1>5. ChildrenFit("constant", "constant")
  <2>1. \A c \in {"booleanLiteral", "integer", "realLiteral", "stringLiteral", "atName", "atId", "atDesc", "atSal"} : Fit(c, "constant")
    BY AcceptedChildren DEF Fit, Home, Calls
  <2>2. Shapes("constant") = Just({"booleanLiteral", "integer", "realLiteral", "stringLiteral", "atName", "atId", "atDesc", "atSal"})
    BY ShapesAre, TableDomains DEF ExpressionShapes
  <2> QED BY <2>1, <2>2, PartsFit, ShortShapes DEF ChildrenFit
<1>6. ChildrenFit("mapVar", "mapVar")
  <2>1. \A c \in {"integer", "stringLiteral", "variable"} : Fit(c, "mapVar")
    BY AcceptedChildren DEF Fit, Home, Calls
  <2>2. Shapes("mapVar") = {<<"variable", k>> : k \in {"integer", "stringLiteral", "variable"}}
    BY ShapesAre, TableDomains DEF ExpressionShapes
  <2> QED BY <2>1, <2>2, PartsFit, ShortShapes DEF ChildrenFit
<1> QED BY <1>1, <1>2, <1>3, <1>4, <1>5, <1>6

LEMMA CallShapeFit ==
  /\ ChildrenFit("functionCall", "functionCall")
  /\ ChildrenFit("methodCall", "methodCall")
  /\ ChildrenFit("threeLevelCall", "threeLevelCall")
<1>1. ChildrenFit("functionCall", "functionCall")
  <2>1. \A c \in {"functionArgs"} : Fit(c, "functionCall")
    BY AcceptedChildren DEF Fit, Home
  <2>2. Shapes("functionCall") = Maybe({"functionArgs"})
    BY ShapesAre, TableDomains DEF CallShapes, Calls
  <2> QED BY <2>1, <2>2, PartsFit, ShortShapes DEF ChildrenFit
<1>2. ChildrenFit("methodCall", "methodCall")
  <2>1. \A c \in {"functionArgs"} : Fit(c, "methodCall")
    BY AcceptedChildren DEF Fit, Home
  <2>2. Shapes("methodCall") = Maybe({"functionArgs"})
    BY ShapesAre, TableDomains DEF CallShapes, Calls
  <2> QED BY <2>1, <2>2, PartsFit, ShortShapes DEF ChildrenFit
<1>3. ChildrenFit("threeLevelCall", "threeLevelCall")
  <2>1. \A c \in {"functionArgs"} : Fit(c, "threeLevelCall")
    BY AcceptedChildren DEF Fit, Home
  <2>2. Shapes("threeLevelCall") = Maybe({"functionArgs"})
    BY ShapesAre, TableDomains DEF CallShapes, Calls
  <2> QED BY <2>1, <2>2, PartsFit, ShortShapes DEF ChildrenFit
<1> QED BY <1>1, <1>2, <1>3

LEMMA ArgumentShapeFit ==
  /\ ChildrenFit("functionArgs", "functionArgs")
  /\ ChildrenFit("moreArgs", "functionArgs")
<1>1. ChildrenFit("functionArgs", "functionArgs")
  <2>1. Fit("moreArgs", "functionArgs") /\ \A c \in Arguments : Fit(c, "functionArgs")
    BY AcceptedChildren DEF Fit, Home, Arguments, Calls
  <2>2. Shapes("functionArgs") = {<<a, "moreArgs">> : a \in Arguments}
    BY ShapesAre, TableDomains DEF ArgumentShapes
  <2> QED BY <2>1, <2>2, PartsFit, ShortShapes DEF ChildrenFit
<1>2. ChildrenFit("moreArgs", "functionArgs")
  <2>1. Fit("moreArgs", "functionArgs") /\ \A c \in Arguments : Fit(c, "functionArgs")
    BY AcceptedChildren DEF Fit, Home, Arguments, Calls
  <2>2. Shapes("moreArgs") = {<<>>} \cup {<<a, "moreArgs">> : a \in Arguments}
    BY ShapesAre, TableDomains DEF ArgumentShapes
  <2> QED BY <2>1, <2>2, PartsFit, ShortShapes DEF ChildrenFit
<1> QED BY <1>1, <1>2

(* Under any node a rule may stand under, the children it may have fit.    *)
LEMMA AllChildrenFit ==
  ASSUME NEW s, NEW p, Fit(s, p)
  PROVE  ChildrenFit(s, IF s \in Pushed THEN s ELSE p)
<1>1. CASE s \in DOMAIN RuleShapes
  <2>1. s \in Pushed => s \in {"ruleEntity", "ruleContent", "statements", "returnStmt"}
    BY <1>1, TableDomains, AcceptedChildren
  <2>2. s \notin Pushed => s \in DOMAIN Home /\ p = Home[s]
    BY <1>1, TableDomains, AcceptedChildren DEF Home, Fit
  <2>3. CASE s \in Pushed
    BY <2>1, <2>3, RuleShapeFit
  <2>4. CASE s \notin Pushed
    <3>1. s \in {"primary", "moreRules", "descPart", "saliencePart", "ruleName", "ruleDescription", "salience",
                 "moreStatements", "returnPart"}
      BY <1>1, <2>4, TableDomains, AcceptedChildren
    <3>2. ChildrenFit(s, Home[s])
      BY <3>1, RuleShapeFit DEF Home
    <3> QED BY <2>2, <2>4, <3>2
  <2> QED BY <2>3, <2>4
<1>2. CASE s \in DOMAIN StatementShapes
  <2>1. CASE s \in {"moreConc", "moreElseIf", "elsePart"}
    <3>1. s \notin Pushed /\ s \in DOMAIN Home /\ p = Home[s]
      BY <2>1, AcceptedChildren DEF Home, Fit
    <3>2. ChildrenFit(s, Home[s])
      BY <2>1, StatementShapeFit DEF Home
    <3> QED BY <3>1, <3>2
  <2>2. CASE s \notin {"moreConc", "moreElseIf", "elsePart"}
    <3>1. s \in Pushed
      BY <1>2, <2>2, TableDomains, AcceptedChildren
    <3>2. ChildrenFit(s, s)
      BY <1>2, <2>2, TableDomains, StatementShapeFit
    <3> QED BY <3>1, <3>2
  <2> QED BY <2>1, <2>2
<1>3. CASE s \in DOMAIN ExpressionShapes \cup DOMAIN CallShapes \cup DOMAIN ArgumentShapes
  <2>1. CASE s \in {"notPart", "moreArgs"}
    <3>1. s \notin Pushed /\ s \in DOMAIN Home /\ p = Home[s]
      BY <2>1, AcceptedChildren DEF Home, Fit
    <3>2. ChildrenFit(s, Home[s])
      BY <2>1, ExpressionShapeFit, ArgumentShapeFit DEF Home
    <3> QED BY <3>1, <3>2
  <2>2. CASE s \notin {"notPart", "moreArgs"}
    <3>1. s \in Pushed
      BY <1>3, <2>2, TableDomains, AcceptedChildren
    <3>2. ChildrenFit(s, s)
      BY <1>3, <2>2, TableDomains, ExpressionShapeFit, CallShapeFit, ArgumentShapeFit
    <3> QED BY <3>1, <3>2
  <2> QED BY <2>1, <2>2
<1>4. CASE s \notin DOMAIN RuleShapes \cup DOMAIN StatementShapes \cup DOMAIN ExpressionShapes
                      \cup DOMAIN CallShapes \cup DOMAIN ArgumentShapes
  <2>1. Shapes(s) = {<<>>}
    BY <1>4, ShapesAre
  <2> QED BY <2>1, ShortShapes DEF ChildrenFit
<1> QED BY <1>1, <1>2, <1>3, <1>4

-----------------------------------------------------------------------------
(* The stack and what the walker still has to do *)

Closes(item) == item[1] = "exit" /\ item[2] \in Pushed
Owner(st, l) == IF l = 0 THEN "nothing" ELSE st[l].rule

NodeLike(n) ==
  /\ {"rule", "has"} \subseteq DOMAIN n /\ n.rule \in Pushed
  /\ n.rule = "ruleEntity" => {"name", "desc", "sal"} \subseteq DOMAIN n
Nodes(st) ==
  /\ \E S : st \in Seq(S)
  /\ \A i \in 1 .. Len(st) : NodeLike(st[i]) /\ (st[i].rule = "ruleEntity" <=> i = 1)

(* L[i] is the height of the stack when the walker comes to its i-th step. *)
Aligned(t, st, L) ==
  /\ L \in [1 .. Len(t) + 1 -> Nat] /\ L[1] = Len(st) /\ L[Len(t) + 1] = 0
  /\ \A i, j \in 1 .. Len(t) + 1 : i <= j => L[j] <= L[i]
  /\ \A i \in 1 .. Len(t) :
       /\ t[i] = <<t[i][1], t[i][2]>>
       /\ L[i] = IF Closes(t[i]) THEN L[i + 1] + 1 ELSE L[i + 1]
       /\ Fit(t[i][2], Owner(st, L[i + 1]))
       /\ Closes(t[i]) => st[L[i]].rule = t[i][2]
       /\ t[i][1] = "exit" => t[i][2] \notin Parts

(* The literals of a header are read just before its rule is left. *)
HeaderExits == {Exit(h) : h \in HeaderRules}
Fronted(t, st, L) ==
  \A i \in 1 .. Len(t) :
    /\ t[i] = Enter("ruleName") => i = 1
    /\ t[i] \in HeaderExits => i = 1 \/ (i = 2 /\ t[1][2] \in {"stringLiteral", "integer"})
    /\ t[i][2] = "stringLiteral" /\ Owner(st, L[i + 1]) = "ruleEntity" =>
         i = 1 /\ Len(t) > 1 /\ t[2] \in {Exit("ruleName"), Exit("ruleDescription")}
    /\ t[i][2] = "integer" /\ Owner(st, L[i + 1]) = "ruleEntity" =>
         i = 1 /\ Len(t) > 1 /\ t[2] = Exit("salience")

LEMMA TailAligned ==
  ASSUME NEW S, NEW t \in Seq(S), t # <<>>, NEW st, Len(st) \in Nat, NEW L, NEW st2,
         Aligned(t, st, L), Fronted(t, st, L),
         Len(st2) = L[2], \A i \in 1 .. L[2] : st2[i].rule = st[i].rule
  PROVE  /\ Tail(t) \in Seq(S)
         /\ \E M : Aligned(Tail(t), st2, M) /\ Fronted(Tail(t), st2, M)
<1> DEFINE M == [i \in 1 .. Len(t) |-> L[i + 1]]
           u == Tail(t)
<1>1. /\ Len(t) \in Nat /\ Len(t) > 0 /\ u \in Seq(S) /\ Len(u) = Len(t) - 1
      /\ \A i \in 1 .. Len(u) : u[i] = t[i + 1]
  BY HeadTailProperties, LenProperties
<1>2. /\ L \in [1 .. Len(t) + 1 -> Nat] /\ L[Len(t) + 1] = 0 /\ L[2] \in Nat
      /\ \A i, j \in 1 .. Len(t) + 1 : i <= j => L[j] <= L[i]
  BY <1>1 DEF Aligned
<1>3. /\ M \in [1 .. Len(u) + 1 -> Nat] /\ \A i \in 1 .. Len(u) + 1 : M[i] = L[i + 1]
  <2>1. \A i \in 1 .. Len(t) : i + 1 \in 1 .. Len(t) + 1 /\ L[i + 1] \in Nat
    BY <1>1, <1>2, SMTT(30)
  <2>2. Len(u) + 1 = Len(t)
    BY <1>1
  <2> QED BY <2>1, <2>2
<1> HIDE DEF M, u
<1>4. /\ M[1] = Len(st2) /\ M[Len(u) + 1] = 0
      /\ \A i, j \in 1 .. Len(u) + 1 : i <= j => M[j] <= M[i]
  <2>1. \A i \in 1 .. Len(u) + 1 : i + 1 \in 1 .. Len(t) + 1
    BY <1>1
  <2>2. M[1] = Len(st2) /\ M[Len(u) + 1] = 0
    BY <1>1, <1>2, <1>3
  <2>3. ASSUME NEW i \in 1 .. Len(u) + 1, NEW j \in 1 .. Len(u) + 1, i <= j PROVE M[j] <= M[i]
    <3>1. i + 1 <= j + 1 /\ i + 1 \in 1 .. Len(t) + 1 /\ j + 1 \in 1 .. Len(t) + 1
      BY <2>1, <2>3
    <3> QED BY <1>2, <1>3, <3>1
  <2> QED BY <2>2, <2>3
<1>5. ASSUME NEW i \in 1 .. Len(u)
      PROVE  /\ u[i] = <<u[i][1], u[i][2]>>
             /\ M[i] = IF Closes(u[i]) THEN M[i + 1] + 1 ELSE M[i + 1]
             /\ Owner(st2, M[i + 1]) = Owner(st, L[(i + 1) + 1])
             /\ Fit(u[i][2], Owner(st2, M[i + 1]))
             /\ Closes(u[i]) => st2[M[i]].rule = u[i][2]
             /\ u[i][1] = "exit" => u[i][2] \notin Parts
  <2>1. PICK k \in 1 .. Len(t) : k = i + 1 /\ k >= 2
    BY <1>1
  <2>2. i \in 1 .. Len(u) + 1 /\ i + 1 \in 1 .. Len(u) + 1 /\ k + 1 \in 1 .. Len(t) + 1 /\ k \in 1 .. Len(t) + 1
        /\ 2 \in 1 .. Len(t) + 1 /\ k \in Nat
    BY <1>1, <2>1
  <2>3. u[i] = t[k] /\ M[i] = L[k] /\ M[i + 1] = L[k + 1]
    BY <1>1, <1>3, <2>1, <2>2
  <2>4. L[k] \in Nat /\ L[k + 1] \in Nat /\ L[k] <= L[2] /\ L[k + 1] <= L[2]
    BY <1>2, <2>1, <2>2
  <2>5. /\ t[k] = <<t[k][1], t[k][2]>>
        /\ L[k] = IF Closes(t[k]) THEN L[k + 1] + 1 ELSE L[k + 1]
        /\ Fit(t[k][2], Owner(st, L[k + 1]))
        /\ Closes(t[k]) => st[L[k]].rule = t[k][2]
        /\ t[k][1] = "exit" => t[k][2] \notin Parts
    BY DEF Aligned
  <2>6. Owner(st2, L[k + 1]) = Owner(st, L[k + 1])
    BY <2>4, SMTT(30) DEF Owner
  <2>7. Closes(t[k]) => L[k] \in 1 .. L[2]
    BY <1>2, <2>4, <2>5
  <2> QED BY <2>1, <2>3, <2>5, <2>6, <2>7
<1>6. Aligned(u, st2, M)
  BY <1>3, <1>4, <1>5 DEF Aligned
<1>7. Fronted(u, st2, M)
  <2> SUFFICES ASSUME NEW i \in 1 .. Len(u)
               PROVE  /\ u[i] = Enter("ruleName") => i = 1
                      /\ u[i] \in HeaderExits => i = 1 \/ (i = 2 /\ u[1][2] \in {"stringLiteral", "integer"})
                      /\ u[i][2] = "stringLiteral" /\ Owner(st2, M[i + 1]) = "ruleEntity" =>
                           i = 1 /\ Len(u) > 1 /\ u[2] \in {Exit("ruleName"), Exit("ruleDescription")}
                      /\ u[i][2] = "integer" /\ Owner(st2, M[i + 1]) = "ruleEntity" =>
                           i = 1 /\ Len(u) > 1 /\ u[2] = Exit("salience")
    BY DEF Fronted
  <2>1. PICK k \in 1 .. Len(t) : k = i + 1 /\ k # 1 /\ u[i] = t[k] /\ (k = 2 => i = 1)
    BY <1>1
  <2>2. Owner(st2, M[i + 1]) = Owner(st, L[k + 1])
    BY <1>5, <2>1
  <2> QED BY <2>1, <2>2 DEF Fronted
<1> QED BY <1>1, <1>6, <1>7 DEF u

(* What the shapes say about the literals of a header *)
LEMMA HeaderChildren ==
  ASSUME NEW s, NEW p, Fit(s, p), NEW shape \in Shapes(s)
  PROVE  /\ s \in {"stringLiteral", "integer"} => Len(shape) = 0
         /\ s \in HeaderRules => Len(shape) <= 1 /\ \A i \in 1 .. Len(shape) : shape[i] \in {"stringLiteral", "integer"}
         /\ \A i \in 1 .. Len(shape) :
              LET q == IF s \in Pushed THEN s ELSE p
              IN  /\ shape[i] = "ruleName" => i = 1 /\ s = "ruleEntity"
                  /\ shape[i] = "stringLiteral" /\ q = "ruleEntity" => s \in {"ruleName", "ruleDescription"} /\ Len(shape) = 1
                  /\ shape[i] = "integer" /\ q = "ruleEntity" => s = "salience" /\ Len(shape) = 1
<1> DEFINE q == IF s \in Pushed THEN s ELSE p
<1>1. s \in {"stringLiteral", "integer"} => Shapes(s) = {<<>>}
  BY ShapesAre, TableDomains
<1>2. /\ Shapes("ruleName") = Just({"stringLiteral"}) /\ Shapes("ruleDescription") = Just({"stringLiteral"})
      /\ Shapes("salience") = Just({"integer"})
      /\ Shapes("ruleEntity") = {<<"ruleName", "descPart", "saliencePart", "ruleContent">>}
      /\ Shapes("descPart") = Maybe({"ruleDescription"}) /\ Shapes("saliencePart") = Maybe({"salience"})
  BY ShapesAre, TableDomains DEF RuleShapes
<1>3. s \in HeaderRules => shape = <<"stringLiteral">> \/ (s = "salience" /\ shape = <<"integer">>)
  BY <1>2 DEF HeaderRules, Just
<1>4. s = "salience" => shape = <<"integer">>
  BY <1>2 DEF Just
<1>5. s = "ruleEntity" => shape = <<"ruleName", "descPart", "saliencePart", "ruleContent">>
  BY <1>2
<1>6. /\ s = "descPart" => shape = <<>> \/ shape = <<"ruleDescription">>
      /\ s = "saliencePart" => shape = <<>> \/ shape = <<"salience">>
  BY <1>2 DEF Just, Maybe
<1>7. q = "ruleEntity" =>
        s \in {"ruleEntity", "ruleName", "descPart", "ruleDescription", "saliencePart", "salience", "stringLiteral", "integer"}
  BY AcceptedChildren DEF Fit, Home
<1>8. \A i \in 1 .. Len(shape) : shape[i] = "ruleName" => q = "ruleEntity"
  <2>1. \A i \in 1 .. Len(shape) : Fit(shape[i], q)
    BY AllChildrenFit DEF ChildrenFit, FitsUnder
  <2> QED BY <2>1 DEF Fit, Home
<1> HIDE DEF q
<1>9. ASSUME NEW i \in 1 .. Len(shape)
      PROVE  /\ shape[i] = "ruleName" => i = 1 /\ s = "ruleEntity"
             /\ shape[i] = "stringLiteral" /\ q = "ruleEntity" => s \in {"ruleName", "ruleDescription"} /\ Len(shape) = 1
             /\ shape[i] = "integer" /\ q = "ruleEntity" => s = "salience" /\ Len(shape) = 1
  <2>1. CASE q # "ruleEntity"
    BY <1>8, <2>1
  <2>2. CASE s \in {"stringLiteral", "integer"}
    BY <1>1, <2>2
  <2>3. CASE s = "ruleEntity"
    <3>0. Len(shape) = 4
      BY <1>5, <2>3
    <3>1. i = 1 \/ i = 2 \/ i = 3 \/ i = 4
      BY <3>0
    <3> QED BY <1>5, <2>3, <3>1
  <2>4. CASE s \in HeaderRules
    BY <1>3, <1>4, <2>4 DEF HeaderRules
  <2>5. CASE s \in {"descPart", "saliencePart"}
    BY <1>6, <2>5
  <2> QED BY <1>7, <2>1, <2>2, <2>3, <2>4, <2>5 DEF HeaderRules
<1>10. s \in HeaderRules => Len(shape) <= 1 /\ \A i \in 1 .. Len(shape) : shape[i] \in {"stringLiteral", "integer"}
  <2>1. ASSUME s \in HeaderRules PROVE Len(shape) = 1 /\ shape[1] \in {"stringLiteral", "integer"}
    BY <1>3, <2>1
  <2>2. ASSUME s \in HeaderRules, NEW i \in 1 .. Len(shape) PROVE i = 1
    <3>1. Len(shape) = 1
      BY <2>1, <2>2
    <3> QED BY <3>1
  <2> QED BY <2>1, <2>2
<1>11. s \in {"stringLiteral", "integer"} => Len(shape) = 0
  BY <1>1
<1> QED BY <1>9, <1>10, <1>11 DEF q

LEMMA Joined ==
  ASSUME NEW T, NEW a \in Seq(T), NEW b \in Seq(T)
  PROVE  /\ a \o b \in Seq(T) /\ Len(a \o b) = Len(a) + Len(b)
         /\ \A i \in 1 .. Len(a) : (a \o b)[i] = a[i]
         /\ \A i \in Len(a) + 1 .. Len(a) + Len(b) : (a \o b)[i] = b[i - Len(a)]
OBVIOUS

(* What is to do when a node has been entered: its children, and its exit *)
EntersTodo(t, s, shape, n, u) ==
  u = [i \in 1 .. n |-> Enter(shape[i])] \o (IF s \in Parts THEN <<>> ELSE <<Exit(s)>>) \o Tail(t)

Following(t, s, shape, n, k, u) ==
  /\ k \in Nat /\ k = IF s \in Parts THEN n ELSE n + 1
  /\ Len(u) \in Nat /\ Len(u) = k + Len(t) - 1
  /\ \A i \in 1 .. n : u[i] = Enter(shape[i])
  /\ s \notin Parts => u[n + 1] = Exit(s)
  /\ \A i \in k + 1 .. Len(u) : u[i] = t[i - k + 1]

Entering(t, s, shape, n, k, u) ==
  t[1] = Enter(s) /\ n <= Len(shape) /\ Following(t, s, shape, n, k, u)

LEMMA EnteredTodo ==
  ASSUME NEW S, NEW t \in Seq(S), t # <<>>, NEW s, NEW n \in 0 .. 4, NEW shape,
         NEW w, EntersTodo(t, s, shape, n, w)
  PROVE  (\E T : w \in Seq(T)) /\ \E k : Following(t, s, shape, n, k, w)
<1> DEFINE calls == [i \in 1 .. n |-> Enter(shape[i])]
           e == IF s \in Parts THEN <<>> ELSE <<Exit(s)>>
           k == IF s \in Parts THEN n ELSE n + 1
           T == S \cup {Enter(shape[i]) : i \in 1 .. n} \cup {Exit(s)}
<1>1. /\ Len(t) \in Nat /\ Len(t) > 0 /\ Len(Tail(t)) = Len(t) - 1 /\ Tail(t) \in Seq(S)
      /\ \A i \in 1 .. Len(Tail(t)) : Tail(t)[i] = t[i + 1]
  BY HeadTailProperties, LenProperties
<1>2. Tail(t) \in Seq(T)
  <2>1. S \subseteq T
    OBVIOUS
  <2>2. Tail(t) = [i \in 1 .. Len(Tail(t)) |-> Tail(t)[i]]
    BY <1>1, LenProperties
  <2>4. \A i \in 1 .. Len(Tail(t)) : Tail(t)[i] \in S
    BY <1>1, ElementOfSeq
  <2>3. Len(Tail(t)) \in Nat
    BY <1>1
  <2> HIDE DEF T
  <2> QED BY <2>1, <2>2, <2>3, <2>4
<1>3. calls \in Seq(T) /\ Len(calls) = n
  <2>1. \A i \in 1 .. n : Enter(shape[i]) \in T
    OBVIOUS
  <2> HIDE DEF T
  <2> QED BY <2>1
<1>4. e \in Seq(T) /\ Len(e) = k - n /\ (s \notin Parts => e[1] = Exit(s))
  <2>1. Exit(s) \in T
    OBVIOUS
  <2> HIDE DEF T
  <2> QED BY <2>1
<1>5. /\ calls \o e \in Seq(T) /\ Len(calls \o e) = k
      /\ \A i \in 1 .. n : (calls \o e)[i] = Enter(shape[i])
      /\ s \notin Parts => (calls \o e)[n + 1] = Exit(s)
  <2> HIDE DEF T, e
  <2>1. calls \o e \in Seq(T) /\ Len(calls \o e) = n + (k - n)
    BY <1>3, <1>4
  <2>2. \A i \in 1 .. n : (calls \o e)[i] = Enter(shape[i])
    BY <1>3, <1>4
  <2>3. s \notin Parts => (calls \o e)[n + 1] = e[1]
    BY <1>3, <1>4
  <2> QED BY <1>4, <2>1, <2>2, <2>3
<1> HIDE DEF T, e, calls
<1>6. PICK a : a = calls \o e
  OBVIOUS
<1>7. PICK b : b = Tail(t)
  OBVIOUS
<1>8. PICK u : u = a \o b
  OBVIOUS
<1>9. /\ u \in Seq(T) /\ Len(u) = k + Len(t) - 1
      /\ \A i \in 1 .. n : u[i] = Enter(shape[i])
      /\ s \notin Parts => u[n + 1] = Exit(s)
      /\ \A i \in k + 1 .. Len(u) : u[i] = t[i - k + 1]
  <2>1. a \in Seq(T) /\ Len(a) = k
    BY <1>5, <1>6
  <2>2. b \in Seq(T) /\ Len(b) = Len(t) - 1
    BY <1>1, <1>2, <1>7
  <2>3. \A i \in 1 .. Len(b) : b[i] = t[i + 1]
    BY <1>1, <1>7
  <2>4. /\ u \in Seq(T) /\ Len(u) = Len(a) + Len(b)
        /\ \A i \in 1 .. Len(a) : u[i] = a[i]
        /\ \A i \in Len(a) + 1 .. Len(a) + Len(b) : u[i] = b[i - Len(a)]
    BY <1>8, <2>1, <2>2, Joined
  <2>5. Len(t) \in Nat /\ Len(u) = k + Len(t) - 1
    BY <1>1, <2>1, <2>2, <2>4
  <2>6. \A i \in 1 .. n : u[i] = Enter(shape[i])
    <3>1. \A i \in 1 .. n : a[i] = Enter(shape[i]) /\ i \in 1 .. k
      BY <1>5, <1>6
    <3> QED BY <2>1, <2>4, <3>1
  <2>7. s \notin Parts => u[n + 1] = Exit(s)
    <3>1. s \notin Parts => a[n + 1] = Exit(s) /\ n + 1 \in 1 .. k
      BY <1>5, <1>6
    <3> QED BY <2>1, <2>4, <3>1
  <2>8. ASSUME NEW i \in k + 1 .. Len(u)
        PROVE  u[i] = t[i - k + 1]
    <3>1. i - k \in 1 .. Len(b) /\ i \in k + 1 .. k + Len(b) /\ (i - k) + 1 = i - k + 1
      BY <2>2, <2>5
    <3>2. b[i - k] = t[(i - k) + 1]
      BY <2>3, <3>1
    <3>3. u[i] = b[i - k]
      BY <2>1, <2>4, <3>1
    <3> QED BY <3>1, <3>2, <3>3
  <2> QED BY <2>4, <2>5, <2>6, <2>7, <2>8
<1>10. w = u
  <2>1. w = calls \o e \o Tail(t)
    BY DEF calls, e, EntersTodo
  <2> QED BY <1>6, <1>7, <1>8, <2>1, Zenon
<1>11. k \in Nat
  OBVIOUS
<1> HIDE DEF k
<1>12. (\E V : w \in Seq(V)) /\ Len(w) \in Nat
  BY <1>9, <1>10
<1>13. Following(t, s, shape, n, k, w)
  BY <1>9, <1>10, <1>11, <1>12 DEF k, Following
<1> QED BY <1>12, <1>13

LEMMA Shifted ==
  ASSUME NEW k \in Nat, NEW m \in Nat, m > 0, NEW l \in Nat, l = k + m - 1, NEW i \in 1 .. l + 1, i > k
  PROVE  /\ i - k + 1 \in 2 .. m + 1 /\ (i <= l => i - k + 1 \in 2 .. m)
         /\ (i + 1) - k + 1 = (i - k + 1) + 1
         /\ (i = l + 1 => i - k + 1 = m + 1) /\ (i = k + 1 => i - k + 1 = 2)
OBVIOUS

(* After the node of rule s has been entered *)
Grows(st, s, v) ==
  /\ Len(v) = IF s \in Pushed THEN Len(st) + 1 ELSE Len(st)
  /\ \A i \in 1 .. Len(st) : v[i].rule = st[i].rule
  /\ s \in Pushed => v[Len(v)].rule = s

LEMMA EnterAligned ==
  ASSUME NEW t, Len(t) \in Nat, Len(t) > 0, NEW st, Len(st) \in Nat, NEW L, NEW s, NEW u, NEW v,
         NEW n \in 0 .. 4, NEW k, NEW shape \in Shapes(s), Aligned(t, st, L), Fronted(t, st, L),
         Entering(t, s, shape, n, k, u), Grows(st, s, v)
  PROVE  \E M : Aligned(u, v, M) /\ Fronted(u, v, M)
<1> SUFFICES ASSUME n <= Len(shape), t[1] = Enter(s), k \in Nat,
                    k = IF s \in Parts THEN n ELSE n + 1,
                    Len(u) \in Nat, Len(u) = k + Len(t) - 1,
                    \A i \in 1 .. n : u[i] = Enter(shape[i]),
                    s \notin Parts => u[n + 1] = Exit(s),
                    \A i \in k + 1 .. Len(u) : u[i] = t[i - k + 1],
                    Len(v) = IF s \in Pushed THEN Len(st) + 1 ELSE Len(st),
                    \A i \in 1 .. Len(st) : v[i].rule = st[i].rule,
                    s \in Pushed => v[Len(v)].rule = s
             PROVE  \E M : Aligned(u, v, M) /\ Fronted(u, v, M)
  BY DEF Entering, Following, Grows
<1> DEFINE h == Len(v)
           M == [i \in 1 .. Len(u) + 1 |-> IF i <= k THEN h ELSE L[i - k + 1]]
           p == Owner(st, L[2])
           q == IF s \in Pushed THEN s ELSE p
<1>1. /\ L \in [1 .. Len(t) + 1 -> Nat] /\ L[1] = Len(st) /\ L[Len(t) + 1] = 0
      /\ \A i, j \in 1 .. Len(t) + 1 : i <= j => L[j] <= L[i]
  BY DEF Aligned
<1>2. L[2] = Len(st) /\ Fit(s, p) /\ t[1][2] = s
  <2>1. 1 \in 1 .. Len(t) /\ t[1][1] = "enter" /\ t[1][2] = s
    BY DEF Enter
  <2>2. ~Closes(t[1])
    BY <2>1 DEF Closes
  <2>3. L[1] = L[1 + 1] /\ Fit(s, Owner(st, L[1 + 1]))
    BY <2>1, <2>2 DEF Aligned
  <2> QED BY <1>1, <2>1, <2>3
<1>3. /\ Len(shape) \in 0 .. 4 /\ DOMAIN shape = 1 .. Len(shape)
      /\ \A i \in 1 .. n : i \in 1 .. Len(shape) /\ Fit(shape[i], q)
  <2>1. ChildrenFit(s, q)
    BY <1>2, AllChildrenFit
  <2> QED BY <2>1 DEF ChildrenFit, FitsUnder
<1>4. s \in Pushed => s \notin Parts
  BY AcceptedChildren DEF Parts
<1>5. /\ Owner(v, h) = q /\ Owner(v, L[2]) = p /\ h \in Nat /\ h >= Len(st)
      /\ s \in Pushed => h = Len(st) + 1
      /\ s \notin Pushed => h = Len(st)
  BY <1>1, <1>2 DEF Owner
<1>6. \A l \in 0 .. Len(st) : Owner(v, l) = Owner(st, l)
  BY DEF Owner
<1> HIDE DEF h, p, q
<1>7. ASSUME NEW i \in 1 .. Len(u) + 1, i > k
      PROVE  /\ i - k + 1 \in 2 .. Len(t) + 1 /\ M[i] = L[i - k + 1] /\ L[i - k + 1] \in 0 .. Len(st)
             /\ i <= Len(u) => i - k + 1 \in 2 .. Len(t)
  <2>1. PICK j \in 2 .. Len(t) + 1 : j = i - k + 1 /\ (i <= Len(u) => j \in 2 .. Len(t))
    BY <1>7, Shifted, ZenonT(30)
  <2>2. j \in 1 .. Len(t) + 1 /\ 1 \in 1 .. Len(t) + 1 /\ 1 <= j
    BY <2>1
  <2>3. L[j] \in Nat /\ L[j] <= L[1]
    BY <1>1, <2>2
  <2>4. M[i] = L[i - k + 1]
    BY <1>7
  <2> QED BY <1>1, <2>1, <2>3, <2>4
<1>8. \A i \in 1 .. Len(u) + 1 : i <= k => M[i] = h
  OBVIOUS
<1>9. M \in [1 .. Len(u) + 1 -> Nat]
  <2>1. ASSUME NEW i \in 1 .. Len(u) + 1 PROVE M[i] \in Nat
    <3>1. CASE i <= k
      BY <1>5, <1>8, <3>1
    <3>2. CASE i > k
      <4>1. M[i] \in 0 .. Len(st)
        BY <1>7, <3>2
      <4> QED BY <4>1
    <3> QED BY <3>1, <3>2
  <2> QED BY <2>1
<1> HIDE DEF M
<1>10. M[1] = Len(v) /\ M[Len(u) + 1] = 0
  <2>1. ASSUME k = 0 PROVE M[1] = Len(v)
    <3>0. 1 \in 1 .. Len(u) + 1 /\ 1 > k /\ 1 - k + 1 = 2
      BY <2>1
    <3>1. M[1] = L[1 - k + 1]
      BY <1>7, <3>0
    <3>2. s \notin Pushed
      BY <1>4, <2>1
    <3> QED BY <1>2, <1>5, <3>0, <3>1, <3>2 DEF h
  <2>2. ASSUME k > 0 PROVE M[1] = Len(v)
    <3>1. 1 \in 1 .. Len(u) + 1 /\ 1 <= k
      BY <2>2
    <3> QED BY <1>8, <3>1 DEF h
  <2>3. M[Len(u) + 1] = 0
    <3>1. Len(u) + 1 \in 1 .. Len(u) + 1 /\ Len(u) + 1 > k
      OBVIOUS
    <3>2. M[Len(u) + 1] = L[(Len(u) + 1) - k + 1]
      BY <1>7, <3>1
    <3>3. (Len(u) + 1) - k + 1 = Len(t) + 1
      OBVIOUS
    <3> QED BY <1>1, <3>2, <3>3
  <2> QED BY <2>1, <2>2, <2>3
<1>11. \A i, j \in 1 .. Len(u) + 1 : i <= j => M[j] <= M[i]
  <2> SUFFICES ASSUME NEW i \in 1 .. Len(u) + 1, NEW j \in 1 .. Len(u) + 1, i <= j
               PROVE  M[j] <= M[i]
    OBVIOUS
  <2>1. CASE j <= k
    BY <1>5, <1>8, <2>1
  <2>2. CASE i <= k /\ j > k
    <3>1. M[i] = h /\ M[j] \in 0 .. Len(st)
      BY <1>7, <1>8, <2>2
    <3> QED BY <1>5, <3>1
  <2>3. CASE i > k
    <3>1. PICK a \in 2 .. Len(t) + 1, b \in 2 .. Len(t) + 1 : a <= b /\ M[i] = L[a] /\ M[j] = L[b]
      <4>1. M[i] = L[i - k + 1] /\ i - k + 1 \in 2 .. Len(t) + 1
        BY <1>7, <2>3
      <4>2. M[j] = L[j - k + 1] /\ j - k + 1 \in 2 .. Len(t) + 1
        BY <1>7, <2>3
      <4>3. i - k + 1 <= j - k + 1
        OBVIOUS
      <4> QED BY <4>1, <4>2, <4>3
    <3>2. a \in 1 .. Len(t) + 1 /\ b \in 1 .. Len(t) + 1
      OBVIOUS
    <3> QED BY <1>1, <3>1, <3>2
  <2> QED BY <2>1, <2>2, <2>3
<1>12. ASSUME NEW i \in 1 .. n
       PROVE  u[i] = <<"enter", shape[i]>> /\ i \in 1 .. Len(u) /\ M[i] = h /\ M[i + 1] = h
  <2>1. i <= k /\ i \in 1 .. Len(u) /\ i \in 1 .. Len(u) + 1 /\ i + 1 \in 1 .. Len(u) + 1
    BY <1>12
  <2>2. CASE i + 1 <= k
    BY <1>8, <2>1, <2>2 DEF Enter
  <2>3. CASE i + 1 > k
    <3>1. i = k /\ s \in Parts /\ s \notin Pushed
      BY <1>4, <2>1, <2>3
    <3>2. M[i + 1] = L[(i + 1) - k + 1] /\ (i + 1) - k + 1 = 2
      BY <1>7, <2>1, <2>3, <3>1
    <3> QED BY <1>2, <1>5, <1>8, <2>1, <3>1, <3>2 DEF Enter
  <2> QED BY <2>2, <2>3
<1>13. ASSUME s \notin Parts
       PROVE  u[k] = <<"exit", s>> /\ k \in 1 .. Len(u) /\ k = n + 1 /\ M[k] = h /\ M[k + 1] = L[2]
  <2>1. k = n + 1 /\ k \in 1 .. Len(u) /\ k \in 1 .. Len(u) + 1 /\ k + 1 \in 1 .. Len(u) + 1
    BY <1>13
  <2>2. M[k + 1] = L[(k + 1) - k + 1] /\ (k + 1) - k + 1 = 2
    BY <1>7, <2>1
  <2> QED BY <1>8, <1>13, <2>1, <2>2 DEF Exit
<1>14. ASSUME NEW i \in 1 .. Len(u), i > k
       PROVE  \E j \in 2 .. Len(t) : /\ j = i - k + 1 /\ u[i] = t[j] /\ M[i] = L[j] /\ M[i + 1] = L[j + 1]
                                     /\ L[j] \in 0 .. Len(st) /\ L[j + 1] \in 0 .. Len(st)
  <2>1. PICK j \in 2 .. Len(t) : j = i - k + 1
    <3>1. i \in 1 .. Len(u) + 1 /\ i <= Len(u)
      OBVIOUS
    <3> QED BY <1>14, <3>1, Shifted
  <2>2. u[i] = t[j]
    BY <1>14, <2>1
  <2>3. M[i] = L[j] /\ L[j] \in 0 .. Len(st)
    <3>1. i \in 1 .. Len(u) + 1
      OBVIOUS
    <3> QED BY <1>7, <1>14, <2>1, <3>1
  <2>4. M[i + 1] = L[j + 1] /\ L[j + 1] \in 0 .. Len(st)
    <3>1. i + 1 \in 1 .. Len(u) + 1 /\ i + 1 > k /\ (i + 1) - k + 1 = j + 1
      BY <1>14, <2>1
    <3> QED BY <1>7, <3>1, SMTT(30)
  <2> QED BY <2>1, <2>2, <2>3, <2>4
<1>15. \A i \in 1 .. Len(u) : i \in 1 .. n \/ (s \notin Parts /\ i = k) \/ i > k
  BY SMTT(30)
<1>16. ASSUME NEW i \in 1 .. Len(u)
       PROVE  /\ u[i] = <<u[i][1], u[i][2]>>
              /\ M[i] = IF Closes(u[i]) THEN M[i + 1] + 1 ELSE M[i + 1]
              /\ Fit(u[i][2], Owner(v, M[i + 1]))
              /\ Closes(u[i]) => v[M[i]].rule = u[i][2]
              /\ u[i][1] = "exit" => u[i][2] \notin Parts
  <2>1. CASE i \in 1 .. n
    <3>1. u[i] = <<"enter", shape[i]>> /\ M[i] = h /\ M[i + 1] = h /\ Fit(shape[i], q)
      BY <1>3, <1>12, <2>1
    <3>2. u[i][1] = "enter" /\ u[i][2] = shape[i] /\ ~Closes(u[i])
      BY <3>1 DEF Closes
    <3> QED BY <1>5, <3>1, <3>2
  <2>2. CASE s \notin Parts /\ i = k
    <3>1. u[i] = <<"exit", s>> /\ M[i] = h /\ M[i + 1] = L[2] /\ Fit(s, p)
      BY <1>2, <1>13, <2>2
    <3>2. Closes(u[i]) <=> s \in Pushed
      BY <3>1 DEF Closes
    <3>3. M[i] = IF Closes(u[i]) THEN M[i + 1] + 1 ELSE M[i + 1]
      BY <1>2, <1>5, <3>1, <3>2
    <3>4. Closes(u[i]) => v[M[i]].rule = s
      BY <3>1, <3>2 DEF h
    <3> QED BY <1>5, <2>2, <3>1, <3>3, <3>4
  <2>3. CASE i > k
    <3>1. PICK j \in 2 .. Len(t) : /\ u[i] = t[j] /\ M[i] = L[j] /\ M[i + 1] = L[j + 1]
                                   /\ L[j] \in 0 .. Len(st) /\ L[j + 1] \in 0 .. Len(st)
      BY <1>14, <2>3
    <3>2. /\ t[j] = <<t[j][1], t[j][2]>>
          /\ L[j] = IF Closes(t[j]) THEN L[j + 1] + 1 ELSE L[j + 1]
          /\ Fit(t[j][2], Owner(st, L[j + 1]))
          /\ Closes(t[j]) => st[L[j]].rule = t[j][2]
          /\ t[j][1] = "exit" => t[j][2] \notin Parts
      <4>1. j \in 1 .. Len(t)
        OBVIOUS
      <4> QED BY <4>1 DEF Aligned
    <3>3. Owner(v, L[j + 1]) = Owner(st, L[j + 1])
      BY <1>6, <3>1
    <3>4. Closes(t[j]) => v[L[j]].rule = st[L[j]].rule
      <4>1. Closes(t[j]) => L[j] \in 1 .. Len(st)
        BY <3>1, <3>2, SMTT(30)
      <4> QED BY <4>1
    <3> QED BY <3>1, <3>2, <3>3, <3>4
  <2> QED BY <1>15, <2>1, <2>2, <2>3
<1>17. Aligned(u, v, M)
  BY <1>9, <1>10, <1>11, <1>16 DEF Aligned
<1>18. /\ s \in {"stringLiteral", "integer"} => n = 0 /\ k = 1
       /\ s \in HeaderRules => n <= 1 /\ \A i \in 1 .. n : shape[i] \in {"stringLiteral", "integer"}
       /\ \A i \in 1 .. n : /\ shape[i] = "ruleName" => i = 1
                            /\ shape[i] = "stringLiteral" /\ q = "ruleEntity" => s \in {"ruleName", "ruleDescription"} /\ n = 1
                            /\ shape[i] = "integer" /\ q = "ruleEntity" => s = "salience" /\ n = 1
  <2>1. /\ s \in {"stringLiteral", "integer"} => Len(shape) = 0
        /\ s \in HeaderRules => Len(shape) <= 1 /\ \A i \in 1 .. Len(shape) : shape[i] \in {"stringLiteral", "integer"}
        /\ \A i \in 1 .. Len(shape) :
             /\ shape[i] = "ruleName" => i = 1 /\ s = "ruleEntity"
             /\ shape[i] = "stringLiteral" /\ q = "ruleEntity" => s \in {"ruleName", "ruleDescription"} /\ Len(shape) = 1
             /\ shape[i] = "integer" /\ q = "ruleEntity" => s = "salience" /\ Len(shape) = 1
    BY <1>2, HeaderChildren DEF q
  <2>2. s \in {"stringLiteral", "integer"} => s \notin Parts
    BY DEF Parts
  <2>3. \A i \in 1 .. n : i \in 1 .. Len(shape) /\ (Len(shape) = 1 => n = 1)
    BY <1>3
  <2>4. s \in {"stringLiteral", "integer"} => n = 0 /\ k = 1
    BY <1>3, <2>1, <2>2
  <2>5. s \in HeaderRules => n <= 1
    BY <1>3, <2>1
  <2> QED BY <2>1, <2>3, <2>4, <2>5
<1>19. Fronted(u, v, M)
  <2> SUFFICES ASSUME NEW i \in 1 .. Len(u)
               PROVE  /\ u[i] = Enter("ruleName") => i = 1
                      /\ u[i] \in HeaderExits => i = 1 \/ (i = 2 /\ u[1][2] \in {"stringLiteral", "integer"})
                      /\ u[i][2] = "stringLiteral" /\ Owner(v, M[i + 1]) = "ruleEntity" =>
                           i = 1 /\ Len(u) > 1 /\ u[2] \in {Exit("ruleName"), Exit("ruleDescription")}
                      /\ u[i][2] = "integer" /\ Owner(v, M[i + 1]) = "ruleEntity" =>
                           i = 1 /\ Len(u) > 1 /\ u[2] = Exit("salience")
    BY DEF Fronted
  <2>0. \A x : Enter(x) \notin HeaderExits /\ \A y : Enter(x) # Exit(y) /\ (Enter(x) = Enter(y) => x = y)
    BY DEF Enter, Exit, HeaderExits
  <2>1. CASE i \in 1 .. n
    <3>1. u[i] = Enter(shape[i]) /\ u[i][2] = shape[i] /\ Owner(v, M[i + 1]) = q
      BY <1>5, <1>12, <2>1, SMTT(30) DEF Enter
    <3>2. u[i] = Enter("ruleName") => i = 1
      BY <1>18, <2>0, <2>1, <3>1
    <3>3. u[i][2] = "stringLiteral" /\ Owner(v, M[i + 1]) = "ruleEntity" =>
            i = 1 /\ Len(u) > 1 /\ u[2] \in {Exit("ruleName"), Exit("ruleDescription")}
      <4> SUFFICES ASSUME shape[i] = "stringLiteral", q = "ruleEntity"
                   PROVE  i = 1 /\ Len(u) > 1 /\ u[2] \in {Exit("ruleName"), Exit("ruleDescription")}
        BY <3>1
      <4>1. s \in {"ruleName", "ruleDescription"} /\ n = 1
        BY <1>18, <2>1
      <4>2. s \notin Parts
        BY <4>1 DEF Parts
      <4> QED BY <2>1, <4>1, <4>2
    <3>4. u[i][2] = "integer" /\ Owner(v, M[i + 1]) = "ruleEntity" =>
            i = 1 /\ Len(u) > 1 /\ u[2] = Exit("salience")
      <4> SUFFICES ASSUME shape[i] = "integer", q = "ruleEntity"
                   PROVE  i = 1 /\ Len(u) > 1 /\ u[2] = Exit("salience")
        BY <3>1
      <4>1. s = "salience" /\ n = 1
        BY <1>18, <2>1
      <4>2. s \notin Parts
        BY <4>1 DEF Parts
      <4> QED BY <2>1, <4>1, <4>2
    <3> QED BY <2>0, <3>1, <3>2, <3>3, <3>4
  <2>2. CASE s \notin Parts /\ i = k
    <3>1. u[i] = Exit(s) /\ u[i][2] = s /\ Owner(v, M[i + 1]) = p /\ i = n + 1
      BY <1>5, <1>13, <2>2 DEF Exit
    <3>2. Exit(s) \in HeaderExits => s \in HeaderRules
      BY DEF Exit, HeaderExits
    <3>3. u[i] \in HeaderExits => i = 1 \/ (i = 2 /\ u[1][2] \in {"stringLiteral", "integer"})
      <4> SUFFICES ASSUME s \in HeaderRules, i # 1
                   PROVE  i = 2 /\ u[1][2] \in {"stringLiteral", "integer"}
        BY <3>1, <3>2
      <4>1. n = 1
        BY <1>18, <3>1
      <4>2. u[1] = Enter(shape[1]) /\ shape[1] \in {"stringLiteral", "integer"}
        BY <1>18, <4>1
      <4> QED BY <3>1, <4>1, <4>2 DEF Enter
    <3>4. ASSUME s \in {"stringLiteral", "integer"}, p = "ruleEntity"
          PROVE  /\ i = 1 /\ Len(u) > 1
                 /\ s = "stringLiteral" => u[2] \in {Exit("ruleName"), Exit("ruleDescription")}
                 /\ s = "integer" => u[2] = Exit("salience")
      <4>1. i = 1 /\ k = 1 /\ Len(u) = Len(t)
        BY <1>18, <2>2, <3>4
      <4>2. 1 \in 1 .. Len(t) /\ Owner(st, L[1 + 1]) = "ruleEntity"
        BY <3>4 DEF p
      <4>3. /\ Len(t) > 1
            /\ s = "stringLiteral" => t[2] \in {Exit("ruleName"), Exit("ruleDescription")}
            /\ s = "integer" => t[2] = Exit("salience")
        BY <1>2, <3>4, <4>2 DEF Fronted
      <4>4. u[2] = t[2]
        BY <4>1, <4>3
      <4> QED BY <4>1, <4>3, <4>4
    <3>5. u[i] # Enter("ruleName")
      BY <2>0, <3>1
    <3> QED BY <3>1, <3>3, <3>4, <3>5
  <2>3. CASE i > k
    <3>1. PICK j \in 2 .. Len(t) : /\ j = i - k + 1 /\ u[i] = t[j] /\ M[i + 1] = L[j + 1]
                                   /\ L[j + 1] \in 0 .. Len(st)
      BY <1>14, <2>3
    <3>2. j \in 1 .. Len(t) /\ Owner(v, M[i + 1]) = Owner(st, L[j + 1]) /\ j # 1
      BY <1>6, <3>1
    <3>3. /\ t[j] # Enter("ruleName")
          /\ t[j] \in HeaderExits => j = 2 /\ s \in {"stringLiteral", "integer"}
          /\ ~(t[j][2] \in {"stringLiteral", "integer"} /\ Owner(st, L[j + 1]) = "ruleEntity")
      BY <1>2, <3>2 DEF Fronted
    <3>4. j = 2 /\ s \in {"stringLiteral", "integer"} => i = 2 /\ u[1][2] \in {"stringLiteral", "integer"}
      <4> SUFFICES ASSUME j = 2, s \in {"stringLiteral", "integer"}
                   PROVE  i = 2 /\ u[1][2] \in {"stringLiteral", "integer"}
        OBVIOUS
      <4>1. n = 0 /\ k = 1 /\ s \notin Parts
        BY <1>18 DEF Parts
      <4>2. u[1] = Exit(s)
        BY <4>1
      <4> QED BY <3>1, <4>1, <4>2 DEF Exit
    <3> QED BY <3>1, <3>2, <3>3, <3>4
  <2> QED BY <1>15, <2>1, <2>2, <2>3
<1> QED BY <1>17, <1>19

-----------------------------------------------------------------------------
(* The header of a rule, read once into the rule and once into the listener *)

First(t, item) == Len(t) > 0 /\ t[1] = item
Naming(t) == First(t, Enter("ruleName")) \/ (Len(t) > 1 /\ t[2] = Exit("ruleName"))

Told(t, st, hd, tk) ==
  /\ hd = [name |-> hd.name, desc |-> hd.desc, sal |-> hd.sal]
  /\ tk # "" => Len(t) > 0 /\ t[1] \in HeaderExits
  /\ Len(st) > 0 =>
       /\ Naming(t) => st[1].name = ""
       /\ st[1].name = "" => Naming(t) \/ First(t, Exit("ruleName")) \/ First(t, Exit("ruleEntity"))
       /\ hd.name = st[1].name \/ First(t, Exit("ruleName"))
       /\ hd.desc = st[1].desc \/ First(t, Exit("ruleDescription"))
       /\ hd.sal = st[1].sal \/ First(t, Exit("salience"))
       /\ First(t, Exit("salience")) => tk = "" \/ tk = st[1].sal

HeaderKept ==
  Len(stack) > 1 => header = [name |-> stack[1].name, desc |-> stack[1].desc, sal |-> stack[1].sal]

(* A rule is counted when it is entered and registered when it is left. *)
Counted ==
  /\ IsFiniteSet(entities) /\ rules \in Nat
  /\ rules = Cardinality(entities) + (IF Len(stack) = 0 THEN 0 ELSE 1)

Walking ==
  /\ Nodes(stack)
  /\ \E L : Aligned(todo, stack, L) /\ Fronted(todo, stack, L)
  /\ Told(todo, stack, header, token)
  /\ Counted

ListenerInv ==
  /\ ~panicked /\ HeaderKept
  /\ \E S : todo \in Seq(S)
  /\ parseErrors # "none" => todo = <<>>
  /\ parseErrors = "none" => Walking

LEMMA ItemsApart ==
  \A x, y : /\ Enter(x) # Exit(y) /\ (Enter(x) = Enter(y) => x = y) /\ (Exit(x) = Exit(y) => x = y)
            /\ Enter(x) \notin HeaderExits /\ (Exit(x) \in HeaderExits <=> x \in HeaderRules)
            /\ Enter(x)[2] = x /\ Exit(x)[2] = x /\ Enter(x)[1] = "enter" /\ Exit(x)[1] = "exit"
BY DEF Enter, Exit, HeaderExits

(* The first thing to do, and the node it is about *)
LEMMA FirstItem ==
  ASSUME NEW t, Len(t) \in Nat, Len(t) > 0, NEW st, Len(st) \in Nat, NEW L, NEW s, Aligned(t, st, L),
         t[1] = Enter(s) \/ t[1] = Exit(s)
  PROVE  /\ Fit(s, Owner(st, L[2])) /\ L[2] \in Nat /\ L[1] = Len(st)
         /\ t[1] = Exit(s) /\ s \in Pushed => L[2] = Len(st) - 1 /\ Len(st) > 0 /\ st[Len(st)].rule = s
         /\ t[1] = Enter(s) => L[2] = Len(st)
         /\ s \notin Pushed => L[2] = Len(st)
<1>1. 1 \in 1 .. Len(t) /\ t[1][2] = s /\ 1 + 1 = 2 /\ 2 \in 1 .. Len(t) + 1
  BY ItemsApart
<1>2. /\ L[1] = IF Closes(t[1]) THEN L[1 + 1] + 1 ELSE L[1 + 1]
      /\ Fit(s, Owner(st, L[1 + 1]))
      /\ Closes(t[1]) => st[L[1]].rule = s
  BY <1>1 DEF Aligned
<1>3. L[1] = Len(st) /\ L[2] \in Nat
  BY <1>1 DEF Aligned
<1>4. Closes(t[1]) <=> t[1] = Exit(s) /\ s \in Pushed
  BY <1>1, ItemsApart DEF Closes
<1>5. t[1] = Exit(s) /\ s \in Pushed => L[2] = Len(st) - 1 /\ Len(st) > 0 /\ st[Len(st)].rule = s
  <2> SUFFICES ASSUME Closes(t[1]) PROVE L[2] = Len(st) - 1 /\ Len(st) > 0 /\ st[Len(st)].rule = s
    BY <1>4
  <2> QED BY <1>2, <1>3
<1>6. (t[1] = Enter(s) => L[2] = Len(st)) /\ (s \notin Pushed => L[2] = Len(st))
  <2> SUFFICES ASSUME ~Closes(t[1]) PROVE L[2] = Len(st)
    BY <1>4, ItemsApart
  <2> QED BY <1>2, <1>3
<1> QED BY <1>2, <1>3, <1>5, <1>6

(* Inside the body of a rule the two copies of its header agree. *)
LEMMA HeaderAgrees ==
  ASSUME NEW t, Len(t) \in Nat, NEW st, Len(st) \in Nat, Nodes(st), NEW L, NEW hd, NEW tk,
         Aligned(t, st, L), Told(t, st, hd, tk), Len(st) > 1
  PROVE  hd = [name |-> st[1].name, desc |-> st[1].desc, sal |-> st[1].sal]
<1>1. Len(t) > 0
  BY DEF Aligned
<1>2. ASSUME NEW h \in HeaderRules, t[1] = Exit(h) PROVE FALSE
  <2>1. Fit(h, Owner(st, L[2])) /\ L[2] = Len(st)
    <3>1. h \notin Pushed
      BY AcceptedChildren DEF HeaderRules
    <3> QED BY <1>1, <1>2, <3>1, FirstItem, ZenonT(30)
  <2>2. Owner(st, L[2]) = "ruleEntity"
    BY <2>1 DEF Fit, Home, HeaderRules
  <2>3. Len(st) \in 1 .. Len(st) /\ st[Len(st)].rule = "ruleEntity"
    BY <2>1, <2>2 DEF Owner
  <2> QED BY <2>3 DEF Nodes
<1>3. ~First(t, Exit("ruleName")) /\ ~First(t, Exit("ruleDescription")) /\ ~First(t, Exit("salience"))
  BY <1>2 DEF First, HeaderRules
<1>4. hd.name = st[1].name /\ hd.desc = st[1].desc /\ hd.sal = st[1].sal
  <2>1. Len(st) > 0
    OBVIOUS
  <2>2. /\ hd.name = st[1].name \/ First(t, Exit("ruleName"))
        /\ hd.desc = st[1].desc \/ First(t, Exit("ruleDescription"))
        /\ hd.sal = st[1].sal \/ First(t, Exit("salience"))
    BY <2>1 DEF Told
  <2> QED BY <1>3, <2>2
<1>5. hd = [name |-> hd.name, desc |-> hd.desc, sal |-> hd.sal]
  BY DEF Told
<1> QED BY <1>4, <1>5

(* Leaving a node that has nothing to do with a header *)
LEMMA ToldOnTail ==
  ASSUME NEW S, NEW t \in Seq(S), Len(t) > 0, NEW st, Len(st) \in Nat, NEW L, NEW s, NEW hd, NEW tk, NEW v,
         Aligned(t, st, L), Fronted(t, st, L), Told(t, st, hd, tk), t[1] = Exit(s),
         s \notin HeaderRules,
         s \in {"stringLiteral", "integer"} => Owner(st, L[2]) # "ruleEntity",
         s = "ruleEntity" => Len(v) = 0,
         Len(v) > 0 => /\ Len(st) > 0 /\ v[1].name = st[1].name /\ v[1].desc = st[1].desc /\ v[1].sal = st[1].sal
  PROVE  Told(Tail(t), v, hd, tk)
<1> DEFINE u == Tail(t)
<1>1. /\ Len(t) \in Nat /\ Len(u) = Len(t) - 1 /\ \A i \in 1 .. Len(u) : u[i] = t[i + 1]
  BY HeadTailProperties, LenProperties
<1> HIDE DEF u
<1>2. ~Naming(u)
  <2>1. ASSUME First(u, Enter("ruleName")) PROVE FALSE
    <3>1. 2 \in 1 .. Len(t) /\ t[2] = Enter("ruleName")
      BY <1>1, <2>1 DEF First
    <3> QED BY <3>1 DEF Fronted
  <2>2. ASSUME Len(u) > 1, u[2] = Exit("ruleName") PROVE FALSE
    <3>1. 3 \in 1 .. Len(t) /\ t[3] = Exit("ruleName")
      BY <1>1, <2>2
    <3>2. Exit("ruleName") \in HeaderExits
      BY DEF HeaderExits, HeaderRules
    <3> QED BY <3>1, <3>2 DEF Fronted
  <2> QED BY <2>1, <2>2 DEF Naming
<1>3. tk = "" /\ t[1] # Enter("ruleName") /\ t[1] # Exit("ruleName") /\ t[1] # Exit("ruleDescription") /\ t[1] # Exit("salience")
  <2>1. \A h \in {"ruleName", "ruleDescription", "salience"} : s # h /\ h \in HeaderRules
    BY DEF HeaderRules
  <2>2. t[1] # Enter("ruleName") /\ t[1] \notin HeaderExits
    BY ItemsApart
  <2>3. Exit(s) # Exit("ruleName") /\ Exit(s) # Exit("ruleDescription") /\ Exit(s) # Exit("salience")
    BY <2>1, ItemsApart, Zenon
  <2>4. tk = ""
    BY <2>2 DEF Told
  <2> QED BY <2>2, <2>3, <2>4
<1>4. ~Naming(t)
  <2> SUFFICES ASSUME Len(t) > 1, t[2] = Exit("ruleName") PROVE FALSE
    BY <1>3 DEF Naming, First
  <2>1. 2 \in 1 .. Len(t) /\ Exit("ruleName") \in HeaderExits /\ t[2][2] = "ruleName" /\ "ruleName" \notin Pushed
    BY <1>1, AcceptedChildren, ItemsApart, SMTT(30) DEF HeaderRules
  <2>2. s \in {"stringLiteral", "integer"}
    BY <2>1, ItemsApart DEF Fronted
  <2>3. L[2] = L[2 + 1] /\ Fit("ruleName", Owner(st, L[2 + 1]))
    BY <2>1 DEF Aligned, Closes
  <2>4. Owner(st, L[2]) = "ruleEntity"
    BY <2>3 DEF Fit, Home
  <2> QED BY <2>2, <2>4
<1>5. CASE Len(v) > 0
  <2>1. s # "ruleEntity"
    BY <1>5
  <2>2. t[1] # Exit("ruleEntity")
    BY <2>1, ItemsApart
  <2>3. st[1].name # ""
    BY <1>3, <1>4, <1>5, <2>2 DEF Told, First
  <2>4. hd.name = st[1].name /\ hd.desc = st[1].desc /\ hd.sal = st[1].sal
    BY <1>3, <1>5 DEF Told, First
  <2> QED BY <1>2, <1>3, <1>5, <2>3, <2>4 DEF Told, u
<1>6. CASE ~(Len(v) > 0)
  BY <1>3, <1>6 DEF Told
<1> QED BY <1>5, <1>6

-----------------------------------------------------------------------------
(* Steps of the walk *)

LEMMA WalkFacts ==
  ASSUME ListenerInv, todo # <<>>
  PROVE  /\ parseErrors = "none" /\ Walking /\ ~panicked
         /\ Len(todo) \in Nat /\ Len(todo) > 0 /\ Head(todo) = todo[1]
         /\ Len(stack) \in Nat /\ Nodes(stack) /\ Told(todo, stack, header, token) /\ Counted
<1>1. parseErrors = "none" /\ Walking /\ ~panicked
  BY DEF ListenerInv
<1>2. PICK S : todo \in Seq(S)
  BY DEF ListenerInv
<1>3. Len(todo) \in Nat /\ Len(todo) > 0 /\ Head(todo) = todo[1]
  BY <1>2, HeadTailProperties, LenProperties
<1>4. PICK T : stack \in Seq(T)
  BY <1>1 DEF Walking, Nodes
<1>5. Len(stack) \in Nat
  BY <1>4
<1> QED BY <1>1, <1>3, <1>5 DEF Walking

LEMMA BelowFacts ==
  ASSUME NEW S, NEW st \in Seq(S), NEW m \in 1 .. Len(st)
  PROVE  /\ SubSeq(st, 1, m - 1) \in Seq(S) /\ Len(SubSeq(st, 1, m - 1)) = m - 1
         /\ \A i \in 1 .. m - 1 : SubSeq(st, 1, m - 1)[i] = st[i]
<1>1. Len(st) \in Nat /\ m - 1 \in 0 .. Len(st)
  BY LenProperties
<1> QED BY <1>1, SubSeqProperties

(* The call the walker makes next, and the node of the stack it is about *)
LEMMA FrontOfWalk ==
  ASSUME ListenerInv, todo # <<>>, NEW s, todo[1] = Enter(s) \/ todo[1] = Exit(s)
  PROVE  \E L : /\ Aligned(todo, stack, L) /\ Fronted(todo, stack, L)
                /\ Fit(s, Owner(stack, L[2])) /\ L[2] \in Nat /\ L[1] = Len(stack)
                /\ todo[1] = Exit(s) /\ s \in Pushed =>
                     L[2] = Len(stack) - 1 /\ Len(stack) > 0 /\ stack[Len(stack)].rule = s
                /\ todo[1] = Enter(s) => L[2] = Len(stack)
                /\ s \notin Pushed => L[2] = Len(stack)
<1>1. Walking /\ Len(todo) \in Nat /\ Len(todo) > 0 /\ Len(stack) \in Nat
  BY WalkFacts
<1>2. PICK L : Aligned(todo, stack, L) /\ Fronted(todo, stack, L)
  BY <1>1 DEF Walking
<1>3. PICK t : t = todo
  OBVIOUS
<1>4. PICK w : w = stack
  OBVIOUS
<1>5. /\ Len(t) \in Nat /\ Len(t) > 0 /\ Len(w) \in Nat /\ Aligned(t, w, L)
      /\ t[1] = Enter(s) \/ t[1] = Exit(s)
  BY <1>1, <1>2, <1>3, <1>4
<1> HIDE <1>3, <1>4
<1>6. /\ Fit(s, Owner(w, L[2])) /\ L[2] \in Nat /\ L[1] = Len(w)
      /\ t[1] = Exit(s) /\ s \in Pushed => L[2] = Len(w) - 1 /\ Len(w) > 0 /\ w[Len(w)].rule = s
      /\ t[1] = Enter(s) => L[2] = Len(w)
      /\ s \notin Pushed => L[2] = Len(w)
  BY <1>5, FirstItem
<1> QED BY <1>2, <1>3, <1>4, <1>6

(* The walk ends with an error. *)
LEMMA ErrorStep ==
  ASSUME ListenerInv, todo # <<>>, todo' = <<>>, parseErrors' # "none", panicked' = panicked, header' = header,
         stack' = stack \/ stack' = Below
  PROVE  ListenerInv'
<1>1. ~panicked /\ HeaderKept /\ Len(stack) \in Nat /\ Nodes(stack)
  BY WalkFacts DEF ListenerInv
<1>2. PICK S : stack \in Seq(S)
  BY <1>1 DEF Nodes
<1>3. Len(stack') > 1 => Len(stack) > 1 /\ stack'[1] = stack[1]
  <2>1. CASE stack' = stack
    BY <2>1
  <2>2. CASE stack' = Below /\ Len(stack) = 0
    <3>1. stack' = SubSeq(stack, 1, -1)
      BY <2>2 DEF Below
    <3>2. Len(stack') = 0
      BY <1>2, <3>1
    <3> QED BY <3>2
  <2>3. CASE stack' = Below /\ Len(stack) > 0
    <3>1. Len(stack') = Len(stack) - 1 /\ \A i \in 1 .. Len(stack) - 1 : stack'[i] = stack[i]
      <4>1. Len(stack) \in 1 .. Len(stack)
        BY <1>1, <2>3
      <4>2. Len(Below) = Len(stack) - 1 /\ \A i \in 1 .. Len(stack) - 1 : Below[i] = stack[i]
        BY <1>2, <4>1, BelowFacts DEF Below
      <4> QED BY <2>3, <4>2
    <3> QED BY <1>1, <3>1
  <2> QED BY <1>1, <2>1, <2>2, <2>3
<1>4. HeaderKept'
  BY <1>1, <1>3 DEF HeaderKept
<1>5. \E T : todo' \in Seq(T)
  <2>1. <<>> \in Seq({})
    OBVIOUS
  <2> QED BY <2>1
<1> QED BY <1>1, <1>4, <1>5 DEF ListenerInv

(* The walk goes on. *)
LEMMA WalkStep ==
  ASSUME ~panicked, UNCHANGED <<panicked, parseErrors>>, parseErrors = "none",
         \E S : todo' \in Seq(S), Nodes(stack'),
         \E L : Aligned(todo', stack', L) /\ Fronted(todo', stack', L),
         Told(todo', stack', header', token'), Counted'
  PROVE  ListenerInv'
<1>1. Walking'
  BY DEF Walking
<1>2. Len(todo') \in Nat /\ Len(stack') \in Nat
  <2>1. PICK S : todo' \in Seq(S)
    OBVIOUS
  <2>2. PICK T : stack' \in Seq(T)
    BY DEF Nodes
  <2> QED BY <2>1, <2>2
<1>3. HeaderKept'
  <2>1. PICK L : Aligned(todo', stack', L)
    OBVIOUS
  <2> QED BY <1>2, <2>1, HeaderAgrees DEF HeaderKept
<1> QED BY <1>1, <1>3 DEF ListenerInv

LEMMA TailStep ==
  ASSUME ListenerInv, todo # <<>>, NEW s, Head(todo) = Exit(s), Goes, Nodes(stack'),
         Len(stack') = IF s \in Pushed THEN Len(stack) - 1 ELSE Len(stack),
         \A i \in 1 .. Len(stack') : stack'[i].rule = stack[i].rule,
         Told(Tail(todo), stack', header', token'), Counted'
  PROVE  ListenerInv'
<1>1. /\ parseErrors = "none" /\ Walking /\ ~panicked
      /\ Len(todo) \in Nat /\ Len(todo) > 0 /\ todo[1] = Exit(s) /\ Len(stack) \in Nat
  BY WalkFacts
<1>2. PICK L : /\ Aligned(todo, stack, L) /\ Fronted(todo, stack, L)
               /\ s \in Pushed => L[2] = Len(stack) - 1
               /\ s \notin Pushed => L[2] = Len(stack)
  BY <1>1, FrontOfWalk
<1>3. Len(stack') = L[2]
  BY <1>2
<1>4. PICK S : todo \in Seq(S)
  BY DEF ListenerInv
<1>5. PICK v : v = stack'
  OBVIOUS
<1>6. /\ Tail(todo) \in Seq(S)
      /\ \E M : Aligned(Tail(todo), v, M) /\ Fronted(Tail(todo), v, M)
  <2>1. Len(v) = L[2] /\ \A i \in 1 .. L[2] : v[i].rule = stack[i].rule
    BY <1>3, <1>5
  <2> QED BY <1>1, <1>2, <1>4, <2>1, TailAligned
<1>7. todo' = Tail(todo) /\ UNCHANGED <<parseErrors, panicked>>
  BY DEF Goes
<1>8. \E M : Aligned(todo', stack', M) /\ Fronted(todo', stack', M)
  BY <1>5, <1>6, <1>7
<1>9. Told(todo', stack', header', token')
  BY <1>7
<1>10. \E T : todo' \in Seq(T)
  BY <1>6, <1>7
<1>11. ~panicked /\ UNCHANGED <<panicked, parseErrors>>
  <2>1. panicked' = panicked /\ parseErrors' = parseErrors
    BY <1>7
  <2>2. ~panicked
    BY <1>1
  <2> QED BY <2>1, <2>2
<1> QED BY <1>1, <1>8, <1>9, <1>10, <1>11, WalkStep

LEMMA LeaveStep ==
  ASSUME ListenerInv, todo # <<>>, NEW s, Head(todo) = Exit(s), Goes, Nodes(stack'),
         Len(stack') = IF s \in Pushed THEN Len(stack) - 1 ELSE Len(stack),
         \A i \in 1 .. Len(stack') : stack'[i].rule = stack[i].rule,
         s \notin HeaderRules, s \in {"stringLiteral", "integer"} => Top.rule # "ruleEntity",
         s = "ruleEntity" => Len(stack') = 0,
         Len(stack') > 0 => stack'[1].name = stack[1].name /\ stack'[1].desc = stack[1].desc /\ stack'[1].sal = stack[1].sal,
         UNCHANGED <<header, token>>, Counted'
  PROVE  ListenerInv'
<1>1. /\ Walking /\ Len(todo) \in Nat /\ Len(todo) > 0 /\ todo[1] = Exit(s) /\ Len(stack) \in Nat
      /\ Told(todo, stack, header, token)
  BY WalkFacts
<1>2. PICK L : /\ Aligned(todo, stack, L) /\ Fronted(todo, stack, L)
               /\ s \notin Pushed => L[2] = Len(stack)
  BY <1>1, FrontOfWalk
<1>3. PICK S : todo \in Seq(S)
  BY DEF ListenerInv
<1>4. s \in {"stringLiteral", "integer"} => Owner(stack, L[2]) # "ruleEntity"
  <2> SUFFICES ASSUME s \in {"stringLiteral", "integer"} PROVE Owner(stack, L[2]) # "ruleEntity"
    OBVIOUS
  <2>1. s \notin Pushed
    BY AcceptedChildren
  <2>3. L[2] = Len(stack)
    BY <1>2, <2>1
  <2>4. Top.rule # "ruleEntity"
    OBVIOUS
  <2> QED BY <2>3, <2>4 DEF Owner, Top
<1>5. PICK v : v = stack'
  OBVIOUS
<1>6. Told(Tail(todo), v, header, token)
  <2>1. /\ s = "ruleEntity" => Len(v) = 0
        /\ Len(v) > 0 => /\ Len(stack) > 0 /\ v[1].name = stack[1].name
                         /\ v[1].desc = stack[1].desc /\ v[1].sal = stack[1].sal
    <3>1. Len(v) > 0 => Len(stack) > 0
      BY <1>1, <1>5
    <3> QED BY <1>5, <3>1
  <2> QED BY <1>1, <1>2, <1>3, <1>4, <2>1, ToldOnTail
<1>7. Told(Tail(todo), stack', header', token')
  BY <1>5, <1>6
<1> QED BY <1>7, TailStep

(* A node that has taken a child, in its place *)
InPlace(v, st, m, nd) == v = Append(SubSeq(st, 1, m - 1), nd)

LEMMA NodesReplaced ==
  ASSUME NEW st, Nodes(st), Len(st) \in Nat, NEW m \in 1 .. Len(st), NEW nd, NodeLike(nd), nd.rule = st[m].rule,
         NEW v, InPlace(v, st, m, nd)
  PROVE  /\ Nodes(v) /\ Len(v) = m /\ v[m] = nd
         /\ \A i \in 1 .. m - 1 : v[i] = st[i]
         /\ \A i \in 1 .. m : v[i].rule = st[i].rule
<1>1. PICK S : st \in Seq(S)
  BY DEF Nodes
<1>2. PICK b : b = SubSeq(st, 1, m - 1)
  OBVIOUS
<1>3. b \in Seq(S) /\ Len(b) = m - 1 /\ \A i \in 1 .. m - 1 : b[i] = st[i]
  BY <1>1, <1>2, BelowFacts
<1>4. b \in Seq(S \cup {nd})
  <2>1. \A i \in 1 .. Len(b) : b[i] \in S \cup {nd}
    BY <1>3, ElementOfSeq
  <2>2. b = [i \in 1 .. Len(b) |-> b[i]] /\ Len(b) \in Nat
    BY <1>3, LenProperties
  <2> QED BY <2>1, <2>2
<1>5. /\ v \in Seq(S \cup {nd}) /\ Len(v) = m /\ v[m] = nd
      /\ \A i \in 1 .. m - 1 : v[i] = st[i]
  BY <1>2, <1>3, <1>4 DEF InPlace
<1>6. \A i \in 1 .. m : i = m \/ i \in 1 .. m - 1
  OBVIOUS
<1>7. \A i \in 1 .. m : v[i].rule = st[i].rule /\ NodeLike(v[i])
  BY <1>5, <1>6 DEF Nodes
<1>8. Nodes(v)
  <2>1. ASSUME NEW i \in 1 .. Len(v) PROVE NodeLike(v[i]) /\ (v[i].rule = "ruleEntity" <=> i = 1)
    <3>1. i \in 1 .. m /\ i \in 1 .. Len(st)
      BY <1>5
    <3> QED BY <1>7, <3>1 DEF Nodes
  <2>2. \E T : v \in Seq(T)
    BY <1>5
  <2> QED BY <2>1, <2>2 DEF Nodes
<1> QED BY <1>5, <1>7, <1>8

LEMMA WithKeeps ==
  ASSUME NEW n, NodeLike(n), NEW c
  PROVE  /\ NodeLike(With(n, c)) /\ With(n, c).rule = n.rule
         /\ n.rule = "ruleEntity" =>
              With(n, c).name = n.name /\ With(n, c).desc = n.desc /\ With(n, c).sal = n.sal
<1>1. PICK w : w = With(n, c)
  OBVIOUS
<1>2. w = n \/ \E x : w = [n EXCEPT !.has = x]
  BY <1>1 DEF With
<1>3. \A x : /\ NodeLike([n EXCEPT !.has = x]) /\ [n EXCEPT !.has = x].rule = n.rule
             /\ n.rule = "ruleEntity" => /\ [n EXCEPT !.has = x].name = n.name
                                         /\ [n EXCEPT !.has = x].desc = n.desc
                                         /\ [n EXCEPT !.has = x].sal = n.sal
  BY DEF NodeLike
<1> QED BY <1>1, <1>2, <1>3

LEMMA InitListener ==
  ASSUME Init
  PROVE  ListenerInv
<1> DEFINE L == [i \in 1 .. 2 |-> 0]
<1>1. todo = <<Enter("primary")>> /\ stack = <<>> /\ entities = {} /\ rules = 0 /\ parseErrors = "none" /\ ~panicked
  BY DEF Init
<1>2. header = [name |-> "", desc |-> "", sal |-> "0"] /\ token = ""
  BY DEF Init, NewHeader
<1>3. Len(todo) = 1 /\ todo[1] = Enter("primary")
  BY <1>1
<1>4. Len(stack) = 0
  BY <1>1
<1>5. ~Closes(todo[1]) /\ Owner(stack, 0) = "nothing" /\ Fit("primary", "nothing")
  BY <1>3, ItemsApart DEF Closes, Owner, Fit, Home
<1>6. \A i \in 1 .. Len(todo) : i = 1
  BY <1>3
<1>7. Aligned(todo, stack, L)
  <2>1. todo[1] = <<todo[1][1], todo[1][2]>> /\ todo[1][1] # "exit" /\ todo[1][2] = "primary"
    BY <1>3 DEF Enter
  <2>2. L \in [1 .. Len(todo) + 1 -> Nat] /\ L[1] = Len(stack) /\ L[Len(todo) + 1] = 0
    BY <1>3, <1>4
  <2>3. \A i, j \in 1 .. Len(todo) + 1 : i <= j => L[j] <= L[i]
    BY <1>3
  <2>4. L[1] = 0 /\ L[1 + 1] = 0
    OBVIOUS
  <2>5. ASSUME NEW i \in 1 .. Len(todo)
        PROVE  /\ todo[i] = <<todo[i][1], todo[i][2]>>
               /\ L[i] = IF Closes(todo[i]) THEN L[i + 1] + 1 ELSE L[i + 1]
               /\ Fit(todo[i][2], Owner(stack, L[i + 1]))
               /\ Closes(todo[i]) => stack[L[i]].rule = todo[i][2]
               /\ todo[i][1] = "exit" => todo[i][2] \notin Parts
    <3> HIDE DEF L
    <3> QED BY <1>5, <1>6, <2>1, <2>4
  <2> HIDE DEF L
  <2> QED BY <2>2, <2>3, <2>5 DEF Aligned
<1>8. Fronted(todo, stack, L)
  <2>1. todo[1] # Enter("ruleName") /\ todo[1] \notin HeaderExits /\ todo[1][2] = "primary"
    BY <1>3, ItemsApart
  <2> HIDE DEF L
  <2> QED BY <1>6, <2>1 DEF Fronted
<1>9. Nodes(stack)
  <2>1. <<>> \in Seq({})
    OBVIOUS
  <2>2. \E S : stack \in Seq(S)
    BY <1>1, <2>1
  <2> QED BY <1>4, <2>2 DEF Nodes
<1>10. Told(todo, stack, header, token)
  <2>1. header = [name |-> header.name, desc |-> header.desc, sal |-> header.sal]
    BY <1>2
  <2>2. ~(Len(stack) > 0)
    BY <1>4
  <2>3. token = ""
    BY <1>2
  <2> QED BY <2>1, <2>2, <2>3 DEF Told
<1>11. Counted
  BY <1>1, <1>4, FS_EmptySet DEF Counted
<1>12. Walking
  BY <1>7, <1>8, <1>9, <1>10, <1>11 DEF Walking
<1>13. \E S : todo \in Seq(S)
  <2>1. <<Enter("primary")>> \in Seq({Enter("primary")})
    OBVIOUS
  <2> QED BY <1>1, <2>1
<1>14. HeaderKept
  BY <1>4 DEF HeaderKept
<1> QED BY <1>1, <1>12, <1>13, <1>14 DEF ListenerInv

-----------------------------------------------------------------------------
(* Leaving a node: what is below it accepts it *)

LEMMA Accepted ==
  ASSUME ListenerInv, todo # <<>>, NEW s, Head(todo) = Exit(s), s \notin DOMAIN Home
  PROVE  /\ s \notin Pushed =>
              /\ Len(stack) > 0
              /\ CanAccept(Top, s) \/ (Top.rule = "ruleEntity" /\ s \in {"stringLiteral", "integer"})
         /\ s \in Pushed =>
              /\ Len(stack) > 1 /\ Top.rule = s
              /\ CanAccept(stack[Len(stack) - 1], s)
<1>1. Len(stack) \in Nat /\ todo[1] = Exit(s)
  BY WalkFacts
<1>2. PICK L : /\ Fit(s, Owner(stack, L[2]))
               /\ s \in Pushed => L[2] = Len(stack) - 1 /\ Len(stack) > 0 /\ stack[Len(stack)].rule = s
               /\ s \notin Pushed => L[2] = Len(stack)
  BY <1>1, FrontOfWalk
<1>3. "nothing" \notin Pushed /\ "nothing" # "ruleEntity"
  BY AcceptedChildren
<1>4. Owner(stack, L[2]) # "nothing"
  BY <1>2, <1>3 DEF Fit
<1>5. L[2] # 0
  BY <1>4 DEF Owner
<1>6. /\ Owner(stack, L[2]) = stack[L[2]].rule
      /\ s \in DOMAIN Accepts[stack[L[2]].rule] \/ (stack[L[2]].rule = "ruleEntity" /\ s \in {"stringLiteral", "integer"})
  <2>1. Owner(stack, L[2]) = stack[L[2]].rule
    BY <1>5 DEF Owner
  <2> QED BY <1>2, <2>1 DEF Fit
<1>7. CASE s \in Pushed
  <2>1. s \notin {"stringLiteral", "integer"}
    BY <1>7, AcceptedChildren
  <2> QED BY <1>1, <1>2, <1>5, <1>6, <1>7, <2>1 DEF CanAccept, Top
<1>8. CASE s \notin Pushed
  BY <1>1, <1>2, <1>5, <1>6, <1>8 DEF CanAccept, Top
<1> QED BY <1>7, <1>8

(* A node that has accepted a child, in its place on the stack *)
Accepting(v, st, m, c) == v = Append(SubSeq(st, 1, m - 1), With(st[m], c))

LEMMA NodeAccepts ==
  ASSUME NEW st, Nodes(st), Len(st) \in Nat, NEW m \in 1 .. Len(st), NEW c,
         NEW v, Accepting(v, st, m, c)
  PROVE  /\ Nodes(v) /\ Len(v) = m /\ \A i \in 1 .. m : v[i].rule = st[i].rule
         /\ v[1].name = st[1].name /\ v[1].desc = st[1].desc /\ v[1].sal = st[1].sal
<1>1. PICK nd : nd = With(st[m], c)
  OBVIOUS
<1>2. /\ NodeLike(nd) /\ nd.rule = st[m].rule
      /\ nd.rule = "ruleEntity" => nd.name = st[m].name /\ nd.desc = st[m].desc /\ nd.sal = st[m].sal
  <2>1. NodeLike(st[m])
    BY DEF Nodes
  <2> QED BY <1>1, <2>1, WithKeeps
<1>3. /\ Nodes(v) /\ Len(v) = m /\ v[m] = nd
      /\ \A i \in 1 .. m - 1 : v[i] = st[i]
      /\ \A i \in 1 .. m : v[i].rule = st[i].rule
  <2>1. InPlace(v, st, m, nd)
    BY <1>1 DEF InPlace, Accepting
  <2> QED BY <1>2, <2>1, NodesReplaced
<1>4. v[1].name = st[1].name /\ v[1].desc = st[1].desc /\ v[1].sal = st[1].sal
  <2>1. CASE m = 1
    <3>1. st[1].rule = "ruleEntity"
      BY DEF Nodes
    <3> QED BY <1>2, <1>3, <2>1, <3>1
  <2>2. CASE m # 1
    <3>1. 1 \in 1 .. m - 1
      BY <2>2
    <3> QED BY <1>3, <3>1
  <2> QED BY <2>1, <2>2
<1> QED BY <1>3, <1>4

LEMMA AcceptStep ==
  ASSUME ListenerInv, todo # <<>>, NEW s, Head(todo) = Exit(s), s \notin DOMAIN Home,
         s \in {"stringLiteral", "integer"} => Top.rule # "ruleEntity", Goes,
         NEW m \in 1 .. Len(stack), m = IF s \in Pushed THEN Len(stack) - 1 ELSE Len(stack),
         NEW c, stack' = Append(SubSeq(stack, 1, m - 1), With(stack[m], c)),
         UNCHANGED <<entities, header, token, rules>>
  PROVE  ListenerInv'
<1>1. Len(stack) \in Nat /\ Nodes(stack) /\ Counted
  BY WalkFacts
<1>2. PICK w : w = stack
  OBVIOUS
<1>3. Nodes(w) /\ Len(w) \in Nat /\ m \in 1 .. Len(w)
  BY <1>1, <1>2
<1>4. PICK v : v = stack'
  OBVIOUS
<1>5. Accepting(v, w, m, c)
  BY <1>2, <1>4 DEF Accepting
<1>6. /\ Nodes(v) /\ Len(v) = m /\ \A i \in 1 .. m : v[i].rule = w[i].rule
      /\ v[1].name = w[1].name /\ v[1].desc = w[1].desc /\ v[1].sal = w[1].sal
  BY <1>3, <1>5, NodeAccepts, SMTT(30)
<1>7. Counted'
  <2>1. Len(stack') # 0 /\ Len(stack) # 0
    BY <1>1, <1>4, <1>6
  <2> QED BY <1>1, <2>1 DEF Counted
<1>8. s \notin HeaderRules /\ s # "ruleEntity"
  BY DEF Home, HeaderRules
<1>9. /\ Nodes(stack') /\ Len(stack') = IF s \in Pushed THEN Len(stack) - 1 ELSE Len(stack)
      /\ \A i \in 1 .. Len(stack') : stack'[i].rule = stack[i].rule
      /\ Len(stack') > 0 =>
           stack'[1].name = stack[1].name /\ stack'[1].desc = stack[1].desc /\ stack'[1].sal = stack[1].sal
  <2>1. Nodes(stack')
    BY <1>4, <1>6
  <2>2. Len(stack') = m
    BY <1>4, <1>6
  <2>3. \A i \in 1 .. Len(stack') : stack'[i].rule = stack[i].rule
    BY <1>2, <1>4, <1>6, <2>2
  <2>4. stack'[1].name = stack[1].name /\ stack'[1].desc = stack[1].desc /\ stack'[1].sal = stack[1].sal
    BY <1>2, <1>4, <1>6
  <2> QED BY <2>1, <2>2, <2>3, <2>4
<1> QED BY <1>7, <1>8, <1>9, LeaveStep

(* Leaving a node that nothing is done about *)
LEMMA SkipStep ==
  ASSUME ListenerInv, todo # <<>>, NEW s, Head(todo) = Exit(s), s \notin Pushed, s \notin HeaderRules,
         s \notin {"stringLiteral", "integer"}, Goes,
         UNCHANGED <<stack, entities, header, token, rules>>
  PROVE  ListenerInv'
<1>1. Nodes(stack) /\ Counted
  BY WalkFacts
<1>2. Nodes(stack') /\ Counted' /\ s # "ruleEntity"
  BY <1>1, AcceptedChildren DEF Counted
<1> QED BY <1>2, LeaveStep

LEMMA ExitNodeStep == ListenerInv /\ ExitNode => ListenerInv'
<1> SUFFICES ASSUME ListenerInv, ExitNode PROVE ListenerInv'
  OBVIOUS
<1>1. PICK s \in Handed : todo # <<>> /\ Head(todo) = Exit(s)
  BY DEF ExitNode, At
<1>2. Head(todo)[2] = s
  BY <1>1, ItemsApart
<1>3. s \in Pushed /\ s \notin DOMAIN Home /\ s \notin {"stringLiteral", "integer"}
  BY AcceptedChildren DEF Handed, Home
<1>4. /\ Len(stack) > 1 /\ Top.rule = s /\ Len(stack) \in Nat
      /\ CanAccept(stack[Len(stack) - 1], s)
  BY <1>1, <1>3, Accepted, WalkFacts
<1>5. UNCHANGED <<entities, header, token, rules>>
  BY DEF ExitNode
<1>6. \/ AddError("set twice") /\ stack' = Below
      \/ Goes /\ stack' = Append(SubSeq(stack, 1, Len(stack) - 2), With(stack[Len(stack) - 1], s))
  BY <1>2, <1>4 DEF ExitNode
<1>7. CASE AddError("set twice") /\ stack' = Below
  BY <1>1, <1>5, <1>7, ErrorStep DEF AddError
<1>8. CASE Goes /\ stack' = Append(SubSeq(stack, 1, Len(stack) - 2), With(stack[Len(stack) - 1], s))
  <2>1. PICK m \in 1 .. Len(stack) : m = Len(stack) - 1
    BY <1>4
  <2>2. m = IF s \in Pushed THEN Len(stack) - 1 ELSE Len(stack)
    BY <1>3, <2>1
  <2>3. stack' = Append(SubSeq(stack, 1, m - 1), With(stack[m], s))
    <3>1. Len(stack) - 2 = m - 1
      BY <1>4, <2>1
    <3> QED BY <1>8, <2>1, <3>1
  <2> QED BY <1>1, <1>3, <1>5, <1>8, <2>2, <2>3, AcceptStep
<1> QED BY <1>6, <1>7, <1>8

(* A leaf handed to the node on top of the stack *)
LEMMA LeafStep ==
  ASSUME ListenerInv, todo # <<>>, NEW s, Head(todo) = Exit(s), s \notin DOMAIN Home, s \notin Pushed,
         s \in {"stringLiteral", "integer"} => Top.rule # "ruleEntity", Goes,
         NEW c, stack' = Append(Below, With(Top, c)),
         UNCHANGED <<entities, header, token, rules>>
  PROVE  ListenerInv'
<1>1. Len(stack) > 0 /\ Len(stack) \in Nat
  BY Accepted, WalkFacts
<1>2. PICK m \in 1 .. Len(stack) : m = Len(stack)
  BY <1>1
<1>3. m = IF s \in Pushed THEN Len(stack) - 1 ELSE Len(stack)
  BY <1>2
<1>4. stack' = Append(SubSeq(stack, 1, m - 1), With(stack[m], c))
  BY <1>2 DEF Below, Top
<1> QED BY <1>3, <1>4, AcceptStep

LEMMA ExitLeafStep == ListenerInv /\ ExitLeaf => ListenerInv'
<1> SUFFICES ASSUME ListenerInv, ExitLeaf PROVE ListenerInv'
  OBVIOUS
<1>1. PICK s \in AtConstants \cup CutLeaves : todo # <<>> /\ Head(todo) = Exit(s)
  BY DEF ExitLeaf, At
<1>2. Head(todo)[2] = s
  BY <1>1, ItemsApart
<1>3. s \notin Pushed /\ s \notin DOMAIN Home /\ s \notin {"stringLiteral", "integer"} /\ s \notin HeaderRules
  BY AcceptedChildren DEF AtConstants, CutLeaves, Home, HeaderRules
<1>4. CanAccept(Top, s)
  BY <1>1, <1>3, Accepted
<1>5. UNCHANGED <<entities, header, token, rules>>
  BY DEF ExitLeaf
<1>6. \/ AddError("set twice") /\ stack' = stack
      \/ Goes /\ stack' = Append(Below, With(Top, s))
      \/ Goes /\ stack' = stack
  BY <1>2, <1>4 DEF ExitLeaf
<1>7. CASE AddError("set twice") /\ stack' = stack
  BY <1>1, <1>5, <1>7, ErrorStep DEF AddError
<1>8. CASE Goes /\ stack' = Append(Below, With(Top, s))
  BY <1>1, <1>3, <1>5, <1>8, LeafStep
<1>9. CASE Goes /\ stack' = stack
  BY <1>1, <1>3, <1>5, <1>9, SkipStep
<1> QED BY <1>6, <1>7, <1>8, <1>9

LEMMA ExitBooleanOrRealStep == ListenerInv /\ ExitBooleanOrReal => ListenerInv'
<1> SUFFICES ASSUME ListenerInv, ExitBooleanOrReal PROVE ListenerInv'
  OBVIOUS
<1>1. PICK s \in {"booleanLiteral", "realLiteral"} : todo # <<>> /\ Head(todo) = Exit(s)
  BY DEF ExitBooleanOrReal, At
<1>2. s \notin Pushed /\ s \notin DOMAIN Home /\ s \notin {"stringLiteral", "integer"}
  BY AcceptedChildren DEF Home
<1>3. Len(stack) > 0 /\ CanAccept(Top, s) /\ Nodes(stack) /\ Len(stack) \in Nat
  BY <1>1, <1>2, Accepted, WalkFacts
<1>4. Top.rule = "constant"
  <2>1. Len(stack) \in 1 .. Len(stack)
    BY <1>3
  <2>2. Top.rule \in Pushed
    BY <1>3, <2>1 DEF Nodes, NodeLike, Top
  <2>3. \A r \in Pushed : s \in DOMAIN Accepts[r] => r = "constant"
    BY AcceptedChildren
  <2> QED BY <1>3, <2>2, <2>3 DEF CanAccept
<1>5. UNCHANGED <<entities, header, token, rules>>
  BY DEF ExitBooleanOrReal
<1>6. \/ AddError("number") /\ stack' = stack
      \/ Goes /\ stack' = Append(Below, With(Top, "booleanLiteral"))
  BY <1>4 DEF ExitBooleanOrReal
<1>7. CASE AddError("number") /\ stack' = stack
  BY <1>1, <1>5, <1>7, ErrorStep DEF AddError
<1>8. CASE Goes /\ stack' = Append(Below, With(Top, "booleanLiteral"))
  BY <1>1, <1>2, <1>5, <1>8, LeafStep
<1> QED BY <1>6, <1>7, <1>8

LEMMA ExitSilentStep == ListenerInv /\ ExitSilent => ListenerInv'
<1> SUFFICES ASSUME ListenerInv, ExitSilent PROVE ListenerInv'
  OBVIOUS
<1>1. PICK s \in {"primary", "rangeOperator"} : todo # <<>> /\ Head(todo) = Exit(s)
  BY DEF ExitSilent, At
<1>2. s \notin Pushed /\ s \notin HeaderRules /\ s \notin {"stringLiteral", "integer"}
  BY AcceptedChildren DEF HeaderRules
<1>3. Goes /\ UNCHANGED <<stack, entities, header, token, rules>>
  BY DEF ExitSilent
<1> QED BY <1>1, <1>2, <1>3, SkipStep

LEMMA VisitErrorNodeStep == ListenerInv /\ VisitErrorNode => ListenerInv'
<1> SUFFICES ASSUME ListenerInv, VisitErrorNode PROVE ListenerInv'
  OBVIOUS
<1>1. todo # <<>> /\ AddError("error node") /\ UNCHANGED <<stack, header>>
  BY DEF VisitErrorNode
<1> QED BY <1>1, ErrorStep DEF AddError

-----------------------------------------------------------------------------
(* The header of a rule *)

LEMMA NamingOver ==
  ASSUME NEW S, NEW t \in Seq(S), Len(t) > 0, NEW st, NEW L, NEW s, Fronted(t, st, L), t[1] = Exit(s)
  PROVE  /\ ~Naming(Tail(t)) /\ Len(Tail(t)) \in Nat
         /\ s \notin {"stringLiteral", "integer"} => ~Naming(t)
         /\ Len(t) > 1 => Len(Tail(t)) > 0 /\ Tail(t)[1] = t[2]
<1> DEFINE u == Tail(t)
<1>1. /\ Len(t) \in Nat /\ Len(u) = Len(t) - 1 /\ \A i \in 1 .. Len(u) : u[i] = t[i + 1]
  BY HeadTailProperties, LenProperties
<1> HIDE DEF u
<1>2. Exit("ruleName") \in HeaderExits /\ t[1] # Enter("ruleName") /\ t[1][2] = s
  BY ItemsApart DEF HeaderRules
<1>3. ~Naming(u)
  <2>1. ASSUME First(u, Enter("ruleName")) PROVE FALSE
    <3>1. 2 \in 1 .. Len(t) /\ t[2] = Enter("ruleName")
      BY <1>1, <2>1 DEF First
    <3> QED BY <3>1 DEF Fronted
  <2>2. ASSUME Len(u) > 1, u[2] = Exit("ruleName") PROVE FALSE
    <3>1. 3 \in 1 .. Len(t) /\ t[3] = Exit("ruleName")
      BY <1>1, <2>2
    <3> QED BY <1>2, <3>1 DEF Fronted
  <2> QED BY <2>1, <2>2 DEF Naming
<1>4. ASSUME s \notin {"stringLiteral", "integer"}, Len(t) > 1, t[2] = Exit("ruleName") PROVE FALSE
  <2>1. 2 \in 1 .. Len(t)
    BY <1>1, <1>4
  <2> QED BY <1>2, <1>4, <2>1 DEF Fronted
<1>5. Len(t) > 1 => Len(u) > 0 /\ u[1] = t[2]
  BY <1>1
<1>6. s \notin {"stringLiteral", "integer"} => ~Naming(t)
  BY <1>2, <1>4 DEF Naming, First
<1> QED BY <1>1, <1>3, <1>5, <1>6 DEF u

(* The literal of a header goes to the rule, and the listener remembers it. *)
TakesLiteral(s, x, e, f) ==
  /\ s = "stringLiteral" =>
       /\ f.name = IF e.name = "" THEN x ELSE e.name
       /\ f.desc = IF e.name = "" THEN e.desc ELSE x
       /\ f.sal = e.sal
  /\ s = "integer" => f.name = e.name /\ f.desc = e.desc /\ f.sal = x

LEMMA LiteralTold ==
  ASSUME NEW S, NEW t \in Seq(S), Len(t) > 0, NEW st, Len(st) = 1, NEW L, NEW s, s \in {"stringLiteral", "integer"},
         NEW hd, NEW tk, Aligned(t, st, L), Fronted(t, st, L), Told(t, st, hd, tk), t[1] = Exit(s),
         Owner(st, L[2]) = "ruleEntity", NEW v, Len(v) = 1, NEW x,
         TakesLiteral(s, x, st[1], v[1])
  PROVE  Told(Tail(t), v, hd, x)
<1> DEFINE u == Tail(t)
<1>1. ~Naming(u) /\ Len(u) \in Nat /\ (Len(t) > 1 => Len(u) > 0 /\ u[1] = t[2])
  BY NamingOver
<1> HIDE DEF u
<1>2. /\ Len(t) > 1
      /\ s = "stringLiteral" => t[2] = Exit("ruleName") \/ t[2] = Exit("ruleDescription")
      /\ s = "integer" => t[2] = Exit("salience")
  <2>1. t[1][2] = s
    BY ItemsApart
  <2>2. Len(t) \in Nat
    BY LenProperties
  <2>3. 1 \in 1 .. Len(t) /\ 1 + 1 = 2
    BY <2>2
  <2> QED BY <2>1, <2>3 DEF Fronted
<1>3. Len(u) > 0 /\ u[1] = t[2] /\ t[2] \in HeaderExits
  <2>1. Exit("ruleName") \in HeaderExits /\ Exit("ruleDescription") \in HeaderExits /\ Exit("salience") \in HeaderExits
    BY DEF HeaderExits, HeaderRules
  <2>2. Len(u) > 0 /\ u[1] = t[2]
    BY <1>1, <1>2
  <2>3. t[2] \in HeaderExits
    BY <1>2, <2>1
  <2> QED BY <2>2, <2>3
<1>4. /\ Exit("ruleName") # Exit("ruleDescription") /\ Exit("salience") # Exit("ruleName")
      /\ Exit("salience") # Exit("ruleDescription")
      /\ t[1] # Exit("ruleName") /\ t[1] # Exit("ruleDescription") /\ t[1] # Exit("salience")
      /\ t[1] # Exit("ruleEntity") /\ t[1] # Enter("ruleName")
  <2>1. s # "ruleName" /\ s # "ruleDescription" /\ s # "salience" /\ s # "ruleEntity"
    OBVIOUS
  <2>2. /\ Exit("ruleName") # Exit("ruleDescription") /\ Exit("salience") # Exit("ruleName")
        /\ Exit("salience") # Exit("ruleDescription")
    BY ItemsApart
  <2> QED BY <2>1, <2>2, ItemsApart
<1>5. /\ Len(st) > 0 /\ Len(v) > 0
      /\ Naming(t) <=> t[2] = Exit("ruleName")
  <2>1. Len(st) > 0 /\ Len(v) > 0
    OBVIOUS
  <2>2. ~First(t, Enter("ruleName"))
    BY <1>4 DEF First
  <2> QED BY <1>2, <2>1, <2>2 DEF Naming
<1>6. /\ hd = [name |-> hd.name, desc |-> hd.desc, sal |-> hd.sal]
      /\ hd.name = st[1].name /\ hd.desc = st[1].desc /\ hd.sal = st[1].sal
      /\ st[1].name = "" <=> t[2] = Exit("ruleName")
  BY <1>4, <1>5 DEF Told, First
<1>7. CASE t[2] = Exit("ruleName")
  <2>1. v[1].desc = st[1].desc /\ v[1].sal = st[1].sal
    BY <1>2, <1>4, <1>6, <1>7 DEF TakesLiteral
  <2> QED BY <1>1, <1>3, <1>4, <1>5, <1>6, <1>7, <2>1 DEF Told, First, u
<1>8. CASE t[2] = Exit("ruleDescription")
  <2>1. v[1].name = st[1].name /\ v[1].sal = st[1].sal /\ st[1].name # ""
    BY <1>2, <1>4, <1>6, <1>8 DEF TakesLiteral
  <2> QED BY <1>1, <1>3, <1>4, <1>5, <1>6, <1>8, <2>1 DEF Told, First, u
<1>9. CASE t[2] = Exit("salience")
  <2>1. v[1].name = st[1].name /\ v[1].desc = st[1].desc /\ v[1].sal = x /\ st[1].name # ""
    BY <1>2, <1>4, <1>6, <1>9 DEF TakesLiteral
  <2> QED BY <1>1, <1>3, <1>4, <1>5, <1>6, <1>9, <2>1 DEF Told, First, u
<1> QED BY <1>2, <1>7, <1>8, <1>9

(* Leaving a header rule: the listener's copy becomes what the rule was told. *)
LeavesHeader(s, tk, e, f, hd, hd2) ==
  /\ s # "ruleDescription" => tk # ""
  /\ s = "ruleName" => f.name = tk /\ f.desc = e.desc /\ f.sal = e.sal /\ hd2 = [hd EXCEPT !.name = tk]
  /\ s = "ruleDescription" => f.name = e.name /\ f.desc = tk /\ f.sal = e.sal /\ hd2 = [hd EXCEPT !.desc = tk]
  /\ s = "salience" => f.name = e.name /\ f.desc = e.desc /\ f.sal = e.sal /\ hd2 = [hd EXCEPT !.sal = tk]

LEMMA HeaderTold ==
  ASSUME NEW S, NEW t \in Seq(S), Len(t) > 0, NEW st, Len(st) = 1, NEW L, NEW s, s \in HeaderRules,
         NEW hd, NEW tk, Fronted(t, st, L), Told(t, st, hd, tk), t[1] = Exit(s),
         NEW v, Len(v) = 1, NEW hd2,
         LeavesHeader(s, tk, st[1], v[1], hd, hd2)
  PROVE  Told(Tail(t), v, hd2, "")
<1> DEFINE u == Tail(t)
<1>1. ~Naming(u) /\ ~Naming(t)
  BY NamingOver DEF HeaderRules
<1> HIDE DEF u
<1>2. Len(st) > 0 /\ Len(v) > 0 /\ s \in {"ruleName", "ruleDescription", "salience"}
  <2>1. s \in {"ruleName", "ruleDescription", "salience"}
    BY DEF HeaderRules
  <2>2. Len(st) > 0 /\ Len(v) > 0
    OBVIOUS
  <2> QED BY <2>1, <2>2
<1>3. /\ hd = [name |-> hd.name, desc |-> hd.desc, sal |-> hd.sal]
      /\ st[1].name = "" => s = "ruleName"
      /\ hd.name = st[1].name \/ s = "ruleName"
      /\ hd.desc = st[1].desc \/ s = "ruleDescription"
      /\ hd.sal = st[1].sal \/ s = "salience"
      /\ s = "salience" => tk = "" \/ tk = st[1].sal
  <2>1. /\ First(t, Exit("ruleName")) <=> s = "ruleName"
        /\ First(t, Exit("ruleDescription")) <=> s = "ruleDescription"
        /\ First(t, Exit("salience")) <=> s = "salience"
        /\ First(t, Exit("ruleEntity")) <=> s = "ruleEntity"
    BY ItemsApart DEF First
  <2>2. s # "ruleEntity"
    BY <1>2
  <2> QED BY <1>1, <1>2, <2>1, <2>2 DEF Told
<1>4. /\ hd2 = [name |-> hd2.name, desc |-> hd2.desc, sal |-> hd2.sal]
      /\ s = "ruleName" => hd2.name = tk /\ hd2.desc = hd.desc /\ hd2.sal = hd.sal
      /\ s = "ruleDescription" => hd2.name = hd.name /\ hd2.desc = tk /\ hd2.sal = hd.sal
      /\ s = "salience" => hd2.name = hd.name /\ hd2.desc = hd.desc /\ hd2.sal = tk
  BY <1>2, <1>3 DEF LeavesHeader
<1>5. /\ v[1].name # "" /\ hd2.name = v[1].name /\ hd2.desc = v[1].desc /\ hd2.sal = v[1].sal
  BY <1>2, <1>3, <1>4 DEF LeavesHeader
<1> QED BY <1>1, <1>2, <1>4, <1>5 DEF Told, u

(* The rule being read is alone on the stack. *)
LEMMA RuleOnTop ==
  ASSUME ListenerInv, todo # <<>>, NEW s, Head(todo) = Exit(s), s \notin Pushed,
         s \in HeaderRules \/ (s \in {"stringLiteral", "integer"} /\ Top.rule = "ruleEntity")
  PROVE  /\ Len(stack) = 1 /\ Top = stack[1] /\ stack[1].rule = "ruleEntity" /\ NodeLike(stack[1])
         /\ \E L : /\ Aligned(todo, stack, L) /\ Fronted(todo, stack, L)
                   /\ Owner(stack, L[2]) = "ruleEntity"
<1>1. Len(stack) \in Nat /\ Nodes(stack) /\ todo[1] = Exit(s)
  BY WalkFacts
<1>2. PICK L : /\ Aligned(todo, stack, L) /\ Fronted(todo, stack, L)
               /\ Fit(s, Owner(stack, L[2])) /\ L[2] = Len(stack)
  BY <1>1, FrontOfWalk
<1>3. Len(stack) > 0 /\ Top.rule = "ruleEntity"
  <2>1. CASE s \in HeaderRules
    <3>1. Owner(stack, L[2]) = "ruleEntity"
      BY <1>2, <2>1 DEF Fit, Home, HeaderRules
    <3> QED BY <1>1, <1>2, <3>1 DEF Owner, Top
  <2>2. CASE s \in {"stringLiteral", "integer"} /\ Top.rule = "ruleEntity"
    <3>1. s \notin DOMAIN Home
      BY <2>2 DEF Home
    <3> QED BY <2>2, <3>1, Accepted
  <2> QED BY <2>1, <2>2
<1>4. Len(stack) \in 1 .. Len(stack)
  BY <1>1, <1>3
<1>5. Len(stack) = 1 /\ NodeLike(stack[1])
  BY <1>1, <1>3, <1>4 DEF Nodes, Top
<1>6. Owner(stack, L[2]) = "ruleEntity"
  BY <1>2, <1>3, <1>5 DEF Owner, Top
<1> QED BY <1>2, <1>3, <1>5, <1>6 DEF Top

LEMMA RuleReplaced ==
  ASSUME NEW w, Len(w) = 1, Nodes(w), w[1].rule = "ruleEntity", NEW nd, NodeLike(nd), nd.rule = "ruleEntity",
         NEW v, InPlace(v, w, 1, nd)
  PROVE  Nodes(v) /\ Len(v) = 1 /\ v[1] = nd
<1>1. PICK S : w \in Seq(S)
  BY DEF Nodes
<1>2. SubSeq(w, 1, 1 - 1) = <<>>
  BY <1>1
<1>3. v = <<nd>>
  <2>1. v = Append(SubSeq(w, 1, 1 - 1), nd)
    BY DEF InPlace
  <2>2. v = Append(<<>>, nd)
    BY <1>2, <2>1
  <2> QED BY <2>2
<1>4. v \in Seq({nd}) /\ Len(v) = 1 /\ v[1] = nd
  BY <1>3
<1>5. Nodes(v)
  <2>1. ASSUME NEW i \in 1 .. Len(v) PROVE i = 1
    BY <1>4
  <2>2. \E T : v \in Seq(T)
    BY <1>4
  <2> QED BY <1>4, <2>1, <2>2 DEF Nodes
<1> QED BY <1>4, <1>5

LEMMA LiteralStep ==
  ASSUME ListenerInv, todo # <<>>, NEW s, Head(todo) = Exit(s), s \in {"stringLiteral", "integer"},
         Top.rule = "ruleEntity", Goes, NEW nd, NodeLike(nd), nd.rule = "ruleEntity", NEW x,
         TakesLiteral(s, x, Top, nd), stack' = Append(Below, nd), token' = x,
         UNCHANGED <<entities, header, rules>>
  PROVE  ListenerInv'
<1>0. s \notin Pushed
  BY AcceptedChildren
<1>1. /\ Len(todo) \in Nat /\ Len(todo) > 0 /\ todo[1] = Exit(s)
      /\ Nodes(stack) /\ Told(todo, stack, header, token) /\ Counted
  BY WalkFacts
<1>2. Len(stack) = 1 /\ Top = stack[1] /\ stack[1].rule = "ruleEntity"
  BY <1>0, RuleOnTop
<1>3. PICK L : /\ Aligned(todo, stack, L) /\ Fronted(todo, stack, L) /\ Owner(stack, L[2]) = "ruleEntity"
  BY <1>0, RuleOnTop
<1>4. PICK S : todo \in Seq(S)
  BY DEF ListenerInv
<1>5. Nodes(stack') /\ Len(stack') = 1 /\ stack'[1] = nd
  <2>1. PICK v : v = stack'
    OBVIOUS
  <2>2. InPlace(v, stack, 1, nd)
    BY <1>2, <2>1 DEF InPlace, Below
  <2>3. Nodes(v) /\ Len(v) = 1 /\ v[1] = nd
    BY <1>1, <1>2, <2>2, RuleReplaced
  <2> QED BY <2>1, <2>3
<1>6. PICK v : v = stack'
  OBVIOUS
<1>7. Len(v) = 1 /\ TakesLiteral(s, x, stack[1], v[1])
  BY <1>2, <1>5, <1>6
<1>8. Told(Tail(todo), v, header, x)
  BY <1>1, <1>2, <1>3, <1>4, <1>7, LiteralTold
<1>9. Told(Tail(todo), stack', header', token')
  BY <1>6, <1>8
<1>10. Counted'
  BY <1>1, <1>2, <1>5 DEF Counted
<1>11. /\ Len(stack') = IF s \in Pushed THEN Len(stack) - 1 ELSE Len(stack)
       /\ \A i \in 1 .. Len(stack') : stack'[i].rule = stack[i].rule
  <2>1. Len(stack') = Len(stack)
    BY <1>2, <1>5
  <2>2. v[1].rule = stack[1].rule
    BY <1>2, <1>5, <1>6
  <2>3. ASSUME NEW i \in 1 .. Len(v)
        PROVE  v[i].rule = stack[i].rule
    <3>1. Len(v) = 1
      BY <1>7
    <3>2. i = 1
      BY <3>1
    <3> QED BY <2>2, <3>2
  <2> QED BY <1>0, <1>6, <2>1, <2>3
<1> QED BY <1>5, <1>9, <1>10, <1>11, TailStep

HeaderDone == token' = "" /\ UNCHANGED <<entities, rules>>

LEMMA HeaderStep ==
  ASSUME ListenerInv, todo # <<>>, NEW s, Head(todo) = Exit(s), s \in HeaderRules, Goes,
         Nodes(stack'), Len(stack') = 1, stack'[1].rule = "ruleEntity",
         LeavesHeader(s, token, stack[1], stack'[1], header, header'),
         HeaderDone
  PROVE  ListenerInv'
<1>0. s \notin Pushed
  BY AcceptedChildren DEF HeaderRules
<1>1. /\ Len(todo) \in Nat /\ Len(todo) > 0 /\ todo[1] = Exit(s)
      /\ Nodes(stack) /\ Told(todo, stack, header, token) /\ Counted
  BY WalkFacts
<1>2. Len(stack) = 1 /\ stack[1].rule = "ruleEntity"
  BY <1>0, RuleOnTop
<1>3. PICK L : Aligned(todo, stack, L) /\ Fronted(todo, stack, L)
  BY <1>0, RuleOnTop
<1>4. PICK S : todo \in Seq(S)
  BY DEF ListenerInv
<1>5. PICK hd : hd = header'
  OBVIOUS
<1>6. PICK v : v = stack'
  OBVIOUS
<1>7. Len(v) = 1 /\ LeavesHeader(s, token, stack[1], v[1], header, hd)
  BY <1>5, <1>6
<1>8. Told(Tail(todo), v, hd, "")
  BY <1>1, <1>2, <1>3, <1>4, <1>7, HeaderTold
<1>9. Told(Tail(todo), stack', header', token')
  BY <1>5, <1>6, <1>8 DEF HeaderDone
<1>10. Counted'
  BY <1>1, <1>2 DEF Counted, HeaderDone
<1>11. /\ Len(stack') = IF s \in Pushed THEN Len(stack) - 1 ELSE Len(stack)
       /\ \A i \in 1 .. Len(stack') : stack'[i].rule = stack[i].rule
  <2>1. Len(stack') = Len(stack)
    BY <1>2
  <2>2. v[1].rule = stack[1].rule
    BY <1>2, <1>6
  <2>3. ASSUME NEW i \in 1 .. Len(v)
        PROVE  v[i].rule = stack[i].rule
    <3>1. Len(v) = 1
      BY <1>7
    <3>2. i = 1
      BY <3>1
    <3> QED BY <2>2, <3>2
  <2> QED BY <1>0, <1>6, <2>1, <2>3
<1> QED BY <1>9, <1>10, <1>11, TailStep

(* What may be on top of the stack when a literal is left *)
LEMMA LiteralTops ==
  ASSUME ListenerInv, todo # <<>>, NEW s \in {"stringLiteral", "integer"}, Head(todo) = Exit(s)
  PROVE  /\ Len(stack) > 0 /\ Top.rule \in {"ruleEntity", "constant", "mapVar"}
         /\ Top.rule # "ruleEntity" => CanAccept(Top, s)
<1>1. s \notin Pushed /\ s \notin DOMAIN Home
  BY AcceptedChildren DEF Home
<1>2. Len(stack) > 0 /\ (CanAccept(Top, s) \/ Top.rule = "ruleEntity") /\ Nodes(stack) /\ Len(stack) \in Nat
  BY <1>1, Accepted, WalkFacts
<1>3. Len(stack) \in 1 .. Len(stack)
  BY <1>2
<1>4. Top.rule \in Pushed
  BY <1>2, <1>3 DEF Nodes, NodeLike, Top
<1>5. \A r \in Pushed : s \in DOMAIN Accepts[r] => r \in {"constant", "mapVar"}
  BY AcceptedChildren
<1> QED BY <1>2, <1>4, <1>5 DEF CanAccept

LEMMA ExitStringLiteralStep == ListenerInv /\ ExitStringLiteral => ListenerInv'
<1> SUFFICES ASSUME ListenerInv, ExitStringLiteral PROVE ListenerInv'
  OBVIOUS
<1>1. PICK s : s = "stringLiteral"
  OBVIOUS
<1>2. todo # <<>> /\ Head(todo) = Exit(s)
  BY <1>1 DEF ExitStringLiteral, At
<1>3. /\ s \in {"stringLiteral", "integer"} /\ s \notin Pushed /\ s \notin DOMAIN Home
  BY <1>1, AcceptedChildren DEF Home
<1>4. Top.rule \in {"ruleEntity", "constant", "mapVar"}
  BY <1>2, <1>3, LiteralTops
<1>5. UNCHANGED <<entities, header, rules>>
  BY DEF ExitStringLiteral
<1>6. PICK t \in Texts :
        \/ Top.rule = "ruleEntity" /\ Goes /\ stack' = Append(Below, EntityString(Top, t)) /\ token' = t
        \/ AddError("set twice") /\ stack' = stack
        \/ AddError("null key") /\ stack' = stack
        \/ Top.rule # "ruleEntity" /\ Goes /\ stack' = Append(Below, With(Top, s)) /\ token' = token
  <2>1. PICK t \in Texts :
          \/ Top.rule = "ruleEntity" /\ Goes /\ stack' = Append(Below, EntityString(Top, t)) /\ token' = t
          \/ AddError("set twice") /\ stack' = stack
          \/ AddError("null key") /\ stack' = stack
          \/ (Top.rule = "constant" \/ Top.rule = "mapVar") /\ Goes /\ stack' = Append(Below, With(Top, s)) /\ token' = token
          \/ Top.rule \notin {"ruleEntity", "mapVar", "constant"}
    BY <1>1 DEF ExitStringLiteral
  <2> QED BY <1>4, <2>1
<1>7. CASE Top.rule = "ruleEntity" /\ Goes /\ stack' = Append(Below, EntityString(Top, t)) /\ token' = t
  <2>1. PICK nd : nd = EntityString(Top, t)
    OBVIOUS
  <2>2. Top.rule = "ruleEntity" /\ NodeLike(Top)
    BY <1>2, <1>3, <1>7, RuleOnTop
  <2>3. NodeLike(nd) /\ nd.rule = "ruleEntity" /\ TakesLiteral(s, t, Top, nd)
    <3>1. PICK e : e = Top
      OBVIOUS
    <3>2. NodeLike(e) /\ e.rule = "ruleEntity"
      BY <2>2, <3>1
    <3>3. nd = IF e.name = "" THEN [e EXCEPT !.name = t] ELSE [e EXCEPT !.desc = t]
      BY <2>1, <3>1 DEF EntityString
    <3> HIDE <3>1
    <3>4. CASE e.name = ""
      <4>1. NodeLike(nd) /\ nd.rule = "ruleEntity" /\ nd.name = t /\ nd.desc = e.desc /\ nd.sal = e.sal
        <5>1. nd = [e EXCEPT !.name = t]
          BY <3>3, <3>4
        <5> QED BY <3>2, <5>1 DEF NodeLike
      <4> QED BY <1>1, <3>1, <3>4, <4>1 DEF TakesLiteral
    <3>5. CASE e.name # ""
      <4>1. NodeLike(nd) /\ nd.rule = "ruleEntity" /\ nd.name = e.name /\ nd.desc = t /\ nd.sal = e.sal
        <5>1. nd = [e EXCEPT !.desc = t]
          BY <3>3, <3>5
        <5> QED BY <3>2, <5>1 DEF NodeLike
      <4> QED BY <1>1, <3>1, <3>5, <4>1 DEF TakesLiteral
    <3> QED BY <3>4, <3>5
  <2>4. stack' = Append(Below, nd) /\ token' = t /\ Goes
    BY <1>7, <2>1
  <2> QED BY <1>2, <1>3, <1>5, <2>2, <2>3, <2>4, LiteralStep
<1>8. CASE AddError("set twice") /\ stack' = stack
  BY <1>2, <1>5, <1>8, ErrorStep DEF AddError
<1>9. CASE AddError("null key") /\ stack' = stack
  BY <1>2, <1>5, <1>9, ErrorStep DEF AddError
<1>10. CASE Top.rule # "ruleEntity" /\ Goes /\ stack' = Append(Below, With(Top, s)) /\ token' = token
  BY <1>2, <1>3, <1>5, <1>10, LeafStep
<1> QED BY <1>6, <1>7, <1>8, <1>9, <1>10

LEMMA ExitIntegerStep == ListenerInv /\ ExitInteger => ListenerInv'
<1> SUFFICES ASSUME ListenerInv, ExitInteger PROVE ListenerInv'
  OBVIOUS
<1>1. PICK s : s = "integer"
  OBVIOUS
<1>2. todo # <<>> /\ Head(todo) = Exit(s)
  BY <1>1 DEF ExitInteger, At
<1>3. /\ s \in {"stringLiteral", "integer"} /\ s \notin Pushed /\ s \notin DOMAIN Home
  BY <1>1, AcceptedChildren DEF Home
<1>4. Top.rule # "ruleEntity" => CanAccept(Top, s)
  BY <1>2, <1>3, LiteralTops
<1>5. UNCHANGED <<entities, header, rules>>
  BY DEF ExitInteger
<1>6. \/ AddError("number") /\ stack' = stack
      \/ /\ Top.rule = "ruleEntity" /\ Goes
         /\ \E i \in Saliences : stack' = Append(Below, [Top EXCEPT !.sal = i]) /\ token' = i
      \/ Top.rule # "ruleEntity" /\ Goes /\ stack' = Append(Below, With(Top, s)) /\ token' = token
  BY <1>1, <1>4 DEF ExitInteger
<1>7. CASE AddError("number") /\ stack' = stack
  BY <1>2, <1>5, <1>7, ErrorStep DEF AddError
<1>8. CASE /\ Top.rule = "ruleEntity" /\ Goes
           /\ \E i \in Saliences : stack' = Append(Below, [Top EXCEPT !.sal = i]) /\ token' = i
  <2>1. PICK i \in Saliences : stack' = Append(Below, [Top EXCEPT !.sal = i]) /\ token' = i
    BY <1>8
  <2>2. PICK nd : nd = [Top EXCEPT !.sal = i]
    OBVIOUS
  <2>3. Top.rule = "ruleEntity" /\ NodeLike(Top)
    BY <1>2, <1>3, <1>8, RuleOnTop
  <2>4. NodeLike(nd) /\ nd.rule = "ruleEntity" /\ TakesLiteral(s, i, Top, nd)
    <3>1. NodeLike(nd) /\ nd.rule = "ruleEntity" /\ nd.name = Top.name /\ nd.desc = Top.desc /\ nd.sal = i
      BY <2>2, <2>3 DEF NodeLike
    <3> QED BY <1>1, <3>1 DEF TakesLiteral
  <2>5. stack' = Append(Below, nd) /\ token' = i /\ Goes
    BY <1>8, <2>1, <2>2
  <2> QED BY <1>2, <1>3, <1>5, <2>3, <2>4, <2>5, LiteralStep
<1>9. CASE Top.rule # "ruleEntity" /\ Goes /\ stack' = Append(Below, With(Top, s)) /\ token' = token
  BY <1>2, <1>3, <1>5, <1>9, LeafStep
<1> QED BY <1>6, <1>7, <1>8, <1>9

LEMMA ExitRuleNameStep == ListenerInv /\ ExitRuleName => ListenerInv'
<1> SUFFICES ASSUME ListenerInv, ExitRuleName PROVE ListenerInv'
  OBVIOUS
<1>1. PICK s : s = "ruleName"
  OBVIOUS
<1>2. todo # <<>> /\ Head(todo) = Exit(s)
  BY <1>1 DEF ExitRuleName, At
<1>3. s \in HeaderRules /\ s \notin Pushed
  BY <1>1, AcceptedChildren DEF HeaderRules
<1>4. Len(stack) = 1 /\ Top = stack[1] /\ stack[1].rule = "ruleEntity" /\ NodeLike(stack[1]) /\ Nodes(stack)
      /\ Told(todo, stack, header, token)
  BY <1>2, <1>3, RuleOnTop, WalkFacts
<1>5. token' = "" /\ UNCHANGED <<entities, rules>>
  BY DEF ExitRuleName
<1>6. \/ AddError("rule name") /\ stack' = stack /\ header' = header
      \/ /\ token # "" /\ Goes /\ stack' = Append(Below, [stack[1] EXCEPT !.name = token])
         /\ header' = [header EXCEPT !.name = token]
  BY <1>4 DEF ExitRuleName
<1>7. CASE AddError("rule name") /\ stack' = stack /\ header' = header
  BY <1>2, <1>7, ErrorStep DEF AddError
<1>8. CASE /\ token # "" /\ Goes /\ stack' = Append(Below, [stack[1] EXCEPT !.name = token])
           /\ header' = [header EXCEPT !.name = token]
  <2>1. PICK nd : nd = [stack[1] EXCEPT !.name = token]
    OBVIOUS
  <2>2. NodeLike(nd) /\ nd.rule = "ruleEntity" /\ nd.name = token /\ nd.desc = stack[1].desc /\ nd.sal = stack[1].sal
    BY <1>4, <2>1 DEF NodeLike
  <2>3. PICK v : v = stack'
    OBVIOUS
  <2>4. InPlace(v, stack, 1, nd)
    BY <1>4, <1>8, <2>1, <2>3 DEF InPlace, Below
  <2>5. Nodes(v) /\ Len(v) = 1 /\ v[1] = nd
    BY <1>4, <2>2, <2>4, RuleReplaced
  <2>6. PICK hd : hd = [header EXCEPT !.name = token]
    OBVIOUS
  <2>7. LeavesHeader(s, token, stack[1], stack'[1], header, hd)
    BY <1>1, <1>8, <2>2, <2>3, <2>5, <2>6 DEF LeavesHeader
  <2>8. Nodes(stack') /\ Len(stack') = 1 /\ stack'[1].rule = "ruleEntity" /\ header' = hd /\ Goes
    BY <1>8, <2>2, <2>3, <2>5, <2>6
  <2>9. LeavesHeader(s, token, stack[1], stack'[1], header, header')
    BY <2>7, <2>8
  <2> QED BY <1>2, <1>3, <1>5, <2>8, <2>9, HeaderStep DEF HeaderDone
<1> QED BY <1>6, <1>7, <1>8

LEMMA ExitRuleDescriptionStep == ListenerInv /\ ExitRuleDescription => ListenerInv'
<1> SUFFICES ASSUME ListenerInv, ExitRuleDescription PROVE ListenerInv'
  OBVIOUS
<1>1. PICK s : s = "ruleDescription"
  OBVIOUS
<1>2. todo # <<>> /\ Head(todo) = Exit(s)
  BY <1>1 DEF ExitRuleDescription, At
<1>3. s \in HeaderRules /\ s \notin Pushed
  BY <1>1, AcceptedChildren DEF HeaderRules
<1>4. Len(stack) = 1 /\ Top = stack[1] /\ stack[1].rule = "ruleEntity" /\ NodeLike(stack[1]) /\ Nodes(stack)
  BY <1>2, <1>3, RuleOnTop, WalkFacts
<1>5. token' = "" /\ UNCHANGED <<entities, rules>>
  BY DEF ExitRuleDescription
<1>6. /\ Goes /\ stack' = Append(Below, [stack[1] EXCEPT !.desc = token])
      /\ header' = [header EXCEPT !.desc = token]
  BY <1>4 DEF ExitRuleDescription
<1>7. PICK nd : nd = [stack[1] EXCEPT !.desc = token]
  OBVIOUS
<1>8. NodeLike(nd) /\ nd.rule = "ruleEntity" /\ nd.name = stack[1].name /\ nd.desc = token /\ nd.sal = stack[1].sal
  BY <1>4, <1>7 DEF NodeLike
<1>9. PICK v : v = stack'
  OBVIOUS
<1>10. InPlace(v, stack, 1, nd)
  BY <1>4, <1>6, <1>7, <1>9 DEF InPlace, Below
<1>11. Nodes(v) /\ Len(v) = 1 /\ v[1] = nd
  BY <1>4, <1>8, <1>10, RuleReplaced
<1>12. PICK hd : hd = [header EXCEPT !.desc = token]
  OBVIOUS
<1>13. LeavesHeader(s, token, stack[1], stack'[1], header, hd)
  BY <1>1, <1>8, <1>9, <1>11, <1>12 DEF LeavesHeader
<1>14. Nodes(stack') /\ Len(stack') = 1 /\ stack'[1].rule = "ruleEntity" /\ header' = hd /\ Goes
  BY <1>6, <1>8, <1>9, <1>11, <1>12
<1>15. LeavesHeader(s, token, stack[1], stack'[1], header, header')
  BY <1>13, <1>14
<1> QED BY <1>2, <1>3, <1>5, <1>14, <1>15, HeaderStep DEF HeaderDone

LEMMA ExitSalienceStep == ListenerInv /\ ExitSalience => ListenerInv'
<1> SUFFICES ASSUME ListenerInv, ExitSalience PROVE ListenerInv'
  OBVIOUS
<1>1. PICK s : s = "salience"
  OBVIOUS
<1>2. todo # <<>> /\ Head(todo) = Exit(s)
  BY <1>1 DEF ExitSalience, At
<1>3. s \in HeaderRules /\ s \notin Pushed
  BY <1>1, AcceptedChildren DEF HeaderRules
<1>4. Len(stack) = 1 /\ stack[1].rule = "ruleEntity" /\ Nodes(stack)
  BY <1>2, <1>3, RuleOnTop, WalkFacts
<1>5. token' = "" /\ stack' = stack /\ UNCHANGED <<entities, rules>>
  BY DEF ExitSalience
<1>6. \/ AddError("salience") /\ header' = header
      \/ token # "" /\ Goes /\ header' = [header EXCEPT !.sal = token]
  BY DEF ExitSalience
<1>7. CASE AddError("salience") /\ header' = header
  BY <1>2, <1>5, <1>7, ErrorStep DEF AddError
<1>8. CASE token # "" /\ Goes /\ header' = [header EXCEPT !.sal = token]
  <2>1. PICK hd : hd = [header EXCEPT !.sal = token]
    OBVIOUS
  <2>2. LeavesHeader(s, token, stack[1], stack'[1], header, hd)
    BY <1>1, <1>5, <1>8, <2>1 DEF LeavesHeader
  <2>3. Nodes(stack') /\ Len(stack') = 1 /\ stack'[1].rule = "ruleEntity" /\ header' = hd /\ Goes
    BY <1>4, <1>5, <1>8, <2>1
  <2>4. LeavesHeader(s, token, stack[1], stack'[1], header, header')
    BY <2>2, <2>3
  <2> QED BY <1>2, <1>3, <1>5, <2>3, <2>4, HeaderStep DEF HeaderDone
<1> QED BY <1>6, <1>7, <1>8

LEMMA ExitRuleEntityStep == ListenerInv /\ ExitRuleEntity => ListenerInv'
<1> SUFFICES ASSUME ListenerInv, ExitRuleEntity PROVE ListenerInv'
  OBVIOUS
<1>1. PICK s : s = "ruleEntity"
  OBVIOUS
<1>2. todo # <<>> /\ Head(todo) = Exit(s)
  BY <1>1 DEF ExitRuleEntity, At
<1>3. s \in Pushed /\ s \notin HeaderRules /\ s \notin {"stringLiteral", "integer"}
  BY <1>1, AcceptedChildren DEF HeaderRules
<1>4. Len(stack) \in Nat /\ Nodes(stack) /\ Counted /\ todo[1] = Exit(s)
  BY <1>2, WalkFacts
<1>5. Len(stack) > 0 /\ stack[Len(stack)].rule = "ruleEntity"
  BY <1>1, <1>2, <1>3, <1>4, FrontOfWalk
<1>6. Len(stack) = 1 /\ Top.rule = "ruleEntity"
  <2>1. Len(stack) \in 1 .. Len(stack)
    BY <1>4, <1>5
  <2> QED BY <1>4, <1>5, <2>1 DEF Nodes, Top
<1>7. stack' = Below /\ UNCHANGED <<header, token, rules>>
  BY <1>6 DEF ExitRuleEntity
<1>8. \/ AddError("existed")
      \/ Top.name \notin entities /\ Goes /\ entities' = entities \cup {Top.name}
  BY <1>6 DEF ExitRuleEntity
<1>9. CASE AddError("existed")
  BY <1>2, <1>7, <1>9, ErrorStep DEF AddError
<1>10. CASE Top.name \notin entities /\ Goes /\ entities' = entities \cup {Top.name}
  <2>1. stack' = <<>>
    <3>1. PICK S : stack \in Seq(S)
      BY <1>4 DEF Nodes
    <3>2. stack' = SubSeq(stack, 1, 1 - 1)
      BY <1>6, <1>7 DEF Below
    <3>3. SubSeq(stack, 1, 1 - 1) = <<>>
      BY <3>1
    <3> QED BY <3>2, <3>3
  <2>2. Nodes(stack') /\ Len(stack') = 0
    <3>1. Len(<<>>) = 0 /\ <<>> \in Seq({})
      OBVIOUS
    <3>2. Nodes(<<>>)
      BY <3>1 DEF Nodes
    <3> QED BY <2>1, <3>1, <3>2
  <2>3. Counted'
    <3>1. /\ IsFiniteSet(entities') /\ Cardinality(entities') = Cardinality(entities) + 1
      BY <1>4, <1>10, FS_AddElement DEF Counted
    <3>2. Cardinality(entities) \in Nat
      BY <1>4, FS_CardinalityType DEF Counted
    <3>3. rules' = rules /\ rules \in Nat /\ rules = Cardinality(entities) + 1
      BY <1>4, <1>6, <1>7 DEF Counted
    <3> QED BY <2>2, <3>1, <3>2, <3>3 DEF Counted
  <2>4. Len(stack') = IF s \in Pushed THEN Len(stack) - 1 ELSE Len(stack)
    BY <1>3, <1>6, <2>2
  <2>5. \A i \in 1 .. Len(stack') : stack'[i].rule = stack[i].rule
    BY <2>2
  <2>6. ~(Len(stack') > 0)
    BY <2>2
  <2> QED BY <1>2, <1>3, <1>7, <1>10, <2>2, <2>3, <2>4, <2>5, <2>6, LeaveStep
<1> QED BY <1>8, <1>9, <1>10

-----------------------------------------------------------------------------
(* Entering a node *)

(* The name of a rule is still to be read only while its header is. *)
LEMMA EnterNaming ==
  ASSUME NEW t, Len(t) \in Nat, Len(t) > 0, NEW st, Len(st) \in Nat, NEW L, NEW s, NEW u,
         NEW n \in 0 .. 4, NEW k, NEW shape \in Shapes(s),
         Aligned(t, st, L), Fronted(t, st, L), Entering(t, s, shape, n, k, u)
  PROVE  /\ s \in {"stringLiteral", "integer"} => (Naming(u) <=> Naming(t))
         /\ s = "ruleName" => Naming(t) /\ (Naming(u) \/ First(u, Exit("ruleName")))
         /\ s = "ruleEntity" => Naming(u) \/ First(u, Exit("ruleEntity"))
         /\ s \notin {"stringLiteral", "integer", "ruleName", "ruleEntity"} => ~Naming(t) /\ ~Naming(u)
<1>0. /\ t[1] = Enter(s) /\ t[1][2] = s
      /\ \A x : Enter(x) # Exit("ruleName") /\ Exit(x) # Enter("ruleName")
      /\ Exit("ruleName") \in HeaderExits /\ (Enter(s) = Enter("ruleName") => s = "ruleName")
      /\ (Exit(s) = Exit("ruleName") => s = "ruleName")
  BY ItemsApart DEF Entering, HeaderRules
<1>1. PICK p : Fit(s, p)
  BY <1>0, FirstItem
<1>2. /\ s \in {"stringLiteral", "integer"} => Len(shape) = 0
      /\ s \in HeaderRules => Len(shape) <= 1
      /\ \A i \in 1 .. Len(shape) : shape[i] = "ruleName" => s = "ruleEntity"
  BY <1>1, HeaderChildren
<1>3. Len(shape) \in Nat
  <2>1. \E q : ChildrenFit(s, q)
    BY <1>1, AllChildrenFit
  <2> QED BY <2>1 DEF ChildrenFit, FitsUnder
<1>4. /\ n <= Len(shape) /\ k \in Nat /\ (s \in Parts => k = n) /\ (s \notin Parts => k = n + 1)
      /\ Len(u) \in Nat /\ Len(u) = k + Len(t) - 1
      /\ \A i \in 1 .. n : u[i] = Enter(shape[i])
      /\ s \notin Parts => u[n + 1] = Exit(s)
      /\ \A i \in k + 1 .. Len(u) : u[i] = t[i - k + 1]
  BY DEF Entering, Following
<1>5. CASE s \in {"stringLiteral", "integer"}
  <2>1. s \notin Parts /\ s # "ruleName" /\ s # "ruleEntity"
    BY <1>5 DEF Parts
  <2>2. n = 0 /\ k = 1 /\ u[1] = Exit(s) /\ Len(u) = Len(t)
    BY <1>2, <1>4, <1>5, <2>1
  <2>3. Len(t) > 1 => u[2] = t[2]
    <3> SUFFICES ASSUME Len(t) > 1 PROVE u[2] = t[2]
      OBVIOUS
    <3>1. 2 \in k + 1 .. Len(u) /\ 2 - k + 1 = 2
      BY <2>2
    <3>2. \A i \in k + 1 .. Len(u) : u[i] = t[i - k + 1]
      BY <1>4
    <3>3. u[2] = t[2 - k + 1]
      BY <3>1, <3>2
    <3> QED BY <3>1, <3>3
  <2>4. ~First(u, Enter("ruleName")) /\ ~First(t, Enter("ruleName"))
    BY <1>0, <2>1, <2>2 DEF First
  <2>5. Naming(u) <=> Naming(t)
    BY <2>2, <2>3, <2>4 DEF Naming
  <2> QED BY <1>5, <2>1, <2>5
<1>6. CASE s = "ruleName"
  <2>1. s \notin Parts /\ s \in HeaderRules /\ k = n + 1 /\ u[n + 1] = Exit("ruleName")
    BY <1>4, <1>6 DEF Parts, HeaderRules
  <2>2. n = 0 \/ n = 1
    BY <1>2, <1>3, <1>4, <2>1
  <2>3. Naming(t)
    BY <1>0, <1>6 DEF Naming, First
  <2>4. CASE n = 0
    <3>1. Len(u) > 0 /\ u[1] = Exit("ruleName")
      BY <1>4, <2>1, <2>4
    <3> QED BY <1>6, <2>3, <3>1 DEF First
  <2>5. CASE n = 1
    <3>1. Len(u) > 1 /\ u[2] = Exit("ruleName")
      BY <1>4, <2>1, <2>5
    <3> QED BY <1>6, <2>3, <3>1 DEF Naming
  <2> QED BY <2>2, <2>4, <2>5
<1>7. CASE s = "ruleEntity"
  <2>1. s \notin Parts /\ k = n + 1 /\ u[n + 1] = Exit("ruleEntity")
    BY <1>4, <1>7 DEF Parts
  <2>2. shape[1] = "ruleName"
    <3>1. Shapes("ruleEntity") = {<<"ruleName", "descPart", "saliencePart", "ruleContent">>}
      BY ShapesAre, TableDomains DEF RuleShapes
    <3>2. shape = <<"ruleName", "descPart", "saliencePart", "ruleContent">>
      BY <1>7, <3>1
    <3> QED BY <3>2
  <2>3. Len(u) > 0
    BY <1>4, <2>1
  <2>4. CASE n = 0
    BY <1>7, <2>1, <2>3, <2>4 DEF First
  <2>5. CASE n # 0
    <3>1. u[1] = Enter("ruleName")
      BY <1>4, <2>2, <2>5
    <3> QED BY <1>7, <2>3, <3>1 DEF Naming, First
  <2> QED BY <2>4, <2>5
<1>8. CASE s \notin {"stringLiteral", "integer", "ruleName", "ruleEntity"}
  <2>1. ASSUME NEW j \in 2 .. Len(t) PROVE t[j] # Enter("ruleName") /\ t[j] # Exit("ruleName")
    <3>1. j \in 1 .. Len(t) /\ j # 1
      OBVIOUS
    <3> QED BY <1>0, <1>8, <3>1 DEF Fronted
  <2>2. ~Naming(t)
    <3>1. ~First(t, Enter("ruleName"))
      BY <1>0, <1>8 DEF First
    <3>2. Len(t) > 1 => t[2] # Exit("ruleName")
      BY <2>1
    <3> QED BY <3>1, <3>2 DEF Naming
  <2>3. ASSUME NEW i \in 1 .. Len(u) PROVE u[i] # Exit("ruleName") /\ (i = 1 => u[i] # Enter("ruleName"))
    <3>1. CASE i \in 1 .. n
      <4>1. u[i] = Enter(shape[i]) /\ i \in 1 .. Len(shape) /\ shape[i] # "ruleName"
        BY <1>2, <1>3, <1>4, <1>8, <3>1
      <4> QED BY <4>1, ItemsApart
    <3>2. CASE s \notin Parts /\ i = n + 1
      BY <1>0, <1>4, <1>8, <3>2
    <3>3. CASE i \in k + 1 .. Len(u)
      <4>1. u[i] = t[i - k + 1]
        BY <1>4, <3>3
      <4>2. i - k + 1 \in 2 .. Len(t)
        BY <1>4, <3>3
      <4> QED BY <2>1, <4>1, <4>2
    <3> QED BY <1>4, <3>1, <3>2, <3>3
  <2>4. ~Naming(u)
    <3>1. ~First(u, Enter("ruleName"))
      BY <1>4, <2>3 DEF First
    <3>2. Len(u) > 1 => u[2] # Exit("ruleName")
      BY <1>4, <2>3
    <3> QED BY <3>1, <3>2 DEF Naming
  <2> QED BY <1>8, <2>2, <2>4
<1> QED BY <1>5, <1>6, <1>7, <1>8

(* Entering a node leaves the header told as it was; a rule starts afresh. *)
StartsAfresh(s, st, v, hd, hd2) ==
  /\ s = "ruleEntity" => /\ v[1].name = "" /\ v[1].desc = "" /\ v[1].sal = "0"
                         /\ hd2 = [name |-> "", desc |-> "", sal |-> "0"]
  /\ s # "ruleEntity" => hd2 = hd /\ (Len(v) > 0 => Len(st) > 0 /\ v[1] = st[1])

LEMMA EnterTold ==
  ASSUME NEW t, Len(t) \in Nat, Len(t) > 0, NEW st, Len(st) \in Nat, NEW L, NEW s, NEW u,
         NEW n \in 0 .. 4, NEW k, NEW shape \in Shapes(s),
         Aligned(t, st, L), Fronted(t, st, L), Entering(t, s, shape, n, k, u),
         NEW hd, NEW tk, Told(t, st, hd, tk), NEW v, NEW hd2, StartsAfresh(s, st, v, hd, hd2)
  PROVE  Told(u, v, hd2, tk)
<1>1. /\ s \in {"stringLiteral", "integer"} => (Naming(u) <=> Naming(t))
      /\ s = "ruleName" => Naming(t) /\ (Naming(u) \/ First(u, Exit("ruleName")))
      /\ s = "ruleEntity" => Naming(u) \/ First(u, Exit("ruleEntity"))
      /\ s \notin {"stringLiteral", "integer", "ruleName", "ruleEntity"} => ~Naming(t) /\ ~Naming(u)
  BY EnterNaming
<1>2. t[1] = Enter(s) /\ \A x : Exit(x) # Enter(s)
  BY ItemsApart DEF Entering
<1>3. /\ ~First(t, Exit("ruleName")) /\ ~First(t, Exit("ruleDescription")) /\ ~First(t, Exit("salience"))
      /\ ~First(t, Exit("ruleEntity"))
  BY <1>2 DEF First
<1>4. tk = ""
  BY <1>2, ItemsApart DEF Told
<1>5. CASE s = "ruleEntity"
  <2>1. /\ v[1].name = "" /\ v[1].desc = "" /\ v[1].sal = "0"
        /\ hd2 = [name |-> "", desc |-> "", sal |-> "0"]
    BY <1>5 DEF StartsAfresh
  <2>2. hd2.name = v[1].name /\ hd2.desc = v[1].desc /\ hd2.sal = v[1].sal
    BY <2>1
  <2>3. hd2 = [name |-> hd2.name, desc |-> hd2.desc, sal |-> hd2.sal]
    BY <2>1
  <2> QED BY <1>1, <1>4, <1>5, <2>1, <2>2, <2>3 DEF Told
<1>6. CASE s # "ruleEntity"
  <2>1. hd2 = hd /\ (Len(v) > 0 => Len(st) > 0 /\ v[1] = st[1])
    BY <1>6 DEF StartsAfresh
  <2>2. CASE Len(v) > 0
    <3>1. /\ Naming(t) => st[1].name = ""
          /\ st[1].name = "" => Naming(t)
          /\ hd.name = st[1].name /\ hd.desc = st[1].desc /\ hd.sal = st[1].sal
          /\ hd = [name |-> hd.name, desc |-> hd.desc, sal |-> hd.sal]
      BY <1>3, <2>1, <2>2 DEF Told
    <3>2. Naming(u) => Naming(t)
      BY <1>1, <1>6
    <3>3. Naming(t) => Naming(u) \/ First(u, Exit("ruleName"))
      BY <1>1, <1>6
    <3> QED BY <1>4, <2>1, <2>2, <3>1, <3>2, <3>3 DEF Told
  <2>3. CASE ~(Len(v) > 0)
    <3>1. hd = [name |-> hd.name, desc |-> hd.desc, sal |-> hd.sal]
      BY DEF Told
    <3> QED BY <1>4, <2>1, <2>3, <3>1 DEF Told
  <2> QED BY <2>2, <2>3
<1> QED BY <1>5, <1>6

EntersStack(s, st, v) == v = IF s \in Pushed THEN Append(st, Node(s)) ELSE st

LEMMA NodePushed ==
  ASSUME NEW st, Nodes(st), Len(st) \in Nat, NEW s, NEW v, EntersStack(s, st, v),
         s \in Pushed => (s = "ruleEntity" <=> Len(st) = 0)
  PROVE  /\ Nodes(v)
         /\ Len(v) = IF s \in Pushed THEN Len(st) + 1 ELSE Len(st)
         /\ \A i \in 1 .. Len(st) : v[i] = st[i]
         /\ s \in Pushed => v[Len(v)] = Node(s)
         /\ Grows(st, s, v)
<1>1. CASE s \notin Pushed
  <2>1. v = st
    BY <1>1 DEF EntersStack
  <2> QED BY <1>1, <2>1 DEF Grows
<1>2. CASE s \in Pushed
  <2>1. PICK nd : nd = Node(s)
    OBVIOUS
  <2>2. NodeLike(nd) /\ nd.rule = s
    BY <1>2, <2>1 DEF NodeLike, Node
  <2>3. PICK S : st \in Seq(S)
    BY DEF Nodes
  <2>4. st \in Seq(S \cup {nd})
    <3>1. \A i \in 1 .. Len(st) : st[i] \in S \cup {nd}
      BY <2>3, ElementOfSeq
    <3>2. st = [i \in 1 .. Len(st) |-> st[i]] /\ Len(st) \in Nat
      BY <2>3, LenProperties
    <3> QED BY <3>1, <3>2
  <2>5. v = Append(st, nd)
    BY <1>2, <2>1 DEF EntersStack
  <2>6. /\ v \in Seq(S \cup {nd}) /\ Len(v) = Len(st) + 1 /\ v[Len(st) + 1] = nd
        /\ \A i \in 1 .. Len(st) : v[i] = st[i]
    BY <2>4, <2>5
  <2>7. ASSUME NEW i \in 1 .. Len(v) PROVE NodeLike(v[i]) /\ (v[i].rule = "ruleEntity" <=> i = 1)
    <3>1. CASE i \in 1 .. Len(st)
      BY <2>6, <3>1 DEF Nodes
    <3>2. CASE i = Len(st) + 1
      <4>1. i = 1 <=> Len(st) = 0
        BY <3>2
      <4> QED BY <1>2, <2>2, <2>6, <3>2, <4>1
    <3> QED BY <2>6, <3>1, <3>2
  <2>8. Nodes(v)
    <3>1. \E T : v \in Seq(T)
      BY <2>6
    <3> QED BY <2>7, <3>1 DEF Nodes
  <2>9. Grows(st, s, v)
    BY <1>2, <2>2, <2>6 DEF Grows
  <2> QED BY <1>2, <2>1, <2>6, <2>8, <2>9
<1> QED BY <1>1, <1>2

LEMMA EnterRuleStep == ListenerInv /\ EnterRule => ListenerInv'
<1> SUFFICES ASSUME ListenerInv, EnterRule PROVE ListenerInv'
  OBVIOUS
<1>1. /\ todo # <<>> /\ Head(todo)[1] = "enter"
      /\ UNCHANGED <<entities, token, parseErrors, panicked>>
  BY DEF EnterRule
<1>2. /\ Len(todo) \in Nat /\ Len(todo) > 0 /\ Head(todo) = todo[1] /\ Len(stack) \in Nat /\ Nodes(stack)
      /\ parseErrors = "none" /\ ~panicked /\ Walking /\ Told(todo, stack, header, token) /\ Counted
  BY <1>1, WalkFacts
<1>3. PICK s : s = Head(todo)[2]
  OBVIOUS
<1>4. /\ Children(s)
      /\ stack' = IF s \in Pushed THEN Append(stack, Node(s)) ELSE stack
      /\ header' = IF s = "ruleEntity" THEN NewHeader ELSE header
      /\ rules' = IF s = "ruleEntity" THEN rules + 1 ELSE rules
  BY <1>3 DEF EnterRule
<1>5. todo[1] = Enter(s)
  <2>1. PICK L : Aligned(todo, stack, L)
    BY <1>2 DEF Walking
  <2>2. 1 \in 1 .. Len(todo)
    BY <1>2
  <2>3. todo[1] = <<todo[1][1], todo[1][2]>>
    BY <2>1, <2>2 DEF Aligned
  <2> QED BY <1>1, <1>2, <1>3, <2>3 DEF Enter
<1>6. PICK L : /\ Aligned(todo, stack, L) /\ Fronted(todo, stack, L)
               /\ Fit(s, Owner(stack, L[2])) /\ L[2] = Len(stack)
  BY <1>1, <1>5, FrontOfWalk, ItemsApart
<1>7. s \in Pushed => (s = "ruleEntity" <=> Len(stack) = 0)
  <2>1. ASSUME s = "ruleEntity", Len(stack) # 0 PROVE FALSE
    <3>1. Owner(stack, L[2]) = "nothing"
      BY <1>6, <2>1 DEF Fit, Home
    <3>2. stack[Len(stack)].rule = "nothing"
      BY <1>6, <2>1, <3>1 DEF Owner
    <3>3. Len(stack) \in 1 .. Len(stack)
      BY <1>2, <2>1
    <3>4. "nothing" \in Pushed
      BY <1>2, <3>2, <3>3 DEF Nodes, NodeLike
    <3> QED BY <3>4, AcceptedChildren
  <2>2. ASSUME s \in Pushed, s # "ruleEntity", Len(stack) = 0 PROVE FALSE
    <3>1. Owner(stack, L[2]) = "nothing"
      BY <1>6, <2>2 DEF Owner
    <3>2. s \notin DOMAIN Home
      BY <2>2, AcceptedChildren DEF Home
    <3>3. "nothing" \in Pushed \/ "nothing" = "ruleEntity"
      BY <1>6, <3>1, <3>2 DEF Fit
    <3> QED BY <3>3, AcceptedChildren
  <2> QED BY <2>1, <2>2
<1>8. PICK v : v = stack'
  OBVIOUS
<1>9. /\ Nodes(v)
      /\ Len(v) = IF s \in Pushed THEN Len(stack) + 1 ELSE Len(stack)
      /\ \A i \in 1 .. Len(stack) : v[i] = stack[i]
      /\ s \in Pushed => v[Len(v)] = Node(s)
      /\ Grows(stack, s, v)
  <2>1. EntersStack(s, stack, v)
    BY <1>4, <1>8 DEF EntersStack
  <2> QED BY <1>2, <1>7, <2>1, NodePushed
<1>10. PICK shape \in Shapes(s), n \in 0 .. 4 :
         /\ n <= Len(shape)
         /\ todo' = [i \in 1 .. n |-> Enter(shape[i])] \o (IF s \in Parts THEN <<>> ELSE <<Exit(s)>>) \o Tail(todo)
  BY <1>4 DEF Children
<1>11. PICK S : todo \in Seq(S)
  BY DEF ListenerInv
<1>12. PICK u : u = todo'
  OBVIOUS
<1>13. EntersTodo(todo, s, shape, n, u)
  BY <1>10, <1>12 DEF EntersTodo
<1>14. (\E T : u \in Seq(T)) /\ \E k : Following(todo, s, shape, n, k, u)
  BY <1>1, <1>10, <1>11, <1>13, EnteredTodo
<1>15. PICK k : Entering(todo, s, shape, n, k, u)
  BY <1>5, <1>10, <1>14 DEF Entering
<1>22. \E M : Aligned(u, v, M) /\ Fronted(u, v, M)
  <2>1. Grows(stack, s, v)
    BY <1>9
  <2>2. Len(todo) \in Nat /\ Len(todo) > 0 /\ Len(stack) \in Nat
    BY <1>2
  <2>3. Aligned(todo, stack, L) /\ Fronted(todo, stack, L)
    BY <1>6
  <2> QED BY <1>10, <1>15, <2>1, <2>2, <2>3, EnterAligned
<1>16. PICK hd : hd = header'
  OBVIOUS
<1>17. StartsAfresh(s, stack, v, header, hd)
  <2>1. ASSUME s = "ruleEntity"
        PROVE  /\ v[1].name = "" /\ v[1].desc = "" /\ v[1].sal = "0"
               /\ hd = [name |-> "", desc |-> "", sal |-> "0"]
    <3>1. s \in Pushed
      BY <2>1, AcceptedChildren
    <3>2. Len(v) = 1 /\ v[1] = Node("ruleEntity")
      BY <1>7, <1>9, <2>1, <3>1
    <3>3. Node("ruleEntity").name = "" /\ Node("ruleEntity").desc = "" /\ Node("ruleEntity").sal = "0"
      BY DEF Node
    <3>4. hd = [name |-> "", desc |-> "", sal |-> "0"]
      BY <1>4, <1>16, <2>1 DEF NewHeader
    <3> QED BY <3>2, <3>3, <3>4
  <2>2. ASSUME s # "ruleEntity"
        PROVE  hd = header /\ (Len(v) > 0 => Len(stack) > 0 /\ v[1] = stack[1])
    <3>1. hd = header
      BY <1>4, <1>16, <2>2
    <3>2. Len(v) > 0 => Len(stack) > 0
      BY <1>2, <1>7, <1>9, <2>2
    <3>3. Len(stack) > 0 => v[1] = stack[1]
      <4>1. Len(stack) > 0 => 1 \in 1 .. Len(stack)
        BY <1>2
      <4> QED BY <1>9, <4>1
    <3> QED BY <3>1, <3>2, <3>3
  <2> QED BY <2>1, <2>2 DEF StartsAfresh
<1>18. Told(u, v, hd, token)
  BY <1>2, <1>6, <1>15, <1>17, EnterTold
<1>19. Counted'
  <2>1. entities' = entities
    BY <1>1
  <2>2. CASE s = "ruleEntity"
    <3>1. Len(stack) = 0 /\ Len(v) = 1
      BY <1>7, <1>9, <2>2, AcceptedChildren
    <3>2. rules' = rules + 1 /\ rules \in Nat /\ rules = Cardinality(entities) + 0 /\ IsFiniteSet(entities)
      BY <1>2, <1>4, <2>2, <3>1 DEF Counted
    <3>3. Len(stack') = 1
      BY <1>8, <3>1
    <3>4. rules + 1 = Cardinality(entities) + 1
      BY <3>2, FS_CardinalityType
    <3>5. rules' \in Nat /\ rules' = Cardinality(entities') + 1 /\ IsFiniteSet(entities')
      BY <2>1, <3>2, <3>4
    <3> QED BY <3>3, <3>5 DEF Counted
  <2>3. CASE s # "ruleEntity"
    <3>1. Len(v) = 0 <=> Len(stack) = 0
      BY <1>2, <1>7, <1>9, <2>3
    <3>2. rules' = rules
      BY <1>4, <2>3
    <3>3. Len(stack') = 0 <=> Len(stack) = 0
      BY <1>8, <3>1
    <3> QED BY <1>2, <2>1, <3>2, <3>3 DEF Counted
  <2> QED BY <2>2, <2>3
<1>20. /\ \E T : todo' \in Seq(T)
       /\ Nodes(stack')
       /\ \E M : Aligned(todo', stack', M) /\ Fronted(todo', stack', M)
       /\ Told(todo', stack', header', token')
  <2>1. token' = token
    BY <1>1
  <2> QED BY <1>8, <1>9, <1>12, <1>14, <1>22, <1>16, <1>18, <2>1
<1>21. UNCHANGED <<panicked, parseErrors>>
  BY <1>1
<1> QED BY <1>2, <1>19, <1>20, <1>21, WalkStep

-----------------------------------------------------------------------------
(* Every step *)

LEMMA StutterListener == ListenerInv /\ UNCHANGED vars => ListenerInv'
<1> SUFFICES ASSUME ListenerInv, UNCHANGED vars PROVE ListenerInv'
  OBVIOUS
<1>1. UNCHANGED <<todo, stack, entities, header, token, parseErrors, panicked, rules>>
  BY DEF vars
<1> QED BY <1>1 DEF ListenerInv, Walking, Counted, HeaderKept

LEMMA NextListener == ListenerInv /\ [Next]_vars => ListenerInv'
<1> SUFFICES ASSUME ListenerInv, [Next]_vars PROVE ListenerInv'
  OBVIOUS
<1>1. CASE EnterRule BY <1>1, EnterRuleStep
<1>2. CASE VisitErrorNode BY <1>2, VisitErrorNodeStep
<1>3. CASE ExitNode BY <1>3, ExitNodeStep
<1>4. CASE ExitLeaf BY <1>4, ExitLeafStep
<1>5. CASE ExitStringLiteral BY <1>5, ExitStringLiteralStep
<1>6. CASE ExitInteger BY <1>6, ExitIntegerStep
<1>7. CASE ExitBooleanOrReal BY <1>7, ExitBooleanOrRealStep
<1>8. CASE ExitRuleName BY <1>8, ExitRuleNameStep
<1>9. CASE ExitRuleDescription BY <1>9, ExitRuleDescriptionStep
<1>10. CASE ExitSalience BY <1>10, ExitSalienceStep
<1>11. CASE ExitRuleEntity BY <1>11, ExitRuleEntityStep
<1>12. CASE ExitSilent BY <1>12, ExitSilentStep
<1>13. CASE UNCHANGED vars BY <1>13, StutterListener
<1> QED BY <1>1, <1>2, <1>3, <1>4, <1>5, <1>6, <1>7, <1>8, <1>9, <1>10, <1>11, <1>12, <1>13 DEF Next

LEMMA WalkOver ==
  ASSUME ListenerInv, todo = <<>>, parseErrors = "none"
  PROVE  stack = <<>> /\ Cardinality(entities) = rules
<1>1. Walking
  BY DEF ListenerInv
<1>2. PICK L : Aligned(todo, stack, L)
  BY <1>1 DEF Walking
<1>3. Len(todo) = 0
  OBVIOUS
<1>4. L[1] = Len(stack) /\ L[Len(todo) + 1] = 0
  BY <1>2 DEF Aligned
<1>5. Len(stack) = 0
  BY <1>3, <1>4
<1>6. PICK S : stack \in Seq(S)
  BY <1>1 DEF Walking, Nodes
<1>7. stack = <<>>
  BY <1>5, <1>6, EmptySeq
<1>8. Cardinality(entities) \in Nat /\ rules = Cardinality(entities) + 0
  BY <1>1, <1>5, FS_CardinalityType DEF Walking, Counted
<1> QED BY <1>7, <1>8

(* Whatever text is walked, however deep its rules are nested and wherever a *)
(* syntax error cut its tree, what the walker still has to do fits the stack *)
(* node by node: the child that is left next has the node that accepts it    *)
(* below it, and the header of a rule is read once, before its body          *)
(* (gengine_parser_listener.go).                                             *)
THEOREM ListenerInvariant == Spec => []ListenerInv
<1>1. Init => ListenerInv
  BY InitListener
<1>2. ListenerInv /\ [Next]_vars => ListenerInv'
  BY NextListener
<1> QED BY <1>1, <1>2, PTL DEF Spec

(* No type assertion of a handler of the listener fails                      *)
(* (gengine_parser_listener.go, every .(base.XHolder)).                      *)
THEOREM ListenerNoPanic == Spec => []NoPanic
<1>1. ListenerInv => NoPanic
  BY DEF ListenerInv, NoPanic
<1> QED BY <1>1, ListenerInvariant, PTL

(* In the body of a rule the listener's header is that of the rule, and a    *)
(* walk that ends without an error has registered every rule of the text     *)
(* under a name of its own (gengine_parser_listener.go:61, :92, :112).       *)
THEOREM ListenerEveryRuleItself == Spec => []EveryRuleItself
<1>1. ListenerInv => EveryRuleItself
  <2> SUFFICES ASSUME ListenerInv PROVE EveryRuleItself
    OBVIOUS
  <2>1. Len(stack) > 1 =>
          header = [name |-> stack[1].name, desc |-> stack[1].desc, sal |-> stack[1].sal]
    BY DEF ListenerInv, HeaderKept
  <2>2. todo = <<>> /\ parseErrors = "none" => stack = <<>> /\ Cardinality(entities) = rules
    BY WalkOver
  <2> QED BY <2>1, <2>2 DEF EveryRuleItself
<1> QED BY <1>1, ListenerInvariant, PTL

-----------------------------------------------------------------------------
(* What a node on the stack has taken, and what is still to come for it *)

(* The forms a node of each rule goes through: what it has, and the rules  *)
(* still to be entered or left before it is left itself.                   *)
Comparing == {"comparisonOperator", "logicalOperator"}
ExpressionForm(has, p) ==
  \/ /\ has = {}
     /\ \/ p \in {<<"mathExpression">>, <<"expressionAtom">>, <<"expression">>}
        \/ p \in {<<"notPart", "expressionAtom">>, <<"notPart", "expression">>,
                  <<"notOperator", "expressionAtom">>, <<"notOperator", "expression">>}
        \/ \E op \in Comparing : p = <<"expression", op, "expression">>
  \/ has = {"NotOperator"} /\ p \in {<<"expressionAtom">>, <<"expression">>}
  \/ has = {"ExpressionLeft"} /\ \E op \in Comparing : p = <<op, "expression">>
  \/ has = {"ExpressionLeft", "ComparisonOperator"} /\ p = <<"expression">>
  \/ has = {"ExpressionLeft", "LogicalOperator"} /\ p = <<"expression">>
  \/ has \in Operand /\ p = <<>>

Calculating == {"mathMdOperator", "mathPmOperator"}
MathForm(has, p) ==
  \/ /\ has = {}
     /\ \/ p \in {<<"mathExpression">>, <<"expressionAtom">>}
        \/ \E op \in Calculating : p = <<"mathExpression", op, "mathExpression">>
  \/ has = {"MathExpressionLeft"} /\ \E op \in Calculating : p = <<op, "mathExpression">>
  \/ has = {"MathExpressionLeft", "MathPmOperator"} /\ p = <<"mathExpression">>
  \/ has = {"MathExpressionLeft", "MathMdOperator"} /\ p = <<"mathExpression">>
  \/ has \in MathOperand /\ p = <<>>

(* Statements, atoms and constants have one child. *)
OneForm(rule, has, p) ==
  \/ has = {} /\ \E c \in DOMAIN Accepts[rule] : p = <<c>>
  \/ \E c \in DOMAIN Accepts[rule] : has = {Accepts[rule][c].fields[1]} /\ p = <<>>

Keys == {"integer", "stringLiteral", "variable"}
MapVarForm(has, p) ==
  \/ has = {} /\ \E k \in Keys : p = <<"variable", k>>
  \/ has = {"Name"} /\ \E k \in Keys : p = <<k>>
  \/ (\E f \in {"Varkey", "Intkey", "Strkey"} : has = {"Name", f}) /\ p = <<>>

Targets == {"Variable", "MapVar"}
Sides == {"mathExpression", "expression"}
AssignmentForm(has, p) ==
  \/ has = {} /\ \E v \in {"variable", "mapVar"}, e \in Sides : p = <<v, "assignOperator", e>>
  \/ (\E v \in Targets : has = {v}) /\ \E e \in Sides : p = <<"assignOperator", e>>
  \/ (\E v \in Targets : has = {v, "AssignOperator"}) /\ \E e \in Sides : p = <<e>>
  \/ (\E v \in Targets, e \in {"MathExpression", "Expression"} : has = {v, "AssignOperator", e}) /\ p = <<>>

IfForm(has, p) ==
  \/ has = {} /\ p \in {<<"expression", "statements">>, <<"expression", "statements", "moreElseIf", "elsePart">>}
  \/ has = {"Expression"} /\ p \in {<<"statements">>, <<"statements", "moreElseIf", "elsePart">>}
  \/ {"Expression", "StatementList"} \subseteq has
ElseForm(has, p) ==
  \/ has = {} /\ p = <<"statements">>
  \/ has = {"StatementList"} /\ p = <<>>

ForForm(has, p) ==
  \/ has = {} /\ p = <<"assignment", "expression", "assignment", "statements">>
  \/ has = {"Assignments0"} /\ p = <<"expression", "assignment", "statements">>
  \/ has = {"Assignments0", "Expression"} /\ p = <<"assignment", "statements">>
  \/ has = {"Assignments0", "Expression", "Assignments1"} /\ p = <<"statements">>
  \/ has = {"Assignments0", "Expression", "Assignments1", "StatementList"} /\ p = <<>>
ForRangeForm(has, p) ==
  \/ has = {} /\ p = <<"variable", "rangeOperator", "variable", "statements">>
  \/ has = {"keyName"} /\ p \in {<<"rangeOperator", "variable", "statements">>, <<"variable", "statements">>}
  \/ has = {"keyName", "name"} /\ p = <<"statements">>
  \/ has = {"keyName", "name", "StatementList"} /\ p = <<>>

ContentForm(has, p) ==
  \/ has = {} /\ p = <<"statements">>
  \/ has = {"Statements"} /\ p = <<>>

(* The header of a rule is read before its content; its name is never empty *)
(* once it has been left.                                                   *)
EntityForm(name, has, p) ==
  \/ /\ has = {}
     /\ p \in {<<"ruleName", "descPart", "saliencePart", "ruleContent">>,
               <<"stringLiteral", "ruleName", "descPart", "saliencePart", "ruleContent">>}
  \/ /\ has = {} /\ name # ""
     /\ p \in {<<"descPart", "saliencePart", "ruleContent">>,
               <<"ruleDescription", "saliencePart", "ruleContent">>,
               <<"stringLiteral", "ruleDescription", "saliencePart", "ruleContent">>,
               <<"saliencePart", "ruleContent">>, <<"salience", "ruleContent">>,
               <<"integer", "salience", "ruleContent">>, <<"ruleContent">>}
  \/ has = {"RuleContent"} /\ name # "" /\ p = <<>>

Form(n, p) ==
  /\ n.rule = "expression" => ExpressionForm(n.has, p)
  /\ n.rule = "mathExpression" => MathForm(n.has, p)
  /\ n.rule \in {"statement", "expressionAtom", "constant"} => OneForm(n.rule, n.has, p)
  /\ n.rule = "mapVar" => MapVarForm(n.has, p)
  /\ n.rule = "assignment" => AssignmentForm(n.has, p)
  /\ n.rule \in {"ifStmt", "elseIfStmt"} => IfForm(n.has, p)
  /\ n.rule = "elseStmt" => ElseForm(n.has, p)
  /\ n.rule = "forStmt" => ForForm(n.has, p)
  /\ n.rule = "forRangeStmt" => ForRangeForm(n.has, p)
  /\ n.rule = "ruleContent" => ContentForm(n.has, p)
  /\ n.rule = "ruleEntity" => EntityForm(n.name, n.has, p)

(* The calls still to come, counted from the last, and the rules of those *)
(* after the a-th up to the b-th, the first first                         *)
Item(t, j) == t[Len(t) + 1 - j]
Pending(t, a, b) == [i \in 1 .. b - a |-> Item(t, b + 1 - i)[2]]

(* Where the calls end that are about the l-th node itself: E[l] is its own exit. *)
Until(t, E, m, l) == IF l = m THEN Len(t) ELSE E[l + 1]
Whole(t, st, E) ==
  /\ E \in [1 .. Len(st) -> Nat]
  /\ \A l \in 1 .. Len(st) :
       0 < E[l] /\ E[l] <= Len(t) /\ Item(t, E[l]) = Exit(st[l].rule)
  /\ \A i, j \in 1 .. Len(st) : i < j => E[i] < E[j]
  /\ \A l \in 1 .. Len(st) :
       /\ \A j \in E[l] + 1 .. Until(t, E, Len(st), l) : Closes(Item(t, j)) => l # Len(st) /\ j = E[l + 1]
       /\ Form(st[l], Pending(t, E[l], Until(t, E, Len(st), l)))

WholeInv == parseErrors = "none" /\ ~syntaxError => \E E : Whole(todo, stack, E)

-----------------------------------------------------------------------------
(* Every step of a form leads to a form *)

LEMMA Tails ==
  /\ \A a : Tail(<<a>>) = <<>>
  /\ \A a, b : Tail(<<a, b>>) = <<b>>
  /\ \A a, b, c : Tail(<<a, b, c>>) = <<b, c>>
  /\ \A a, b, c, d : Tail(<<a, b, c, d>>) = <<b, c, d>>
  /\ \A a, b, c, d, e : Tail(<<a, b, c, d, e>>) = <<b, c, d, e>>
<1>1. ASSUME NEW a PROVE Tail(<<a>>) = <<>>
  OBVIOUS
<1>2. ASSUME NEW a, NEW b PROVE Tail(<<a, b>>) = <<b>>
  OBVIOUS
<1>3. ASSUME NEW a, NEW b, NEW c PROVE Tail(<<a, b, c>>) = <<b, c>>
  OBVIOUS
<1>4. ASSUME NEW a, NEW b, NEW c, NEW d PROVE Tail(<<a, b, c, d>>) = <<b, c, d>>
  OBVIOUS
<1>5. ASSUME NEW a, NEW b, NEW c, NEW d, NEW e PROVE Tail(<<a, b, c, d, e>>) = <<b, c, d, e>>
  OBVIOUS
<1> QED BY <1>1, <1>2, <1>3, <1>4, <1>5, Zenon

LEMMA Tuples ==
  ASSUME NEW S, NEW p \in Seq(S)
  PROVE  /\ Len(p) = 1 => p = <<p[1]>>
         /\ Len(p) = 2 => p = <<p[1], p[2]>>
         /\ Len(p) = 3 => p = <<p[1], p[2], p[3]>>
         /\ Len(p) = 4 => p = <<p[1], p[2], p[3], p[4]>>
         /\ Len(p) = 5 => p = <<p[1], p[2], p[3], p[4], p[5]>>
<1>1. Len(p) = 1 => p = <<p[1]>>
  OBVIOUS
<1>2. Len(p) = 2 => p = <<p[1], p[2]>>
  OBVIOUS
<1>3. Len(p) = 3 => p = <<p[1], p[2], p[3]>>
  OBVIOUS
<1>4. Len(p) = 4 => p = <<p[1], p[2], p[3], p[4]>>
  OBVIOUS
<1>5. Len(p) = 5 => p = <<p[1], p[2], p[3], p[4], p[5]>>
  OBVIOUS
<1> QED BY <1>1, <1>2, <1>3, <1>4, <1>5

(* A call put in front of those still to come *)
LEMMA Fronts ==
  ASSUME NEW S, NEW p \in Seq(S), p # <<>>
  PROVE  /\ Tail(p) = <<>> => p = <<p[1]>>
         /\ \A a : Tail(p) = <<a>> => p = <<p[1], a>>
         /\ \A a, b : Tail(p) = <<a, b>> => p = <<p[1], a, b>>
         /\ \A a, b, c : Tail(p) = <<a, b, c>> => p = <<p[1], a, b, c>>
         /\ \A a, b, c, d : Tail(p) = <<a, b, c, d>> => p = <<p[1], a, b, c, d>>
<1>1. PICK q : q = Tail(p)
  OBVIOUS
<1>2. Len(p) \in Nat /\ Len(p) = Len(q) + 1 /\ \A i \in 1 .. Len(q) : q[i] = p[i + 1]
  <2>1. Len(p) \in Nat /\ Len(Tail(p)) = Len(p) - 1 /\ \A i \in 1 .. Len(Tail(p)) : Tail(p)[i] = p[i + 1]
    BY HeadTailProperties, LenProperties
  <2> QED BY <1>1, <2>1
<1>3. ASSUME q = <<>> PROVE p = <<p[1]>>
  <2>1. Len(p) = 1
    BY <1>2, <1>3
  <2> QED BY <2>1, Tuples, Zenon
<1>4. ASSUME NEW a, q = <<a>> PROVE p = <<p[1], a>>
  <2>1. Len(p) = 2 /\ p[2] = a
    BY <1>2, <1>4
  <2> QED BY <2>1, Tuples, Zenon
<1>5. ASSUME NEW a, NEW b, q = <<a, b>> PROVE p = <<p[1], a, b>>
  <2>1. Len(p) = 3 /\ p[2] = a /\ p[3] = b
    BY <1>2, <1>5
  <2> QED BY <2>1, Tuples, Zenon
<1>6. ASSUME NEW a, NEW b, NEW c, q = <<a, b, c>> PROVE p = <<p[1], a, b, c>>
  <2>1. Len(p) = 4 /\ p[2] = a /\ p[3] = b /\ p[4] = c
    BY <1>2, <1>6
  <2> QED BY <2>1, Tuples, Zenon
<1>7. ASSUME NEW a, NEW b, NEW c, NEW d, q = <<a, b, c, d>> PROVE p = <<p[1], a, b, c, d>>
  <2>1. Len(p) = 5 /\ p[2] = a /\ p[3] = b /\ p[4] = c /\ p[5] = d
    BY <1>2, <1>7
  <2> QED BY <2>1, Tuples, Zenon
<1> QED BY <1>1, <1>3, <1>4, <1>5, <1>6, <1>7, Zenon

(* The fields of a node that a child may go to *)
Single(n, c, f) == Fields(n, c) = <<f>>
Pair(n, c, f, g) == Fields(n, c) = <<f, g>>

LEMMA WithOne ==
  ASSUME NEW n, NodeLike(n), NEW c, NEW f, Single(n, c, f)
  PROVE  With(n, c).has = n.has \cup {f}
<1>1. FreeFields(n, c) = IF f \in n.has THEN {} ELSE {1}
  BY DEF FreeFields, Single, Pair
<1>2. CASE f \in n.has
  <2>1. With(n, c) = n
    BY <1>1, <1>2 DEF With, Single, Pair
  <2> QED BY <1>2, <2>1
<1>3. CASE f \notin n.has
  <2>1. (CHOOSE i \in {1} : \A j \in {1} : i <= j) = 1
    OBVIOUS
  <2>2. With(n, c) = [n EXCEPT !.has = @ \cup {f}]
    BY <1>1, <1>3, <2>1 DEF With, Single, Pair
  <2> QED BY <2>2 DEF NodeLike
<1> QED BY <1>2, <1>3

LEMMA WithTwo ==
  ASSUME NEW n, NodeLike(n), NEW c, NEW f, NEW g, Pair(n, c, f, g), g \notin n.has
  PROVE  With(n, c).has = IF f \in n.has THEN n.has \cup {g} ELSE n.has \cup {f}
<1>1. FreeFields(n, c) = IF f \in n.has THEN {2} ELSE {1, 2}
  BY DEF FreeFields, Single, Pair
<1>2. CASE f \in n.has
  <2>1. (CHOOSE i \in {2} : \A j \in {2} : i <= j) = 2
    OBVIOUS
  <2>2. With(n, c) = [n EXCEPT !.has = @ \cup {g}]
    BY <1>1, <1>2, <2>1 DEF With, Single, Pair
  <2> QED BY <1>2, <2>2 DEF NodeLike
<1>3. CASE f \notin n.has
  <2>1. (CHOOSE i \in {1, 2} : \A j \in {1, 2} : i <= j) = 1
    OBVIOUS
  <2>2. With(n, c) = [n EXCEPT !.has = @ \cup {f}]
    BY <1>1, <1>3, <2>1 DEF With, Single, Pair
  <2> QED BY <1>3, <2>2 DEF NodeLike
<1> QED BY <1>2, <1>3

(* The field a child goes to *)
Taking(n) ==
  /\ \A c, f : Single(n, c, f) => With(n, c).has = n.has \cup {f}
  /\ \A c, f, g : Pair(n, c, f, g) /\ g \notin n.has =>
       With(n, c).has = IF f \in n.has THEN n.has \cup {g} ELSE n.has \cup {f}
LEMMA NodesTake == \A n : NodeLike(n) => Taking(n)
BY WithOne, WithTwo DEF Taking

LEMMA WithGrows ==
  ASSUME NEW n, NodeLike(n), NEW c
  PROVE  n.has \subseteq With(n, c).has
<1>1. PICK w : w = With(n, c)
  OBVIOUS
<1>2. w = n \/ \E x : w = [n EXCEPT !.has = n.has \cup {x}]
  BY <1>1 DEF With
<1>3. \A x : [n EXCEPT !.has = n.has \cup {x}].has = n.has \cup {x}
  BY DEF NodeLike
<1> QED BY <1>1, <1>2, <1>3

(* The fields of the nodes that have forms *)
LEMMA FieldsAre ==
  ASSUME NEW n
  PROVE  /\ n.rule = "expression" =>
              /\ Single(n, "expressionAtom", "ExpressionAtom")
              /\ Single(n, "mathExpression", "MathExpression")
              /\ Pair(n, "expression", "ExpressionLeft", "ExpressionRight")
              /\ Single(n, "logicalOperator", "LogicalOperator")
              /\ Single(n, "notOperator", "NotOperator")
              /\ Single(n, "comparisonOperator", "ComparisonOperator")
         /\ n.rule = "mathExpression" =>
              /\ Pair(n, "mathExpression", "MathExpressionLeft", "MathExpressionRight")
              /\ Single(n, "expressionAtom", "ExpressionAtom")
              /\ Single(n, "mathPmOperator", "MathPmOperator")
              /\ Single(n, "mathMdOperator", "MathMdOperator")
         /\ n.rule = "mapVar" =>
              /\ Pair(n, "variable", "Name", "Varkey")
              /\ Single(n, "integer", "Intkey")
              /\ Single(n, "stringLiteral", "Strkey")
         /\ n.rule = "assignment" =>
              /\ Single(n, "mathExpression", "MathExpression")
              /\ Single(n, "expression", "Expression")
              /\ Single(n, "variable", "Variable")
              /\ Single(n, "mapVar", "MapVar")
              /\ Single(n, "assignOperator", "AssignOperator")
         /\ n.rule \in {"ifStmt", "elseIfStmt"} =>
              /\ Single(n, "expression", "Expression")
              /\ Single(n, "statements", "StatementList")
         /\ n.rule = "elseStmt" => Single(n, "statements", "StatementList")
         /\ n.rule = "forStmt" =>
              /\ Pair(n, "assignment", "Assignments0", "Assignments1")
              /\ Single(n, "expression", "Expression")
              /\ Single(n, "statements", "StatementList")
         /\ n.rule = "forRangeStmt" =>
              /\ Pair(n, "variable", "keyName", "name")
              /\ Single(n, "statements", "StatementList")
         /\ n.rule = "ruleContent" => Single(n, "statements", "Statements")
         /\ n.rule = "ruleEntity" => Single(n, "ruleContent", "RuleContent")
<1>1. ASSUME n.rule = "expression"
      PROVE  /\ Single(n, "expressionAtom", "ExpressionAtom")
             /\ Single(n, "mathExpression", "MathExpression")
             /\ Pair(n, "expression", "ExpressionLeft", "ExpressionRight")
             /\ Single(n, "logicalOperator", "LogicalOperator")
             /\ Single(n, "notOperator", "NotOperator")
             /\ Single(n, "comparisonOperator", "ComparisonOperator")
  BY <1>1 DEF Single, Pair, Fields, Accepts, ExpressionAccepts, Once, Free, InOrder
<1>2. ASSUME n.rule = "mathExpression"
      PROVE  /\ Pair(n, "mathExpression", "MathExpressionLeft", "MathExpressionRight")
             /\ Single(n, "expressionAtom", "ExpressionAtom")
             /\ Single(n, "mathPmOperator", "MathPmOperator")
             /\ Single(n, "mathMdOperator", "MathMdOperator")
  BY <1>2 DEF Single, Pair, Fields, Accepts, MathAccepts, Once, Free, InOrder
<1>3. ASSUME n.rule = "mapVar"
      PROVE  /\ Pair(n, "variable", "Name", "Varkey")
             /\ Single(n, "integer", "Intkey")
             /\ Single(n, "stringLiteral", "Strkey")
  BY <1>3 DEF Single, Pair, Fields, Accepts, MapVarAccepts, Once, Free, InOrder
<1>4. ASSUME n.rule = "assignment"
      PROVE  /\ Single(n, "mathExpression", "MathExpression")
             /\ Single(n, "expression", "Expression")
             /\ Single(n, "variable", "Variable")
             /\ Single(n, "mapVar", "MapVar")
             /\ Single(n, "assignOperator", "AssignOperator")
  BY <1>4 DEF Single, Pair, Fields, Accepts, AssignmentAccepts, Once, Free
<1>5. ASSUME n.rule \in {"ifStmt", "elseIfStmt"}
      PROVE  Single(n, "expression", "Expression") /\ Single(n, "statements", "StatementList")
  BY <1>5 DEF Single, Pair, Fields, Accepts, IfAccepts, ElseIfAccepts, Once
<1>6. ASSUME n.rule = "elseStmt" PROVE Single(n, "statements", "StatementList")
  BY <1>6 DEF Single, Pair, Fields, Accepts, ElseAccepts, Once
<1>7. ASSUME n.rule = "forStmt"
      PROVE  /\ Pair(n, "assignment", "Assignments0", "Assignments1")
             /\ Single(n, "expression", "Expression")
             /\ Single(n, "statements", "StatementList")
  BY <1>7 DEF Single, Pair, Fields, Accepts, ForAccepts, Once
<1>8. ASSUME n.rule = "forRangeStmt"
      PROVE  Pair(n, "variable", "keyName", "name") /\ Single(n, "statements", "StatementList")
  BY <1>8 DEF Single, Pair, Fields, Accepts, ForRangeAccepts, Once, InOrder
<1>9. ASSUME n.rule = "ruleContent" PROVE Single(n, "statements", "Statements")
  BY <1>9 DEF Single, Pair, Fields, Accepts, ContentAccepts, Once
<1>10. ASSUME n.rule = "ruleEntity" PROVE Single(n, "ruleContent", "RuleContent")
  BY <1>10 DEF Single, Pair, Fields, Accepts, EntityAccepts, Free
<1> QED BY <1>1, <1>2, <1>3, <1>4, <1>5, <1>6, <1>7, <1>8, <1>9, <1>10

LEMMA OneField ==
  ASSUME NEW n, n.rule \in {"statement", "expressionAtom", "constant"}, NEW c \in DOMAIN Accepts[n.rule]
  PROVE  Single(n, c, Accepts[n.rule][c].fields[1])
<1>1. CASE n.rule = "statement"
  <2>1. Accepts[n.rule] = StatementAccepts
    BY <1>1 DEF Accepts
  <2> QED BY <2>1 DEF Single, Pair, Fields, StatementAccepts, Once, Free
<1>2. CASE n.rule = "expressionAtom"
  <2>1. Accepts[n.rule] = AtomAccepts
    BY <1>2 DEF Accepts
  <2> QED BY <2>1 DEF Single, Pair, Fields, AtomAccepts, Once
<1>3. CASE n.rule = "constant"
  <2>1. Accepts[n.rule] = ConstantAccepts
    BY <1>3 DEF Accepts
  <2> QED BY <2>1 DEF Single, Pair, Fields, ConstantAccepts, Free
<1> QED BY <1>1, <1>2, <1>3

(* What is still to come after a child has been taken *)
Takes(n, c, p) == NodeLike(n) /\ p # <<>> /\ p[1] = c /\ c \in DOMAIN Accepts[n.rule]

LEMMA ExpressionTakes ==
  ASSUME NEW n, NEW c, NEW p, Takes(n, c, p), n.rule = "expression", ExpressionForm(n.has, p)
  PROVE  ExpressionForm(With(n, c).has, Tail(p))
<1> DEFINE q == Tail(p)
           h == With(n, c).has
<1>1. /\ NodeLike(n) /\ p # <<>> /\ p[1] = c
      /\ c \in {"expressionAtom", "mathExpression", "expression", "logicalOperator", "notOperator", "comparisonOperator"}
  BY AcceptedChildren DEF Takes
<1>2. /\ c = "expressionAtom" => h = n.has \cup {"ExpressionAtom"}
      /\ c = "mathExpression" => h = n.has \cup {"MathExpression"}
      /\ c = "logicalOperator" => h = n.has \cup {"LogicalOperator"}
      /\ c = "notOperator" => h = n.has \cup {"NotOperator"}
      /\ c = "comparisonOperator" => h = n.has \cup {"ComparisonOperator"}
      /\ c = "expression" /\ "ExpressionRight" \notin n.has =>
           h = IF "ExpressionLeft" \in n.has THEN n.has \cup {"ExpressionRight"} ELSE n.has \cup {"ExpressionLeft"}
  <2>1. /\ Single(n, "expressionAtom", "ExpressionAtom") /\ Single(n, "mathExpression", "MathExpression")
        /\ Pair(n, "expression", "ExpressionLeft", "ExpressionRight")
        /\ Single(n, "logicalOperator", "LogicalOperator") /\ Single(n, "notOperator", "NotOperator")
        /\ Single(n, "comparisonOperator", "ComparisonOperator")
    BY FieldsAre
  <2>2. Taking(n)
    BY <1>1, NodesTake
  <2> QED BY <2>1, <2>2 DEF Taking
<1> HIDE DEF h
<1>3. CASE n.has = {} /\ p \in {<<"mathExpression">>, <<"expressionAtom">>, <<"expression">>}
  <2>1. q = <<>>
    BY <1>3, Tails
  <2>2. h \in {{"MathExpression"}, {"ExpressionAtom"}, {"ExpressionLeft"}}
    BY <1>1, <1>2, <1>3, SMTT(30)
  <2> QED BY <2>1, <2>2, SMTT(30) DEF ExpressionForm, Operand, h
<1>4. CASE n.has = {} /\ p \in {<<"notPart", "expressionAtom">>, <<"notPart", "expression">>,
                                <<"notOperator", "expressionAtom">>, <<"notOperator", "expression">>}
  <2>1. c = "notOperator"
    BY <1>1, <1>4
  <2>3. q \in {<<"expressionAtom">>, <<"expression">>}
    <3>1. CASE p \in {<<"notPart", "expressionAtom">>, <<"notOperator", "expressionAtom">>}
      BY <3>1, Tails
    <3>2. CASE p \in {<<"notPart", "expression">>, <<"notOperator", "expression">>}
      BY <3>2, Tails
    <3> QED BY <1>4, <3>1, <3>2
  <2>2. h = {"NotOperator"}
    BY <1>2, <1>4, <2>1
  <2> QED BY <2>2, <2>3, SMTT(30) DEF ExpressionForm, h
<1>5. CASE n.has = {} /\ \E op \in Comparing : p = <<"expression", op, "expression">>
  <2>1. c = "expression" /\ \E op \in Comparing : q = <<op, "expression">>
    BY <1>1, <1>5, Tails
  <2>2. h = {"ExpressionLeft"}
    BY <1>2, <1>5, <2>1
  <2> QED BY <2>1, <2>2 DEF ExpressionForm, h
<1>6. CASE n.has = {"NotOperator"} /\ p \in {<<"expressionAtom">>, <<"expression">>}
  <2>1. c \in {"expressionAtom", "expression"}
    BY <1>1, <1>6
  <2>3. q = <<>>
    BY <1>6, Tails
  <2>2. h \in {{"ExpressionAtom", "NotOperator"}, {"ExpressionLeft", "NotOperator"}}
    BY <1>2, <1>6, <2>1
  <2> QED BY <2>2, <2>3 DEF ExpressionForm, Operand, h
<1>7. CASE n.has = {"ExpressionLeft"} /\ \E op \in Comparing : p = <<op, "expression">>
  <2>1. q = <<"expression">> /\ c \in {"comparisonOperator", "logicalOperator"}
    BY <1>1, <1>7, Tails DEF Comparing
  <2>2. h \in {{"ExpressionLeft", "ComparisonOperator"}, {"ExpressionLeft", "LogicalOperator"}}
    BY <1>2, <1>7, <2>1
  <2> QED BY <2>1, <2>2 DEF ExpressionForm, h
<1>8. CASE n.has \in {{"ExpressionLeft", "ComparisonOperator"}, {"ExpressionLeft", "LogicalOperator"}} /\ p = <<"expression">>
  <2>1. q = <<>> /\ c = "expression"
    BY <1>1, <1>8, Tails
  <2>2. h \in {{"ExpressionLeft", "ComparisonOperator", "ExpressionRight"},
               {"ExpressionLeft", "LogicalOperator", "ExpressionRight"}}
    BY <1>2, <1>8, <2>1
  <2> QED BY <2>1, <2>2 DEF ExpressionForm, Operand, h
<1> QED BY <1>1, <1>3, <1>4, <1>5, <1>6, <1>7, <1>8 DEF ExpressionForm, h

LEMMA MathTakes ==
  ASSUME NEW n, NEW c, NEW p, Takes(n, c, p), n.rule = "mathExpression", MathForm(n.has, p)
  PROVE  MathForm(With(n, c).has, Tail(p))
<1> DEFINE q == Tail(p)
           h == With(n, c).has
<1>1. /\ NodeLike(n) /\ p # <<>> /\ p[1] = c
      /\ c \in {"mathExpression", "expressionAtom", "mathPmOperator", "mathMdOperator"}
  BY AcceptedChildren DEF Takes
<1>2. /\ c = "expressionAtom" => h = n.has \cup {"ExpressionAtom"}
      /\ c = "mathPmOperator" => h = n.has \cup {"MathPmOperator"}
      /\ c = "mathMdOperator" => h = n.has \cup {"MathMdOperator"}
      /\ c = "mathExpression" /\ "MathExpressionRight" \notin n.has =>
           h = IF "MathExpressionLeft" \in n.has THEN n.has \cup {"MathExpressionRight"}
                                                 ELSE n.has \cup {"MathExpressionLeft"}
  <2>1. /\ Pair(n, "mathExpression", "MathExpressionLeft", "MathExpressionRight")
        /\ Single(n, "expressionAtom", "ExpressionAtom")
        /\ Single(n, "mathPmOperator", "MathPmOperator") /\ Single(n, "mathMdOperator", "MathMdOperator")
    BY FieldsAre
  <2>2. Taking(n)
    BY <1>1, NodesTake
  <2> QED BY <2>1, <2>2 DEF Taking
<1> HIDE DEF h
<1>3. CASE n.has = {} /\ p \in {<<"mathExpression">>, <<"expressionAtom">>}
  <2>1. q = <<>>
    BY <1>3, Tails
  <2>2. h \in {{"ExpressionAtom"}, {"MathExpressionLeft"}}
    BY <1>1, <1>2, <1>3
  <2> QED BY <2>1, <2>2 DEF MathForm, MathOperand, h
<1>4. CASE n.has = {} /\ \E op \in Calculating : p = <<"mathExpression", op, "mathExpression">>
  <2>1. c = "mathExpression" /\ \E op \in Calculating : q = <<op, "mathExpression">>
    BY <1>1, <1>4, Tails
  <2>2. h = {"MathExpressionLeft"}
    BY <1>2, <1>4, <2>1
  <2> QED BY <2>1, <2>2 DEF MathForm, h
<1>5. CASE n.has = {"MathExpressionLeft"} /\ \E op \in Calculating : p = <<op, "mathExpression">>
  <2>1. q = <<"mathExpression">> /\ c \in {"mathMdOperator", "mathPmOperator"}
    BY <1>1, <1>5, Tails DEF Calculating
  <2>2. h \in {{"MathExpressionLeft", "MathPmOperator"}, {"MathExpressionLeft", "MathMdOperator"}}
    BY <1>2, <1>5, <2>1
  <2> QED BY <2>1, <2>2 DEF MathForm, h
<1>6. CASE /\ n.has \in {{"MathExpressionLeft", "MathPmOperator"}, {"MathExpressionLeft", "MathMdOperator"}}
           /\ p = <<"mathExpression">>
  <2>1. q = <<>> /\ c = "mathExpression"
    BY <1>1, <1>6, Tails
  <2>2. h \in {{"MathExpressionLeft", "MathPmOperator", "MathExpressionRight"},
               {"MathExpressionLeft", "MathMdOperator", "MathExpressionRight"}}
    BY <1>2, <1>6, <2>1
  <2> QED BY <2>1, <2>2 DEF MathForm, MathOperand, h
<1> QED BY <1>1, <1>3, <1>4, <1>5, <1>6 DEF MathForm, h

LEMMA OneTakes ==
  ASSUME NEW n, NEW c, NEW p, Takes(n, c, p), n.rule \in {"statement", "expressionAtom", "constant"},
         OneForm(n.rule, n.has, p)
  PROVE  OneForm(n.rule, With(n, c).has, Tail(p))
<1>1. NodeLike(n) /\ p # <<>> /\ c \in DOMAIN Accepts[n.rule]
  BY DEF Takes
<1>2. n.has = {} /\ \E x \in DOMAIN Accepts[n.rule] : p = <<x>>
  BY <1>1 DEF OneForm
<1>3. With(n, c).has = n.has \cup {Accepts[n.rule][c].fields[1]}
  BY <1>1, OneField, WithOne
<1>4. With(n, c).has = {Accepts[n.rule][c].fields[1]} /\ Tail(p) = <<>>
  BY <1>2, <1>3, Tails
<1> QED BY <1>1, <1>4 DEF OneForm

LEMMA MapVarTakes ==
  ASSUME NEW n, NEW c, NEW p, Takes(n, c, p), n.rule = "mapVar", MapVarForm(n.has, p)
  PROVE  MapVarForm(With(n, c).has, Tail(p))
<1> DEFINE q == Tail(p)
           h == With(n, c).has
<1>1. NodeLike(n) /\ p # <<>> /\ p[1] = c /\ c \in {"variable", "integer", "stringLiteral"}
  BY AcceptedChildren DEF Takes
<1>2. /\ c = "integer" => h = n.has \cup {"Intkey"}
      /\ c = "stringLiteral" => h = n.has \cup {"Strkey"}
      /\ c = "variable" /\ "Varkey" \notin n.has =>
           h = IF "Name" \in n.has THEN n.has \cup {"Varkey"} ELSE n.has \cup {"Name"}
  <2>1. /\ Pair(n, "variable", "Name", "Varkey")
        /\ Single(n, "integer", "Intkey") /\ Single(n, "stringLiteral", "Strkey")
    BY FieldsAre
  <2>2. Taking(n)
    BY <1>1, NodesTake
  <2> QED BY <2>1, <2>2 DEF Taking
<1> HIDE DEF h
<1>3. CASE n.has = {} /\ \E k \in Keys : p = <<"variable", k>>
  <2>1. c = "variable" /\ \E k \in Keys : q = <<k>>
    BY <1>1, <1>3, Tails
  <2>2. h = {"Name"}
    BY <1>2, <1>3, <2>1
  <2> QED BY <2>1, <2>2 DEF MapVarForm, h
<1>4. CASE n.has = {"Name"} /\ \E k \in Keys : p = <<k>>
  <2>1. q = <<>>
    BY <1>4, Tails
  <2>2. h \in {{"Name", "Intkey"}, {"Name", "Strkey"}, {"Name", "Varkey"}}
    BY <1>1, <1>2, <1>4
  <2>3. \E f \in {"Varkey", "Intkey", "Strkey"} : h = {"Name", f}
    BY <2>2
  <2> QED BY <2>1, <2>3 DEF MapVarForm, h
<1> QED BY <1>1, <1>3, <1>4 DEF MapVarForm, h

LEMMA AssignmentTakes ==
  ASSUME NEW n, NEW c, NEW p, Takes(n, c, p), n.rule = "assignment", AssignmentForm(n.has, p)
  PROVE  AssignmentForm(With(n, c).has, Tail(p))
<1> DEFINE q == Tail(p)
           h == With(n, c).has
<1>1. NodeLike(n) /\ p # <<>> /\ p[1] = c /\ c \in {"mathExpression", "expression", "variable", "mapVar", "assignOperator"}
  BY AcceptedChildren DEF Takes
<1>2. /\ c = "mathExpression" => h = n.has \cup {"MathExpression"}
      /\ c = "expression" => h = n.has \cup {"Expression"}
      /\ c = "variable" => h = n.has \cup {"Variable"}
      /\ c = "mapVar" => h = n.has \cup {"MapVar"}
      /\ c = "assignOperator" => h = n.has \cup {"AssignOperator"}
  <2>1. /\ Single(n, "mathExpression", "MathExpression")
        /\ Single(n, "expression", "Expression")
        /\ Single(n, "variable", "Variable")
        /\ Single(n, "mapVar", "MapVar")
        /\ Single(n, "assignOperator", "AssignOperator")
    BY FieldsAre
  <2>2. Taking(n)
    BY <1>1, NodesTake
  <2> QED BY <2>1, <2>2 DEF Taking
<1> HIDE DEF h
<1>3. CASE n.has = {} /\ \E v \in {"variable", "mapVar"}, e \in Sides : p = <<v, "assignOperator", e>>
  <2>1. c \in {"variable", "mapVar"}
    BY <1>1, <1>3
  <2>2. \E e \in Sides : q = <<"assignOperator", e>>
    BY <1>3, Tails
  <2>3. \E v \in Targets : h = {v}
    BY <1>2, <1>3, <2>1 DEF Targets
  <2> QED BY <2>1, <2>2, <2>3 DEF AssignmentForm, h
<1>4. CASE (\E v \in Targets : n.has = {v}) /\ \E e \in Sides : p = <<"assignOperator", e>>
  <2>1. c = "assignOperator"
    BY <1>1, <1>4
  <2>2. \E e \in Sides : q = <<e>>
    BY <1>4, Tails
  <2>3. \E v \in Targets : h = {v, "AssignOperator"}
    BY <1>2, <1>4, <2>1
  <2> QED BY <2>1, <2>2, <2>3 DEF AssignmentForm, h
<1>5. CASE (\E v \in Targets : n.has = {v, "AssignOperator"}) /\ \E e \in Sides : p = <<e>>
  <2>1. c \in Sides
    BY <1>1, <1>5
  <2>2. q = <<>>
    BY <1>5, Tails
  <2>3. \E v \in Targets, e \in {"MathExpression", "Expression"} : h = {v, "AssignOperator", e}
    BY <1>2, <1>5, <2>1 DEF Sides
  <2> QED BY <2>1, <2>2, <2>3 DEF AssignmentForm, h
<1> QED BY <1>1, <1>3, <1>4, <1>5 DEF AssignmentForm, h

LEMMA IfTakes ==
  ASSUME NEW n, NEW c, NEW p, Takes(n, c, p), n.rule \in {"ifStmt", "elseIfStmt"}, IfForm(n.has, p)
  PROVE  IfForm(With(n, c).has, Tail(p))
<1> DEFINE q == Tail(p)
           h == With(n, c).has
<1>1. NodeLike(n) /\ p # <<>> /\ p[1] = c /\ c \in {"expression", "statements", "elseIfStmt", "elseStmt"}
  BY AcceptedChildren DEF Takes
<1>2. /\ c = "expression" => h = n.has \cup {"Expression"}
      /\ c = "statements" => h = n.has \cup {"StatementList"}
  <2>1. /\ Single(n, "expression", "Expression")
        /\ Single(n, "statements", "StatementList")
    BY FieldsAre
  <2>2. Taking(n)
    BY <1>1, NodesTake
  <2> QED BY <2>1, <2>2 DEF Taking
<1> HIDE DEF h
<1>3. CASE n.has = {} /\ p \in {<<"expression", "statements">>, <<"expression", "statements", "moreElseIf", "elsePart">>}
  <2>1. c = "expression"
    BY <1>1, <1>3
  <2>4. p = <<"expression", "statements">> => q = <<"statements">>
    BY Tails
  <2>5. p = <<"expression", "statements", "moreElseIf", "elsePart">> => q = <<"statements", "moreElseIf", "elsePart">>
    BY Tails
  <2>2. q \in {<<"statements">>, <<"statements", "moreElseIf", "elsePart">>}
    BY <1>3, <2>4, <2>5
  <2>3. h = {"Expression"}
    BY <1>2, <1>3, <2>1
  <2> QED BY <2>1, <2>2, <2>3 DEF IfForm, h
<1>4. CASE n.has = {"Expression"} /\ p \in {<<"statements">>, <<"statements", "moreElseIf", "elsePart">>}
  <2>1. c = "statements"
    BY <1>1, <1>4
  <2>2. {"Expression", "StatementList"} \subseteq h
    BY <1>2, <1>4, <2>1
  <2> QED BY <2>2 DEF IfForm, h
<1>5. CASE {"Expression", "StatementList"} \subseteq n.has
  <2>1. n.has \subseteq With(n, c).has
    BY <1>1, WithGrows
  <2> QED BY <1>5, <2>1 DEF IfForm
<1> QED BY <1>3, <1>4, <1>5 DEF IfForm, h

LEMMA ElseTakes ==
  ASSUME NEW n, NEW c, NEW p, Takes(n, c, p), n.rule = "elseStmt", ElseForm(n.has, p)
  PROVE  ElseForm(With(n, c).has, Tail(p))
<1> DEFINE q == Tail(p)
           h == With(n, c).has
<1>1. NodeLike(n) /\ p # <<>> /\ p[1] = c /\ c \in {"statements"}
  BY AcceptedChildren DEF Takes
<1>2. /\ c = "statements" => h = n.has \cup {"StatementList"}
  <2>1. /\ Single(n, "statements", "StatementList")
    BY FieldsAre
  <2>2. Taking(n)
    BY <1>1, NodesTake
  <2> QED BY <2>1, <2>2 DEF Taking
<1> HIDE DEF h
<1>3. CASE n.has = {} /\ p = <<"statements">>
  <2>1. c = "statements"
    BY <1>1, <1>3
  <2>2. q = <<>>
    BY <1>3, Tails
  <2>3. h = {"StatementList"}
    BY <1>2, <1>3, <2>1
  <2> QED BY <2>1, <2>2, <2>3 DEF ElseForm, h
<1> QED BY <1>1, <1>3 DEF ElseForm, h

LEMMA ContentTakes ==
  ASSUME NEW n, NEW c, NEW p, Takes(n, c, p), n.rule = "ruleContent", ContentForm(n.has, p)
  PROVE  ContentForm(With(n, c).has, Tail(p))
<1> DEFINE q == Tail(p)
           h == With(n, c).has
<1>1. NodeLike(n) /\ p # <<>> /\ p[1] = c /\ c \in {"statements"}
  BY AcceptedChildren DEF Takes
<1>2. /\ c = "statements" => h = n.has \cup {"Statements"}
  <2>1. /\ Single(n, "statements", "Statements")
    BY FieldsAre
  <2>2. Taking(n)
    BY <1>1, NodesTake
  <2> QED BY <2>1, <2>2 DEF Taking
<1> HIDE DEF h
<1>3. CASE n.has = {} /\ p = <<"statements">>
  <2>1. c = "statements"
    BY <1>1, <1>3
  <2>2. q = <<>>
    BY <1>3, Tails
  <2>3. h = {"Statements"}
    BY <1>2, <1>3, <2>1
  <2> QED BY <2>1, <2>2, <2>3 DEF ContentForm, h
<1> QED BY <1>1, <1>3 DEF ContentForm, h

LEMMA ForTakes ==
  ASSUME NEW n, NEW c, NEW p, Takes(n, c, p), n.rule = "forStmt", ForForm(n.has, p)
  PROVE  ForForm(With(n, c).has, Tail(p))
<1> DEFINE q == Tail(p)
           h == With(n, c).has
<1>1. NodeLike(n) /\ p # <<>> /\ p[1] = c /\ c \in {"assignment", "expression", "statements"}
  BY AcceptedChildren DEF Takes
<1>2. /\ c = "assignment" /\ "Assignments1" \notin n.has =>
           h = IF "Assignments0" \in n.has THEN n.has \cup {"Assignments1"} ELSE n.has \cup {"Assignments0"}
      /\ c = "expression" => h = n.has \cup {"Expression"}
      /\ c = "statements" => h = n.has \cup {"StatementList"}
  <2>1. /\ Pair(n, "assignment", "Assignments0", "Assignments1")
        /\ Single(n, "expression", "Expression")
        /\ Single(n, "statements", "StatementList")
    BY FieldsAre
  <2>2. Taking(n)
    BY <1>1, NodesTake
  <2> QED BY <2>1, <2>2 DEF Taking
<1> HIDE DEF h
<1>3. CASE n.has = {} /\ p = <<"assignment", "expression", "assignment", "statements">>
  <2>1. c = "assignment"
    BY <1>1, <1>3
  <2>2. q = <<"expression", "assignment", "statements">>
    BY <1>3, Tails
  <2>3. h = {"Assignments0"}
    BY <1>2, <1>3, <2>1
  <2> QED BY <2>1, <2>2, <2>3 DEF ForForm, h
<1>4. CASE n.has = {"Assignments0"} /\ p = <<"expression", "assignment", "statements">>
  <2>1. c = "expression"
    BY <1>1, <1>4
  <2>2. q = <<"assignment", "statements">>
    BY <1>4, Tails
  <2>3. h = {"Assignments0", "Expression"}
    BY <1>2, <1>4, <2>1
  <2> QED BY <2>1, <2>2, <2>3 DEF ForForm, h
<1>5. CASE n.has = {"Assignments0", "Expression"} /\ p = <<"assignment", "statements">>
  <2>1. c = "assignment"
    BY <1>1, <1>5
  <2>2. q = <<"statements">>
    BY <1>5, Tails
  <2>3. h = {"Assignments0", "Expression", "Assignments1"}
    BY <1>2, <1>5, <2>1
  <2> QED BY <2>1, <2>2, <2>3 DEF ForForm, h
<1>6. CASE n.has = {"Assignments0", "Expression", "Assignments1"} /\ p = <<"statements">>
  <2>1. c = "statements"
    BY <1>1, <1>6
  <2>2. q = <<>>
    BY <1>6, Tails
  <2>3. h = {"Assignments0", "Expression", "Assignments1", "StatementList"}
    BY <1>2, <1>6, <2>1
  <2> QED BY <2>1, <2>2, <2>3 DEF ForForm, h
<1> QED BY <1>1, <1>3, <1>4, <1>5, <1>6 DEF ForForm, h

LEMMA ForRangeTakes ==
  ASSUME NEW n, NEW c, NEW p, Takes(n, c, p), n.rule = "forRangeStmt", ForRangeForm(n.has, p)
  PROVE  ForRangeForm(With(n, c).has, Tail(p))
<1> DEFINE q == Tail(p)
           h == With(n, c).has
<1>1. NodeLike(n) /\ p # <<>> /\ p[1] = c /\ c \in {"variable", "statements"}
  BY AcceptedChildren DEF Takes
<1>2. /\ c = "variable" /\ "name" \notin n.has =>
           h = IF "keyName" \in n.has THEN n.has \cup {"name"} ELSE n.has \cup {"keyName"}
      /\ c = "statements" => h = n.has \cup {"StatementList"}
  <2>1. /\ Pair(n, "variable", "keyName", "name")
        /\ Single(n, "statements", "StatementList")
    BY FieldsAre
  <2>2. Taking(n)
    BY <1>1, NodesTake
  <2> QED BY <2>1, <2>2 DEF Taking
<1> HIDE DEF h
<1>3. CASE n.has = {} /\ p = <<"variable", "rangeOperator", "variable", "statements">>
  <2>1. c = "variable"
    BY <1>1, <1>3
  <2>2. q = <<"rangeOperator", "variable", "statements">>
    BY <1>3, Tails
  <2>3. h = {"keyName"}
    BY <1>2, <1>3, <2>1
  <2> QED BY <2>1, <2>2, <2>3 DEF ForRangeForm, h
<1>4. CASE n.has = {"keyName"} /\ p \in {<<"rangeOperator", "variable", "statements">>, <<"variable", "statements">>}
  <2>1. c = "variable" /\ p = <<"variable", "statements">>
    BY <1>1, <1>4
  <2>2. q = <<"statements">>
    BY <2>1, Tails
  <2>3. h = {"keyName", "name"}
    BY <1>2, <1>4, <2>1
  <2> QED BY <2>1, <2>2, <2>3 DEF ForRangeForm, h
<1>5. CASE n.has = {"keyName", "name"} /\ p = <<"statements">>
  <2>1. c = "statements"
    BY <1>1, <1>5
  <2>2. q = <<>>
    BY <1>5, Tails
  <2>3. h = {"keyName", "name", "StatementList"}
    BY <1>2, <1>5, <2>1
  <2> QED BY <2>1, <2>2, <2>3 DEF ForRangeForm, h
<1> QED BY <1>1, <1>3, <1>4, <1>5 DEF ForRangeForm, h

(* How far the header of a rule has been read *)
LEMMA EntityAt ==
  ASSUME NEW p
  PROVE  /\ p = <<"ruleName", "descPart", "saliencePart", "ruleContent">> => p[1] = "ruleName" /\ Tail(p) = <<"descPart", "saliencePart", "ruleContent">>
         /\ p = <<"stringLiteral", "ruleName", "descPart", "saliencePart", "ruleContent">> => p[1] = "stringLiteral" /\ Tail(p) = <<"ruleName", "descPart", "saliencePart", "ruleContent">>
         /\ p = <<"descPart", "saliencePart", "ruleContent">> => p[1] = "descPart" /\ Tail(p) = <<"saliencePart", "ruleContent">>
         /\ p = <<"ruleDescription", "saliencePart", "ruleContent">> => p[1] = "ruleDescription" /\ Tail(p) = <<"saliencePart", "ruleContent">>
         /\ p = <<"stringLiteral", "ruleDescription", "saliencePart", "ruleContent">> => p[1] = "stringLiteral" /\ Tail(p) = <<"ruleDescription", "saliencePart", "ruleContent">>
         /\ p = <<"saliencePart", "ruleContent">> => p[1] = "saliencePart" /\ Tail(p) = <<"ruleContent">>
         /\ p = <<"salience", "ruleContent">> => p[1] = "salience" /\ Tail(p) = <<"ruleContent">>
         /\ p = <<"integer", "salience", "ruleContent">> => p[1] = "integer" /\ Tail(p) = <<"salience", "ruleContent">>
         /\ p = <<"ruleContent">> => p[1] = "ruleContent" /\ Tail(p) = <<>>
<1>1. p = <<"ruleName", "descPart", "saliencePart", "ruleContent">> => p[1] = "ruleName" /\ Tail(p) = <<"descPart", "saliencePart", "ruleContent">>
  BY Tails
<1>2. p = <<"stringLiteral", "ruleName", "descPart", "saliencePart", "ruleContent">> => p[1] = "stringLiteral" /\ Tail(p) = <<"ruleName", "descPart", "saliencePart", "ruleContent">>
  BY Tails
<1>3. p = <<"descPart", "saliencePart", "ruleContent">> => p[1] = "descPart" /\ Tail(p) = <<"saliencePart", "ruleContent">>
  BY Tails
<1>4. p = <<"ruleDescription", "saliencePart", "ruleContent">> => p[1] = "ruleDescription" /\ Tail(p) = <<"saliencePart", "ruleContent">>
  BY Tails
<1>5. p = <<"stringLiteral", "ruleDescription", "saliencePart", "ruleContent">> => p[1] = "stringLiteral" /\ Tail(p) = <<"ruleDescription", "saliencePart", "ruleContent">>
  BY Tails
<1>6. p = <<"saliencePart", "ruleContent">> => p[1] = "saliencePart" /\ Tail(p) = <<"ruleContent">>
  BY Tails
<1>7. p = <<"salience", "ruleContent">> => p[1] = "salience" /\ Tail(p) = <<"ruleContent">>
  BY Tails
<1>8. p = <<"integer", "salience", "ruleContent">> => p[1] = "integer" /\ Tail(p) = <<"salience", "ruleContent">>
  BY Tails
<1>9. p = <<"ruleContent">> => p[1] = "ruleContent" /\ Tail(p) = <<>>
  BY Tails
<1> QED BY <1>1, <1>2, <1>3, <1>4, <1>5, <1>6, <1>7, <1>8, <1>9

LEMMA EntityTakes ==
  ASSUME NEW n, NEW c, NEW p, Takes(n, c, p), n.rule = "ruleEntity", EntityForm(n.name, n.has, p)
  PROVE  EntityForm(n.name, With(n, c).has, Tail(p))
<1>1. NodeLike(n) /\ p # <<>> /\ p[1] = c /\ c = "ruleContent"
  BY AcceptedChildren DEF Takes
<1>2. n.has = {} /\ n.name # "" /\ p = <<"ruleContent">>
  <2>1. EntityForm(n.name, n.has, p)
    OBVIOUS
  <2> QED BY <1>1, <2>1, EntityAt DEF EntityForm
<1>3. With(n, c).has = n.has \cup {"RuleContent"}
  <2>1. Single(n, "ruleContent", "RuleContent") /\ Taking(n)
    BY <1>1, FieldsAre, NodesTake
  <2> QED BY <1>1, <2>1 DEF Taking
<1>4. Tail(p) = <<>> /\ With(n, c).has = {"RuleContent"}
  BY <1>2, <1>3, Tails
<1> QED BY <1>2, <1>4 DEF EntityForm

(* Whatever node takes a child it accepts *)
LEMMA FormTakes ==
  ASSUME NEW n, NEW c, NEW p, Takes(n, c, p), Form(n, p)
  PROVE  Form(With(n, c), Tail(p))
<1> DEFINE w == With(n, c)
<1>1. w.rule = n.rule /\ (n.rule = "ruleEntity" => w.name = n.name)
  BY WithKeeps DEF Takes
<1> HIDE DEF w
<1>2. n.rule = "expression" => ExpressionForm(w.has, Tail(p))
  BY ExpressionTakes DEF Form, w
<1>3. n.rule = "mathExpression" => MathForm(w.has, Tail(p))
  BY MathTakes DEF Form, w
<1>4. n.rule \in {"statement", "expressionAtom", "constant"} => OneForm(n.rule, w.has, Tail(p))
  BY OneTakes DEF Form, w
<1>5. n.rule = "mapVar" => MapVarForm(w.has, Tail(p))
  BY MapVarTakes DEF Form, w
<1>6. n.rule = "assignment" => AssignmentForm(w.has, Tail(p))
  BY AssignmentTakes DEF Form, w
<1>7. n.rule \in {"ifStmt", "elseIfStmt"} => IfForm(w.has, Tail(p))
  BY IfTakes DEF Form, w
<1>8. n.rule = "elseStmt" => ElseForm(w.has, Tail(p))
  BY ElseTakes DEF Form, w
<1>9. n.rule = "forStmt" => ForForm(w.has, Tail(p))
  BY ForTakes DEF Form, w
<1>10. n.rule = "forRangeStmt" => ForRangeForm(w.has, Tail(p))
  BY ForRangeTakes DEF Form, w
<1>11. n.rule = "ruleContent" => ContentForm(w.has, Tail(p))
  BY ContentTakes DEF Form, w
<1>12. n.rule = "ruleEntity" => EntityForm(w.name, w.has, Tail(p))
  BY <1>1, EntityTakes DEF Form, w
<1> QED BY <1>1, <1>2, <1>3, <1>4, <1>5, <1>6, <1>7, <1>8, <1>9, <1>10, <1>11, <1>12 DEF Form, w

(* A node with nothing to come is complete. *)
LEMMA FormEnds ==
  ASSUME NEW n, Form(n, <<>>)
  PROVE  Complete(n)
<1>1. n.rule = "expression" => n.has \in Operand
  BY DEF Form, ExpressionForm
<1>2. n.rule = "mathExpression" => n.has \in MathOperand
  BY DEF Form, MathForm
<1>3. n.rule \in {"statement", "expressionAtom"} => Cardinality(n.has) = 1
  <2> SUFFICES ASSUME n.rule \in {"statement", "expressionAtom"} PROVE Cardinality(n.has) = 1
    OBVIOUS
  <2>1. \E f : n.has = {f}
    BY DEF Form, OneForm
  <2> QED BY <2>1, FS_Singleton
<1>4. n.rule = "constant" => n.has = {"ConstantValue"}
  <2> SUFFICES ASSUME n.rule = "constant" PROVE n.has = {"ConstantValue"}
    OBVIOUS
  <2>1. PICK c \in DOMAIN Accepts["constant"] : n.has = {Accepts["constant"][c].fields[1]}
    BY DEF Form, OneForm
  <2>2. Accepts["constant"] = ConstantAccepts
    BY DEF Accepts
  <2>3. Accepts["constant"][c].fields[1] = "ConstantValue"
    BY <2>2 DEF ConstantAccepts, Free
  <2> QED BY <2>1, <2>3
<1>5. n.rule = "mapVar" => "Name" \in n.has /\ Cardinality(n.has) = 2
  <2> SUFFICES ASSUME n.rule = "mapVar" PROVE "Name" \in n.has /\ Cardinality(n.has) = 2
    OBVIOUS
  <2>1. PICK f \in {"Varkey", "Intkey", "Strkey"} : n.has = {"Name", f}
    BY DEF Form, MapVarForm
  <2>2. Cardinality({"Name"}) = 1 /\ IsFiniteSet({"Name"}) /\ f \notin {"Name"}
    BY FS_Singleton
  <2>3. n.has = {"Name"} \cup {f}
    BY <2>1
  <2>4. Cardinality({"Name"} \cup {f}) = Cardinality({"Name"}) + 1
    BY <2>2, FS_AddElement
  <2> QED BY <2>1, <2>2, <2>3, <2>4
<1>6. n.rule = "assignment" => /\ "AssignOperator" \in n.has
                               /\ Cardinality(n.has \cap {"Variable", "MapVar"}) = 1
                               /\ Cardinality(n.has \cap {"MathExpression", "Expression"}) = 1
  <2> SUFFICES ASSUME n.rule = "assignment"
               PROVE  /\ "AssignOperator" \in n.has
                      /\ Cardinality(n.has \cap {"Variable", "MapVar"}) = 1
                      /\ Cardinality(n.has \cap {"MathExpression", "Expression"}) = 1
    OBVIOUS
  <2>1. PICK v \in Targets, e \in {"MathExpression", "Expression"} : n.has = {v, "AssignOperator", e}
    BY DEF Form, AssignmentForm
  <2>2. n.has \cap {"Variable", "MapVar"} = {v} /\ n.has \cap {"MathExpression", "Expression"} = {e}
    BY <2>1 DEF Targets
  <2> QED BY <2>1, <2>2, FS_Singleton
<1>7. n.rule \in {"ifStmt", "elseIfStmt"} => {"Expression", "StatementList"} \subseteq n.has
  BY DEF Form, IfForm
<1>8. n.rule = "elseStmt" => n.has = {"StatementList"}
  BY DEF Form, ElseForm
<1>9. n.rule = "forStmt" => n.has = {"Assignments0", "Expression", "Assignments1", "StatementList"}
  BY DEF Form, ForForm
<1>10. n.rule = "forRangeStmt" => n.has = {"keyName", "name", "StatementList"}
  BY DEF Form, ForRangeForm
<1>11. n.rule = "ruleContent" => n.has = {"Statements"}
  BY DEF Form, ContentForm
<1>12. n.rule = "ruleEntity" => n.name # "" /\ n.has = {"RuleContent"}
  BY DEF Form, EntityForm
<1> QED BY <1>1, <1>2, <1>3, <1>4, <1>5, <1>6, <1>7, <1>8, <1>9, <1>10, <1>11, <1>12, ZenonT(60) DEF Complete

(* A node that is new has all its children to come. *)
LEMMA FormBegins ==
  ASSUME NEW s \in Pushed, NEW shape \in Shapes(s)
  PROVE  Form(Node(s), shape)
<1> DEFINE n == Node(s)
<1>1. n.rule = s /\ n.has = {}
  BY DEF Node
<1> HIDE DEF n
<1>2. s = "expression" => ExpressionForm({}, shape)
  <2> SUFFICES ASSUME s = "expression" PROVE ExpressionForm({}, shape)
    OBVIOUS
  <2>1. Shapes("expression") = ExpressionShapes["expression"]
    BY ShapesAre, TableDomains
  <2> QED BY <2>1 DEF ExpressionShapes, Just, ExpressionForm, Comparing
<1>3. s = "mathExpression" => MathForm({}, shape)
  <2> SUFFICES ASSUME s = "mathExpression" PROVE MathForm({}, shape)
    OBVIOUS
  <2>1. Shapes("mathExpression") = ExpressionShapes["mathExpression"]
    BY ShapesAre, TableDomains
  <2> QED BY <2>1 DEF ExpressionShapes, Just, MathForm, Calculating
<1>4. s \in {"statement", "expressionAtom", "constant"} => OneForm(s, {}, shape)
  <2>1. s = "statement" => OneForm(s, {}, shape)
    <3> SUFFICES ASSUME s = "statement" PROVE OneForm(s, {}, shape)
      OBVIOUS
    <3>1. Shapes("statement") = StatementShapes["statement"]
      BY ShapesAre, TableDomains
    <3>2. \E c \in {"ifStmt", "assignment", "concStatement", "forStmt", "breakStmt",
                    "forRangeStmt", "continueStmt", "functionCall", "methodCall", "threeLevelCall"} : shape = <<c>>
      BY <3>1 DEF StatementShapes, Just, Calls
    <3> QED BY <3>2, AcceptedChildren DEF OneForm
  <2>2. s = "expressionAtom" => OneForm(s, {}, shape)
    <3> SUFFICES ASSUME s = "expressionAtom" PROVE OneForm(s, {}, shape)
      OBVIOUS
    <3>1. Shapes("expressionAtom") = ExpressionShapes["expressionAtom"]
      BY ShapesAre, TableDomains
    <3>2. \E c \in {"functionCall", "methodCall", "threeLevelCall", "constant", "mapVar", "variable"} : shape = <<c>>
      BY <3>1 DEF ExpressionShapes, Just, Calls
    <3> QED BY <3>2, AcceptedChildren DEF OneForm
  <2>3. s = "constant" => OneForm(s, {}, shape)
    <3> SUFFICES ASSUME s = "constant" PROVE OneForm(s, {}, shape)
      OBVIOUS
    <3>1. Shapes("constant") = ExpressionShapes["constant"]
      BY ShapesAre, TableDomains
    <3>2. \E c \in {"booleanLiteral", "integer", "realLiteral", "stringLiteral",
                    "atName", "atId", "atDesc", "atSal"} : shape = <<c>>
      BY <3>1 DEF ExpressionShapes, Just
    <3> QED BY <3>2, AcceptedChildren DEF OneForm
  <2> QED BY <2>1, <2>2, <2>3
<1>5. s = "mapVar" => MapVarForm({}, shape)
  <2> SUFFICES ASSUME s = "mapVar" PROVE MapVarForm({}, shape)
    OBVIOUS
  <2>1. Shapes("mapVar") = ExpressionShapes["mapVar"]
    BY ShapesAre, TableDomains
  <2> QED BY <2>1 DEF ExpressionShapes, MapVarForm, Keys
<1>6. s = "assignment" => AssignmentForm({}, shape)
  <2> SUFFICES ASSUME s = "assignment" PROVE AssignmentForm({}, shape)
    OBVIOUS
  <2>1. Shapes("assignment") = StatementShapes["assignment"]
    BY ShapesAre, TableDomains
  <2>2. \E v \in {"mapVar", "variable"}, e \in {"mathExpression", "expression"} : shape = <<v, "assignOperator", e>>
    BY <2>1 DEF StatementShapes
  <2> QED BY <2>2 DEF AssignmentForm, Sides
<1>7. s \in {"ifStmt", "elseIfStmt"} => IfForm({}, shape)
  <2> SUFFICES ASSUME s \in {"ifStmt", "elseIfStmt"} PROVE IfForm({}, shape)
    OBVIOUS
  <2>1. Shapes("ifStmt") = StatementShapes["ifStmt"] /\ Shapes("elseIfStmt") = StatementShapes["elseIfStmt"]
    BY ShapesAre, TableDomains
  <2> QED BY <2>1 DEF StatementShapes, IfForm
<1>8. s = "elseStmt" => ElseForm({}, shape)
  <2> SUFFICES ASSUME s = "elseStmt" PROVE ElseForm({}, shape)
    OBVIOUS
  <2>1. Shapes("elseStmt") = StatementShapes["elseStmt"]
    BY ShapesAre, TableDomains
  <2> QED BY <2>1 DEF StatementShapes, Just, ElseForm
<1>9. s = "forStmt" => ForForm({}, shape)
  <2> SUFFICES ASSUME s = "forStmt" PROVE ForForm({}, shape)
    OBVIOUS
  <2>1. Shapes("forStmt") = StatementShapes["forStmt"]
    BY ShapesAre, TableDomains
  <2> QED BY <2>1 DEF StatementShapes, ForForm
<1>10. s = "forRangeStmt" => ForRangeForm({}, shape)
  <2> SUFFICES ASSUME s = "forRangeStmt" PROVE ForRangeForm({}, shape)
    OBVIOUS
  <2>1. Shapes("forRangeStmt") = StatementShapes["forRangeStmt"]
    BY ShapesAre, TableDomains
  <2> QED BY <2>1 DEF StatementShapes, ForRangeForm
<1>11. s = "ruleContent" => ContentForm({}, shape)
  <2> SUFFICES ASSUME s = "ruleContent" PROVE ContentForm({}, shape)
    OBVIOUS
  <2>1. Shapes("ruleContent") = RuleShapes["ruleContent"]
    BY ShapesAre, TableDomains
  <2> QED BY <2>1 DEF RuleShapes, Just, ContentForm
<1>12. s = "ruleEntity" => EntityForm(n.name, {}, shape)
  <2> SUFFICES ASSUME s = "ruleEntity" PROVE EntityForm(n.name, {}, shape)
    OBVIOUS
  <2>1. Shapes("ruleEntity") = RuleShapes["ruleEntity"]
    BY ShapesAre, TableDomains
  <2> QED BY <2>1 DEF RuleShapes, EntityForm
<1> QED BY <1>1, <1>2, <1>3, <1>4, <1>5, <1>6, <1>7, <1>8, <1>9, <1>10, <1>11, <1>12 DEF Form, n

(* A sequence of calls put before others *)
Ahead(a, q) == [i \in 1 .. Len(a) + Len(q) |-> IF i <= Len(a) THEN a[i] ELSE q[i - Len(a)]]

LEMMA AheadNone ==
  ASSUME NEW S, NEW q \in Seq(S), NEW a, a = <<>>
  PROVE  Ahead(a, q) = q
<1>1. Len(a) = 0 /\ Len(q) \in Nat /\ q = [i \in 1 .. Len(q) |-> q[i]]
  BY LenProperties
<1>2. Ahead(a, q) = [i \in 1 .. Len(q) |-> q[i]]
  BY <1>1 DEF Ahead
<1> QED BY <1>1, <1>2

Fronting(x, q, w) == (\E S : w \in Seq(S)) /\ w # <<>> /\ w[1] = x /\ Tail(w) = q

LEMMA AheadOne ==
  ASSUME NEW S, NEW q \in Seq(S), NEW x, NEW a, Len(a) = 1, a[1] = x
  PROVE  Fronting(x, q, Ahead(a, q))
<1> DEFINE w == Ahead(a, q)
<1>1. Len(q) \in Nat /\ q = [i \in 1 .. Len(q) |-> q[i]]
  BY LenProperties
<1>2. w = [i \in 1 .. Len(q) + 1 |-> IF i <= 1 THEN a[i] ELSE q[i - 1]]
  BY <1>1 DEF Ahead
<1> HIDE DEF w
<1>3. \A i \in 1 .. Len(q) + 1 : w[i] \in S \cup {x}
  <2> SUFFICES ASSUME NEW i \in 1 .. Len(q) + 1 PROVE w[i] \in S \cup {x}
    OBVIOUS
  <2>1. CASE i = 1
    BY <1>1, <1>2, <2>1
  <2>2. CASE i # 1
    <3>1. i - 1 \in 1 .. Len(q) /\ w[i] = q[i - 1]
      BY <1>1, <1>2, <2>2
    <3> QED BY <3>1, ElementOfSeq
  <2> QED BY <2>1, <2>2
<1>4. w \in Seq(S \cup {x}) /\ Len(w) = Len(q) + 1
  <2>1. Len(q) + 1 \in Nat /\ w = [i \in 1 .. Len(q) + 1 |-> w[i]]
    BY <1>1, <1>2
  <2> QED BY <1>3, <2>1
<1>5. w # <<>> /\ w[1] = x
  BY <1>1, <1>2, <1>4
<1>6. Tail(w) \in Seq(S \cup {x}) /\ Len(Tail(w)) = Len(q) /\ \A i \in 1 .. Len(q) : Tail(w)[i] = q[i]
  <2>1. Tail(w) \in Seq(S \cup {x}) /\ Len(Tail(w)) = Len(w) - 1 /\ \A i \in 1 .. Len(Tail(w)) : Tail(w)[i] = w[i + 1]
    BY <1>4, <1>5, HeadTailProperties
  <2>2. \A i \in 1 .. Len(q) : w[i + 1] = q[i]
    BY <1>1, <1>2
  <2> QED BY <1>1, <1>4, <2>1, <2>2
<1>7. Tail(w) = q
  <2>1. Tail(w) = [i \in 1 .. Len(Tail(w)) |-> Tail(w)[i]]
    BY <1>6, LenProperties
  <2> QED BY <1>1, <1>6, <2>1
<1> QED BY <1>4, <1>5, <1>7 DEF Fronting, w

(* A call put before others, written out *)
Prefixed(x, q, w) ==
  /\ q = <<>> => w = <<x>>
  /\ \A a : q = <<a>> => w = <<x, a>>
  /\ \A a, b : q = <<a, b>> => w = <<x, a, b>>
  /\ \A a, b, c : q = <<a, b, c>> => w = <<x, a, b, c>>
  /\ \A a, b, c, d : q = <<a, b, c, d>> => w = <<x, a, b, c, d>>

LEMMA PrefixedIs ==
  ASSUME NEW w, NEW x, NEW q, Fronting(x, q, w)
  PROVE  Prefixed(x, q, w)
<1> SUFFICES ASSUME NEW S, w \in Seq(S), w # <<>>, w[1] = x, Tail(w) = q PROVE Prefixed(x, q, w)
  BY DEF Fronting
<1>1. ASSUME q = <<>> PROVE w = <<x>>
  BY <1>1, Fronts
<1>2. ASSUME NEW a, q = <<a>> PROVE w = <<x, a>>
  BY <1>2, Fronts
<1>3. ASSUME NEW a, NEW b, q = <<a, b>> PROVE w = <<x, a, b>>
  BY <1>3, Fronts
<1>4. ASSUME NEW a, NEW b, NEW c, q = <<a, b, c>> PROVE w = <<x, a, b, c>>
  BY <1>4, Fronts
<1>5. ASSUME NEW a, NEW b, NEW c, NEW d, q = <<a, b, c, d>> PROVE w = <<x, a, b, c, d>>
  BY <1>5, Fronts
<1> QED BY <1>1, <1>2, <1>3, <1>4, <1>5, Zenon DEF Prefixed

(* What is still to come when the first call of p has been made, the entry  *)
(* of a rule that is not pushed                                             *)
Unfolded(s, shape, p) == Ahead(shape, IF s \in Parts THEN Tail(p) ELSE p)

Unfolds(shape, q, w) ==
  /\ shape = <<>> => w = q
  /\ \A x : shape = <<x>> => Prefixed(x, q, w)

LEMMA UnfoldedIs ==
  ASSUME NEW S, NEW p \in Seq(S), p # <<>>, NEW s, NEW shape, NEW q, q = IF s \in Parts THEN Tail(p) ELSE p
  PROVE  Unfolds(shape, q, Unfolded(s, shape, p))
<1>1. q \in Seq(S)
  BY HeadTailProperties
<1>2. Unfolded(s, shape, p) = Ahead(shape, q)
  BY DEF Unfolded
<1>3. shape = <<>> => Unfolded(s, shape, p) = q
  BY <1>1, <1>2, AheadNone
<1>4. ASSUME NEW x, shape = <<x>>
      PROVE  Prefixed(x, q, Unfolded(s, shape, p))
  <2>1. Len(shape) = 1 /\ shape[1] = x
    BY <1>4
  <2>2. Fronting(x, q, Ahead(shape, q))
    BY <1>1, <2>1, AheadOne
  <2>3. Prefixed(x, q, Ahead(shape, q))
    BY <2>2, PrefixedIs
  <2> QED BY <1>2, <2>3
<1> QED BY <1>3, <1>4, Zenon DEF Unfolds

(* The header of a rule is unfolded *)
LEMMA EntityUnfolds ==
  ASSUME NEW S, NEW p \in Seq(S), p # <<>>, NEW s \in {"ruleName", "descPart", "ruleDescription", "saliencePart", "salience"},
         p[1] = s, NEW shape \in Shapes(s), NEW name, NEW has, EntityForm(name, has, p)
  PROVE  EntityForm(name, has, Unfolded(s, shape, p))
<1>1. PICK w : w = Unfolded(s, shape, p)
  OBVIOUS
<1>2. PICK q : q = IF s \in Parts THEN Tail(p) ELSE p
  OBVIOUS
<1>3. Unfolds(shape, q, w)
  BY <1>1, <1>2, UnfoldedIs
<1>4. Shapes(s) = RuleShapes[s]
  BY ShapesAre, TableDomains
<1>5. CASE s = "ruleName"
  <2>1. shape = <<"stringLiteral">> /\ q = p
    BY <1>2, <1>4, <1>5 DEF RuleShapes, Just, Parts
  <2>2. has = {} /\ p = <<"ruleName", "descPart", "saliencePart", "ruleContent">>
    BY <1>5, EntityAt DEF EntityForm
  <2>3. w = <<"stringLiteral", "ruleName", "descPart", "saliencePart", "ruleContent">>
    BY <1>3, <2>1, <2>2, Zenon DEF Unfolds, Prefixed
  <2>4. EntityForm(name, has, w)
    BY <2>2, <2>3 DEF EntityForm
  <2> QED BY <1>1, <2>4
<1>6. CASE s = "descPart"
  <2>1. shape = <<>> \/ shape = <<"ruleDescription">>
    BY <1>4, <1>6 DEF RuleShapes, Maybe, Just
  <2>2. has = {} /\ name # "" /\ p = <<"descPart", "saliencePart", "ruleContent">> /\ Tail(p) = <<"saliencePart", "ruleContent">>
    BY <1>6, EntityAt DEF EntityForm
  <2>3. q = <<"saliencePart", "ruleContent">>
    BY <1>2, <1>6, <2>2 DEF Parts
  <2>4. w = <<"saliencePart", "ruleContent">> \/ w = <<"ruleDescription", "saliencePart", "ruleContent">>
    BY <1>3, <2>1, <2>3, Zenon DEF Unfolds, Prefixed
  <2>5. EntityForm(name, has, w)
    BY <2>2, <2>4 DEF EntityForm
  <2> QED BY <1>1, <2>5
<1>7. CASE s = "ruleDescription"
  <2>1. shape = <<"stringLiteral">> /\ q = p
    BY <1>2, <1>4, <1>7 DEF RuleShapes, Just, Parts
  <2>2. has = {} /\ name # "" /\ p = <<"ruleDescription", "saliencePart", "ruleContent">>
    BY <1>7, EntityAt DEF EntityForm
  <2>3. w = <<"stringLiteral", "ruleDescription", "saliencePart", "ruleContent">>
    BY <1>3, <2>1, <2>2, Zenon DEF Unfolds, Prefixed
  <2>4. EntityForm(name, has, w)
    BY <2>2, <2>3 DEF EntityForm
  <2> QED BY <1>1, <2>4
<1>8. CASE s = "saliencePart"
  <2>1. shape = <<>> \/ shape = <<"salience">>
    BY <1>4, <1>8 DEF RuleShapes, Maybe, Just
  <2>2. has = {} /\ name # "" /\ p = <<"saliencePart", "ruleContent">> /\ Tail(p) = <<"ruleContent">>
    BY <1>8, EntityAt DEF EntityForm
  <2>3. q = <<"ruleContent">>
    BY <1>2, <1>8, <2>2 DEF Parts
  <2>4. w = <<"ruleContent">> \/ w = <<"salience", "ruleContent">>
    BY <1>3, <2>1, <2>3, Zenon DEF Unfolds, Prefixed
  <2>5. EntityForm(name, has, w)
    BY <2>2, <2>4 DEF EntityForm
  <2> QED BY <1>1, <2>5
<1>9. CASE s = "salience"
  <2>1. shape = <<"integer">> /\ q = p
    BY <1>2, <1>4, <1>9 DEF RuleShapes, Just, Parts
  <2>2. has = {} /\ name # "" /\ p = <<"salience", "ruleContent">>
    BY <1>9, EntityAt DEF EntityForm
  <2>3. w = <<"integer", "salience", "ruleContent">>
    BY <1>3, <2>1, <2>2, Zenon DEF Unfolds, Prefixed
  <2>4. EntityForm(name, has, w)
    BY <2>2, <2>3 DEF EntityForm
  <2> QED BY <1>1, <2>4
<1> QED BY <1>5, <1>6, <1>7, <1>8, <1>9

(* The optional negation is unfolded *)
LEMMA NotUnfolds ==
  ASSUME NEW S, NEW p \in Seq(S), p # <<>>, p[1] = "notPart", NEW shape \in Shapes("notPart"),
         NEW has, ExpressionForm(has, p)
  PROVE  ExpressionForm(has, Unfolded("notPart", shape, p))
<1>1. PICK w : w = Unfolded("notPart", shape, p)
  OBVIOUS
<1>2. PICK q : q = Tail(p)
  OBVIOUS
<1>3. Unfolds(shape, q, w)
  <2>1. q = IF "notPart" \in Parts THEN Tail(p) ELSE p
    BY <1>2 DEF Parts
  <2> QED BY <1>1, <2>1, UnfoldedIs
<1>4. shape = <<>> \/ shape = <<"notOperator">>
  <2>1. Shapes("notPart") = ExpressionShapes["notPart"]
    BY ShapesAre, TableDomains
  <2> QED BY <2>1 DEF ExpressionShapes, Maybe, Just
<1>5. has = {} /\ (p = <<"notPart", "expressionAtom">> \/ p = <<"notPart", "expression">>)
  BY DEF ExpressionForm, Comparing
<1>6. q = <<"expressionAtom">> \/ q = <<"expression">>
  BY <1>2, <1>5, Tails
<1>7. \/ w = <<"expressionAtom">> \/ w = <<"expression">>
      \/ w = <<"notOperator", "expressionAtom">> \/ w = <<"notOperator", "expression">>
  BY <1>3, <1>4, <1>6, Zenon DEF Unfolds, Prefixed
<1>8. ExpressionForm(has, w)
  BY <1>5, <1>7 DEF ExpressionForm
<1> QED BY <1>1, <1>8

(* The rest of an if statement, once its condition and its body are there *)
LEMMA IfUnfolds ==
  ASSUME NEW p, NEW s \in {"moreElseIf", "elsePart"}, p # <<>>, p[1] = s, NEW has, IfForm(has, p), NEW w
  PROVE  IfForm(has, w)
BY DEF IfForm

(* Whatever is entered under a node that has a form *)
LEMMA FormUnfolds ==
  ASSUME NEW n, n.rule \in Pushed, NEW S, NEW p \in Seq(S), p # <<>>, Form(n, p),
         NEW s, s \notin Pushed, p[1] = s, Fit(s, n.rule), NEW shape \in Shapes(s)
  PROVE  Form(n, Unfolded(s, shape, p))
<1>1. CASE s \in {"ruleName", "descPart", "ruleDescription", "saliencePart", "salience"}
  <2>1. n.rule = "ruleEntity"
    BY <1>1 DEF Fit, Home
  <2>2. EntityForm(n.name, n.has, Unfolded(s, shape, p))
    BY <1>1, <2>1, EntityUnfolds DEF Form
  <2> QED BY <2>1, <2>2 DEF Form
<1>2. CASE s = "notPart"
  <2>1. n.rule = "expression"
    BY <1>2 DEF Fit, Home
  <2>2. ExpressionForm(n.has, Unfolded(s, shape, p))
    BY <1>2, <2>1, NotUnfolds DEF Form
  <2> QED BY <2>1, <2>2 DEF Form
<1>3. CASE s \in {"moreElseIf", "elsePart"}
  <2>1. n.rule = "ifStmt"
    BY <1>3 DEF Fit, Home
  <2>2. IfForm(n.has, Unfolded(s, shape, p))
    BY <1>3, <2>1, IfUnfolds DEF Form
  <2> QED BY <2>1, <2>2 DEF Form
<1>4. CASE s \in {"moreStatements", "returnPart", "moreConc", "moreArgs"}
  <2>1. n.rule \in {"statements", "concStatement", "functionArgs"}
    BY <1>4 DEF Fit, Home
  <2> QED BY <2>1 DEF Form
<1>5. CASE s \in {"primary", "moreRules"}
  <2>1. n.rule = "nothing"
    BY <1>5 DEF Fit, Home
  <2> QED BY <2>1, AcceptedChildren
<1>6. CASE s \notin DOMAIN RuleShapes \cup DOMAIN StatementShapes \cup DOMAIN ExpressionShapes
                      \cup DOMAIN CallShapes \cup DOMAIN ArgumentShapes
  <2>1. shape = <<>>
    BY <1>6, ShapesAre
  <2>2. s \notin Parts
    BY <1>6, TableDomains DEF Parts
  <2>3. Unfolded(s, shape, p) = p
    <3>1. PICK q : q = IF s \in Parts THEN Tail(p) ELSE p
      OBVIOUS
    <3>2. Unfolded(s, shape, p) = q
      BY <2>1, <3>1, UnfoldedIs DEF Unfolds
    <3> QED BY <2>2, <3>1, <3>2
  <2> QED BY <2>3
<1>7. s \in DOMAIN RuleShapes \cup DOMAIN StatementShapes \cup DOMAIN ExpressionShapes
              \cup DOMAIN CallShapes \cup DOMAIN ArgumentShapes =>
        s \in {"ruleName", "descPart", "ruleDescription", "saliencePart", "salience", "notPart", "moreElseIf", "elsePart",
               "moreStatements", "returnPart", "moreConc", "moreArgs", "primary", "moreRules"}
  BY TableDomains, AcceptedChildren
<1> QED BY <1>1, <1>2, <1>3, <1>4, <1>5, <1>6, <1>7

(* What is left that no node takes *)
LEMMA FormSkips ==
  ASSUME NEW n, n.rule = "forRangeStmt", NEW p, p # <<>>, p[1] = "rangeOperator", Form(n, p)
  PROVE  Form(n, Tail(p))
<1>1. ForRangeForm(n.has, p)
  BY DEF Form
<1>2. n.has = {"keyName"} /\ p = <<"rangeOperator", "variable", "statements">>
  BY <1>1 DEF ForRangeForm
<1>3. Tail(p) = <<"variable", "statements">>
  BY <1>2, Tails
<1>4. ForRangeForm(n.has, Tail(p))
  BY <1>2, <1>3 DEF ForRangeForm
<1> QED BY <1>4 DEF Form

(* The header of a rule is read: its name is there once it has been. *)
LEMMA FormReads ==
  ASSUME NEW n, n.rule = "ruleEntity", NEW w, w.rule = "ruleEntity", w.has = n.has, n.name # "" => w.name # "",
         NEW s \in HeaderRules \cup {"stringLiteral", "integer"}, s = "ruleName" => w.name # "",
         NEW p, p # <<>>, p[1] = s, Form(n, p)
  PROVE  Form(w, Tail(p))
<1>1. EntityForm(n.name, n.has, p)
  BY DEF Form
<1>2. PICK q : q = Tail(p)
  OBVIOUS
<1>3. n.has = {}
  BY <1>1 DEF EntityForm
<1>4. \/ q = <<"ruleName", "descPart", "saliencePart", "ruleContent">>
      \/ /\ w.name # ""
         /\ q \in {<<"descPart", "saliencePart", "ruleContent">>, <<"saliencePart", "ruleContent">>,
                   <<"ruleDescription", "saliencePart", "ruleContent">>, <<"ruleContent">>,
                   <<"salience", "ruleContent">>}
  <2>1. \/ p = <<"stringLiteral", "ruleName", "descPart", "saliencePart", "ruleContent">>
        \/ p = <<"ruleName", "descPart", "saliencePart", "ruleContent">>
        \/ n.name # "" /\ p = <<"ruleDescription", "saliencePart", "ruleContent">>
        \/ n.name # "" /\ p = <<"stringLiteral", "ruleDescription", "saliencePart", "ruleContent">>
        \/ n.name # "" /\ p = <<"salience", "ruleContent">>
        \/ n.name # "" /\ p = <<"integer", "salience", "ruleContent">>
    BY <1>1, EntityAt DEF EntityForm, HeaderRules
  <2> QED BY <1>2, <2>1, EntityAt
<1>5. EntityForm(w.name, w.has, q)
  BY <1>3, <1>4 DEF EntityForm
<1> QED BY <1>2, <1>5 DEF Form

(* A real literal goes where a boolean does. *)
LEMMA SameField ==
  ASSUME NEW n, n.rule = "constant"
  PROVE  With(n, "realLiteral") = With(n, "booleanLiteral")
<1>1. Fields(n, "realLiteral") = Fields(n, "booleanLiteral")
  <2>1. Accepts[n.rule] = ConstantAccepts
    BY DEF Accepts
  <2> QED BY <2>1 DEF Fields, ConstantAccepts, Free
<1>2. FreeFields(n, "realLiteral") = FreeFields(n, "booleanLiteral")
  BY <1>1 DEF FreeFields
<1> QED BY <1>1, <1>2 DEF With

-----------------------------------------------------------------------------
(* A step of the walk, call by call *)

(* Counted from the last, the calls after the first one keep their place. *)
LEMMA ItemsStay ==
  ASSUME NEW S, NEW t \in Seq(S), t # <<>>
  PROVE  /\ Tail(t) \in Seq(S) /\ Len(Tail(t)) = Len(t) - 1 /\ Len(t) \in Nat /\ Len(t) > 0
         /\ Item(t, Len(t)) = t[1]
         /\ \A j \in 1 .. Len(t) - 1 : Item(Tail(t), j) = Item(t, j)
<1>1. /\ Tail(t) \in Seq(S) /\ Len(Tail(t)) = Len(t) - 1 /\ Len(t) \in Nat /\ Len(t) > 0
      /\ \A i \in 1 .. Len(Tail(t)) : Tail(t)[i] = t[i + 1]
  BY HeadTailProperties, LenProperties
<1>2. Item(t, Len(t)) = t[1]
  BY <1>1 DEF Item
<1>3. ASSUME NEW j \in 1 .. Len(t) - 1
      PROVE  Item(Tail(t), j) = Item(t, j)
  <2>1. Item(Tail(t), j) = Tail(t)[Len(t) - j]
    <3>1. Len(Tail(t)) + 1 - j = Len(t) - j
      BY <1>1
    <3> QED BY <3>1 DEF Item
  <2>2. Len(t) - j \in 1 .. Len(Tail(t)) /\ (Len(t) - j) + 1 = Len(t) + 1 - j
    BY <1>1
  <2> QED BY <1>1, <2>1, <2>2 DEF Item
<1> QED BY <1>1, <1>2, <1>3

(* The calls about one node, with the first of them made *)
LEMMA PendingIs ==
  ASSUME NEW t, NEW a \in Nat, NEW b \in Nat, a < b
  PROVE  Fronting(Item(t, b)[2], Pending(t, a, b - 1), Pending(t, a, b))
<1> DEFINE p == Pending(t, a, b)
           q == Pending(t, a, b - 1)
           T == {Item(t, b + 1 - i)[2] : i \in 1 .. b - a}
<1>1. p = [i \in 1 .. b - a |-> Item(t, b + 1 - i)[2]]
  BY DEF Pending
<1>2. q = [i \in 1 .. (b - 1) - a |-> Item(t, (b - 1) + 1 - i)[2]]
  BY DEF Pending
<1>3. \A i \in 1 .. b - a : p[i] \in T
  BY <1>1
<1> HIDE DEF p, q, T
<1>4. p \in Seq(T) /\ Len(p) = b - a
  <2>1. b - a \in Nat /\ p = [i \in 1 .. b - a |-> p[i]]
    BY <1>1
  <2> QED BY <1>3, <2>1
<1>5. p # <<>> /\ p[1] = Item(t, b)[2]
  <2>1. 1 \in 1 .. b - a /\ b + 1 - 1 = b
    OBVIOUS
  <2>2. p[1] = Item(t, b + 1 - 1)[2]
    BY <1>1, <2>1
  <2>3. p # <<>>
    BY <1>4
  <2> QED BY <2>1, <2>2, <2>3
<1>6. Tail(p) = q
  <2>1. Tail(p) \in Seq(T) /\ Len(Tail(p)) = (b - 1) - a /\ \A i \in 1 .. Len(Tail(p)) : Tail(p)[i] = p[i + 1]
    BY <1>4, <1>5, HeadTailProperties
  <2>2. ASSUME NEW i \in 1 .. (b - 1) - a
        PROVE  Tail(p)[i] = Item(t, (b - 1) + 1 - i)[2]
    <3>1. i + 1 \in 1 .. b - a /\ b + 1 - (i + 1) = (b - 1) + 1 - i
      OBVIOUS
    <3>2. p[i + 1] = Item(t, b + 1 - (i + 1))[2]
      BY <1>1, <3>1
    <3> QED BY <2>1, <3>1, <3>2
  <2>3. Tail(p) = [i \in 1 .. (b - 1) - a |-> Tail(p)[i]]
    BY <2>1, LenProperties
  <2> QED BY <1>2, <2>2, <2>3
<1> QED BY <1>4, <1>5, <1>6 DEF p, q, Fronting

LEMMA PendingSame ==
  ASSUME NEW t, NEW u, NEW a \in Nat, NEW b \in Nat, \A j \in a + 1 .. b : Item(u, j)[2] = Item(t, j)[2]
  PROVE  Pending(u, a, b) = Pending(t, a, b)
<1>1. ASSUME NEW i \in 1 .. b - a PROVE Item(u, b + 1 - i)[2] = Item(t, b + 1 - i)[2]
  <2>1. b + 1 - i \in a + 1 .. b
    OBVIOUS
  <2> QED BY <2>1
<1> QED BY <1>1 DEF Pending

(* Where the calls about a node end is where the next node's exit is. *)
LEMMA UntilIs ==
  ASSUME NEW t, NEW E, NEW m, NEW l
  PROVE  (l = m => Until(t, E, m, l) = Len(t)) /\ (l # m => Until(t, E, m, l) = E[l + 1])
BY DEF Until

(* How high the stack is once the first call, about rule s, has been made, but *)
(* for the node that is entered                                               *)
Height(t, st, s, h) ==
  /\ t[1] = Exit(s) \/ t[1] = Enter(s)
  /\ h = IF t[1] = Exit(s) /\ s \in Pushed THEN Len(st) - 1 ELSE Len(st)

(* The first call is about the node on top of the stack, or closes it. *)
LEMMA FrontWhole ==
  ASSUME NEW S, NEW t \in Seq(S), t # <<>>, NEW st, Len(st) \in Nat, Nodes(st), NEW E, Whole(t, st, E),
         NEW s, NEW h, Height(t, st, s, h)
  PROVE  /\ t[1] = Exit(s) /\ s \in Pushed /\ Len(st) > 0 => E[Len(st)] = Len(t)
         /\ \A l \in 1 .. h : E[l] \in 1 .. Len(t) - 1
         /\ h \in 1 .. Len(st) => Until(t, E, Len(st), h) = Len(t)
<1> DEFINE m == Len(st)
           N == Len(t)
<1>0. /\ t[1] = Exit(s) \/ t[1] = Enter(s)
      /\ h = IF t[1] = Exit(s) /\ s \in Pushed THEN m - 1 ELSE m
  BY DEF Height
<1>1. N \in Nat /\ N > 0 /\ Item(t, N) = t[1] /\ t[1][2] = s
  BY <1>0, ItemsStay, ItemsApart
<1>2. /\ E \in [1 .. m -> Nat]
      /\ \A l \in 1 .. m : 0 < E[l] /\ E[l] <= N /\ Item(t, E[l]) = Exit(st[l].rule)
      /\ \A i, j \in 1 .. m : i < j => E[i] < E[j]
  BY DEF Whole
<1>3. ASSUME t[1] = Exit(s), s \in Pushed, m > 0
      PROVE  E[m] = N
  <2>1. m \in 1 .. m /\ E[m] \in Nat /\ E[m] <= N /\ Until(t, E, m, m) = N
    BY <1>2, <1>3, UntilIs
  <2>2. Closes(Item(t, N))
    BY <1>1, <1>3, ItemsApart DEF Closes
  <2>3. N \notin E[m] + 1 .. N
    BY <2>1, <2>2 DEF Whole
  <2> QED BY <1>1, <2>1, <2>3
<1>4. CASE t[1] = Exit(s) /\ s \in Pushed
  <2>1. \A l \in 1 .. h : E[l] \in 1 .. N - 1
    <3> SUFFICES ASSUME NEW l \in 1 .. h PROVE E[l] \in 1 .. N - 1
      OBVIOUS
    <3>1. l \in 1 .. m /\ m \in 1 .. m /\ l < m
      BY <1>0, <1>4
    <3>2. E[l] < E[m] /\ 0 < E[l] /\ E[l] \in Nat
      BY <1>2, <3>1
    <3> QED BY <1>1, <1>3, <1>4, <3>1, <3>2
  <2>2. h \in 1 .. m => Until(t, E, m, h) = N
    <3> SUFFICES ASSUME h \in 1 .. m PROVE Until(t, E, m, h) = N
      OBVIOUS
    <3>1. h # m /\ h + 1 = m /\ m > 0
      BY <1>0, <1>4
    <3> QED BY <1>0, <1>3, <1>4, <3>1, UntilIs
  <2> QED BY <1>3, <1>4, <2>1, <2>2
<1>5. CASE ~(t[1] = Exit(s) /\ s \in Pushed)
  <2>1. h = m
    BY <1>0, <1>5
  <2>2. \A l \in 1 .. m : E[l] # N
    <3> SUFFICES ASSUME NEW l \in 1 .. m, E[l] = N PROVE FALSE
      OBVIOUS
    <3>1. t[1] = Exit(st[l].rule)
      BY <1>1, <1>2
    <3>2. st[l].rule \in Pushed
      BY DEF Nodes, NodeLike
    <3>3. t[1] = Exit(s) /\ s = st[l].rule
      BY <1>0, <3>1, ItemsApart
    <3> QED BY <1>5, <3>2, <3>3
  <2>3. \A l \in 1 .. m : E[l] \in 1 .. N - 1
    BY <1>1, <1>2, <2>2
  <2>4. Until(t, E, m, m) = N
    BY UntilIs
  <2> QED BY <1>5, <2>1, <2>3, <2>4
<1> QED BY <1>4, <1>5

(* What a node loses when it is no longer to come *)
Loses(n, s, w) ==
  \A p : (\E S : p \in Seq(S)) /\ p # <<>> /\ p[1] = s /\ Form(n, p) => Form(w, Tail(p))

(* A rule is left. *)
LEMMA LeaveWhole ==
  ASSUME NEW S, NEW t \in Seq(S), t # <<>>, NEW st, Len(st) \in Nat, Nodes(st), NEW E, Whole(t, st, E),
         NEW s, t[1] = Exit(s), NEW h \in Nat, h = IF s \in Pushed THEN Len(st) - 1 ELSE Len(st),
         NEW v, Len(v) = h, \A i \in 1 .. h : i # h => v[i] = st[i],
         h > 0 => v[h].rule = st[h].rule /\ Loses(st[h], s, v[h])
  PROVE  \E F : Whole(Tail(t), v, F)
<1> DEFINE m == Len(st)
           N == Len(t)
           F == [l \in 1 .. h |-> E[l]]
<1>0. PICK u : u = Tail(t)
  OBVIOUS
<1>1. /\ Len(u) = N - 1 /\ N \in Nat /\ N > 0 /\ Item(t, N) = t[1] /\ t[1][2] = s
      /\ \A j \in 1 .. N - 1 : Item(u, j) = Item(t, j)
  BY <1>0, ItemsStay, ItemsApart
<1>2. /\ E \in [1 .. m -> Nat]
      /\ \A l \in 1 .. m : 0 < E[l] /\ E[l] <= N /\ Item(t, E[l]) = Exit(st[l].rule)
      /\ \A i, j \in 1 .. m : i < j => E[i] < E[j]
  BY DEF Whole
<1>3. /\ s \in Pushed /\ m > 0 => E[m] = N
      /\ \A l \in 1 .. h : E[l] \in 1 .. N - 1
      /\ h \in 1 .. m => Until(t, E, m, h) = N
  <2>1. Height(t, st, s, h)
    BY DEF Height
  <2>2. /\ t[1] = Exit(s) /\ s \in Pushed /\ Len(st) > 0 => E[Len(st)] = Len(t)
        /\ \A l \in 1 .. h : E[l] \in 1 .. Len(t) - 1
        /\ h \in 1 .. Len(st) => Until(t, E, Len(st), h) = Len(t)
    BY <2>1, FrontWhole
  <2> QED BY <2>2
<1>4. h <= m /\ \A l \in 1 .. h : l \in 1 .. m
  OBVIOUS
<1>5. F \in [1 .. h -> Nat] /\ \A l \in 1 .. h : F[l] = E[l]
  BY <1>2, <1>4
<1> HIDE DEF F
<1>6. ASSUME NEW l \in 1 .. h
      PROVE  0 < F[l] /\ F[l] <= Len(u) /\ Item(u, F[l]) = Exit(v[l].rule)
  <2>1. v[l].rule = st[l].rule
    BY <1>6
  <2>2. F[l] = E[l] /\ E[l] \in 1 .. N - 1 /\ Item(t, E[l]) = Exit(st[l].rule)
    BY <1>2, <1>3, <1>4, <1>5
  <2>3. Item(u, E[l]) = Item(t, E[l])
    BY <1>1, <2>2
  <2>4. 0 < F[l] /\ F[l] <= Len(u)
    BY <1>1, <2>2
  <2> QED BY <2>1, <2>2, <2>3, <2>4
<1>7. \A i, j \in 1 .. h : i < j => F[i] < F[j]
  BY <1>2, <1>4, <1>5
<1>8. ASSUME NEW l \in 1 .. h, l # h
      PROVE  /\ \A j \in F[l] + 1 .. Until(u, F, h, l) : Closes(Item(u, j)) => l # h /\ j = F[l + 1]
             /\ Form(v[l], Pending(u, F[l], Until(u, F, h, l)))
  <2>1. l + 1 \in 1 .. h /\ l # m /\ l \in 1 .. m /\ v[l] = st[l]
    BY <1>4, <1>8
  <2>2. Until(u, F, h, l) = E[l + 1] /\ Until(t, E, m, l) = E[l + 1] /\ F[l] = E[l] /\ F[l + 1] = E[l + 1]
    <3>1. Until(u, F, h, l) = F[l + 1] /\ Until(t, E, m, l) = E[l + 1]
      <4>1. \A tt, EE, mm : l # mm => Until(tt, EE, mm, l) = EE[l + 1]
        BY UntilIs
      <4> QED BY <1>8, <2>1, <4>1
    <3>2. F[l] = E[l] /\ F[l + 1] = E[l + 1]
      BY <1>5, <1>8, <2>1
    <3> QED BY <3>1, <3>2
  <2>3. E[l + 1] \in 1 .. N - 1 /\ E[l] \in 1 .. N - 1
    BY <1>3, <2>1
  <2>4. /\ \A j \in E[l] + 1 .. E[l + 1] : Closes(Item(t, j)) => l # m /\ j = E[l + 1]
        /\ Form(st[l], Pending(t, E[l], E[l + 1]))
    BY <2>1, <2>2 DEF Whole
  <2>5. \A j \in E[l] + 1 .. E[l + 1] : Item(u, j) = Item(t, j)
    BY <1>1, <2>3
  <2>6. Pending(u, E[l], E[l + 1]) = Pending(t, E[l], E[l + 1])
    <3>1. PICK a \in Nat, b \in Nat : a = E[l] /\ b = E[l + 1]
      BY <2>3
    <3>2. \A j \in a + 1 .. b : Item(u, j)[2] = Item(t, j)[2]
      BY <2>5, <3>1
    <3>3. Pending(u, a, b) = Pending(t, a, b)
      BY <3>2, PendingSame
    <3> QED BY <3>1, <3>3
  <2> QED BY <1>8, <2>1, <2>2, <2>4, <2>5, <2>6
<1>9. ASSUME h > 0
      PROVE  /\ \A j \in F[h] + 1 .. Until(u, F, h, h) : Closes(Item(u, j)) => h # h /\ j = F[h + 1]
             /\ Form(v[h], Pending(u, F[h], Until(u, F, h, h)))
  <2>1. h \in 1 .. h /\ h \in 1 .. m
    BY <1>4, <1>9
  <2>2. Until(u, F, h, h) = N - 1 /\ Until(t, E, m, h) = N /\ F[h] = E[h] /\ E[h] \in 1 .. N - 1
    <3>1. h \in 1 .. m => Until(t, E, m, h) = N
      BY <1>3
    <3>2. F[h] = E[h] /\ E[h] \in 1 .. N - 1
      BY <1>3, <1>5, <2>1
    <3>3. Until(u, F, h, h) = Len(u)
      BY UntilIs
    <3> QED BY <1>1, <2>1, <3>1, <3>2, <3>3
  <2>3. /\ \A j \in E[h] + 1 .. N : Closes(Item(t, j)) => h # m /\ j = E[h + 1]
        /\ Form(st[h], Pending(t, E[h], N))
    BY <2>1, <2>2 DEF Whole
  <2>4. \A j \in E[h] + 1 .. N - 1 : Item(u, j) = Item(t, j)
    BY <1>1, <2>2
  <2>5. Pending(u, E[h], N - 1) = Pending(t, E[h], N - 1)
    <3>1. PICK a \in Nat, b \in Nat : a = E[h] /\ b = N - 1
      BY <1>1, <2>2
    <3>2. \A j \in a + 1 .. b : Item(u, j)[2] = Item(t, j)[2]
      BY <2>4, <3>1
    <3>3. Pending(u, a, b) = Pending(t, a, b)
      BY <3>2, PendingSame
    <3> QED BY <3>1, <3>3
  <2>6. Form(v[h], Pending(t, E[h], N - 1))
    <3>1. PICK p : p = Pending(t, E[h], N)
      OBVIOUS
    <3>2. (\E T : p \in Seq(T)) /\ p # <<>> /\ p[1] = s /\ Tail(p) = Pending(t, E[h], N - 1)
      <4>1. E[h] \in Nat /\ N \in Nat /\ E[h] < N /\ Item(t, N)[2] = s
        BY <1>1, <2>2
      <4>2. PICK a \in Nat, b \in Nat : a = E[h] /\ b = N /\ a < b
        BY <4>1
      <4>3. Fronting(Item(t, b)[2], Pending(t, a, b - 1), Pending(t, a, b))
        BY <4>2, PendingIs
      <4> QED BY <3>1, <4>1, <4>2, <4>3 DEF Fronting
    <3>3. Form(st[h], p)
      BY <2>3, <3>1
    <3>4. Form(v[h], Tail(p))
      BY <1>9, <3>2, <3>3 DEF Loses
    <3> QED BY <3>2, <3>4
  <2>7. ASSUME NEW j \in E[h] + 1 .. N - 1, Closes(Item(u, j))
        PROVE  FALSE
    <3>1. j \in E[h] + 1 .. N /\ Closes(Item(t, j))
      BY <2>2, <2>4, <2>7
    <3>2. h # m /\ j = E[h + 1]
      BY <2>3, <3>1
    <3>3. s \in Pushed /\ h + 1 = m /\ m > 0
      BY <3>2
    <3> QED BY <1>1, <1>3, <3>2, <3>3
  <2> QED BY <2>2, <2>5, <2>6, <2>7
<1>10. Whole(u, v, F)
  <2>1. ASSUME NEW l \in 1 .. h
        PROVE  /\ \A j \in F[l] + 1 .. Until(u, F, h, l) : Closes(Item(u, j)) => l # h /\ j = F[l + 1]
               /\ Form(v[l], Pending(u, F[l], Until(u, F, h, l)))
    BY <1>8, <1>9
  <2> QED BY <1>5, <1>6, <1>7, <2>1 DEF Whole
<1> QED BY <1>0, <1>10

(* A rule is entered: what is to do is its children, its exit if it has one, *)
(* and what was to do.                                                       *)
Spliced(t, s, shape, n, k, u) ==
  /\ k \in Nat /\ n \in Nat /\ (s \in Parts => k = n) /\ (s \notin Parts => k = n + 1)
  /\ Len(t) \in Nat /\ Len(t) > 0 /\ Len(u) \in Nat /\ Len(u) = k + Len(t) - 1
  /\ Item(t, Len(t)) = Enter(s)
  /\ \A j \in 1 .. Len(t) - 1 : Item(u, j) = Item(t, j)
  /\ \A i \in 1 .. k : Item(u, k + Len(t) - i) = u[i]
  /\ \A i \in 1 .. n : u[i] = Enter(shape[i])
  /\ s \notin Parts => u[n + 1] = Exit(s)

LEMMA ItemsEntered ==
  ASSUME NEW S, NEW t \in Seq(S), t # <<>>, NEW s, NEW shape, NEW n \in Nat, NEW k, NEW u, Entering(t, s, shape, n, k, u)
  PROVE  Spliced(t, s, shape, n, k, u)
<1>1. /\ k \in Nat /\ k = IF s \in Parts THEN n ELSE n + 1
      /\ Len(u) \in Nat /\ Len(u) = k + Len(t) - 1 /\ t[1] = Enter(s)
      /\ \A i \in 1 .. n : u[i] = Enter(shape[i])
      /\ s \notin Parts => u[n + 1] = Exit(s)
      /\ \A i \in k + 1 .. Len(u) : u[i] = t[i - k + 1]
  BY DEF Entering, Following
<1>2. PICK N \in Nat : N = Len(t) /\ N > 0 /\ Item(t, N) = t[1]
  BY ItemsStay
<1>3. PICK M \in Nat : M = Len(u) /\ M = k + N - 1
  BY <1>1, <1>2
<1>4. ASSUME NEW j \in 1 .. N - 1
      PROVE  Item(u, j) = Item(t, j)
  <2>1. M + 1 - j \in k + 1 .. M /\ (M + 1 - j) - k + 1 = N + 1 - j
    <3>1. k \in Nat /\ j \in Int /\ 1 <= j /\ j <= N - 1
      BY <1>1
    <3>2. M + 1 = k + N
      BY <1>3, <3>1
    <3> QED BY <3>1, <3>2
  <2>2. u[M + 1 - j] = t[(M + 1 - j) - k + 1]
    BY <1>1, <1>3, <2>1
  <2>3. Item(u, j) = u[M + 1 - j] /\ Item(t, j) = t[N + 1 - j]
    BY <1>2, <1>3 DEF Item
  <2> QED BY <2>1, <2>2, <2>3
<1>5. ASSUME NEW i \in 1 .. k
      PROVE  Item(u, k + N - i) = u[i]
  <2>1. M + 1 - (k + N - i) = i
    <3>1. k \in Nat /\ i \in Int
      BY <1>1
    <3>2. M + 1 = k + N
      BY <1>3, <3>1
    <3>3. (k + N) - (k + N - i) = i
      BY <3>1, <1>2
    <3> QED BY <3>1, <3>2, <3>3
  <2>2. Item(u, k + N - i) = u[M + 1 - (k + N - i)]
    BY <1>3 DEF Item
  <2> QED BY <2>1, <2>2
<1>6. (s \in Parts => k = n) /\ (s \notin Parts => k = n + 1)
  BY <1>1
<1> QED BY <1>1, <1>2, <1>4, <1>5, <1>6 DEF Spliced

(* None of the new calls closes a node but the exit of the new one. *)
LEMMA EnteredCloses ==
  ASSUME NEW t, NEW s, NEW shape, NEW n, NEW k, NEW u, Spliced(t, s, shape, n, k, u),
         NEW j \in Len(t) .. Len(u), Closes(Item(u, j))
  PROVE  s \in Pushed /\ j = Len(t)
<1>a. k \in Nat /\ n \in Nat /\ (s \in Parts => k = n) /\ (s \notin Parts => k = n + 1)
  BY Zenon DEF Spliced
<1>b. Len(t) \in Nat /\ Len(u) = k + Len(t) - 1
  BY Zenon DEF Spliced
<1>c. \A i \in 1 .. k : Item(u, k + Len(t) - i) = u[i]
  BY Zenon DEF Spliced
<1>d. \A i \in 1 .. n : u[i] = Enter(shape[i])
  BY Zenon DEF Spliced
<1>e. s \notin Parts => u[n + 1] = Exit(s)
  BY Zenon DEF Spliced
<1>1. /\ k \in Nat /\ n \in Nat /\ (s \in Parts => k = n) /\ (s \notin Parts => k = n + 1)
      /\ Len(t) \in Nat /\ Len(u) = k + Len(t) - 1
      /\ \A i \in 1 .. k : Item(u, k + Len(t) - i) = u[i]
      /\ \A i \in 1 .. n : u[i] = Enter(shape[i])
      /\ s \notin Parts => u[n + 1] = Exit(s)
  BY <1>a, <1>b, <1>c, <1>d, <1>e, Zenon
<1>2. PICK i \in 1 .. k : i = k + Len(t) - j
  <2>1. PICK N \in Nat : N = Len(t)
    BY <1>b
  <2>2. PICK M \in Nat : M = Len(u) /\ M = k + N - 1
    <3>1. k + N - 1 \in Nat
      BY <1>a, <1>b, <2>1
    <3> QED BY <1>b, <2>1, <3>1
  <2>3. j \in Nat /\ N <= j /\ j <= M
    BY <2>1, <2>2
  <2>4. k + N - j \in 1 .. k
    BY <1>a, <2>2, <2>3
  <2> QED BY <2>1, <2>4
<1>3. j = k + Len(t) - i
  BY <1>1, <1>2
<1>4. Item(u, j) = u[i]
  BY <1>1, <1>3
<1>5. i \notin 1 .. n
  <2> SUFFICES ASSUME i \in 1 .. n PROVE FALSE
    OBVIOUS
  <2>1. u[i] = Enter(shape[i])
    BY <1>1
  <2>2. Item(u, j) = Enter(shape[i])
    BY <1>4, <2>1
  <2>3. ~Closes(Enter(shape[i]))
    BY DEF Closes, Enter
  <2> QED BY <2>2, <2>3
<1>6. s \notin Parts /\ i = n + 1 /\ k = n + 1
  BY <1>1, <1>5
<1>7. j = Len(t) /\ Item(u, j) = Exit(s)
  BY <1>1, <1>3, <1>4, <1>6
<1>8. s \in Pushed
  BY <1>7 DEF Closes, Exit
<1> QED BY <1>7, <1>8

LEMMA PendingLength ==
  ASSUME NEW t, NEW a \in Nat, NEW b \in Nat, a <= b
  PROVE  Len(Pending(t, a, b)) = b - a
BY DEF Pending

(* A node of its own is entered: the node below keeps what it has to come. *)
LEMMA EnterPending ==
  ASSUME NEW t, NEW s, NEW shape, NEW n, NEW k, NEW u, Spliced(t, s, shape, n, k, u), s \in Pushed,
         NEW a \in Nat, a < Len(t)
  PROVE  /\ Pending(u, a, Len(t)) = Pending(t, a, Len(t))
         /\ Item(u, Len(t)) = Exit(s) /\ Len(t) <= Len(u)
<1>1. s \notin Parts
  BY AcceptedChildren DEF Parts
<1>2. PICK N \in Nat : N = Len(t) /\ N > 0
  BY DEF Spliced
<1>3. /\ k = n + 1 /\ n \in Nat /\ Len(u) = k + N - 1 /\ Item(t, N) = Enter(s)
      /\ \A j \in 1 .. N - 1 : Item(u, j) = Item(t, j)
      /\ \A i \in 1 .. k : Item(u, k + N - i) = u[i]
      /\ u[n + 1] = Exit(s)
  BY <1>1, <1>2 DEF Spliced
<1>4. Item(u, N) = Exit(s) /\ N <= Len(u)
  <2>1. n + 1 \in 1 .. k /\ k + N - (n + 1) = N
    BY <1>3
  <2>2. Item(u, k + N - (n + 1)) = u[n + 1]
    BY <1>3, <2>1
  <2> QED BY <1>3, <2>1, <2>2
<1>5. ASSUME NEW j \in a + 1 .. N PROVE Item(u, j)[2] = Item(t, j)[2]
  <2>1. CASE j = N
    <3>1. Item(u, N)[2] = s /\ Item(t, N)[2] = s
      BY <1>3, <1>4, ItemsApart
    <3> QED BY <2>1, <3>1
  <2>2. CASE j # N
    <3>1. j \in 1 .. N - 1
      BY <2>2
    <3> QED BY <1>3, <3>1
  <2> QED BY <2>1, <2>2
<1>6. Pending(u, a, N) = Pending(t, a, N)
  BY <1>5, PendingSame
<1> QED BY <1>2, <1>4, <1>6

(* The new node has all of its shape to come. *)
LEMMA NewPending ==
  ASSUME NEW t, NEW s, NEW shape, (\E T : shape \in Seq(T)), NEW n, n = Len(shape), NEW k, NEW u,
         Spliced(t, s, shape, n, k, u), s \in Pushed
  PROVE  Pending(u, Len(t), Len(u)) = shape
<1>1. s \notin Parts
  BY AcceptedChildren DEF Parts
<1>2. PICK N \in Nat : N = Len(t) /\ N > 0
  BY DEF Spliced
<1>3. PICK M \in Nat : M = Len(u)
  BY DEF Spliced
<1>4. /\ k = n + 1 /\ n \in Nat /\ M = k + N - 1
      /\ \A i \in 1 .. k : Item(u, k + N - i) = u[i]
      /\ \A i \in 1 .. n : u[i] = Enter(shape[i])
  BY <1>1, <1>2, <1>3 DEF Spliced
<1>5. ASSUME NEW i \in 1 .. n PROVE Item(u, M + 1 - i)[2] = shape[i]
  <2>1. i \in 1 .. k /\ M + 1 - i = k + N - i
    BY <1>4
  <2>2. Item(u, M + 1 - i) = Enter(shape[i])
    BY <1>4, <2>1
  <2> QED BY <2>2, ItemsApart
<1>6. Pending(u, N, M) = [i \in 1 .. n |-> Item(u, M + 1 - i)[2]]
  <2>1. M - N = n
    BY <1>4
  <2> QED BY <2>1 DEF Pending
<1>7. shape = [i \in 1 .. n |-> shape[i]]
  <2>1. PICK T : shape \in Seq(T)
    OBVIOUS
  <2> QED BY <2>1, LenProperties
<1> QED BY <1>2, <1>3, <1>5, <1>6, <1>7

(* More is to come for the node on top of the stack. *)
LEMMA MorePending ==
  ASSUME NEW t, NEW s, NEW shape, NEW n, n = Len(shape), NEW k, NEW u,
         Spliced(t, s, shape, n, k, u), NEW a \in Nat, a < Len(t)
  PROVE  Pending(u, a, Len(u)) = Unfolded(s, shape, Pending(t, a, Len(t)))
<1>1. PICK N \in Nat : N = Len(t) /\ N > 0 /\ a < N
  BY DEF Spliced
<1>2. PICK M \in Nat : M = Len(u)
  BY DEF Spliced
<1>3. /\ k \in Nat /\ n \in Nat /\ M = k + N - 1 /\ Item(t, N) = Enter(s)
      /\ \A j \in 1 .. N - 1 : Item(u, j) = Item(t, j)
      /\ \A i \in 1 .. k : Item(u, k + N - i) = u[i]
      /\ \A i \in 1 .. n : u[i] = Enter(shape[i])
      /\ (s \in Parts => k = n) /\ (s \notin Parts => k = n + 1 /\ u[n + 1] = Exit(s))
  BY <1>1, <1>2 DEF Spliced
<1>4. PICK p : p = Pending(t, a, N)
  OBVIOUS
<1>5. PICK q : q = IF s \in Parts THEN Tail(p) ELSE p
  OBVIOUS
<1>6. Unfolded(s, shape, p) = Ahead(shape, q)
  BY <1>5 DEF Unfolded
<1>7. PICK b \in Nat : q = Pending(t, a, b) /\ (s \in Parts => b = N - 1) /\ (s \notin Parts => b = N) /\ a <= b
  <2>1. Fronting(Item(t, N)[2], Pending(t, a, N - 1), p)
    BY <1>1, <1>4, PendingIs
  <2>2. Tail(p) = Pending(t, a, N - 1)
    BY <2>1 DEF Fronting
  <2>3. CASE s \in Parts
    <3>1. N - 1 \in Nat /\ a <= N - 1
      BY <1>1
    <3> QED BY <1>5, <2>2, <2>3, <3>1
  <2>4. CASE s \notin Parts
    BY <1>1, <1>4, <1>5, <2>4
  <2> QED BY <2>3, <2>4
<1>8. Len(q) = b - a /\ M - a = n + (b - a)
  <2>1. Len(q) = b - a
    BY <1>7, PendingLength
  <2>2. CASE s \in Parts
    <3>1. M = n + N - 1 /\ b = N - 1
      BY <1>3, <1>7, <2>2
    <3> QED BY <1>1, <1>3, <2>1, <3>1
  <2>3. CASE s \notin Parts
    <3>1. M = (n + 1) + N - 1 /\ b = N
      BY <1>3, <1>7, <2>3
    <3> QED BY <1>1, <1>3, <2>1, <3>1
  <2> QED BY <2>2, <2>3
<1>9. ASSUME NEW i \in 1 .. n + (b - a)
      PROVE  Item(u, M + 1 - i)[2] = IF i <= n THEN shape[i] ELSE q[i - n]
  <2>1. CASE i <= n
    <3>1. i \in 1 .. k /\ M + 1 - i = k + N - i /\ i \in 1 .. n
      BY <1>3, <2>1
    <3>2. Item(u, M + 1 - i) = Enter(shape[i])
      BY <1>3, <3>1
    <3> QED BY <2>1, <3>2, ItemsApart
  <2>2. CASE i > n
    <3>0. M = n + b /\ M \in Nat /\ b \in Nat /\ a \in Nat /\ n \in Nat /\ i \in Int /\ n < i /\ i <= n + (b - a)
      <4>1. M = n + b
        BY <1>2, <1>3, <1>7, <1>8
      <4> QED BY <1>2, <1>3, <1>7, <2>2, <4>1
    <3>1. PICK j \in a + 1 .. b : j = M + 1 - i /\ i - n \in 1 .. b - a /\ b + 1 - (i - n) = j
      <4>1. M + 1 - i \in a + 1 .. b
        BY <3>0
      <4>2. i - n \in 1 .. b - a
        BY <3>0
      <4>3. b + 1 - (i - n) = M + 1 - i
        BY <3>0
      <4> QED BY <4>1, <4>2, <4>3
    <3>2. q[i - n] = Item(t, j)[2]
      BY <1>7, <3>1 DEF Pending
    <3>3. Item(u, j)[2] = Item(t, j)[2]
      <4>1. CASE j \in 1 .. N - 1
        BY <1>3, <4>1
      <4>2. CASE j \notin 1 .. N - 1
        <5>1. j = N /\ s \notin Parts
          BY <1>1, <1>7, <4>2
        <5>2. n + 1 \in 1 .. k /\ k + N - (n + 1) = N /\ u[n + 1] = Exit(s)
          BY <1>3, <5>1
        <5>3. Item(u, k + N - (n + 1)) = u[n + 1]
          BY <1>3, <5>2
        <5>4. Item(u, N) = Exit(s)
          BY <5>2, <5>3
        <5> QED BY <1>3, <5>1, <5>4, ItemsApart
      <4> QED BY <4>1, <4>2
    <3> QED BY <2>2, <3>1, <3>2, <3>3
  <2> QED BY <2>1, <2>2
<1>10. Pending(u, a, M) = [i \in 1 .. n + (b - a) |-> Item(u, M + 1 - i)[2]]
  BY <1>8 DEF Pending
<1>11. Ahead(shape, q) = [i \in 1 .. n + (b - a) |-> IF i <= n THEN shape[i] ELSE q[i - n]]
  BY <1>8 DEF Ahead
<1>12. Pending(u, a, M) = Ahead(shape, q)
  BY <1>9, <1>10, <1>11
<1> QED BY <1>1, <1>2, <1>4, <1>6, <1>12

(* The calls before the entry of a rule, and the nodes below the top one, stay *)
(* as they are.                                                                *)
LEMMA BelowWhole ==
  ASSUME NEW t, NEW st, NEW m \in Nat, m = Len(st), NEW E, Whole(t, st, E), NEW s, NEW shape, NEW n, NEW k, NEW u,
         Spliced(t, s, shape, n, k, u), \A l \in 1 .. m : E[l] \in 1 .. Len(t) - 1,
         NEW l \in 1 .. m, l # m
  PROVE  /\ \A j \in E[l] + 1 .. E[l + 1] : Closes(Item(u, j)) => j = E[l + 1]
         /\ Form(st[l], Pending(u, E[l], E[l + 1]))
<1>1. PICK N \in Nat : N = Len(t)
  BY DEF Spliced
<1>2. \A j \in 1 .. N - 1 : Item(u, j) = Item(t, j)
  BY <1>1, Zenon DEF Spliced
<1>3. l + 1 \in 1 .. m
  OBVIOUS
<1>4. E[l] \in 1 .. N - 1 /\ E[l + 1] \in 1 .. N - 1
  BY <1>1, <1>3
<1>5. Until(t, E, m, l) = E[l + 1]
  BY UntilIs
<1>6. /\ \A j \in E[l] + 1 .. E[l + 1] : Closes(Item(t, j)) => l # m /\ j = E[l + 1]
      /\ Form(st[l], Pending(t, E[l], E[l + 1]))
  BY <1>5 DEF Whole
<1>7. \A j \in E[l] + 1 .. E[l + 1] : Item(u, j) = Item(t, j)
  BY <1>2, <1>4
<1>8. Pending(u, E[l], E[l + 1]) = Pending(t, E[l], E[l + 1])
  <2>1. E[l] \in Nat /\ E[l + 1] \in Nat
    BY <1>4
  <2>2. \A j \in E[l] + 1 .. E[l + 1] : Item(u, j)[2] = Item(t, j)[2]
    BY <1>7
  <2>3. PICK a \in Nat, b \in Nat : a = E[l] /\ b = E[l + 1]
    BY <2>1
  <2>4. \A j \in a + 1 .. b : Item(u, j)[2] = Item(t, j)[2]
    BY <2>2, <2>3
  <2>5. Pending(u, a, b) = Pending(t, a, b)
    BY <2>4, PendingSame
  <2> QED BY <2>3, <2>5
<1> QED BY <1>6, <1>7, <1>8

(* A rule that is not pushed is entered. *)
LEMMA EnterPartWhole ==
  ASSUME NEW S, NEW t \in Seq(S), t # <<>>, NEW st, Len(st) \in Nat, Nodes(st), NEW E, Whole(t, st, E),
         NEW s, t[1] = Enter(s), s \notin Pushed, NEW shape \in Shapes(s), NEW n, n = Len(shape), NEW k, NEW u,
         Spliced(t, s, shape, n, k, u), Len(st) > 0 => Fit(s, st[Len(st)].rule)
  PROVE  Whole(u, st, E)
<1>1. PICK m \in Nat : m = Len(st)
  OBVIOUS
<1>2. PICK N \in Nat : N = Len(t) /\ N > 0 /\ Item(t, N) = Enter(s)
  BY DEF Spliced
<1>3. PICK M \in Nat : M = Len(u) /\ N - 1 <= M /\ \A j \in 1 .. N - 1 : Item(u, j) = Item(t, j)
  <2>1. k \in Nat /\ Len(u) \in Nat /\ Len(u) = k + N - 1 /\ \A j \in 1 .. N - 1 : Item(u, j) = Item(t, j)
    BY <1>2, Zenon DEF Spliced
  <2>2. N - 1 <= Len(u)
    BY <2>1
  <2> QED BY <2>1, <2>2
<1>4. \A l \in 1 .. m : E[l] \in 1 .. N - 1
  <2>1. t[1] # Exit(s)
    BY ItemsApart
  <2>2. Height(t, st, s, m)
    BY <1>1, <2>1 DEF Height
  <2>3. \A l \in 1 .. m : E[l] \in 1 .. Len(t) - 1
    BY <2>2, FrontWhole
  <2> QED BY <1>2, <2>3
<1>5. /\ E \in [1 .. m -> Nat]
      /\ \A l \in 1 .. m : 0 < E[l] /\ Item(t, E[l]) = Exit(st[l].rule)
      /\ \A i, j \in 1 .. m : i < j => E[i] < E[j]
  BY <1>1 DEF Whole
<1>6. \A l \in 1 .. m : 0 < E[l] /\ E[l] <= M /\ Item(u, E[l]) = Exit(st[l].rule)
  <2> SUFFICES ASSUME NEW l \in 1 .. m PROVE E[l] <= M /\ Item(u, E[l]) = Exit(st[l].rule)
    BY <1>5
  <2>1. E[l] \in 1 .. N - 1
    BY <1>4
  <2>2. E[l] <= M
    BY <1>3, <2>1
  <2> QED BY <1>3, <1>5, <2>1, <2>2
<1>7. ASSUME NEW l \in 1 .. m, l # m
      PROVE  /\ \A j \in E[l] + 1 .. Until(u, E, m, l) : Closes(Item(u, j)) => l # m /\ j = E[l + 1]
             /\ Form(st[l], Pending(u, E[l], Until(u, E, m, l)))
  <2>1. Until(u, E, m, l) = E[l + 1]
    BY <1>7, UntilIs
  <2>2. /\ \A j \in E[l] + 1 .. E[l + 1] : Closes(Item(u, j)) => j = E[l + 1]
        /\ Form(st[l], Pending(u, E[l], E[l + 1]))
    BY <1>1, <1>2, <1>4, <1>7, BelowWhole
  <2> QED BY <1>7, <2>1, <2>2
<1>8. ASSUME m > 0
      PROVE  /\ \A j \in E[m] + 1 .. M : ~Closes(Item(u, j))
             /\ Form(st[m], Pending(u, E[m], M))
  <2>1. m \in 1 .. m /\ Until(t, E, m, m) = N
    BY <1>2, <1>8, UntilIs
  <2>2. PICK a \in Nat : a = E[m] /\ a < N /\ a > 0
    BY <1>2, <1>4, <2>1
  <2>3. /\ \A j \in a + 1 .. N : Closes(Item(t, j)) => m # m /\ j = E[m + 1]
        /\ Form(st[m], Pending(t, a, N))
    BY <1>1, <2>1, <2>2 DEF Whole
  <2>4. ASSUME NEW j \in a + 1 .. M, Closes(Item(u, j)) PROVE FALSE
    <3>1. CASE j <= N - 1
      <4>1. j \in 1 .. N - 1 /\ j \in a + 1 .. N
        BY <2>2, <3>1
      <4> QED BY <1>3, <2>3, <2>4, <4>1
    <3>2. CASE j > N - 1
      <4>1. j \in Len(t) .. Len(u)
        BY <1>2, <1>3, <3>2
      <4> QED BY <2>4, <4>1, EnteredCloses
    <3> QED BY <3>1, <3>2
  <2>5. PICK p : p = Pending(t, a, N)
    OBVIOUS
  <2>6. (\E T : p \in Seq(T)) /\ p # <<>> /\ p[1] = s
    <3>1. Fronting(Item(t, N)[2], Pending(t, a, N - 1), p)
      BY <2>2, <2>5, PendingIs
    <3> QED BY <1>2, <3>1, ItemsApart DEF Fronting
  <2>7. PICK T : p \in Seq(T)
    BY <2>6
  <2>8. Fit(s, st[m].rule) /\ st[m].rule \in Pushed
    BY <1>1, <1>8, <2>1 DEF Nodes, NodeLike
  <2>9. Form(st[m], Unfolded(s, shape, p))
    BY <2>3, <2>5, <2>6, <2>7, <2>8, FormUnfolds
  <2>10. Pending(u, a, Len(u)) = Unfolded(s, shape, Pending(t, a, Len(t)))
    BY <1>2, <2>2, MorePending
  <2> QED BY <1>2, <1>3, <2>2, <2>4, <2>5, <2>9, <2>10
<1>9. ASSUME NEW l \in 1 .. m
      PROVE  /\ \A j \in E[l] + 1 .. Until(u, E, m, l) : Closes(Item(u, j)) => l # m /\ j = E[l + 1]
             /\ Form(st[l], Pending(u, E[l], Until(u, E, m, l)))
  <2>1. CASE l # m
    BY <1>7, <2>1
  <2>2. CASE l = m
    <3>1. Until(u, E, m, m) = M /\ m > 0
      BY <1>3, <2>2, UntilIs
    <3> QED BY <1>8, <2>2, <3>1
  <2> QED BY <2>1, <2>2
<1> QED BY <1>1, <1>3, <1>5, <1>6, <1>9 DEF Whole

(* A node of its own is entered. *)
LEMMA EnterNodeWhole ==
  ASSUME NEW S, NEW t \in Seq(S), t # <<>>, NEW st, Len(st) \in Nat, Nodes(st), NEW E, Whole(t, st, E),
         NEW s, t[1] = Enter(s), s \in Pushed, NEW shape \in Shapes(s), (\E T : shape \in Seq(T)),
         NEW n, n = Len(shape), NEW k, NEW u, Spliced(t, s, shape, n, k, u),
         NEW v, Len(v) = Len(st) + 1, \A i \in 1 .. Len(st) : v[i] = st[i], v[Len(st) + 1] = Node(s)
  PROVE  \E F : Whole(u, v, F)
<1>1. PICK m \in Nat : m = Len(st)
  OBVIOUS
<1>2. PICK N \in Nat : N = Len(t) /\ N > 0 /\ Item(t, N) = Enter(s)
  BY DEF Spliced
<1>3. PICK M \in Nat : M = Len(u) /\ N <= M /\ \A j \in 1 .. N - 1 : Item(u, j) = Item(t, j)
  <2>1. Len(u) \in Nat /\ \A j \in 1 .. N - 1 : Item(u, j) = Item(t, j)
    BY <1>2, Zenon DEF Spliced
  <2>2. N <= Len(u)
    <3>1. 0 \in Nat /\ 0 < Len(t)
      BY <1>2
    <3>2. Len(t) <= Len(u)
      BY <3>1, EnterPending
    <3> QED BY <1>2, <3>2
  <2> QED BY <2>1, <2>2
<1>4. \A l \in 1 .. m : E[l] \in 1 .. N - 1
  <2>1. t[1] # Exit(s)
    BY ItemsApart
  <2>2. Height(t, st, s, m)
    BY <1>1, <2>1 DEF Height
  <2>3. \A l \in 1 .. m : E[l] \in 1 .. Len(t) - 1
    BY <2>2, FrontWhole
  <2> QED BY <1>2, <2>3
<1>5. /\ E \in [1 .. m -> Nat]
      /\ \A l \in 1 .. m : 0 < E[l] /\ Item(t, E[l]) = Exit(st[l].rule)
      /\ \A i, j \in 1 .. m : i < j => E[i] < E[j]
  BY <1>1 DEF Whole
<1>6. PICK F : F = [l \in 1 .. m + 1 |-> IF l = m + 1 THEN N ELSE E[l]]
  OBVIOUS
<1>7. F \in [1 .. m + 1 -> Nat] /\ F[m + 1] = N /\ \A l \in 1 .. m : F[l] = E[l] /\ F[l] \in 1 .. N - 1
  <2>1. \A l \in 1 .. m + 1 : l = m + 1 \/ l \in 1 .. m
    OBVIOUS
  <2>2. \A l \in 1 .. m : l # m + 1 /\ l \in 1 .. m + 1
    OBVIOUS
  <2>3. m + 1 \in 1 .. m + 1
    OBVIOUS
  <2> QED BY <1>4, <1>5, <1>6, <2>1, <2>2, <2>3
<1>8. Item(u, N) = Exit(s)
  <2>1. 0 \in Nat /\ 0 < Len(t)
    BY <1>2
  <2> QED BY <1>2, <2>1, EnterPending
<1>9. ASSUME NEW l \in 1 .. m + 1
      PROVE  0 < F[l] /\ F[l] <= M /\ Item(u, F[l]) = Exit(v[l].rule)
  <2>1. CASE l = m + 1
    <3>1. v[l].rule = s
      <4>1. v[l] = Node(s)
        BY <1>1, <2>1
      <4>2. Node(s).rule = s
        BY DEF Node
      <4> QED BY <4>1, <4>2
    <3> QED BY <1>2, <1>3, <1>7, <1>8, <2>1, <3>1
  <2>2. CASE l \in 1 .. m
    <3>1. F[l] = E[l] /\ F[l] \in 1 .. N - 1 /\ v[l] = st[l]
      BY <1>1, <1>7, <2>2
    <3>2. Item(u, F[l]) = Exit(v[l].rule)
      BY <1>3, <1>5, <2>2, <3>1
    <3> QED BY <1>3, <3>1, <3>2
  <2> QED BY <2>1, <2>2
<1>10. ASSUME NEW i \in 1 .. m + 1, NEW j \in 1 .. m + 1, i < j
       PROVE  F[i] < F[j]
  <2>1. i \in 1 .. m
    BY <1>10
  <2>2. CASE j = m + 1
    BY <1>7, <2>1, <2>2
  <2>3. CASE j \in 1 .. m
    BY <1>5, <1>7, <1>10, <2>1, <2>3
  <2> QED BY <2>2, <2>3
<1>11. ASSUME NEW l \in 1 .. m, l # m
       PROVE  /\ \A j \in F[l] + 1 .. F[l + 1] : Closes(Item(u, j)) => j = F[l + 1]
              /\ Form(v[l], Pending(u, F[l], F[l + 1]))
  <2>1. l + 1 \in 1 .. m
    BY <1>11
  <2>2. F[l] = E[l] /\ F[l + 1] = E[l + 1] /\ v[l] = st[l]
    BY <1>1, <1>7, <2>1
  <2>3. /\ \A j \in E[l] + 1 .. E[l + 1] : Closes(Item(u, j)) => j = E[l + 1]
        /\ Form(st[l], Pending(u, E[l], E[l + 1]))
    BY <1>1, <1>2, <1>4, <1>11, BelowWhole
  <2> QED BY <2>2, <2>3
<1>12. ASSUME m > 0
       PROVE  /\ \A j \in F[m] + 1 .. N : Closes(Item(u, j)) => j = N
              /\ Form(v[m], Pending(u, F[m], N))
  <2>1. m \in 1 .. m /\ Until(t, E, m, m) = N
    BY <1>2, <1>12, UntilIs
  <2>2. PICK a \in Nat : a = E[m] /\ a < N /\ a > 0 /\ F[m] = a
    BY <1>2, <1>4, <1>7, <2>1
  <2>3. /\ \A j \in a + 1 .. N : Closes(Item(t, j)) => m # m /\ j = E[m + 1]
        /\ Form(st[m], Pending(t, a, N))
    BY <1>1, <2>1, <2>2 DEF Whole
  <2>4. ASSUME NEW j \in a + 1 .. N, Closes(Item(u, j)), j # N PROVE FALSE
    <3>1. j \in 1 .. N - 1
      BY <2>2, <2>4
    <3> QED BY <1>3, <2>3, <2>4, <3>1
  <2>5. Pending(u, a, N) = Pending(t, a, N)
    BY <1>2, <2>2, EnterPending
  <2>6. v[m] = st[m]
    BY <1>1, <2>1
  <2> QED BY <2>2, <2>3, <2>4, <2>5, <2>6
<1>13. /\ \A j \in N + 1 .. M : ~Closes(Item(u, j))
       /\ Form(v[m + 1], Pending(u, N, M))
  <2>1. ASSUME NEW j \in N + 1 .. M, Closes(Item(u, j)) PROVE FALSE
    <3>1. j \in Len(t) .. Len(u) /\ j # Len(t)
      BY <1>2, <1>3
    <3> QED BY <2>1, <3>1, EnteredCloses
  <2>2. Pending(u, Len(t), Len(u)) = shape
    BY NewPending
  <2>3. Form(Node(s), shape)
    BY FormBegins
  <2>4. Pending(u, N, M) = shape
    BY <1>2, <1>3, <2>2
  <2>5. v[m + 1] = Node(s)
    BY <1>1
  <2> QED BY <2>1, <2>3, <2>4, <2>5
<1>14. ASSUME NEW l \in 1 .. m + 1
       PROVE  /\ \A j \in F[l] + 1 .. Until(u, F, m + 1, l) : Closes(Item(u, j)) => l # m + 1 /\ j = F[l + 1]
              /\ Form(v[l], Pending(u, F[l], Until(u, F, m + 1, l)))
  <2>1. CASE l = m + 1
    <3>1. Until(u, F, m + 1, l) = M /\ F[l] = N
      BY <1>3, <1>7, <2>1, UntilIs
    <3> QED BY <1>13, <2>1, <3>1
  <2>2. CASE l \in 1 .. m
    <3>1. Until(u, F, m + 1, l) = F[l + 1] /\ l # m + 1
      BY <2>2, UntilIs
    <3>2. CASE l # m
      BY <1>11, <2>2, <3>1, <3>2
    <3>3. CASE l = m
      <4>1. m > 0 /\ F[l + 1] = N
        BY <1>7, <2>2, <3>3
      <4> QED BY <1>12, <3>1, <3>3, <4>1
    <3> QED BY <3>2, <3>3
  <2> QED BY <2>1, <2>2
<1>15. Len(v) = m + 1
  BY <1>1
<1> QED BY <1>3, <1>7, <1>9, <1>10, <1>14, <1>15 DEF Whole

-----------------------------------------------------------------------------
(* Every step of the listener, for the forms of the nodes *)

LEMMA ErrorWhole == \A e : AddError(e) /\ e # "none" => WholeInv'
BY DEF AddError, WholeInv

(* A rule is left, and the node on top of the stack has no more of it to come. *)
LEMMA LeftWhole ==
  ASSUME ListenerInv, WholeInv, todo # <<>>, NEW s, Head(todo) = Exit(s), Goes, syntaxError' = syntaxError,
         NEW v, v = stack', NEW h \in Nat, h = IF s \in Pushed THEN Len(stack) - 1 ELSE Len(stack), Len(v) = h,
         \A i \in 1 .. h : i # h => v[i] = stack[i],
         h > 0 => v[h].rule = stack[h].rule /\ Loses(stack[h], s, v[h])
  PROVE  WholeInv'
<1>1. parseErrors = "none" /\ todo[1] = Exit(s) /\ Len(stack) \in Nat /\ Nodes(stack)
  BY WalkFacts
<1>2. todo' = Tail(todo) /\ parseErrors' = parseErrors
  BY DEF Goes
<1>3. PICK S : todo \in Seq(S)
  BY DEF ListenerInv
<1>4. SUFFICES ASSUME ~syntaxError PROVE \E F : Whole(todo', stack', F)
  BY DEF WholeInv
<1>5. PICK E : Whole(todo, stack, E)
  BY <1>1, <1>4 DEF WholeInv
<1>6. PICK t : t = todo
  OBVIOUS
<1>7. PICK st : st = stack
  OBVIOUS
<1>8. /\ t \in Seq(S) /\ t # <<>> /\ t[1] = Exit(s) /\ Len(st) \in Nat /\ Nodes(st) /\ Whole(t, st, E)
      /\ h = IF s \in Pushed THEN Len(st) - 1 ELSE Len(st)
      /\ \A i \in 1 .. h : i # h => v[i] = st[i]
      /\ h > 0 => v[h].rule = st[h].rule /\ Loses(st[h], s, v[h])
  BY <1>1, <1>3, <1>5, <1>6, <1>7
<1> HIDE <1>6, <1>7
<1>9. \E F : Whole(Tail(t), v, F)
  BY <1>8, LeaveWhole
<1> QED BY <1>2, <1>6, <1>9

LEMMA TakesLoses ==
  ASSUME NEW n, NodeLike(n), NEW s, CanAccept(n, s)
  PROVE  Loses(n, s, With(n, s))
<1> SUFFICES ASSUME NEW p, p # <<>>, p[1] = s, Form(n, p) PROVE Form(With(n, s), Tail(p))
  BY DEF Loses
<1>1. Takes(n, s, p)
  BY DEF Takes, CanAccept
<1> QED BY <1>1, FormTakes

(* A stack cut at a node that is replaced *)
Swapped(v, st, m, nd) == Len(v) = m /\ v[m] = nd /\ \A i \in 1 .. m - 1 : v[i] = st[i]

LEMMA NodesSwapped ==
  \A st, m, nd, v :
    /\ Nodes(st) /\ Len(st) \in Nat /\ m \in 1 .. Len(st)
    /\ NodeLike(nd) /\ nd.rule = st[m].rule /\ InPlace(v, st, m, nd)
    => Swapped(v, st, m, nd)
BY NodesReplaced DEF Swapped

(* A child is handed to the node that accepts it. *)
LEMMA TakenWhole ==
  ASSUME ListenerInv, WholeInv, todo # <<>>, NEW s, Head(todo) = Exit(s), Goes, syntaxError' = syntaxError,
         NEW m \in 1 .. Len(stack), m = IF s \in Pushed THEN Len(stack) - 1 ELSE Len(stack),
         CanAccept(stack[m], s), stack' = Append(SubSeq(stack, 1, m - 1), With(stack[m], s))
  PROVE  WholeInv'
<1>1. Len(stack) \in Nat /\ Nodes(stack)
  BY WalkFacts
<1>2. PICK v : v = stack'
  OBVIOUS
<1>3. PICK nd : nd = With(stack[m], s)
  OBVIOUS
<1>4. NodeLike(stack[m])
  BY <1>1 DEF Nodes
<1>5. NodeLike(nd) /\ nd.rule = stack[m].rule
  BY <1>3, <1>4, WithKeeps
<1>6. InPlace(v, stack, m, nd)
  BY <1>2, <1>3 DEF InPlace
<1>7. Len(v) = m /\ v[m] = nd /\ \A i \in 1 .. m - 1 : v[i] = stack[i]
  <2>1. PICK st : st = stack
    OBVIOUS
  <2>2. Len(st) \in Nat /\ Nodes(st) /\ m \in 1 .. Len(st) /\ InPlace(v, st, m, nd) /\ nd.rule = st[m].rule
    BY <1>1, <1>5, <1>6, <2>1
  <2>3. Len(v) = m /\ v[m] = nd /\ \A i \in 1 .. m - 1 : v[i] = st[i]
    <3>1. Swapped(v, st, m, nd)
      BY <1>5, <2>2, NodesSwapped
    <3> QED BY <3>1 DEF Swapped
  <2> QED BY <2>1, <2>3
<1>8. \A i \in 1 .. m : i # m => v[i] = stack[i]
  BY <1>7
<1>9. Loses(stack[m], s, v[m])
  BY <1>3, <1>4, <1>7, TakesLoses
<1>10. PICK h \in Nat : h = m
  BY <1>1
<1>11. h = IF s \in Pushed THEN Len(stack) - 1 ELSE Len(stack)
  BY <1>10
<1>12. Len(v) = h /\ \A i \in 1 .. h : i # h => v[i] = stack[i]
  BY <1>7, <1>8, <1>10
<1>13. h > 0 => v[h].rule = stack[h].rule /\ Loses(stack[h], s, v[h])
  BY <1>5, <1>7, <1>9, <1>10
<1> QED BY <1>2, <1>11, <1>12, <1>13, LeftWhole

(* A leaf is handed to the node on top of the stack. *)
LEMMA LeafWhole ==
  ASSUME ListenerInv, WholeInv, todo # <<>>, NEW s, Head(todo) = Exit(s), s \notin Pushed, Goes,
         syntaxError' = syntaxError, Len(stack) > 0, CanAccept(Top, s), stack' = Append(Below, With(Top, s))
  PROVE  WholeInv'
<1>1. Len(stack) \in Nat
  BY WalkFacts
<1>2. PICK m \in 1 .. Len(stack) : m = Len(stack)
  BY <1>1
<1>3. m = IF s \in Pushed THEN Len(stack) - 1 ELSE Len(stack)
  BY <1>2
<1>4. stack' = Append(SubSeq(stack, 1, m - 1), With(stack[m], s)) /\ CanAccept(stack[m], s)
  BY <1>2 DEF Below, Top
<1> QED BY <1>3, <1>4, TakenWhole

(* What the rule on top of the stack is told of its header *)
Heard(s, e, f) ==
  /\ e.rule = "ruleEntity" /\ f.rule = "ruleEntity" /\ f.has = e.has
  /\ (e.name # "" => f.name # "") /\ (s = "ruleName" => f.name # "")

LEMMA HeardWhole ==
  ASSUME ListenerInv, WholeInv, todo # <<>>, NEW s \in HeaderRules \cup {"stringLiteral", "integer"},
         Head(todo) = Exit(s), Goes, syntaxError' = syntaxError,
         Len(stack) = 1, NEW v, v = stack', Len(v) = 1, Heard(s, stack[1], v[1])
  PROVE  WholeInv'
<1>1. s \notin Pushed
  BY AcceptedChildren DEF HeaderRules
<1>2. Loses(stack[1], s, v[1])
  <2>1. PICK e : e = stack[1]
    OBVIOUS
  <2>2. PICK f : f = v[1]
    OBVIOUS
  <2>3. Heard(s, e, f)
    BY <2>1, <2>2
  <2>4. ASSUME NEW p, p # <<>>, p[1] = s, Form(e, p)
        PROVE  Form(f, Tail(p))
    BY <2>3, <2>4, FormReads DEF Heard
  <2>5. Loses(e, s, f)
    BY <2>4 DEF Loses
  <2> QED BY <2>1, <2>2, <2>5
<1>3. PICK h \in Nat : h = 1
  OBVIOUS
<1>4. h = IF s \in Pushed THEN Len(stack) - 1 ELSE Len(stack)
  BY <1>1, <1>3
<1>5. Len(v) = h /\ (\A i \in 1 .. h : i # h => v[i] = stack[i])
  BY <1>3
<1>6. v[h].rule = stack[h].rule /\ Loses(stack[h], s, v[h])
  BY <1>2, <1>3 DEF Heard
<1> QED BY <1>4, <1>5, <1>6, LeftWhole

LEMMA ExitNodeWhole == ListenerInv /\ WholeInv /\ ExitNode => WholeInv'
<1> SUFFICES ASSUME ListenerInv, WholeInv, ExitNode PROVE WholeInv'
  OBVIOUS
<1>1. PICK s \in Handed : todo # <<>> /\ Head(todo) = Exit(s)
  BY DEF ExitNode, At
<1>2. Head(todo)[2] = s
  BY <1>1, ItemsApart
<1>3. s \in Pushed /\ s \notin DOMAIN Home
  BY AcceptedChildren DEF Handed, Home
<1>4. /\ Len(stack) > 1 /\ Top.rule = s /\ Len(stack) \in Nat
      /\ CanAccept(stack[Len(stack) - 1], s)
  BY <1>1, <1>3, Accepted, WalkFacts
<1>5. syntaxError' = syntaxError
  BY DEF ExitNode
<1>6. \/ AddError("set twice")
      \/ Goes /\ stack' = Append(SubSeq(stack, 1, Len(stack) - 2), With(stack[Len(stack) - 1], s))
  BY <1>2, <1>4 DEF ExitNode
<1>7. CASE AddError("set twice")
  BY <1>7, ErrorWhole
<1>8. CASE Goes /\ stack' = Append(SubSeq(stack, 1, Len(stack) - 2), With(stack[Len(stack) - 1], s))
  <2>1. PICK m \in 1 .. Len(stack) : m = Len(stack) - 1
    BY <1>4
  <2>2. m = IF s \in Pushed THEN Len(stack) - 1 ELSE Len(stack)
    BY <1>3, <2>1
  <2>3. stack' = Append(SubSeq(stack, 1, m - 1), With(stack[m], s)) /\ CanAccept(stack[m], s)
    <3>1. Len(stack) - 2 = m - 1
      BY <1>4, <2>1
    <3> QED BY <1>4, <1>8, <2>1, <3>1
  <2> QED BY <1>1, <1>5, <1>8, <2>2, <2>3, TakenWhole
<1> QED BY <1>6, <1>7, <1>8

LEMMA ExitLeafWhole == ListenerInv /\ WholeInv /\ ExitLeaf => WholeInv'
<1> SUFFICES ASSUME ListenerInv, WholeInv, ExitLeaf PROVE WholeInv'
  OBVIOUS
<1>1. PICK s \in AtConstants \cup CutLeaves : todo # <<>> /\ Head(todo) = Exit(s)
  BY DEF ExitLeaf, At
<1>2. Head(todo)[2] = s
  BY <1>1, ItemsApart
<1>3. s \notin Pushed /\ s \notin DOMAIN Home /\ s \notin {"stringLiteral", "integer"}
  BY AcceptedChildren DEF AtConstants, CutLeaves, Home
<1>4. CanAccept(Top, s) /\ Len(stack) > 0
  BY <1>1, <1>3, Accepted
<1>5. \/ AddError("set twice")
      \/ Goes /\ stack' = Append(Below, With(Top, s)) /\ syntaxError' = syntaxError
      \/ syntaxError' = TRUE
  BY <1>2, <1>4 DEF ExitLeaf
<1>6. CASE AddError("set twice")
  BY <1>6, ErrorWhole
<1>7. CASE Goes /\ stack' = Append(Below, With(Top, s)) /\ syntaxError' = syntaxError
  BY <1>1, <1>3, <1>4, <1>7, LeafWhole
<1>8. CASE syntaxError' = TRUE
  BY <1>8 DEF WholeInv
<1> QED BY <1>5, <1>6, <1>7, <1>8

LEMMA ExitBooleanOrRealWhole == ListenerInv /\ WholeInv /\ ExitBooleanOrReal => WholeInv'
<1> SUFFICES ASSUME ListenerInv, WholeInv, ExitBooleanOrReal PROVE WholeInv'
  OBVIOUS
<1>1. PICK s \in {"booleanLiteral", "realLiteral"} : todo # <<>> /\ Head(todo) = Exit(s)
  BY DEF ExitBooleanOrReal, At
<1>2. s \notin Pushed /\ s \notin DOMAIN Home /\ s \notin {"stringLiteral", "integer"}
  BY AcceptedChildren DEF Home
<1>3. Len(stack) > 0 /\ CanAccept(Top, s) /\ Nodes(stack) /\ Len(stack) \in Nat
  BY <1>1, <1>2, Accepted, WalkFacts
<1>4. Top.rule = "constant"
  <2>1. Len(stack) \in 1 .. Len(stack)
    BY <1>3
  <2>2. Top.rule \in Pushed
    BY <1>3, <2>1 DEF Nodes, NodeLike, Top
  <2>3. \A r \in Pushed : s \in DOMAIN Accepts[r] => r = "constant"
    BY AcceptedChildren
  <2> QED BY <1>3, <2>2, <2>3 DEF CanAccept
<1>5. syntaxError' = syntaxError
  BY DEF ExitBooleanOrReal
<1>6. \/ AddError("number")
      \/ Goes /\ stack' = Append(Below, With(Top, "booleanLiteral"))
  BY <1>4 DEF ExitBooleanOrReal
<1>7. CASE AddError("number")
  BY <1>7, ErrorWhole
<1>8. CASE Goes /\ stack' = Append(Below, With(Top, "booleanLiteral"))
  <2>1. With(Top, s) = With(Top, "booleanLiteral")
    BY <1>4, SameField
  <2>2. stack' = Append(Below, With(Top, s))
    BY <1>8, <2>1
  <2> QED BY <1>1, <1>2, <1>3, <1>5, <1>8, <2>2, LeafWhole
<1> QED BY <1>6, <1>7, <1>8

LEMMA ExitSilentWhole == ListenerInv /\ WholeInv /\ ExitSilent => WholeInv'
<1> SUFFICES ASSUME ListenerInv, WholeInv, ExitSilent PROVE WholeInv'
  OBVIOUS
<1>1. PICK s \in {"primary", "rangeOperator"} : todo # <<>> /\ Head(todo) = Exit(s)
  BY DEF ExitSilent, At
<1>2. s \notin Pushed /\ s \in DOMAIN Home
  BY AcceptedChildren DEF Home
<1>3. Goes /\ stack' = stack /\ syntaxError' = syntaxError
  BY DEF ExitSilent
<1>4. Len(stack) \in Nat /\ Nodes(stack) /\ todo[1] = Exit(s)
  BY <1>1, WalkFacts
<1>5. PICK L : Fit(s, Owner(stack, L[2])) /\ L[2] = Len(stack)
  BY <1>1, <1>2, <1>4, FrontOfWalk
<1>6. PICK h \in Nat : h = Len(stack)
  BY <1>4
<1>7. ASSUME h > 0 PROVE Loses(stack[h], s, stack[h])
  <2>1. stack[h].rule = Home[s] /\ stack[h].rule \in Pushed
    <3>1. h \in 1 .. Len(stack)
      BY <1>6, <1>7
    <3>2. Owner(stack, L[2]) = stack[h].rule
      BY <1>5, <1>6, <1>7 DEF Owner
    <3> QED BY <1>2, <1>4, <1>5, <3>1, <3>2 DEF Fit, Nodes, NodeLike
  <2>2. s = "rangeOperator" /\ stack[h].rule = "forRangeStmt"
    BY <1>1, <2>1, AcceptedChildren DEF Home
  <2> QED BY <2>2, FormSkips DEF Loses
<1>8. PICK v : v = stack'
  OBVIOUS
<1>9. v = stack
  BY <1>3, <1>8
<1>10. h = IF s \in Pushed THEN Len(stack) - 1 ELSE Len(stack)
  BY <1>2, <1>6
<1>11. Len(v) = h /\ (\A i \in 1 .. h : i # h => v[i] = stack[i])
  BY <1>6, <1>9
<1>12. h > 0 => v[h].rule = stack[h].rule /\ Loses(stack[h], s, v[h])
  BY <1>7, <1>9
<1> QED BY <1>1, <1>3, <1>8, <1>10, <1>11, <1>12, LeftWhole

LEMMA ExitStringLiteralWhole == ListenerInv /\ WholeInv /\ ExitStringLiteral => WholeInv'
<1> SUFFICES ASSUME ListenerInv, WholeInv, ExitStringLiteral PROVE WholeInv'
  OBVIOUS
<1>1. PICK s : s = "stringLiteral"
  OBVIOUS
<1>2. todo # <<>> /\ Head(todo) = Exit(s)
  BY <1>1 DEF ExitStringLiteral, At
<1>3. s \in {"stringLiteral", "integer"} /\ s \notin Pushed
  BY <1>1, AcceptedChildren
<1>4. /\ Len(stack) > 0 /\ Top.rule \in {"ruleEntity", "constant", "mapVar"}
      /\ Top.rule # "ruleEntity" => CanAccept(Top, s)
  BY <1>2, <1>3, LiteralTops
<1>5. syntaxError' = syntaxError
  BY DEF ExitStringLiteral
<1>6. PICK t \in Texts :
        \/ Top.rule = "ruleEntity" /\ Goes /\ stack' = Append(Below, EntityString(Top, t))
        \/ AddError("set twice")
        \/ AddError("null key")
        \/ Top.rule # "ruleEntity" /\ Goes /\ stack' = Append(Below, With(Top, s))
  <2>1. PICK t \in Texts :
          \/ Top.rule = "ruleEntity" /\ Goes /\ stack' = Append(Below, EntityString(Top, t))
          \/ AddError("set twice")
          \/ AddError("null key")
          \/ (Top.rule = "constant" \/ Top.rule = "mapVar") /\ Goes /\ stack' = Append(Below, With(Top, s))
          \/ Top.rule \notin {"ruleEntity", "mapVar", "constant"}
    BY <1>1 DEF ExitStringLiteral
  <2> QED BY <1>4, <2>1
<1>7. CASE Top.rule = "ruleEntity" /\ Goes /\ stack' = Append(Below, EntityString(Top, t))
  <2>1. Len(stack) = 1 /\ Top = stack[1] /\ stack[1].rule = "ruleEntity" /\ NodeLike(stack[1]) /\ Nodes(stack)
    BY <1>2, <1>3, <1>7, RuleOnTop, WalkFacts
  <2>2. PICK nd : nd = EntityString(stack[1], t)
    OBVIOUS
  <2>3. NodeLike(nd) /\ Heard(s, stack[1], nd)
    <3>1. PICK e : e = stack[1]
      OBVIOUS
    <3>2. NodeLike(e) /\ e.rule = "ruleEntity"
      BY <2>1, <3>1
    <3>3. nd = IF e.name = "" THEN [e EXCEPT !.name = t] ELSE [e EXCEPT !.desc = t]
      BY <2>2, <3>1 DEF EntityString
    <3> HIDE <3>1
    <3>4. NodeLike(nd) /\ nd.rule = "ruleEntity" /\ nd.has = e.has /\ (e.name # "" => nd.name = e.name)
      <4>1. CASE e.name = ""
        <5>1. nd = [e EXCEPT !.name = t]
          BY <3>3, <4>1
        <5> QED BY <3>2, <4>1, <5>1 DEF NodeLike
      <4>2. CASE e.name # ""
        <5>1. nd = [e EXCEPT !.desc = t]
          BY <3>3, <4>2
        <5> QED BY <3>2, <5>1 DEF NodeLike
      <4> QED BY <4>1, <4>2
    <3> QED BY <1>1, <3>1, <3>2, <3>4 DEF Heard
  <2>4. PICK v : v = stack'
    OBVIOUS
  <2>5. InPlace(v, stack, 1, nd)
    BY <1>7, <2>1, <2>2, <2>4 DEF InPlace, Below
  <2>6. Len(v) = 1 /\ v[1] = nd
    <3>1. NodeLike(nd) /\ nd.rule = "ruleEntity"
      BY <2>3 DEF Heard
    <3> QED BY <2>1, <2>5, <3>1, RuleReplaced
  <2>7. Heard(s, stack[1], v[1])
    BY <2>3, <2>6
  <2> QED BY <1>2, <1>3, <1>5, <1>7, <2>1, <2>4, <2>6, <2>7, HeardWhole
<1>8. CASE AddError("set twice") \/ AddError("null key")
  BY <1>8, ErrorWhole
<1>9. CASE Top.rule # "ruleEntity" /\ Goes /\ stack' = Append(Below, With(Top, s))
  BY <1>2, <1>3, <1>4, <1>5, <1>9, LeafWhole
<1> QED BY <1>6, <1>7, <1>8, <1>9

LEMMA ExitIntegerWhole == ListenerInv /\ WholeInv /\ ExitInteger => WholeInv'
<1> SUFFICES ASSUME ListenerInv, WholeInv, ExitInteger PROVE WholeInv'
  OBVIOUS
<1>1. PICK s : s = "integer"
  OBVIOUS
<1>2. todo # <<>> /\ Head(todo) = Exit(s)
  BY <1>1 DEF ExitInteger, At
<1>3. s \in {"stringLiteral", "integer"} /\ s \notin Pushed
  BY <1>1, AcceptedChildren
<1>4. Len(stack) > 0 /\ (Top.rule # "ruleEntity" => CanAccept(Top, s))
  BY <1>2, <1>3, LiteralTops
<1>5. syntaxError' = syntaxError
  BY DEF ExitInteger
<1>6. \/ AddError("number")
      \/ Top.rule = "ruleEntity" /\ Goes /\ \E i \in Saliences : stack' = Append(Below, [Top EXCEPT !.sal = i])
      \/ Top.rule # "ruleEntity" /\ Goes /\ stack' = Append(Below, With(Top, s))
  BY <1>1, <1>4 DEF ExitInteger
<1>7. CASE AddError("number")
  BY <1>7, ErrorWhole
<1>8. CASE Top.rule = "ruleEntity" /\ Goes /\ \E i \in Saliences : stack' = Append(Below, [Top EXCEPT !.sal = i])
  <2>1. Len(stack) = 1 /\ Top = stack[1] /\ stack[1].rule = "ruleEntity" /\ NodeLike(stack[1]) /\ Nodes(stack)
    BY <1>2, <1>3, <1>8, RuleOnTop, WalkFacts
  <2>2. PICK i \in Saliences : stack' = Append(Below, [stack[1] EXCEPT !.sal = i])
    BY <1>8, <2>1
  <2>3. PICK nd : nd = [stack[1] EXCEPT !.sal = i]
    OBVIOUS
  <2>4. NodeLike(nd) /\ Heard(s, stack[1], nd)
    <3>1. NodeLike(nd) /\ nd.rule = "ruleEntity" /\ nd.has = stack[1].has /\ nd.name = stack[1].name
      BY <2>1, <2>3 DEF NodeLike
    <3> QED BY <1>1, <2>1, <3>1 DEF Heard
  <2>5. PICK v : v = stack'
    OBVIOUS
  <2>6. InPlace(v, stack, 1, nd)
    BY <2>1, <2>2, <2>3, <2>5 DEF InPlace, Below
  <2>7. Len(v) = 1 /\ v[1] = nd
    <3>1. NodeLike(nd) /\ nd.rule = "ruleEntity"
      BY <2>4 DEF Heard
    <3> QED BY <2>1, <2>6, <3>1, RuleReplaced
  <2>8. Heard(s, stack[1], v[1])
    BY <2>4, <2>7
  <2> QED BY <1>2, <1>3, <1>5, <1>8, <2>1, <2>5, <2>7, <2>8, HeardWhole
<1>9. CASE Top.rule # "ruleEntity" /\ Goes /\ stack' = Append(Below, With(Top, s))
  BY <1>2, <1>3, <1>4, <1>5, <1>9, LeafWhole
<1> QED BY <1>6, <1>7, <1>8, <1>9

LEMMA ExitRuleNameWhole == ListenerInv /\ WholeInv /\ ExitRuleName => WholeInv'
<1> SUFFICES ASSUME ListenerInv, WholeInv, ExitRuleName PROVE WholeInv'
  OBVIOUS
<1>1. PICK s : s = "ruleName"
  OBVIOUS
<1>2. todo # <<>> /\ Head(todo) = Exit(s)
  BY <1>1 DEF ExitRuleName, At
<1>3. s \in HeaderRules /\ s \notin Pushed
  BY <1>1, AcceptedChildren DEF HeaderRules
<1>4. Len(stack) = 1 /\ Top = stack[1] /\ stack[1].rule = "ruleEntity" /\ NodeLike(stack[1]) /\ Nodes(stack)
  BY <1>2, <1>3, RuleOnTop, WalkFacts
<1>5. syntaxError' = syntaxError
  BY DEF ExitRuleName
<1>6. \/ AddError("rule name")
      \/ token # "" /\ Goes /\ stack' = Append(Below, [stack[1] EXCEPT !.name = token])
  BY <1>4 DEF ExitRuleName
<1>7. CASE AddError("rule name")
  BY <1>7, ErrorWhole
<1>8. CASE token # "" /\ Goes /\ stack' = Append(Below, [stack[1] EXCEPT !.name = token])
  <2>1. PICK nd : nd = [stack[1] EXCEPT !.name = token]
    OBVIOUS
  <2>2. NodeLike(nd) /\ nd.rule = "ruleEntity" /\ nd.name = token /\ nd.has = stack[1].has
    BY <1>4, <2>1 DEF NodeLike
  <2>3. PICK v : v = stack'
    OBVIOUS
  <2>4. InPlace(v, stack, 1, nd)
    BY <1>4, <1>8, <2>1, <2>3 DEF InPlace, Below
  <2>5. Len(v) = 1 /\ v[1] = nd
    BY <1>4, <2>2, <2>4, RuleReplaced
  <2>6. Heard(s, stack[1], v[1])
    BY <1>4, <1>8, <2>2, <2>5 DEF Heard
  <2> QED BY <1>2, <1>3, <1>4, <1>5, <1>8, <2>3, <2>5, <2>6, HeardWhole
<1> QED BY <1>6, <1>7, <1>8

LEMMA ExitRuleDescriptionWhole == ListenerInv /\ WholeInv /\ ExitRuleDescription => WholeInv'
<1> SUFFICES ASSUME ListenerInv, WholeInv, ExitRuleDescription PROVE WholeInv'
  OBVIOUS
<1>1. PICK s : s = "ruleDescription"
  OBVIOUS
<1>2. todo # <<>> /\ Head(todo) = Exit(s)
  BY <1>1 DEF ExitRuleDescription, At
<1>3. s \in HeaderRules /\ s \notin Pushed
  BY <1>1, AcceptedChildren DEF HeaderRules
<1>4. Len(stack) = 1 /\ Top = stack[1] /\ stack[1].rule = "ruleEntity" /\ NodeLike(stack[1]) /\ Nodes(stack)
  BY <1>2, <1>3, RuleOnTop, WalkFacts
<1>5. syntaxError' = syntaxError
  BY DEF ExitRuleDescription
<1>6. Goes /\ stack' = Append(Below, [stack[1] EXCEPT !.desc = token])
  BY <1>4 DEF ExitRuleDescription
<1>7. PICK nd : nd = [stack[1] EXCEPT !.desc = token]
  OBVIOUS
<1>8. NodeLike(nd) /\ nd.rule = "ruleEntity" /\ nd.name = stack[1].name /\ nd.has = stack[1].has
  BY <1>4, <1>7 DEF NodeLike
<1>9. PICK v : v = stack'
  OBVIOUS
<1>10. InPlace(v, stack, 1, nd)
  BY <1>4, <1>6, <1>7, <1>9 DEF InPlace, Below
<1>11. Len(v) = 1 /\ v[1] = nd
  BY <1>4, <1>8, <1>10, RuleReplaced
<1>12. Heard(s, stack[1], v[1])
  BY <1>1, <1>4, <1>8, <1>11 DEF Heard
<1> QED BY <1>2, <1>3, <1>4, <1>5, <1>6, <1>9, <1>11, <1>12, HeardWhole

LEMMA ExitSalienceWhole == ListenerInv /\ WholeInv /\ ExitSalience => WholeInv'
<1> SUFFICES ASSUME ListenerInv, WholeInv, ExitSalience PROVE WholeInv'
  OBVIOUS
<1>1. PICK s : s = "salience"
  OBVIOUS
<1>2. todo # <<>> /\ Head(todo) = Exit(s)
  BY <1>1 DEF ExitSalience, At
<1>3. s \in HeaderRules /\ s \notin Pushed
  BY <1>1, AcceptedChildren DEF HeaderRules
<1>4. Len(stack) = 1 /\ stack[1].rule = "ruleEntity"
  BY <1>2, <1>3, RuleOnTop
<1>5. stack' = stack /\ syntaxError' = syntaxError
  BY DEF ExitSalience
<1>6. AddError("salience") \/ Goes
  BY DEF ExitSalience
<1>7. CASE AddError("salience")
  BY <1>7, ErrorWhole
<1>8. CASE Goes
  <2>1. PICK v : v = stack'
    OBVIOUS
  <2>2. v = stack
    BY <1>5, <2>1
  <2>3. Len(v) = 1 /\ Heard(s, stack[1], v[1])
    BY <1>1, <1>4, <2>2 DEF Heard
  <2> QED BY <1>2, <1>3, <1>4, <1>5, <1>8, <2>1, <2>3, HeardWhole
<1> QED BY <1>6, <1>7, <1>8

LEMMA ExitRuleEntityWhole == ListenerInv /\ WholeInv /\ ExitRuleEntity => WholeInv'
<1> SUFFICES ASSUME ListenerInv, WholeInv, ExitRuleEntity PROVE WholeInv'
  OBVIOUS
<1>1. PICK s : s = "ruleEntity"
  OBVIOUS
<1>2. todo # <<>> /\ Head(todo) = Exit(s)
  BY <1>1 DEF ExitRuleEntity, At
<1>3. s \in Pushed
  BY <1>1, AcceptedChildren
<1>4. Len(stack) \in Nat /\ Nodes(stack) /\ todo[1] = Exit(s)
  BY <1>2, WalkFacts
<1>5. Len(stack) > 0 /\ stack[Len(stack)].rule = "ruleEntity"
  BY <1>1, <1>2, <1>3, <1>4, FrontOfWalk
<1>6. Len(stack) = 1 /\ Top.rule = "ruleEntity"
  <2>1. Len(stack) \in 1 .. Len(stack)
    BY <1>4, <1>5
  <2> QED BY <1>4, <1>5, <2>1 DEF Nodes, Top
<1>7. stack' = Below /\ syntaxError' = syntaxError
  BY <1>6 DEF ExitRuleEntity
<1>8. AddError("existed") \/ Goes
  BY <1>6 DEF ExitRuleEntity
<1>9. CASE AddError("existed")
  BY <1>9, ErrorWhole
<1>10. CASE Goes
  <2>1. PICK v : v = stack'
    OBVIOUS
  <2>2. Len(v) = 0
    <3>1. PICK S : stack \in Seq(S)
      BY <1>4 DEF Nodes
    <3>2. v = SubSeq(stack, 1, 1 - 1)
      BY <1>6, <1>7, <2>1 DEF Below
    <3>3. SubSeq(stack, 1, 1 - 1) = <<>>
      BY <3>1
    <3> QED BY <3>2, <3>3
  <2>3. PICK h \in Nat : h = 0
    OBVIOUS
  <2>4. h = IF s \in Pushed THEN Len(stack) - 1 ELSE Len(stack)
    BY <1>3, <1>6, <2>3
  <2>5. Len(v) = h /\ (\A i \in 1 .. h : i # h => v[i] = stack[i]) /\ ~(h > 0)
    BY <2>2, <2>3
  <2> QED BY <1>2, <1>7, <1>10, <2>1, <2>4, <2>5, LeftWhole
<1> QED BY <1>8, <1>9, <1>10

LEMMA EnterRuleWhole == ListenerInv /\ WholeInv /\ EnterRule => WholeInv'
<1> SUFFICES ASSUME ListenerInv, WholeInv, EnterRule, parseErrors' = "none", ~syntaxError'
             PROVE  \E F : Whole(todo', stack', F)
  BY DEF WholeInv
<1>1. todo # <<>> /\ Head(todo)[1] = "enter" /\ parseErrors = "none"
  BY DEF EnterRule
<1>2. /\ Len(todo) \in Nat /\ Len(todo) > 0 /\ Head(todo) = todo[1] /\ Len(stack) \in Nat /\ Nodes(stack) /\ Walking
  BY <1>1, WalkFacts
<1>3. PICK s : s = Head(todo)[2]
  OBVIOUS
<1>4. Children(s) /\ stack' = IF s \in Pushed THEN Append(stack, Node(s)) ELSE stack
  BY <1>3 DEF EnterRule
<1>5. todo[1] = Enter(s)
  <2>1. PICK L : Aligned(todo, stack, L)
    BY <1>2 DEF Walking
  <2>2. 1 \in 1 .. Len(todo)
    BY <1>2
  <2>3. todo[1] = <<todo[1][1], todo[1][2]>>
    BY <2>1, <2>2 DEF Aligned
  <2> QED BY <1>1, <1>2, <1>3, <2>3 DEF Enter
<1>6. PICK L : Fit(s, Owner(stack, L[2])) /\ L[2] = Len(stack)
  BY <1>1, <1>5, FrontOfWalk, ItemsApart
<1>7. PICK shape \in Shapes(s), n \in 0 .. 4 :
         /\ n <= Len(shape) /\ syntaxError' = (syntaxError \/ n < Len(shape))
         /\ todo' = [i \in 1 .. n |-> Enter(shape[i])] \o (IF s \in Parts THEN <<>> ELSE <<Exit(s)>>) \o Tail(todo)
  BY <1>4 DEF Children
<1>8. ~syntaxError /\ n = Len(shape) /\ \E T : shape \in Seq(T)
  <2>1. ~syntaxError /\ ~(n < Len(shape))
    BY <1>7
  <2>2. FitsUnder(shape, IF s \in Pushed THEN s ELSE Owner(stack, L[2]))
    BY <1>6, AllChildrenFit DEF ChildrenFit
  <2>3. Len(shape) \in Nat /\ \E T : shape \in Seq(T)
    BY <2>2 DEF FitsUnder, Listed
  <2>4. n = Len(shape)
    BY <1>7, <2>1, <2>3
  <2> QED BY <2>1, <2>3, <2>4
<1>9. PICK E : Whole(todo, stack, E)
  BY <1>1, <1>8 DEF WholeInv
<1>10. PICK S : todo \in Seq(S)
  BY DEF ListenerInv
<1>11. PICK u : u = todo'
  OBVIOUS
<1>12. EntersTodo(todo, s, shape, n, u)
  BY <1>7, <1>11 DEF EntersTodo
<1>13. PICK k : Entering(todo, s, shape, n, k, u)
  <2>1. \E k : Following(todo, s, shape, n, k, u)
    BY <1>1, <1>7, <1>10, <1>12, EnteredTodo
  <2> QED BY <1>5, <1>7, <2>1 DEF Entering
<1>14. PICK t : t = todo
  OBVIOUS
<1>15. PICK st : st = stack
  OBVIOUS
<1>16. Spliced(t, s, shape, n, k, u)
  <2>1. t \in Seq(S) /\ t # <<>> /\ Entering(t, s, shape, n, k, u) /\ n \in Nat
    BY <1>1, <1>10, <1>13, <1>14
  <2> HIDE <1>14
  <2> QED BY <2>1, ItemsEntered
<1>17. t \in Seq(S) /\ t # <<>> /\ t[1] = Enter(s) /\ Len(st) \in Nat /\ Nodes(st) /\ Whole(t, st, E)
  BY <1>1, <1>2, <1>5, <1>9, <1>10, <1>14, <1>15
<1>18. CASE s \in Pushed
  <2>1. PICK v : v = stack'
    OBVIOUS
  <2>2. Len(v) = Len(st) + 1 /\ (\A i \in 1 .. Len(st) : v[i] = st[i]) /\ v[Len(st) + 1] = Node(s)
    <3>1. PICK nd : nd = Node(s)
      OBVIOUS
    <3>2. v = Append(st, nd)
      BY <1>4, <1>15, <1>18, <2>1, <3>1
    <3>3. PICK T : st \in Seq(T)
      BY <1>17 DEF Nodes
    <3>4. Len(v) = Len(st) + 1 /\ (\A i \in 1 .. Len(st) : v[i] = st[i]) /\ v[Len(st) + 1] = nd
      BY <3>2, <3>3, AppendProperties
    <3> QED BY <3>1, <3>4
  <2> HIDE <1>14, <1>15
  <2>3. \E F : Whole(u, v, F)
    BY <1>8, <1>16, <1>17, <1>18, <2>2, EnterNodeWhole
  <2> QED BY <1>11, <2>1, <2>3
<1>19. CASE s \notin Pushed
  <2>1. stack' = st
    BY <1>4, <1>15, <1>19
  <2>2. Len(st) > 0 => Fit(s, st[Len(st)].rule)
    <3>1. Fit(s, Owner(st, Len(st)))
      BY <1>6, <1>15
    <3> QED BY <1>17, <3>1 DEF Owner
  <2> HIDE <1>14, <1>15
  <2>3. Whole(u, st, E)
    BY <1>8, <1>16, <1>17, <1>19, <2>2, EnterPartWhole
  <2> QED BY <1>11, <2>1, <2>3
<1> QED BY <1>18, <1>19

LEMMA InitWhole == Init => WholeInv
<1> SUFFICES ASSUME Init PROVE WholeInv
  OBVIOUS
<1>1. stack = <<>> /\ Len(stack) = 0
  BY DEF Init
<1>2. PICK E : E = [l \in 1 .. 0 |-> 0]
  OBVIOUS
<1>3. E \in [1 .. Len(stack) -> Nat]
  BY <1>1, <1>2
<1>4. \A l \in 1 .. Len(stack) : FALSE
  BY <1>1
<1>5. Whole(todo, stack, E)
  BY <1>3, <1>4, Zenon DEF Whole
<1> QED BY <1>5 DEF WholeInv

LEMMA VisitErrorNodeWhole == VisitErrorNode => WholeInv'
<1> SUFFICES ASSUME VisitErrorNode PROVE WholeInv'
  OBVIOUS
<1>1. AddError("error node")
  BY DEF VisitErrorNode
<1> QED BY <1>1, ErrorWhole

LEMMA StutterWhole == WholeInv /\ UNCHANGED vars => WholeInv'
<1> SUFFICES ASSUME WholeInv, UNCHANGED vars PROVE WholeInv'
  OBVIOUS
<1>1. UNCHANGED <<todo, stack, parseErrors, syntaxError>>
  BY DEF vars
<1> QED BY <1>1 DEF WholeInv

LEMMA NextWhole == ListenerInv /\ WholeInv /\ [Next]_vars => WholeInv'
<1> SUFFICES ASSUME ListenerInv, WholeInv, [Next]_vars PROVE WholeInv'
  OBVIOUS
<1>1. CASE EnterRule BY <1>1, EnterRuleWhole
<1>2. CASE VisitErrorNode BY <1>2, VisitErrorNodeWhole
<1>3. CASE ExitNode BY <1>3, ExitNodeWhole
<1>4. CASE ExitLeaf BY <1>4, ExitLeafWhole
<1>5. CASE ExitStringLiteral BY <1>5, ExitStringLiteralWhole
<1>6. CASE ExitInteger BY <1>6, ExitIntegerWhole
<1>7. CASE ExitBooleanOrReal BY <1>7, ExitBooleanOrRealWhole
<1>8. CASE ExitRuleName BY <1>8, ExitRuleNameWhole
<1>9. CASE ExitRuleDescription BY <1>9, ExitRuleDescriptionWhole
<1>10. CASE ExitSalience BY <1>10, ExitSalienceWhole
<1>11. CASE ExitRuleEntity BY <1>11, ExitRuleEntityWhole
<1>12. CASE ExitSilent BY <1>12, ExitSilentWhole
<1>13. CASE UNCHANGED vars BY <1>13, StutterWhole
<1> QED BY <1>1, <1>2, <1>3, <1>4, <1>5, <1>6, <1>7, <1>8, <1>9, <1>10, <1>11, <1>12, <1>13 DEF Next

(* A node that is left next has nothing to come. *)
LEMMA NothingPending ==
  ASSUME NEW S, NEW t \in Seq(S), t # <<>>, NEW st, Len(st) \in Nat, Len(st) > 0, Nodes(st), NEW E, Whole(t, st, E),
         NEW s \in Pushed, t[1] = Exit(s)
  PROVE  Form(st[Len(st)], <<>>)
<1>1. PICK m \in Nat : m = Len(st) /\ m > 0 /\ m \in 1 .. m
  OBVIOUS
<1>2. PICK N \in Nat : N = Len(t)
  BY ItemsStay
<1>3. PICK h : h = m - 1
  OBVIOUS
<1>4. Height(t, st, s, h)
  BY <1>1, <1>3 DEF Height
<1>5. E[m] = N
  BY <1>1, <1>2, <1>4, FrontWhole
<1>6. Until(t, E, m, m) = N
  BY <1>2, UntilIs
<1>7. Form(st[m], Pending(t, N, N))
  BY <1>1, <1>5, <1>6 DEF Whole
<1>8. Pending(t, N, N) = <<>>
  <2>1. 1 .. N - N = {}
    OBVIOUS
  <2> QED BY <2>1 DEF Pending
<1> QED BY <1>1, <1>7, <1>8

LEMMA LeavesComplete ==
  ASSUME ListenerInv, WholeInv, Next, todo # <<>>, NEW s \in Pushed, Head(todo) = Exit(s), ~syntaxError'
  PROVE  Complete(Top)
<1>1. /\ parseErrors = "none" /\ todo[1] = Exit(s) /\ Len(stack) \in Nat /\ Nodes(stack)
  BY WalkFacts
<1>2. Len(stack) > 0
  BY <1>1, FrontOfWalk
<1>3. ~syntaxError
  <2>1. Head(todo)[1] # "enter"
    BY ItemsApart
  <2>2. ~EnterRule
    BY <2>1 DEF EnterRule
  <2>3. ~VisitErrorNode
    BY DEF VisitErrorNode
  <2>4. ExitLeaf => syntaxError' = syntaxError
    <3>1. s \notin AtConstants \cup CutLeaves
      BY AcceptedChildren DEF AtConstants, CutLeaves
    <3>2. \A x \in AtConstants \cup CutLeaves : Exit(x) # Exit(s)
      BY <3>1, ItemsApart
    <3> QED BY <3>2 DEF ExitLeaf, At
  <2>5. \/ ExitNode \/ ExitLeaf \/ ExitStringLiteral \/ ExitInteger \/ ExitBooleanOrReal
        \/ ExitRuleName \/ ExitRuleDescription \/ ExitSalience \/ ExitRuleEntity \/ ExitSilent
    BY <2>2, <2>3 DEF Next
  <2>6. syntaxError' = syntaxError
    BY <2>4, <2>5 DEF ExitNode, ExitStringLiteral, ExitInteger, ExitBooleanOrReal,
                      ExitRuleName, ExitRuleDescription, ExitSalience, ExitRuleEntity, ExitSilent
  <2> QED BY <2>6
<1>4. PICK E : Whole(todo, stack, E)
  BY <1>1, <1>3 DEF WholeInv
<1>5. PICK S : todo \in Seq(S)
  BY DEF ListenerInv
<1>6. Form(stack[Len(stack)], <<>>)
  <2>1. PICK t : t = todo
    OBVIOUS
  <2>2. PICK st : st = stack
    OBVIOUS
  <2>3. /\ t \in Seq(S) /\ t # <<>> /\ Len(st) \in Nat /\ Len(st) > 0 /\ Nodes(st) /\ Whole(t, st, E)
        /\ t[1] = Exit(s)
    BY <1>1, <1>2, <1>4, <1>5, <2>1, <2>2
  <2> HIDE <2>1, <2>2
  <2>4. Form(st[Len(st)], <<>>)
    BY <2>3, NothingPending
  <2> QED BY <2>2, <2>4
<1> QED BY <1>6, FormEnds DEF Top

(* Whatever is nested in what, a node of a tree the parser did not complain  *)
(* about has the children it evaluates by when it is handed over: for every  *)
(* node on the stack, what it has and what is still to come of its shape are *)
(* a form of its rule (if_stmt.go:18, for_stmt.go:37,                        *)
(* math_expression.go:49 dereference a child unchecked).                     *)
THEOREM ListenerNodesComplete == Spec => NodesComplete
<1>1. Init => WholeInv
  BY InitWhole
<1>2. ListenerInv /\ WholeInv /\ [Next]_vars => WholeInv'
  BY NextWhole
<1>3. ListenerInv /\ WholeInv /\ [Next]_vars
        => [todo # <<>> /\ Head(todo)[1] = "exit" /\ Head(todo)[2] \in Pushed /\ ~syntaxError'
              => Complete(Top)]_vars
  <2> SUFFICES ASSUME ListenerInv, WholeInv, Next, todo # <<>>, Head(todo)[1] = "exit", Head(todo)[2] \in Pushed,
                      ~syntaxError'
               PROVE  Complete(Top)
    OBVIOUS
  <2>1. PICK s \in Pushed : s = Head(todo)[2]
    OBVIOUS
  <2>2. Head(todo) = Exit(s)
    <3>1. Walking /\ Head(todo) = todo[1] /\ Len(todo) \in Nat /\ Len(todo) > 0
      BY WalkFacts
    <3>2. PICK L : Aligned(todo, stack, L)
      BY <3>1 DEF Walking
    <3>3. 1 \in 1 .. Len(todo)
      BY <3>1
    <3>4. todo[1] = <<todo[1][1], todo[1][2]>>
      BY <3>2, <3>3 DEF Aligned
    <3> QED BY <2>1, <3>1, <3>4 DEF Exit
  <2> QED BY <2>2, LeavesComplete
<1> QED BY <1>1, <1>2, <1>3, ListenerInvariant, PTL DEF Spec, NodesComplete
=============================================================================
