--------------------------- MODULE ParserListener --------------------------
(***************************************************************************)
(* GengineParserListener: the walk over a parse tree that builds the rule  *)
(* entities.  A node is pushed when its rule is entered; on exit it is     *)
(* popped and handed to the node below through an Accept method, and a     *)
(* node below that has no such method is a failed type assertion, a panic. *)
(* The walker runs before the builder looks at the syntax errors, so it    *)
(* also walks the trees error recovery cuts short.                         *)
(***************************************************************************)
EXTENDS GengineGrammar, FiniteSets

CONSTANTS
  Names,      \* string literals other than ""
  Saliences,  \* integers written in a rule text
  Nests       \* bounds: how deep each recursive rule may be nested, and how
              \* many rule entities a text may have; one set of them per text

ASSUME ListenerAssumption ==
  "" \notin Names \cup Saliences

VARIABLES
  nest,        \* the bounds of this text
  todo,        \* what the walker still has to do, the next call first
  stack,       \* g.Stack
  entities,    \* the keys of g.KnowledgeContext.RuleEntities
  header,      \* g.ruleName, g.ruleDescription, g.salience
  token,       \* the text of the literal just read for the rule's header
  parseErrors, \* why g.ParseErrors is not empty, or "none"
  syntaxError, \* the parser reported an error and cut the tree
  panicked,    \* a type assertion failed
  rules        \* history: rule entities entered

vars == <<nest, todo, stack, entities, header, token, parseErrors, syntaxError, panicked, rules>>

Texts == Names \cup {""}
Top == stack[Len(stack)]
Below == SubSeq(stack, 1, Len(stack) - 1)

---------------------------------------------------------------------------
\* The Accept methods of the nodes: the fields a child goes to, in the order
\* they are filled, and whether a child too many is an error.

Once(f) == [fields |-> <<f>>, strict |-> TRUE]
InOrder(f, g) == [fields |-> <<f, g>>, strict |-> TRUE]
Free(f) == [fields |-> <<f>>, strict |-> FALSE]

EntityAccepts == [ruleContent |-> Free("RuleContent")]
ContentAccepts == [statements |-> Once("Statements")]
StatementsAccept == [statement |-> Free("StatementList"), returnStmt |-> Free("ReturnStatement")]
StatementAccepts ==
  [functionCall |-> Once("FunctionCall"), methodCall |-> Once("MethodCall"),
   threeLevelCall |-> Once("ThreeLevelCall"), assignment |-> Once("Assignment"),
   ifStmt |-> Free("IfStmt"), concStatement |-> Free("ConcStatement"),
   forStmt |-> Free("ForStmt"), forRangeStmt |-> Free("ForRangeStmt"),
   breakStmt |-> Free("BreakStmt"), continueStmt |-> Free("ContinueStmt")]

(* Mutant: a conc block has no AcceptThreeLevelCall. *)
ConcAcceptsTwoLevels ==
  [functionCall |-> Free("FunctionCalls"), methodCall |-> Free("MethodCalls"),
   assignment |-> Free("Assignments")]

ConcAccepts ==
  [functionCall |-> Free("FunctionCalls"), methodCall |-> Free("MethodCalls"),
   threeLevelCall |-> Free("ThreeLevelCalls"), assignment |-> Free("Assignments")]
AssignmentAccepts ==
  [mathExpression |-> Once("MathExpression"), expression |-> Once("Expression"),
   variable |-> Once("Variable"), mapVar |-> Once("MapVar"),
   assignOperator |-> Free("AssignOperator")]
IfAccepts ==
  [expression |-> Once("Expression"), statements |-> Once("StatementList"),
   elseIfStmt |-> Free("ElseIfStmtList"), elseStmt |-> Free("ElseStmt")]
ElseIfAccepts == [expression |-> Once("Expression"), statements |-> Once("StatementList")]
ElseAccepts == [statements |-> Once("StatementList")]

(* Mutant: the second assignment replaces the first. *)
ForAcceptsOne ==
  [assignment |-> Free("Assignments0"),
   expression |-> Once("Expression"), statements |-> Once("StatementList")]

ForAccepts ==
  [assignment |-> [fields |-> <<"Assignments0", "Assignments1">>, strict |-> FALSE],
   expression |-> Once("Expression"), statements |-> Once("StatementList")]
ForRangeAccepts ==
  [variable |-> InOrder("keyName", "name"), statements |-> Once("StatementList")]
ReturnAccepts == [expression |-> Once("Expression")]

ExpressionAccepts ==
  [expressionAtom |-> Once("ExpressionAtom"), mathExpression |-> Once("MathExpression"),
   expression |-> InOrder("ExpressionLeft", "ExpressionRight"),
   logicalOperator |-> Free("LogicalOperator"), notOperator |-> Free("NotOperator"),
   comparisonOperator |-> Free("ComparisonOperator")]

(* Mutant: the right operand replaces the left one. *)
MathAcceptsLeft ==
  [mathExpression |-> Free("MathExpressionLeft"),
   expressionAtom |-> Once("ExpressionAtom"),
   mathPmOperator |-> Free("MathPmOperator"), mathMdOperator |-> Free("MathMdOperator")]

MathAccepts ==
  [mathExpression |-> InOrder("MathExpressionLeft", "MathExpressionRight"),
   expressionAtom |-> Once("ExpressionAtom"),
   mathPmOperator |-> Free("MathPmOperator"), mathMdOperator |-> Free("MathMdOperator")]
AtomAccepts ==
  [variable |-> Once("Variable"), constant |-> Once("Constant"),
   functionCall |-> Once("FunctionCall"), methodCall |-> Once("MethodCall"),
   threeLevelCall |-> Once("ThreeLevelCall"), mapVar |-> Once("MapVar")]
ConstantAccepts ==
  [s \in {"stringLiteral", "integer", "booleanLiteral", "realLiteral",
          "atName", "atId", "atDesc", "atSal"} |-> Free("ConstantValue")]
MapVarAccepts ==
  [variable |-> InOrder("Name", "Varkey"), integer |-> Free("Intkey"),
   stringLiteral |-> Once("Strkey")]

ArgsAccept == [s \in Arguments |-> Free("ArgList")]
FunctionCallAccepts == [functionArgs |-> Free("FunctionArgs")]
MethodCallAccepts == [functionArgs |-> Once("MethodArgs")]
ThreeLevelCallAccepts == [functionArgs |-> Once("MethodArgs")]

\* breakStmt and continueStmt are pushed too and accept nothing.
Accepts ==
  [ruleEntity |-> EntityAccepts, ruleContent |-> ContentAccepts,
   statements |-> StatementsAccept, statement |-> StatementAccepts,
   concStatement |-> ConcAccepts, assignment |-> AssignmentAccepts,
   ifStmt |-> IfAccepts, elseIfStmt |-> ElseIfAccepts, elseStmt |-> ElseAccepts,
   forStmt |-> ForAccepts, forRangeStmt |-> ForRangeAccepts,
   returnStmt |-> ReturnAccepts, expression |-> ExpressionAccepts,
   mathExpression |-> MathAccepts, expressionAtom |-> AtomAccepts,
   constant |-> ConstantAccepts, mapVar |-> MapVarAccepts, functionArgs |-> ArgsAccept,
   functionCall |-> FunctionCallAccepts, methodCall |-> MethodCallAccepts,
   threeLevelCall |-> ThreeLevelCallAccepts, breakStmt |-> <<>>, continueStmt |-> <<>>]

Pushed == DOMAIN Accepts

CanAccept(n, child) == child \in DOMAIN Accepts[n.rule]
Fields(n, child) == Accepts[n.rule][child].fields
FreeFields(n, child) == {i \in 1..Len(Fields(n, child)) : Fields(n, child)[i] \notin n.has}
TooMany(n, child) == Accepts[n.rule][child].strict /\ FreeFields(n, child) = {}
With(n, child) ==
  LET free == FreeFields(n, child) IN
  IF free = {} THEN n
  ELSE [n EXCEPT !.has = @ \cup {Fields(n, child)[CHOOSE i \in free : \A j \in free : i <= j]}]

---------------------------------------------------------------------------
\* The walker.

Enter(s) == <<"enter", s>>
Exit(s) == <<"exit", s>>
Depth(s) == Cardinality({i \in 1..Len(todo) : todo[i] = Exit(s)})
Fits(shape) ==
  \A i \in 1..Len(shape) :
    shape[i] \in DOMAIN nest =>
      (IF shape[i] = "ruleEntity" THEN rules ELSE Depth(shape[i])) < nest[shape[i]]

At(item) == todo # <<>> /\ Head(todo) = item

\* Every handler looks at g.ParseErrors first: once it is not empty the rest
\* of the walk changes nothing.
AddError(e) == parseErrors' = e /\ todo' = <<>> /\ UNCHANGED panicked
Goes == todo' = Tail(todo) /\ UNCHANGED <<parseErrors, panicked>>
Panic == panicked' = TRUE /\ todo' = <<>> /\ UNCHANGED <<stack, parseErrors>>

\* A node of rule s: its children are those of a shape of the grammar, or,
\* after a syntax error, of a prefix of one.  Bound: a text is cut once.
Children(s) ==
  \E shape \in Shapes(s), n \in 0..4 :
    /\ n <= Len(shape) /\ Fits(SubSeq(shape, 1, n))
    /\ n < Len(shape) => ~syntaxError
    /\ syntaxError' = (syntaxError \/ n < Len(shape))
    /\ LET calls == [i \in 1..n |-> Enter(shape[i])] IN
         todo' = calls \o (IF s \in Parts THEN <<>> ELSE <<Exit(s)>>) \o Tail(todo)

Node(s) ==
  IF s = "ruleEntity" THEN [rule |-> s, has |-> {}, name |-> "", desc |-> "", sal |-> "0"]
                      ELSE [rule |-> s, has |-> {}]

NewHeader == [name |-> "", desc |-> "", sal |-> "0"]

(* Mutant: the header of the rule before is not reset. *)
EnterRuleKeepsHeader ==
  /\ todo # <<>> /\ Head(todo)[1] = "enter"
  /\ LET s == Head(todo)[2] IN
       /\ Children(s)
       /\ stack' = IF s \in Pushed THEN Append(stack, Node(s)) ELSE stack
       /\ header' = header
       /\ rules' = IF s = "ruleEntity" THEN rules + 1 ELSE rules
  /\ UNCHANGED <<nest, entities, token, parseErrors, panicked>>

EnterRule ==
  /\ todo # <<>> /\ Head(todo)[1] = "enter"
  /\ LET s == Head(todo)[2] IN
       /\ Children(s)
       /\ stack' = IF s \in Pushed THEN Append(stack, Node(s)) ELSE stack
       /\ header' = IF s = "ruleEntity" THEN NewHeader ELSE header
       /\ rules' = IF s = "ruleEntity" THEN rules + 1 ELSE rules
  /\ UNCHANGED <<nest, entities, token, parseErrors, panicked>>

\* VisitErrorNode: a token the parser skipped or made up.
VisitErrorNode ==
  /\ todo # <<>>
  /\ syntaxError' = TRUE
  /\ AddError("error node")
  /\ UNCHANGED <<nest, stack, entities, header, token, rules>>

\* Exit of a pushed rule: Pop, then Peek and Accept.
Handed == Pushed \ {"ruleEntity"}

ExitNode ==
  /\ \E s \in Handed : At(Exit(s))
  /\ LET s == Head(todo)[2]
         n == stack[Len(stack) - 1] IN
       \/ ~(Top.rule = s /\ CanAccept(n, s)) /\ Panic
       \/ /\ Top.rule = s /\ CanAccept(n, s)
          /\ \/ TooMany(n, s) /\ AddError("set twice") /\ stack' = Below
             \/ /\ ~TooMany(n, s) /\ Goes
                /\ stack' = Append(SubSeq(stack, 1, Len(stack) - 2), With(n, s))
  /\ UNCHANGED <<nest, entities, header, token, syntaxError, rules>>

\* Exit of an operator, a variable or an @-constant: Peek and Accept.  A leaf
\* the parser cut from its token is "" and leaves the field empty.
AtConstants == {"atName", "atId", "atDesc", "atSal"}
CutLeaves == {"assignOperator", "logicalOperator", "notOperator", "comparisonOperator",
              "mathPmOperator", "mathMdOperator", "variable"}

ExitLeaf ==
  /\ \E s \in AtConstants \cup CutLeaves : At(Exit(s))
  /\ LET s == Head(todo)[2] IN
       \/ ~CanAccept(Top, s) /\ Panic /\ UNCHANGED syntaxError
       \/ /\ CanAccept(Top, s)
          /\ \/ /\ TooMany(Top, s) /\ AddError("set twice")
                /\ UNCHANGED <<stack, syntaxError>>
             \/ /\ ~TooMany(Top, s) /\ Goes
                /\ stack' = Append(Below, With(Top, s)) /\ UNCHANGED syntaxError
             \/ /\ ~TooMany(Top, s) /\ Goes
                /\ s \in CutLeaves /\ ~syntaxError
                /\ UNCHANGED stack /\ syntaxError' = TRUE
  /\ UNCHANGED <<nest, entities, header, token, rules>>

\* RuleEntity.AcceptString: the name first, then the description.
EntityString(e, t) ==
  IF e.name = "" THEN [e EXCEPT !.name = t] ELSE [e EXCEPT !.desc = t]
EntityFull(e) == e.name # "" /\ e.desc # ""

ExitStringLiteral ==
  /\ At(Exit("stringLiteral"))
  /\ \E t \in Texts :
       \/ /\ Top.rule = "ruleEntity" /\ ~EntityFull(Top) /\ Goes
          /\ stack' = Append(Below, EntityString(Top, t)) /\ token' = t
       \/ /\ Top.rule = "ruleEntity" /\ EntityFull(Top)
          /\ AddError("set twice") /\ UNCHANGED <<stack, token>>
       \/ /\ Top.rule = "mapVar" /\ t = ""
          /\ AddError("null key") /\ UNCHANGED <<stack, token>>
       \/ /\ Top.rule = "mapVar" /\ t # "" /\ TooMany(Top, "stringLiteral")
          /\ AddError("set twice") /\ UNCHANGED <<stack, token>>
       \/ /\ \/ Top.rule = "constant"
             \/ Top.rule = "mapVar" /\ t # "" /\ ~TooMany(Top, "stringLiteral")
          /\ Goes /\ stack' = Append(Below, With(Top, "stringLiteral")) /\ UNCHANGED token
       \/ /\ Top.rule \notin {"ruleEntity", "mapVar", "constant"}
          /\ Panic /\ UNCHANGED token
  /\ UNCHANGED <<nest, entities, header, syntaxError, rules>>

\* ParseInt, ParseFloat and ParseBool fail on a literal out of range, and on
\* one the parser cut.
ExitInteger ==
  /\ At(Exit("integer"))
  /\ \/ AddError("number") /\ UNCHANGED <<stack, token>>
     \/ /\ Top.rule = "ruleEntity" /\ Goes
        /\ \E i \in Saliences : stack' = Append(Below, [Top EXCEPT !.sal = i]) /\ token' = i
     \/ /\ Top.rule # "ruleEntity" /\ CanAccept(Top, "integer") /\ Goes
        /\ stack' = Append(Below, With(Top, "integer")) /\ UNCHANGED token
     \/ Top.rule # "ruleEntity" /\ ~CanAccept(Top, "integer") /\ Panic /\ UNCHANGED token
  /\ UNCHANGED <<nest, entities, header, syntaxError, rules>>

ExitBooleanOrReal ==
  /\ At(Exit("booleanLiteral")) \/ At(Exit("realLiteral"))
  /\ \/ Top.rule # "constant" /\ Panic
     \/ Top.rule = "constant" /\ AddError("number") /\ UNCHANGED stack
     \/ /\ Top.rule = "constant" /\ Goes
        /\ stack' = Append(Below, With(Top, "booleanLiteral"))
  /\ UNCHANGED <<nest, entities, header, token, syntaxError, rules>>

\* The header of a rule.  The literal below was exited just before; cut from
\* it, the text of the header rule is "".
ExitRuleName ==
  /\ At(Exit("ruleName"))
  /\ \/ token = "" /\ AddError("rule name") /\ UNCHANGED <<stack, header>>
     \/ token # "" /\ Top.rule # "ruleEntity" /\ Panic /\ UNCHANGED header
     \/ /\ token # "" /\ Top.rule = "ruleEntity" /\ Goes
        /\ stack' = Append(Below, [Top EXCEPT !.name = token])
        /\ header' = [header EXCEPT !.name = token]
  /\ token' = ""
  /\ UNCHANGED <<nest, entities, syntaxError, rules>>

ExitRuleDescription ==
  /\ At(Exit("ruleDescription"))
  /\ \/ Top.rule # "ruleEntity" /\ Panic /\ UNCHANGED header
     \/ /\ Top.rule = "ruleEntity" /\ Goes
        /\ stack' = Append(Below, [Top EXCEPT !.desc = token])
        /\ header' = [header EXCEPT !.desc = token]
  /\ token' = ""
  /\ UNCHANGED <<nest, entities, syntaxError, rules>>

ExitSalience ==
  /\ At(Exit("salience"))
  /\ \/ token = "" /\ AddError("salience") /\ UNCHANGED header
     \/ token # "" /\ Goes /\ header' = [header EXCEPT !.sal = token]
  /\ token' = ""
  /\ UNCHANGED <<nest, stack, entities, syntaxError, rules>>

(* Mutant: a second rule of the same name replaces the first. *)
ExitRuleEntityOverwrites ==
  /\ At(Exit("ruleEntity"))
  /\ \/ Top.rule # "ruleEntity" /\ Panic /\ UNCHANGED entities
     \/ /\ Top.rule = "ruleEntity" /\ FALSE
        /\ AddError("existed") /\ stack' = Below /\ UNCHANGED entities
     \/ /\ Top.rule = "ruleEntity"
        /\ Goes /\ stack' = Below /\ entities' = entities \cup {Top.name}
  /\ UNCHANGED <<nest, header, token, syntaxError, rules>>

\* A name used twice in one text is an error.
ExitRuleEntity ==
  /\ At(Exit("ruleEntity"))
  /\ \/ Top.rule # "ruleEntity" /\ Panic /\ UNCHANGED entities
     \/ /\ Top.rule = "ruleEntity" /\ Top.name \in entities
        /\ AddError("existed") /\ stack' = Below /\ UNCHANGED entities
     \/ /\ Top.rule = "ruleEntity" /\ Top.name \notin entities
        /\ Goes /\ stack' = Below /\ entities' = entities \cup {Top.name}
  /\ UNCHANGED <<nest, header, token, syntaxError, rules>>

\* The handlers of these rules are empty.
ExitSilent ==
  /\ At(Exit("primary")) \/ At(Exit("rangeOperator"))
  /\ Goes
  /\ UNCHANGED <<nest, stack, entities, header, token, syntaxError, rules>>

Init ==
  /\ nest \in Nests
  /\ todo = <<Enter("primary")>>
  /\ stack = <<>> /\ entities = {} /\ header = NewHeader /\ token = ""
  /\ parseErrors = "none" /\ syntaxError = FALSE /\ panicked = FALSE /\ rules = 0

Next ==
  \/ EnterRule \/ VisitErrorNode \/ ExitNode \/ ExitLeaf \/ ExitStringLiteral
  \/ ExitInteger \/ ExitBooleanOrReal \/ ExitRuleName \/ ExitRuleDescription
  \/ ExitSalience \/ ExitRuleEntity \/ ExitSilent

Spec == Init /\ [][Next]_vars

---------------------------------------------------------------------------
\* No type assertion of a handler fails, whichever way the rules of the
\* grammar are nested and wherever a syntax error cut the tree
\* (gengine_parser_listener.go, every .(base.XHolder)).
NoPanic == ~panicked

\* Inside the body of a rule the listener's copy of the header, which @name,
\* @desc, @id and @sal read, is the header of that very rule: nothing of an
\* earlier rule of the text is left in it, and no literal of the body changed
\* the rule's own name or salience (gengine_parser_listener.go:61, :92, :112).
\* When the walk of a text ends without an error nothing is left on the stack
\* and every rule of the text is registered under a name of its own.
EveryRuleItself ==
  /\ Len(stack) > 1 =>
       header = [name |-> stack[1].name, desc |-> stack[1].desc, sal |-> stack[1].sal]
  /\ todo = <<>> /\ parseErrors = "none" => stack = <<>> /\ Cardinality(entities) = rules

\* What the Evaluate method of a node can work with: the fields it needs are
\* there, and there is no second alternative it would silently prefer.
Operand == {{"MathExpression"}, {"ExpressionAtom"}, {"ExpressionAtom", "NotOperator"},
            {"ExpressionLeft"}, {"ExpressionLeft", "NotOperator"},
            {"ExpressionLeft", "ComparisonOperator", "ExpressionRight"},
            {"ExpressionLeft", "LogicalOperator", "ExpressionRight"}}
MathOperand == {{"ExpressionAtom"}, {"MathExpressionLeft"},
                {"MathExpressionLeft", "MathPmOperator", "MathExpressionRight"},
                {"MathExpressionLeft", "MathMdOperator", "MathExpressionRight"}}
Complete(n) ==
  CASE n.rule = "expression" -> n.has \in Operand
    [] n.rule = "mathExpression" -> n.has \in MathOperand
    [] n.rule \in {"statement", "expressionAtom"} -> Cardinality(n.has) = 1
    [] n.rule = "constant" -> n.has = {"ConstantValue"}
    [] n.rule = "mapVar" -> "Name" \in n.has /\ Cardinality(n.has) = 2
    [] n.rule = "assignment" -> /\ "AssignOperator" \in n.has
                                /\ Cardinality(n.has \cap {"Variable", "MapVar"}) = 1
                                /\ Cardinality(n.has \cap {"MathExpression", "Expression"}) = 1
    [] n.rule \in {"ifStmt", "elseIfStmt"} -> {"Expression", "StatementList"} \subseteq n.has
    [] n.rule = "elseStmt" -> n.has = {"StatementList"}
    [] n.rule = "forStmt" ->
         n.has = {"Assignments0", "Expression", "Assignments1", "StatementList"}
    [] n.rule = "forRangeStmt" -> n.has = {"keyName", "name", "StatementList"}
    [] n.rule = "ruleContent" -> n.has = {"Statements"}
    [] n.rule = "ruleEntity" -> n.name # "" /\ n.has = {"RuleContent"}
    [] OTHER -> TRUE

\* A node of a tree the parser did not complain about is complete when it is
\* handed over: the interpreter never meets a nil child (if_stmt.go:18,
\* for_stmt.go:37, math_expression.go:49 dereference theirs unchecked).
NodesComplete ==
  [][todo # <<>> /\ Head(todo)[1] = "exit" /\ Head(todo)[2] \in Pushed /\ ~syntaxError'
       => Complete(Top)]_vars
============================================================================
