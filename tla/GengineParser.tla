---------------------------- MODULE GengineParser --------------------------
(***************************************************************************)
(* The generated recursive descent parser: one body per rule function of   *)
(* gengine_parser.go, run on a stack of rule contexts over a text whose    *)
(* tokens are drawn when they are first looked at.  A body is a sequence   *)
(* of calls of the ANTLR runtime; the actions are what the runtime does in *)
(* them (Match, Sync, AdaptivePredict, left recursion) and the errorExit   *)
(* every function ends in, with the default error strategy: dropping or    *)
(* inserting one token, and skipping to a token some caller waits for.     *)
(***************************************************************************)
EXTENDS GengineGrammar, FiniteSets, SequencesExt

CONSTANTS
  Scopes  \* texts: how they begin, the tokens they go on with, how many of them
          \* at most, and after how many errors they go on as the grammar asks

ASSUME ParserAssumption ==
  \A s \in Scopes : s.given \in Seq(STRING) /\ s.free \in Nat /\ s.maxErrors \in Nat \ {0}

VARIABLES
  scope,       \* the scope of this text
  given,       \* what is left of its beginning
  free,        \* how many more tokens it may have
  la,          \* the current token, LA(1), or "unread"
  stack,       \* the rule contexts, each with what its function has left to do
  recovering,  \* errorRecoveryMode: no report until a token matches
  errors,      \* errors reported to the listeners, up to the bound
  errorStates, \* lastErrorStates
  errorHere    \* lastErrorIndex is the current index

vars == <<scope, given, free, la, stack, recovering, errors, errorStates, errorHere>>

---------------------------------------------------------------------------
\* What a rule function is made of.  A Sync stands before every optional part,
\* loop and choice, and once more after each round of a loop.

Match(T) == <<[do |-> "match", tokens |-> T]>>
CallAt(r, p) == <<[do |-> "call", rule |-> r, p |-> p]>>
Call(r) == CallAt(r, 0)
Sync(loop) == <<[do |-> "sync", loop |-> loop]>>
Optional(T, body) == Sync(FALSE) \o <<[do |-> "if", tokens |-> T, body |-> body]>>
Loop(T, body) ==
  Sync(FALSE) \o <<[do |-> "while", tokens |-> T, body |-> body \o Sync(TRUE)]>>
Choose(bodies) == Sync(FALSE) \o <<[do |-> "choose", bodies |-> bodies]>>
OneOf(rules) == Choose({Call(r) : r \in rules})
(* The loop of a left-recursive rule: its operators, each with the level its
   right operand is parsed at.  Its Syncs let every token pass, since the rule
   may end there. *)
Climb(right) == <<[do |-> "climb", right |-> right]>>

NAME == {"SIMPLENAME", "DOTTEDNAME", "DOUBLEDOTTEDNAME"}
Block == Match({"LR_BRACE"}) \o Call("statements") \o Match({"RR_BRACE"})

Primary == Sync(FALSE) \o Call("ruleEntity") \o Sync(TRUE) \o
  <<[do |-> "while", tokens |-> {"RULE"}, body |-> Call("ruleEntity") \o Sync(TRUE)]>>
RuleEntity ==
  Match({"RULE"}) \o Call("ruleName")
    \o Optional({"DQUOTA_STRING"}, Call("ruleDescription"))
    \o Optional({"SALIENCE"}, Call("salience"))
    \o Match({"BEGIN"}) \o Call("ruleContent") \o Match({"END"})
RuleName == Call("stringLiteral")
RuleDescription == Call("stringLiteral")
Salience == Match({"SALIENCE"}) \o Call("integer")
RuleContent == Call("statements")
Statements ==
  Loop({"CONC", "IF", "FOR", "BREAK", "FORRANGE", "CONTINUE"} \cup NAME, Call("statement"))
    \o Optional({"RETURN"}, Call("returnStmt"))

Statement ==
  OneOf({"ifStmt", "assignment", "concStatement", "forStmt", "breakStmt", "forRangeStmt",
         "continueStmt"} \cup Calls)
ConcStatement ==
  Match({"CONC"}) \o Match({"LR_BRACE"}) \o Loop(NAME, OneOf(Calls \cup {"assignment"}))
    \o Match({"RR_BRACE"})
Assignment ==
  OneOf({"mapVar", "variable"}) \o Call("assignOperator")
    \o OneOf({"mathExpression", "expression"})
ReturnStmt ==
  Match({"RETURN"})
    \o Optional({"ATNAME", "ATID", "ATDESC", "ATSAL", "TRUE", "FALSE", "INT", "MINUS", "NOT",
                 "LR_BRACKET", "DQUOTA_STRING", "REAL_LITERAL"} \cup NAME, Call("expression"))
(* the loop over else if asks AdaptivePredict at every turn: ELSE alone does not
   decide, the token after it does, or leaves no alternative.  Its Syncs let
   every token pass, since the rule may end there. *)
IfStmt ==
  Match({"IF"}) \o Call("expression") \o Block
    \o Sync(FALSE)
    \o <<[do |-> "repeat", tokens |-> {"ELSE"}, round |-> "IF", end |-> "LR_BRACE",
          again |-> FALSE, body |-> Call("elseIfStmt") \o Sync(TRUE)]>>
    \o Optional({"ELSE"}, Call("elseStmt"))
ElseIfStmt == Match({"ELSE"}) \o Match({"IF"}) \o Call("expression") \o Block
ElseStmt == Match({"ELSE"}) \o Block
(* Mutant: the step of a for loop may be left out. *)
ForStmtNoStep ==
  Match({"FOR"}) \o Call("assignment") \o Match({"SEMICOLON"}) \o Call("expression")
    \o Match({"SEMICOLON"}) \o Optional(NAME, Call("assignment")) \o Block
ForStmt ==
  Match({"FOR"}) \o Call("assignment") \o Match({"SEMICOLON"}) \o Call("expression")
    \o Match({"SEMICOLON"}) \o Call("assignment") \o Block
BreakStmt == Match({"BREAK"})
ForRangeStmt ==
  Match({"FORRANGE"}) \o Call("variable") \o Call("rangeOperator") \o Call("variable") \o Block
ContinueStmt == Match({"CONTINUE"})

(* Mutant: the right operand of && and || is parsed at their own level. *)
ExpressionRightDeep ==
  Choose({Call("mathExpression"),
          Optional({"NOT"}, Call("notOperator")) \o Call("expressionAtom"),
          Optional({"NOT"}, Call("notOperator")) \o Match({"LR_BRACKET"})
            \o Call("expression") \o Match({"RR_BRACKET"})})
    \o Climb([comparisonOperator |-> 5, logicalOperator |-> 3])
Expression ==
  Choose({Call("mathExpression"),
          Optional({"NOT"}, Call("notOperator")) \o Call("expressionAtom"),
          Optional({"NOT"}, Call("notOperator")) \o Match({"LR_BRACKET"})
            \o Call("expression") \o Match({"RR_BRACKET"})})
    \o Climb([comparisonOperator |-> 5, logicalOperator |-> 4])
MathExpression ==
  Choose({Call("expressionAtom"),
          Match({"LR_BRACKET"}) \o Call("mathExpression") \o Match({"RR_BRACKET"})})
    \o Climb([mathMdOperator |-> 5, mathPmOperator |-> 4])
ExpressionAtom == OneOf(Calls \cup {"constant", "mapVar", "variable"})
Constant ==
  OneOf({"booleanLiteral", "integer", "realLiteral", "stringLiteral",
         "atName", "atId", "atDesc", "atSal"})
FunctionArgs ==
  OneOf(Arguments) \o Loop({"COMMA"}, Match({"COMMA"}) \o OneOf(Arguments))

Signed(T) == Optional({"MINUS"}, Match({"MINUS"})) \o Match(T)
Integer == Signed({"INT"})
RealLiteral == Signed({"REAL_LITERAL"})
StringLiteral == Match({"DQUOTA_STRING"})
BooleanLiteral == Match({"TRUE", "FALSE"})
Called(name) ==
  Match({name}) \o Match({"LR_BRACKET"})
    \o Optional({"ATNAME", "ATID", "ATDESC", "ATSAL", "TRUE", "FALSE", "INT", "MINUS", "NOT",
                 "LR_BRACKET", "DQUOTA_STRING", "REAL_LITERAL"} \cup NAME, Call("functionArgs"))
    \o Match({"RR_BRACKET"})
FunctionCall == Called("SIMPLENAME")
MethodCall == Called("DOTTEDNAME")
ThreeLevelCall == Called("DOUBLEDOTTEDNAME")
Variable == Match(NAME)
MathPmOperator == Match({"PLUS", "MINUS"})
MathMdOperator == Match({"MUL", "DIV"})
ComparisonOperator == Match({"GT", "LT", "GTE", "LTE", "EQUALS", "NOTEQUALS"})
LogicalOperator == Match({"AND", "OR"})
AssignOperator == Match({"ASSIGN", "SET", "PLUSEQUAL", "MINUSEQUAL", "MULTIEQUAL", "DIVEQUAL"})
RangeOperator == Match({"ASSIGN"})
NotOperator == Match({"NOT"})
MapVar ==
  Call("variable") \o Match({"LSQARE"}) \o OneOf({"integer", "stringLiteral", "variable"})
    \o Match({"RSQARE"})
AtName == Match({"ATNAME"})
AtId == Match({"ATID"})
AtDesc == Match({"ATDESC"})
AtSal == Match({"ATSAL"})

(* The levels of the operators; the parser goes on with one whose level is at
   least the one it was called at. *)
Expression_Sempred == [comparisonOperator |-> 4, logicalOperator |-> 3]
MathExpression_Sempred == [mathMdOperator |-> 4, mathPmOperator |-> 3]
Sempred == [expression |-> Expression_Sempred, mathExpression |-> MathExpression_Sempred]

Body ==
  [primary |-> Primary, ruleEntity |-> RuleEntity, ruleName |-> RuleName,
   ruleDescription |-> RuleDescription, salience |-> Salience, ruleContent |-> RuleContent,
   statements |-> Statements, statement |-> Statement, concStatement |-> ConcStatement,
   assignment |-> Assignment, returnStmt |-> ReturnStmt, ifStmt |-> IfStmt,
   elseIfStmt |-> ElseIfStmt, elseStmt |-> ElseStmt, forStmt |-> ForStmt,
   breakStmt |-> BreakStmt, forRangeStmt |-> ForRangeStmt, continueStmt |-> ContinueStmt,
   expression |-> Expression, mathExpression |-> MathExpression,
   expressionAtom |-> ExpressionAtom, constant |-> Constant, functionArgs |-> FunctionArgs,
   integer |-> Integer, realLiteral |-> RealLiteral, stringLiteral |-> StringLiteral,
   booleanLiteral |-> BooleanLiteral, functionCall |-> FunctionCall, methodCall |-> MethodCall,
   threeLevelCall |-> ThreeLevelCall, variable |-> Variable, mathPmOperator |-> MathPmOperator,
   mathMdOperator |-> MathMdOperator, comparisonOperator |-> ComparisonOperator,
   logicalOperator |-> LogicalOperator, assignOperator |-> AssignOperator,
   rangeOperator |-> RangeOperator, notOperator |-> NotOperator, mapVar |-> MapVar,
   atName |-> AtName, atId |-> AtId, atDesc |-> AtDesc, atSal |-> AtSal]

---------------------------------------------------------------------------
\* What the runtime computes from the grammar: the tokens that may come next,
\* with "" for the end of the function.

(* when the rules begin with the tokens starts gives *)
RECURSIVE FirstIn(_, _)
FirstIn(body, starts) ==
  IF body = <<>> THEN {""}
  ELSE LET i == Head(body)
           first ==
             CASE i.do = "match" -> i.tokens
               [] i.do = "sync" -> {""}
               [] i.do = "call" -> starts[i.rule]
               [] i.do = "choose" -> UNION {FirstIn(b, starts) : b \in i.bodies}
               [] i.do = "climb" -> UNION {starts[r] : r \in DOMAIN i.right} \cup {""}
               [] OTHER -> i.tokens \cup {""} IN
       IF "" \in first THEN (first \ {""}) \cup FirstIn(Tail(body), starts) ELSE first

(* the least table that agrees with the bodies; no call is nested deeper than
   the rules of an expression *)
RECURSIVE StartsWithin(_)
StartsWithin(depth) ==
  IF depth = 0 THEN [r \in DOMAIN Body |-> {}]
  ELSE LET starts == StartsWithin(depth - 1) IN [r \in DOMAIN Body |-> FirstIn(Body[r], starts)]
Starts == StartsWithin(8)

First(body) == FirstIn(body, Starts)

Top == Last(stack)
Rest == Top.rest
Now == Head(Rest)

(* the tokens that may come next once the function on top has body left to do *)
RECURSIVE Following(_, _)
Following(body, callers) ==
  LET f == First(body) IN
  IF "" \notin f THEN f
  ELSE IF callers = <<>> THEN (f \ {""}) \cup {"EOF"}
  ELSE (f \ {""}) \cup Following(Last(callers).rest, Front(callers))

(* getErrorRecoverySet: what the callers wait for *)
RecoverySet == UNION {First(stack[i].rest) : i \in 1..(Len(stack) - 1)} \ {""}

---------------------------------------------------------------------------
\* The token stream: a text of the scope, made up as it is read.

Frame(r, p) == [rule |-> r, p |-> p, rest |-> Body[r], kids |-> <<>>, cut |-> FALSE]

Init ==
  /\ scope \in Scopes
  /\ given = scope.given
  /\ free = scope.free
  /\ la = "unread"
  /\ stack = <<Frame("primary", 0)>>
  /\ recovering = FALSE
  /\ errors = 0
  /\ errorStates = {}
  /\ errorHere = FALSE

(* the next token is t; the text may end as soon as what is given of it is read *)
Draws(t) ==
  \/ /\ given # <<>> /\ t = Head(given)
     /\ given' = Tail(given) /\ UNCHANGED free
  \/ /\ given = <<>> /\ free > 0 /\ t \in scope.tokens
     /\ free' = free - 1 /\ UNCHANGED given
  \/ /\ given = <<>> /\ t = "EOF"
     /\ free' = 0 /\ UNCHANGED given

Read ==
  /\ stack # <<>> /\ Rest # <<>> /\ Now.do # "call" /\ la = "unread"
  /\ \E t \in scope.tokens \cup {"EOF"} \cup ToSet(given) :
       /\ (errors = scope.maxErrors /\ given = <<>>) =>
            t \in Following(Rest, Front(stack)) \cup {"EOF"}
       /\ Draws(t)
       /\ la' = t
  /\ UNCHANGED <<scope, stack, recovering, errors, errorStates, errorHere>>

At(do) == stack # <<>> /\ Rest # <<>> /\ Now.do = do /\ la # "unread"

(* the function on top goes on with body, then with what came after Now *)
Continue(body) ==
  stack' = Front(stack) \o <<[Top EXCEPT !.rest = body \o Tail(Rest)]>>

ReportMatch == recovering' = FALSE /\ errorStates' = {} /\ errorHere' = FALSE
Counted == errors' = IF recovering \/ errors = scope.maxErrors THEN errors ELSE errors + 1
Report == Counted /\ recovering' = TRUE

(* LA(2), the token after la, once it is made up *)
Peeked == given # <<>> \/ free = 0
Second == IF given = <<>> THEN "EOF" ELSE Head(given)

(* where the runtime looks at it: to see whether the first token is one too many,
   and at the loop that the first token does not decide *)
Unwanted ==
  \/ At("match") /\ la \notin Now.tokens
  \/ At("sync") /\ ~recovering /\ ~Now.loop /\ {"", la} \cap First(Rest) = {}
Undecided == At("repeat") /\ la \in Now.tokens

(* once the bound on errors is reached the loop sees what the grammar asks for,
   and the token after an unwanted one stays open *)
Spent == errors = scope.maxErrors
LookAhead ==
  /\ ~Peeked
  /\ Undecided \/ (Unwanted /\ ~Spent)
  /\ \/ /\ \E t \in scope.tokens :
             /\ Spent => t \in {Now.round, Now.end}
             /\ given' = <<t>>
        /\ free' = free - 1
     \/ free' = 0 /\ UNCHANGED given
  /\ UNCHANGED <<scope, la, stack, recovering, errors, errorStates, errorHere>>

Settled == Peeked \/ Spent
NotAhead(T) == Settled /\ (Peeked => Second \notin T)

(* consumeUntil: however many tokens are skipped beyond those already made up,
   they are one of the text *)
SkipTo(S) ==
  LET i == SelectInSeq(given, LAMBDA t : t \in S) IN
  \/ /\ i > 0 /\ la' = given[i]
     /\ given' = SubSeq(given, i + 1, Len(given)) /\ UNCHANGED free
  \/ /\ i = 0 /\ given' = <<>>
     /\ \/ free > 0 /\ la' \in S \cap scope.tokens /\ free' = free - 1
        \/ la' = "EOF" /\ free' = 0
ConsumeUntil(S) ==
  IF la \in S \cup {"EOF"} THEN UNCHANGED <<la, given, free>> ELSE SkipTo(S)

(* Mutant: the error is dropped without recovering from it. *)
ErrorExitNoRecover ==
  /\ stack' = Front(stack) \o <<[Top EXCEPT !.rest = <<>>, !.cut = TRUE]>>
  /\ Report
  /\ UNCHANGED <<scope, given, free, la, errorStates, errorHere>>

(* errorExit: report the error unless one is being recovered from, skip to a
   token a caller waits for, and give the context up where it stands.  An error
   raised twice by the same call at the same token drops it. *)
ErrorExit ==
  /\ stack' = Front(stack) \o <<[Top EXCEPT !.rest = <<>>, !.cut = TRUE]>>
  /\ Report
  /\ errorStates' = errorStates \cup {<<Top.rule, Rest>>}
  /\ IF errorHere /\ <<Top.rule, Rest>> \in errorStates /\ la # "EOF"
     THEN SkipTo(RecoverySet) /\ errorHere' \in BOOLEAN
     ELSE ConsumeUntil(RecoverySet) /\ errorHere' = (la' = la)
  /\ UNCHANGED scope
---------------------------------------------------------------------------
\* The calls of the runtime.

(* EnterRule; the context becomes a child of its caller's when it is left *)
EnterRule ==
  /\ stack # <<>> /\ Rest # <<>> /\ Now.do = "call"
  /\ stack' = Front(stack) \o <<[Top EXCEPT !.rest = Tail(Rest)], Frame(Now.rule, Now.p)>>
  /\ UNCHANGED <<scope, given, free, la, recovering, errors, errorStates, errorHere>>

Levels == {"comparisonOperator", "logicalOperator", "mathMdOperator", "mathPmOperator"}
Operator(kids) == IF Len(kids) > 1 /\ kids[2].rule \in Levels THEN kids[2].rule ELSE "none"
Child(frame) == [rule |-> frame.rule, operator |-> Operator(frame.kids)]

(* a run of one sub-rule is kept to two; no rule tells more of them apart *)
AddChild(kids, child) ==
  IF Len(kids) > 1 /\ \A i \in {Len(kids) - 1, Len(kids)} : kids[i] = child
  THEN kids ELSE Append(kids, child)

(* ExitRule, UnrollRecursionContexts *)
ExitRule ==
  /\ stack # <<>> /\ Rest = <<>>
  /\ stack' = IF Len(stack) = 1 THEN <<>>
              ELSE LET below == Front(stack) IN
                   Front(below) \o
                     <<[Last(below) EXCEPT !.kids = AddChild(@, Child(Top))]>>
  /\ UNCHANGED <<scope, given, free, la, recovering, errors, errorStates, errorHere>>

MatchToken ==
  /\ At("match") /\ la \in Now.tokens
  /\ Continue(<<>>)
  /\ la' = "unread"
  /\ ReportMatch
  /\ UNCHANGED <<scope, given, free, errors>>

(* recoverInline, singleTokenDeletion: the token after this one matches *)
DropToken ==
  /\ At("match") /\ la \notin Now.tokens
  /\ Settled /\ \E t \in Now.tokens : Draws(t)
  /\ Continue(<<>>)
  /\ la' = "unread"
  /\ Counted /\ ReportMatch
  /\ UNCHANGED scope
(* recoverInline, singleTokenInsertion: this token may follow the missing one *)
InsertToken ==
  /\ At("match") /\ la \notin Now.tokens
  /\ NotAhead(Now.tokens)
  /\ la \in Following(Tail(Rest), Front(stack))
  /\ Continue(<<>>)
  /\ Report
  /\ UNCHANGED <<scope, given, free, la, errorStates, errorHere>>
MatchFails ==
  /\ At("match") /\ la \notin Now.tokens
  /\ NotAhead(Now.tokens)
  /\ la \notin Following(Tail(Rest), Front(stack))
  /\ ErrorExit

SyncPasses ==
  /\ At("sync")
  /\ recovering \/ {"", la} \cap First(Rest) # {}
  /\ Continue(<<>>)
  /\ UNCHANGED <<scope, given, free, la, recovering, errors, errorStates, errorHere>>
SyncActs ==
  /\ At("sync") /\ ~recovering /\ {"", la} \cap First(Rest) = {}
  /\ \/ /\ ~Now.loop                 \* singleTokenDeletion
        /\ Settled /\ \E t \in First(Rest) : Draws(t) /\ la' = t
        /\ Counted /\ ReportMatch
        /\ Continue(<<>>)
        /\ UNCHANGED scope
     \/ ~Now.loop /\ NotAhead(First(Rest)) /\ ErrorExit
     \/ /\ Now.loop                  \* reportUnwantedToken, consumeUntil
        /\ Report
        /\ ConsumeUntil(First(Rest) \cup RecoverySet)
        /\ errorHere' = (errorHere /\ la' = la)
        /\ Continue(<<>>)
        /\ UNCHANGED <<scope, errorStates>>

Proceeds(body) ==
  /\ Continue(body)
  /\ UNCHANGED <<scope, given, free, la, recovering, errors, errorStates, errorHere>>

If == At("if") /\ Proceeds(IF la \in Now.tokens THEN Now.body ELSE <<>>)
While == At("while") /\ Proceeds(IF la \in Now.tokens THEN Now.body \o <<Now>> ELSE <<>>)

(* AdaptivePredict and switch: the alternatives this token can begin.  The
   tokens after it decide between several, or leave none.  At the loop over
   else if that is one token more. *)
Viable == {b \in Now.bodies : la \in First(b)}
Predict == At("choose") /\ \E b \in Viable : Proceeds(b)
NoViableAlt ==
  /\ \/ /\ At("choose")
        /\ \/ Viable = {}
           \/ Cardinality(Viable) > 1 /\ (recovering \/ errors < scope.maxErrors)
     \/ Undecided /\ Peeked /\ Second \notin {Now.round, Now.end}
  /\ ErrorExit

PredictRound ==
  /\ Undecided /\ Peeked /\ Second = Now.round
  /\ Proceeds(Now.body \o <<[Now EXCEPT !.again = TRUE]>>)
(* any other token ends the loop, also one that may not follow the rule *)
PredictEnd ==
  /\ At("repeat")
  /\ Undecided => Peeked /\ Second = Now.end
  /\ Proceeds(<<>>)

(* Precpred, PushNewRecursionContext: an operator at the level asked for makes
   what is parsed so far its left operand *)
Operators == {r \in DOMAIN Now.right : la \in Starts[r] /\ Sempred[Top.rule][r] >= Top.p}
Fold ==
  /\ At("climb")
  /\ \E r \in Operators :
       stack' = Front(stack) \o
         <<[Top EXCEPT !.kids = <<Child(Top)>>,
                       !.rest = Call(r) \o CallAt(Top.rule, Now.right[r]) \o Rest]>>
  /\ UNCHANGED <<scope, given, free, la, recovering, errors, errorStates, errorHere>>
ClimbEnds == At("climb") /\ Operators = {} /\ Proceeds(<<>>)

Next ==
  \/ Read \/ LookAhead \/ EnterRule \/ ExitRule
  \/ MatchToken \/ DropToken \/ InsertToken \/ MatchFails
  \/ SyncPasses \/ SyncActs
  \/ If \/ While \/ Predict \/ NoViableAlt \/ PredictRound \/ PredictEnd
  \/ Fold \/ ClimbEnds

Spec == Init /\ [][Next]_vars /\ WF_vars(Next)

---------------------------------------------------------------------------
\* Properties.

(* The sub-rules kids follow the shape, or begin it. *)
RECURSIVE Follows(_, _, _)
Follows(shape, kids, whole) ==
  \/ kids = <<>> /\ ~whole
  \/ shape = <<>> /\ kids = <<>>
  \/ /\ shape # <<>> /\ Head(shape) \in Parts
     /\ \E s \in Shapes(Head(shape)) : Follows(s \o Tail(shape), kids, whole)
  \/ /\ shape # <<>> /\ kids # <<>> /\ Head(shape) = Head(kids)
     /\ Follows(Tail(shape), Tail(kids), whole)

Finished == stack # <<>> /\ (Rest = <<>> \/ Now.do = "climb")

(* A node the parser leaves has the sub-rules its rule of gengine.g4 asks for,
   in that order; the node of an abandoned function has the first of them, and
   the error was reported.  This is what the listener's casts rely on. *)
TreesFitTheGrammar ==
  Finished =>
    LET kids == [i \in 1..Len(Top.kids) |-> Top.kids[i].rule] IN
    /\ \E shape \in Shapes(Top.rule) : Follows(shape, kids, ~Top.cut)
    /\ Top.cut => errors > 0

(* In a text without errors operators group to the left and by level: the left
   operand of a node binds at least as tightly as the node, the right operand
   more tightly.  The two logical operators have one level: a || b && c is
   (a || b) && c.  (After an error they need not: the operand that failed is
   given up, and a caller further down goes on at the operator skipped to.) *)
Level(rule, operator) == IF operator = "none" THEN 9 ELSE Sempred[rule][operator]
OperatorsGroupLeft ==
  (errors = 0 /\ Finished /\ Len(Top.kids) = 3 /\ Operator(Top.kids) # "none") =>
    LET own == Level(Top.rule, Operator(Top.kids)) IN
    /\ Level(Top.rule, Top.kids[1].operator) >= own
    /\ Level(Top.rule, Top.kids[3].operator) > own

(* Every text is parsed to an end, whatever its errors: recovery never goes
   round without reading on. *)
ParseEnds == <>(stack = <<>>)
============================================================================
