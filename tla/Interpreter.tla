---------------------------- MODULE Interpreter ----------------------------
(***************************************************************************)
(* How one rule runs: RuleEntity.Execute walks the statement tree the      *)
(* parser built.  Every Evaluate of internal/base returns the triple       *)
(* (value, error, returned?); `break` and `continue` travel in the error   *)
(* position as the sentinels BREAKFLAG and CONTINUEFLAG.  The Go call      *)
(* stack is the variable stack, the triple on its way to the caller is     *)
(* out.  What an expression or a call computes is left to the environment: *)
(* it yields a value, an error, or (a condition that is not a Boolean) a   *)
(* panic that unwinds to the recover of the engine.                        *)
(***************************************************************************)
EXTENDS Integers, Sequences

CONSTANTS
  Programs,        \* the statement trees (a block: its list and its return)
  MaxExecuteNum,   \* maxExecuteNum: the cap on the rounds of one loop
  MaxRounds        \* bound: the rounds a loop asks for, if nothing ends it

ASSUME CapAssumption == MaxExecuteNum \in Nat /\ MaxRounds \in Nat

VARIABLES
  stack,     \* the Evaluate calls in progress, the innermost last
  out,       \* the triple being returned to the top frame, or Running
  result,    \* what RuleEntity.Execute returned, or Running
  failed,    \* history: some evaluation gave a real error
  returned,  \* history: some return statement gave its value
  inLoop     \* history: the last break or continue was raised inside a loop

vars == <<stack, out, result, failed, returned, inLoop>>

Running == [v |-> "running", err |-> "none", b |-> FALSE]
Outcome(v, err, b) == [v |-> v, err |-> err, b |-> b]
Normal == Outcome("nil", "none", FALSE)
Failure(e) == Outcome("nil", e, FALSE)
Panic == Outcome("nil", "panic", FALSE)

Flags == {"break", "continue"}
RealErrors == {"error", "cap"}
Outcomes == [v : {"nil", "value"}, err : {"none", "panic"} \cup Flags \cup RealErrors,
             b : BOOLEAN]

Top == stack[Len(stack)]
Below == SubSeq(stack, 1, Len(stack) - 1)
BlockFrame(s) == [kind |-> "block", body |-> s, at |-> 1]
IfFrame(st) == [kind |-> "if", stmt |-> st, at |-> 0]
ForFrame(st) == [kind |-> "for", body |-> st.body, pc |-> "init",
                 want |-> 0, count |-> 0, posts |-> 0]
RangeFrame(st) == [kind |-> "range", body |-> st.body, pc |-> "init",
                   want |-> 0, count |-> 0]
IsLoop(f) == f.kind \in {"for", "range"}

\* The top frame runs next; the environment has not answered it yet.
TopIs(kind) == out = Running /\ result = Running /\ stack # <<>> /\ Top.kind = kind
Answered(kind) == out # Running /\ stack # <<>> /\ Top.kind = kind

Leave(o) == stack' = Below /\ out' = o
Replace(f) == stack' = Append(Below, f)
Call(f, g) == stack' = Below \o <<f, g>> /\ UNCHANGED out

Fails == failed' = TRUE /\ UNCHANGED <<result, returned, inLoop>>
Quiet == UNCHANGED <<result, failed, returned, inLoop>>

\* it.Bool() of a value that is no bool, or a lookup that panics: assignments
\* and calls recover their own, no other Evaluate does.
Panics ==
  /\ stack' = <<>>
  /\ out' = Panic
  /\ Quiet

---------------------------------------------------------------------------
\* Statements.Evaluate and Statement.Evaluate: the next statement of a block.

SimpleStatement ==
  /\ TopIs("block") /\ Top.at <= Len(Top.body.list)
  /\ Top.body.list[Top.at].kind = "simple"
  /\ UNCHANGED stack
  /\ \/ out' = Normal /\ Quiet
     \/ out' = Failure("error") /\ Fails

BreakOrContinue ==
  /\ TopIs("block") /\ Top.at <= Len(Top.body.list)
  /\ Top.body.list[Top.at].kind \in Flags
  /\ out' = Outcome("nil", Top.body.list[Top.at].kind, TRUE)
  /\ inLoop' = (\E i \in 1..Len(stack) : IsLoop(stack[i]))
  /\ UNCHANGED <<stack, result, failed, returned>>

CompoundStatement ==
  /\ TopIs("block") /\ Top.at <= Len(Top.body.list)
  /\ LET st == Top.body.list[Top.at] IN
       \/ st.kind = "if" /\ Call(Top, IfFrame(st))
       \/ st.kind = "for" /\ Call(Top, ForFrame(st))
       \/ st.kind = "range" /\ Call(Top, RangeFrame(st))
  /\ Quiet

\* The list is done: ReturnStatement.Evaluate, or the end of the block.
EndOfBlock ==
  /\ TopIs("block") /\ Top.at > Len(Top.body.list)
  /\ \/ Top.body.ret = "none" /\ Leave(Normal) /\ Quiet
     \/ /\ Top.body.ret = "bare"
        /\ Leave(Outcome("nil", "none", TRUE))
        /\ returned' = TRUE /\ UNCHANGED <<result, failed, inLoop>>
     \/ /\ Top.body.ret = "expression"
        /\ Leave(Outcome("value", "none", TRUE))
        /\ returned' = TRUE /\ UNCHANGED <<result, failed, inLoop>>
     \/ /\ Top.body.ret = "expression"
        /\ Leave(Outcome("nil", "error", TRUE)) /\ Fails
     \/ Top.body.ret = "expression" /\ Panics

\* A statement of the block came back: an error ends the block and drops the
\* return mark, a return ends it with its value, otherwise go on.
BlockResumes ==
  /\ Answered("block")
  /\ \/ out.err # "none" /\ Leave(Failure(out.err))
     \/ out.err = "none" /\ out.b /\ Leave(Outcome(out.v, "none", TRUE))
     \/ /\ out.err = "none" /\ ~out.b
        /\ Replace([Top EXCEPT !.at = @ + 1])
        /\ out' = Running
  /\ Quiet

---------------------------------------------------------------------------
\* IfStmt.Evaluate: condition 0 is the if's, condition j the j-th else-if's.

Branch(st, j) == IF j = 0 THEN st.then ELSE st.elifs[j]

TestBranch ==
  /\ TopIs("if") /\ Top.at <= Len(Top.stmt.elifs)
  /\ \/ Replace(BlockFrame(Branch(Top.stmt, Top.at))) /\ UNCHANGED out /\ Quiet
     \/ Replace([Top EXCEPT !.at = @ + 1]) /\ UNCHANGED out /\ Quiet
     \/ Leave(Failure("error")) /\ Fails
     \/ Panics

ElseBranch ==
  /\ TopIs("if") /\ Top.at > Len(Top.stmt.elifs)
  /\ \/ /\ Top.stmt.hasElse
        /\ Replace(BlockFrame(Top.stmt.else)) /\ UNCHANGED out
     \/ ~Top.stmt.hasElse /\ Leave(Normal)
  /\ Quiet

---------------------------------------------------------------------------
\* ForStmt.Evaluate.  want is the number of rounds for which the condition
\* will hold, what the loop's variables make of it not being modelled; a want
\* above the cap stands for every such number, a condition that never fails
\* included.
Holds(f) == f.count < f.want \/ f.want > MaxExecuteNum

ForInit ==
  /\ TopIs("for") /\ Top.pc = "init"
  /\ \/ /\ \E n \in 0..MaxRounds : Replace([Top EXCEPT !.pc = "test", !.want = n])
        /\ UNCHANGED out /\ Quiet
     \/ Leave(Failure("error")) /\ Fails

\* The count goes up, and is held against the cap, before the condition.
ForCap ==
  /\ TopIs("for") /\ Top.pc = "test" /\ Top.count + 1 > MaxExecuteNum
  /\ Leave(Failure("cap")) /\ Fails

ForTest ==
  /\ TopIs("for") /\ Top.pc = "test" /\ Top.count + 1 <= MaxExecuteNum
  /\ \/ /\ Holds(Top)
        /\ Call([Top EXCEPT !.pc = "body", !.count = @ + 1], BlockFrame(Top.body))
        /\ Quiet
     \/ ~Holds(Top) /\ Leave(Normal) /\ Quiet
     \/ Leave(Failure("error")) /\ Fails
     \/ Panics

(* Mutant: a loop looks at the sentinels only, not at the return mark. *)
ForResumesIgnoresReturn ==
  /\ Answered("for")
  /\ \/ out.err \notin {"none"} \cup Flags /\ Leave(Failure(out.err))
     \/ out.err = "break" /\ Leave(Normal)
     \/ /\ \/ out.err = "continue"
           \/ out.err = "none"
        /\ Replace([Top EXCEPT !.pc = "post"])
        /\ out' = Running
  /\ Quiet

(* Mutant: any error but continue just ends the loop. *)
ForResumesSwallows ==
  /\ Answered("for")
  /\ \/ out.err \notin {"none"} \cup Flags /\ Leave(Normal)
     \/ out.err = "break" /\ Leave(Normal)
     \/ out.err = "none" /\ out.b /\ Leave(Outcome(out.v, "none", TRUE))
     \/ /\ \/ out.err = "continue"
           \/ out.err = "none" /\ ~out.b
        /\ Replace([Top EXCEPT !.pc = "post"])
        /\ out' = Running
  /\ Quiet

(* Mutant: continue goes straight to the condition. *)
ForResumesNoStep ==
  /\ Answered("for")
  /\ \/ out.err \notin {"none"} \cup Flags /\ Leave(Failure(out.err))
     \/ out.err = "break" /\ Leave(Normal)
     \/ out.err = "none" /\ out.b /\ Leave(Outcome(out.v, "none", TRUE))
     \/ /\ \/ out.err = "continue"
           \/ out.err = "none" /\ ~out.b
        /\ Replace([Top EXCEPT !.pc = IF out.err = "continue" THEN "test" ELSE "post"])
        /\ out' = Running
  /\ Quiet

ForResumes ==
  /\ Answered("for")
  /\ \/ out.err \notin {"none"} \cup Flags /\ Leave(Failure(out.err))
     \/ out.err = "break" /\ Leave(Normal)
     \/ out.err = "none" /\ out.b /\ Leave(Outcome(out.v, "none", TRUE))
     \/ /\ \/ out.err = "continue"
           \/ out.err = "none" /\ ~out.b
        /\ Replace([Top EXCEPT !.pc = "post"])
        /\ out' = Running
  /\ Quiet

ForPost ==
  /\ TopIs("for") /\ Top.pc = "post"
  /\ \/ Replace([Top EXCEPT !.pc = "test", !.posts = @ + 1]) /\ UNCHANGED out /\ Quiet
     \/ Leave(Failure("error")) /\ Fails

---------------------------------------------------------------------------
\* ForRangeStmt.Evaluate over an iterator of package iter.

\* The name is looked up and NewInter takes the length or the keys once.
RangeInit ==
  /\ TopIs("range") /\ Top.pc = "init"
  /\ \/ /\ \E n \in 0..MaxRounds : Replace([Top EXCEPT !.pc = "next", !.want = n])
        /\ UNCHANGED out /\ Quiet
     \/ Leave(Failure("error")) /\ Fails
     \/ Panics

(* Mutant: the cap is compared with >=. *)
RangeNextOffByOne ==
  /\ TopIs("range") /\ Top.pc = "next" /\ Top.count < Top.want
  /\ LET f == [Top EXCEPT !.pc = "body", !.count = @ + 1] IN
       \/ f.count >= MaxExecuteNum /\ Leave(Failure("cap")) /\ Fails
       \/ f.count <= MaxExecuteNum /\ Call(f, BlockFrame(Top.body)) /\ Quiet
       \/ f.count <= MaxExecuteNum /\ Leave(Failure("error")) /\ Fails
       \/ f.count <= MaxExecuteNum /\ Panics

(* Mutant: the iterator does not advance. *)
RangeNextStuck ==
  /\ TopIs("range") /\ Top.pc = "next" /\ Top.count < Top.want
  /\ LET f == [Top EXCEPT !.pc = "body"] IN
       \/ f.count > MaxExecuteNum /\ Leave(Failure("cap")) /\ Fails
       \/ f.count <= MaxExecuteNum /\ Call(f, BlockFrame(Top.body)) /\ Quiet
       \/ f.count <= MaxExecuteNum /\ Leave(Failure("error")) /\ Fails
       \/ f.count <= MaxExecuteNum /\ Panics

RangeNext ==
  /\ TopIs("range") /\ Top.pc = "next" /\ Top.count < Top.want
  /\ LET f == [Top EXCEPT !.pc = "body", !.count = @ + 1] IN
       \/ f.count > MaxExecuteNum /\ Leave(Failure("cap")) /\ Fails
       \/ f.count <= MaxExecuteNum /\ Call(f, BlockFrame(Top.body)) /\ Quiet
       \/ f.count <= MaxExecuteNum /\ Leave(Failure("error")) /\ Fails
       \/ f.count <= MaxExecuteNum /\ Panics

RangeEnd ==
  /\ TopIs("range") /\ Top.pc = "next" /\ Top.count >= Top.want
  /\ Leave(Normal) /\ Quiet

(* Mutant: break is handed on like any other error. *)
RangeResumesNoBreak ==
  /\ Answered("range")
  /\ \/ out.err \notin {"none"} \cup Flags /\ Leave(Failure(out.err))
     \/ out.err = "break" /\ Leave(Failure("break"))
     \/ out.err = "none" /\ out.b /\ Leave(out)
     \/ /\ \/ out.err = "continue"
           \/ out.err = "none" /\ ~out.b
        /\ Replace([Top EXCEPT !.pc = "next"])
        /\ out' = Running
  /\ Quiet

RangeResumes ==
  /\ Answered("range")
  /\ \/ out.err \notin {"none"} \cup Flags /\ Leave(Failure(out.err))
     \/ out.err = "break" /\ Leave(Normal)
     \/ out.err = "none" /\ out.b /\ Leave(out)
     \/ /\ \/ out.err = "continue"
           \/ out.err = "none" /\ ~out.b
        /\ Replace([Top EXCEPT !.pc = "next"])
        /\ out' = Running
  /\ Quiet

---------------------------------------------------------------------------
\* RuleContent.Execute handed the triple of the outermost block on.
Finish ==
  /\ stack = <<>> /\ out # Running
  /\ result' = out /\ out' = Running
  /\ UNCHANGED <<stack, failed, returned, inLoop>>

Init ==
  /\ \E p \in Programs : stack = <<BlockFrame(p)>>
  /\ out = Running /\ result = Running
  /\ failed = FALSE /\ returned = FALSE /\ inLoop = FALSE

Next ==
  \/ SimpleStatement \/ BreakOrContinue \/ CompoundStatement
  \/ EndOfBlock \/ BlockResumes
  \/ TestBranch \/ ElseBranch
  \/ ForInit \/ ForCap \/ ForTest \/ ForResumes \/ ForPost
  \/ RangeInit \/ RangeNext \/ RangeEnd \/ RangeResumes
  \/ Finish

Spec == Init /\ [][Next]_vars

\* One goroutine runs the rule and nothing in the walk itself blocks.
FairSpec == Spec /\ WF_vars(Next)

---------------------------------------------------------------------------
\* What the rule is about to answer: the triple under way, or the answer.
Answer == IF result # Running THEN result ELSE out

\* Once a return statement gave its value the rule runs nothing more: through
\* every if and every loop around it the mark and the absence of an error
\* survive up to RuleEntity.Execute (statements.go:20, for_stmt.go:78).
ReturnEndsTheRule ==
  returned => Answer # Running /\ Answer.err = "none" /\ Answer.b

\* An error of any evaluation ends the rule and is what the rule reports: no
\* block, branch or loop swallows it (statements.go:16, for_stmt.go:62).
ErrorEndsTheRule == failed => Answer.err \in RealErrors

(* What a rule answers is decided once, by the return statement or the error
   that ended it. *)
AnswerEndsTheRule == ReturnEndsTheRule /\ ErrorEndsTheRule

\* A break or continue raised inside a loop never passes the loops around it:
\* while it is under way a loop still encloses it, so it can never come out as
\* the rule's error; one raised outside of any loop does (break_stmt.go:15).
FlagStaysInLoop ==
  inLoop => /\ result.err \notin Flags
            /\ out.err \in Flags => \E i \in 1..Len(stack) : IsLoop(stack[i])

\* The step assignment of a for runs exactly once for every round that was
\* begun and went on, after a continue as after a normal end: when the
\* condition is looked at again, as many steps as rounds are behind
\* (for_stmt.go:66 and :86).
StepPerRound ==
  \A i \in 1..Len(stack) : stack[i].kind = "for" =>
    CASE stack[i].pc \in {"init", "test"} -> stack[i].posts = stack[i].count
      [] OTHER -> stack[i].posts + 1 = stack[i].count

\* Moreover a loop that ends by itself has run every round it wanted, and one that is
\* stopped wanted more than maxExecuteNum.  A for already fails if it wants
\* exactly that many: it counts the test that would have ended it
\* (for_stmt.go:49), where a forRange counts elements (for_range_stmt.go:36).
LoopsRunTheirRounds ==
  [][StepPerRound /\ (out = Running /\ stack # <<>> /\ IsLoop(Top) /\ stack' = Below =>
       /\ out' = Normal => Top.count = Top.want
       /\ out' = Failure("cap") =>
            Top.want > (IF Top.kind = "for" THEN MaxExecuteNum - 1 ELSE MaxExecuteNum))]_vars

\* Whatever the conditions do, the cap makes every rule come back.
RuleTerminates == <>(result # Running)
===========================================================================
