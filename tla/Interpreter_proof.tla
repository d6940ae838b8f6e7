------------------------- MODULE Interpreter_proof -------------------------
(* For every set of rules and every cap: a return and an error end the rule. *)
EXTENDS Interpreter, SequenceTheorems, TLAPS

\* The triples have their type, the rule answers once, and what the history
\* knows of returns and errors is what the rule is about to answer.
AnswerInv ==
  /\ out \in Outcomes \cup {Running}
  /\ result \in Outcomes \cup {Running}
  /\ result # Running => out = Running
  /\ ReturnEndsTheRule
  /\ ErrorEndsTheRule

\* No triple of the code is the mark of a running evaluation, and the
\* outcomes the steps build are triples.
LEMMA OutcomesRun ==
  /\ Running \notin Outcomes
  /\ \A o \in Outcomes : /\ Outcome(o.v, "none", TRUE) \in Outcomes
                         /\ Failure(o.err) \in Outcomes
  /\ Normal \in Outcomes /\ Panic \in Outcomes
  /\ \A e \in Flags \cup RealErrors : Failure(e) \in Outcomes /\ Outcome("nil", e, TRUE) \in Outcomes
  /\ \A v \in {"nil", "value"} : Outcome(v, "none", TRUE) \in Outcomes
BY DEF Running, Outcomes, Outcome, Failure, Normal, Panic, Flags, RealErrors

\* A step of the evaluation under way finds nothing returned and nothing failed.
LEMMA NothingYet ==
  ASSUME AnswerInv, out = Running, result = Running
  PROVE ~returned /\ ~failed
BY DEF AnswerInv, ReturnEndsTheRule, ErrorEndsTheRule, Answer, Running, RealErrors

\* An answer under way is a triple, and the rule has not answered before.
LEMMA StillRunning ==
  ASSUME AnswerInv, out # Running
  PROVE out \in Outcomes /\ result = Running /\ Answer = out
BY DEF AnswerInv, Answer

\* What a step may make of the history and the triple to keep AnswerInv.
LEMMA Keeps ==
  ASSUME AnswerInv, result = Running, result' = Running,
         out' \in Outcomes \cup {Running},
         returned' => out' # Running /\ out'.err = "none" /\ out'.b,
         failed' => out'.err \in RealErrors
  PROVE AnswerInv'
BY DEF AnswerInv, ReturnEndsTheRule, ErrorEndsTheRule, Answer, Running

LEMMA InitAnswer == Init => AnswerInv
BY DEF Init, AnswerInv, ReturnEndsTheRule, ErrorEndsTheRule, Answer

LEMMA NextAnswer == AnswerInv /\ [Next]_vars => AnswerInv'
<1> SUFFICES ASSUME AnswerInv, [Next]_vars PROVE AnswerInv'
  OBVIOUS
<1> USE OutcomesRun
<1>1. CASE SimpleStatement
  <2>1. out = Running /\ result = Running /\ ~returned /\ ~failed
    BY <1>1, NothingYet DEF SimpleStatement, TopIs
  <2>2. CASE out' = Normal /\ Quiet
    BY <2>1, <2>2, Keeps DEF Quiet
  <2>3. CASE out' = Failure("error") /\ Fails
    BY <2>1, <2>3, Keeps DEF Fails, Failure, Outcome, Running, RealErrors
  <2> QED BY <1>1, <2>2, <2>3 DEF SimpleStatement
<1>2. CASE BreakOrContinue
  <2>1. out = Running /\ result = Running /\ ~returned' /\ ~failed' /\ result' = Running
    BY <1>2, NothingYet DEF BreakOrContinue, TopIs
  <2>2. out' \in Outcomes
    BY <1>2 DEF BreakOrContinue
  <2> QED BY <2>1, <2>2, Keeps
<1>3. CASE CompoundStatement
  BY <1>3, NothingYet, Keeps DEF CompoundStatement, TopIs, Call, Quiet, Running
<1>4. CASE EndOfBlock
  <2>1. out = Running /\ result = Running /\ ~returned /\ ~failed
    BY <1>4, NothingYet DEF EndOfBlock, TopIs
  <2>2. CASE Leave(Normal) /\ Quiet
    BY <2>1, <2>2, Keeps DEF Leave, Quiet
  <2>3. CASE /\ Leave(Outcome("nil", "none", TRUE))
             /\ returned' = TRUE /\ UNCHANGED <<result, failed, inLoop>>
    BY <2>1, <2>3, Keeps DEF Leave, Outcome, Running
  <2>4. CASE /\ Leave(Outcome("value", "none", TRUE))
             /\ returned' = TRUE /\ UNCHANGED <<result, failed, inLoop>>
    BY <2>1, <2>4, Keeps DEF Leave, Outcome, Running
  <2>5. CASE Leave(Outcome("nil", "error", TRUE)) /\ Fails
    BY <2>1, <2>5, Keeps DEF Leave, Fails, Outcome, Running, RealErrors
  <2>6. CASE Panics
    BY <2>1, <2>6, Keeps DEF Panics, Quiet
  <2> QED BY <1>4, <2>2, <2>3, <2>4, <2>5, <2>6 DEF EndOfBlock
<1>5. CASE BlockResumes
  <2>1. out \in Outcomes /\ result = Running /\ Answer = out
    BY <1>5, StillRunning DEF BlockResumes, Answered
  <2>2. CASE out.err # "none" /\ Leave(Failure(out.err)) /\ Quiet
    BY <2>1, <2>2, Keeps
       DEF Leave, Quiet, Failure, Outcome, AnswerInv, ReturnEndsTheRule, ErrorEndsTheRule
  <2>3. CASE out.err = "none" /\ out.b /\ Leave(Outcome(out.v, "none", TRUE)) /\ Quiet
    BY <2>1, <2>3, Keeps
       DEF Leave, Quiet, Outcome, AnswerInv, ReturnEndsTheRule, ErrorEndsTheRule
  <2>4. CASE out.err = "none" /\ ~out.b /\ out' = Running /\ Quiet
    BY <2>1, <2>4, Keeps DEF Quiet, AnswerInv, ReturnEndsTheRule, ErrorEndsTheRule, RealErrors
  <2> QED BY <1>5, <2>2, <2>3, <2>4 DEF BlockResumes
<1>6. CASE TestBranch
  <2>1. out = Running /\ result = Running /\ ~returned /\ ~failed
    BY <1>6, NothingYet DEF TestBranch, TopIs
  <2>2. CASE UNCHANGED out /\ Quiet
    BY <2>1, <2>2, Keeps DEF Quiet
  <2>3. CASE Leave(Failure("error")) /\ Fails
    BY <2>1, <2>3, Keeps DEF Leave, Fails, Failure, Outcome, Running, RealErrors
  <2>4. CASE Panics
    BY <2>1, <2>4, Keeps DEF Panics, Quiet
  <2> QED BY <1>6, <2>2, <2>3, <2>4 DEF TestBranch
<1>7. CASE ElseBranch
  BY <1>7, NothingYet, Keeps DEF ElseBranch, TopIs, Leave, Quiet
<1>8. CASE ForInit
  <2>1. out = Running /\ result = Running /\ ~returned /\ ~failed
    BY <1>8, NothingYet DEF ForInit, TopIs
  <2>2. CASE UNCHANGED out /\ Quiet
    BY <2>1, <2>2, Keeps DEF Quiet
  <2>3. CASE Leave(Failure("error")) /\ Fails
    BY <2>1, <2>3, Keeps DEF Leave, Fails, Failure, Outcome, Running, RealErrors
  <2> QED BY <1>8, <2>2, <2>3 DEF ForInit
<1>9. CASE ForCap
  BY <1>9, NothingYet, Keeps
     DEF ForCap, TopIs, Leave, Fails, Failure, Outcome, Running, RealErrors
<1>10. CASE ForTest
  <2>1. out = Running /\ result = Running /\ ~returned /\ ~failed
    BY <1>10, NothingYet DEF ForTest, TopIs
  <2>2. CASE UNCHANGED out /\ Quiet
    BY <2>1, <2>2, Keeps DEF Quiet
  <2>3. CASE Leave(Normal) /\ Quiet
    BY <2>1, <2>3, Keeps DEF Leave, Quiet
  <2>4. CASE Leave(Failure("error")) /\ Fails
    BY <2>1, <2>4, Keeps DEF Leave, Fails, Failure, Outcome, Running, RealErrors
  <2>5. CASE Panics
    BY <2>1, <2>5, Keeps DEF Panics, Quiet
  <2> QED BY <1>10, <2>2, <2>3, <2>4, <2>5 DEF ForTest, Call
<1>11. CASE ForResumes
  <2>1. out \in Outcomes /\ result = Running /\ Answer = out
    BY <1>11, StillRunning DEF ForResumes, Answered
  <2>2. CASE out.err \notin {"none"} \cup Flags /\ Leave(Failure(out.err)) /\ Quiet
    BY <2>1, <2>2, Keeps
       DEF Leave, Quiet, Failure, Outcome, AnswerInv, ReturnEndsTheRule, ErrorEndsTheRule
  <2>3. CASE out.err = "break" /\ Leave(Normal) /\ Quiet
    BY <2>1, <2>3, Keeps
       DEF Leave, Quiet, AnswerInv, ReturnEndsTheRule, ErrorEndsTheRule, RealErrors
  <2>4. CASE out.err = "none" /\ out.b /\ Leave(Outcome(out.v, "none", TRUE)) /\ Quiet
    BY <2>1, <2>4, Keeps
       DEF Leave, Quiet, Outcome, AnswerInv, ReturnEndsTheRule, ErrorEndsTheRule
  <2>5. CASE out.err = "continue" /\ out' = Running /\ Quiet
    BY <2>1, <2>5, Keeps DEF Quiet, AnswerInv, ReturnEndsTheRule, ErrorEndsTheRule, RealErrors
  <2>6. CASE out.err = "none" /\ ~out.b /\ out' = Running /\ Quiet
    BY <2>1, <2>6, Keeps DEF Quiet, AnswerInv, ReturnEndsTheRule, ErrorEndsTheRule, RealErrors
  <2> QED BY <1>11, <2>2, <2>3, <2>4, <2>5, <2>6, Zenon DEF ForResumes
<1>12. CASE ForPost
  <2>1. out = Running /\ result = Running /\ ~returned /\ ~failed
    BY <1>12, NothingYet DEF ForPost, TopIs
  <2>2. CASE UNCHANGED out /\ Quiet
    BY <2>1, <2>2, Keeps DEF Quiet
  <2>3. CASE Leave(Failure("error")) /\ Fails
    BY <2>1, <2>3, Keeps DEF Leave, Fails, Failure, Outcome, Running, RealErrors
  <2> QED BY <1>12, <2>2, <2>3 DEF ForPost
<1>13. CASE RangeInit
  <2>1. out = Running /\ result = Running /\ ~returned /\ ~failed
    BY <1>13, NothingYet DEF RangeInit, TopIs
  <2>2. CASE UNCHANGED out /\ Quiet
    BY <2>1, <2>2, Keeps DEF Quiet
  <2>3. CASE Leave(Failure("error")) /\ Fails
    BY <2>1, <2>3, Keeps DEF Leave, Fails, Failure, Outcome, Running, RealErrors
  <2>4. CASE Panics
    BY <2>1, <2>4, Keeps DEF Panics, Quiet
  <2> QED BY <1>13, <2>2, <2>3, <2>4 DEF RangeInit
<1>14. CASE RangeNext
  <2>1. out = Running /\ result = Running /\ ~returned /\ ~failed
    BY <1>14, NothingYet DEF RangeNext, TopIs
  <2>2. CASE Leave(Failure("cap")) /\ Fails
    BY <2>1, <2>2, Keeps DEF Leave, Fails, Failure, Outcome, Running, RealErrors
  <2>3. CASE Leave(Failure("error")) /\ Fails
    BY <2>1, <2>3, Keeps DEF Leave, Fails, Failure, Outcome, Running, RealErrors
  <2>4. CASE UNCHANGED out /\ Quiet
    BY <2>1, <2>4, Keeps DEF Quiet
  <2>5. CASE Panics
    BY <2>1, <2>5, Keeps DEF Panics, Quiet
  <2> QED BY <1>14, <2>2, <2>3, <2>4, <2>5 DEF RangeNext, Call
<1>15. CASE RangeEnd
  BY <1>15, NothingYet, Keeps DEF RangeEnd, TopIs, Leave, Quiet
<1>16. CASE RangeResumes
  <2>1. out \in Outcomes /\ result = Running /\ Answer = out
    BY <1>16, StillRunning DEF RangeResumes, Answered
  <2>2. CASE out.err \notin {"none"} \cup Flags /\ Leave(Failure(out.err)) /\ Quiet
    BY <2>1, <2>2, Keeps
       DEF Leave, Quiet, Failure, Outcome, AnswerInv, ReturnEndsTheRule, ErrorEndsTheRule
  <2>3. CASE out.err = "break" /\ Leave(Normal) /\ Quiet
    BY <2>1, <2>3, Keeps
       DEF Leave, Quiet, AnswerInv, ReturnEndsTheRule, ErrorEndsTheRule, RealErrors
  <2>4. CASE out.err = "none" /\ out.b /\ Leave(out) /\ Quiet
    BY <2>1, <2>4, Keeps
       DEF Leave, Quiet, AnswerInv, ReturnEndsTheRule, ErrorEndsTheRule
  <2>5. CASE out.err = "continue" /\ out' = Running /\ Quiet
    BY <2>1, <2>5, Keeps DEF Quiet, AnswerInv, ReturnEndsTheRule, ErrorEndsTheRule, RealErrors
  <2>6. CASE out.err = "none" /\ ~out.b /\ out' = Running /\ Quiet
    BY <2>1, <2>6, Keeps DEF Quiet, AnswerInv, ReturnEndsTheRule, ErrorEndsTheRule, RealErrors
  <2> QED BY <1>16, <2>2, <2>3, <2>4, <2>5, <2>6, Zenon DEF RangeResumes
<1>17. CASE Finish
  <2>1. out \in Outcomes /\ result = Running /\ Answer = out
    BY <1>17, StillRunning DEF Finish
  <2> QED BY <1>17, <2>1
          DEF Finish, AnswerInv, ReturnEndsTheRule, ErrorEndsTheRule, Answer
<1>18. CASE UNCHANGED vars
  BY <1>18 DEF vars, AnswerInv, ReturnEndsTheRule, ErrorEndsTheRule, Answer
<1> QED
  BY <1>1, <1>2, <1>3, <1>4, <1>5, <1>6, <1>7, <1>8, <1>9, <1>10, <1>11, <1>12,
     <1>13, <1>14, <1>15, <1>16, <1>17, <1>18 DEF Next

\* What follows from it, at every step of every rule: an answer that was given
\* is on its way out, and nothing else runs.
THEOREM AnswerInvariant == Spec => []AnswerInv
<1> QED BY InitAnswer, NextAnswer, PTL DEF Spec

\* After a return statement gave its value nothing of the rule runs any more,
\* and no error is swallowed on its way out of the statements of a rule.
THEOREM AnswerEnds == Spec => []AnswerEndsTheRule
<1>1. AnswerInv => AnswerEndsTheRule
  BY DEF AnswerInv, AnswerEndsTheRule
<1> QED BY <1>1, AnswerInvariant, PTL

-----------------------------------------------------------------------------
\* The stack: what is below the top, the top replaced, and a call from the top.
LEMMA Popped ==
  ASSUME NEW S, stack \in Seq(S), stack # <<>>
  PROVE  /\ Len(stack) \in Nat \ {0}
         /\ Below \in Seq(S) /\ Len(Below) = Len(stack) - 1
         /\ \A i \in 1..(Len(stack) - 1) : Below[i] = stack[i]
<1>1. Len(stack) \in Nat \ {0} /\ \A i \in 1..(Len(stack) - 1) : stack[i] \in S
  OBVIOUS
<1>0. Len(stack) - 1 \in Nat
  BY <1>1
<1>2. PICK n \in Nat : n = Len(stack) - 1
  BY <1>0
<1>3. Below = SubSeq(stack, 1, n) /\ \A i \in 1..n : stack[i] \in S
  BY <1>1, <1>2 DEF Below
<1>4. /\ SubSeq(stack, 1, n) \in Seq(S)
      /\ Len(SubSeq(stack, 1, n)) = IF 1 <= n THEN n - 1 + 1 ELSE 0
      /\ \A i \in 1..(n - 1 + 1) : SubSeq(stack, 1, n)[i] = stack[1 + i - 1]
  BY <1>3, SubSeqProperties
<1>5. (IF 1 <= n THEN n - 1 + 1 ELSE 0) = n /\ n - 1 + 1 = n /\ \A i \in 1..n : 1 + i - 1 = i
  OBVIOUS
<1>6. Below \in Seq(S) /\ Len(Below) = n /\ \A i \in 1..n : Below[i] = stack[i]
  BY <1>3, <1>4, <1>5
<1> QED BY <1>1, <1>2, <1>6

LEMMA Replaced ==
  ASSUME NEW S, stack \in Seq(S), stack # <<>>, NEW f
  PROVE  /\ Append(Below, f) \in Seq(S \cup {f}) /\ Len(Append(Below, f)) = Len(stack)
         /\ \A i \in 1..(Len(stack) - 1) : Append(Below, f)[i] = stack[i]
         /\ Append(Below, f)[Len(stack)] = f
<1>1. /\ Len(stack) \in Nat \ {0} /\ Below \in Seq(S) /\ Len(Below) = Len(stack) - 1
      /\ \A i \in 1..(Len(stack) - 1) : Below[i] = stack[i]
  BY Popped
<1>2. Below \in Seq(S \cup {f}) /\ f \in S \cup {f}
  BY <1>1
<1>3. /\ Append(Below, f) \in Seq(S \cup {f})
      /\ Len(Append(Below, f)) = Len(Below) + 1
      /\ \A i \in 1..Len(Below) : Append(Below, f)[i] = Below[i]
      /\ Append(Below, f)[Len(Below) + 1] = f
  BY <1>2, AppendProperties
<1> QED BY <1>1, <1>3

\* The frame of a for: as many steps as rounds are behind when the condition is
\* looked at, one fewer in a round, and no more rounds than wanted.
ForOK(f) ==
  /\ {"kind", "pc", "want", "count", "posts"} \subseteq DOMAIN f
  /\ f.want \in Nat /\ f.count \in Nat /\ f.posts \in Nat
  /\ f.pc \in {"init", "test", "body", "post"}
  /\ f.pc \in {"init", "test"} => f.posts = f.count
  /\ f.pc \in {"body", "post"} => f.posts + 1 = f.count
  /\ f.pc = "init" => f.count = 0
  /\ f.want > MaxExecuteNum \/ f.count <= f.want

RangeOK(f) ==
  /\ {"kind", "pc", "want", "count"} \subseteq DOMAIN f
  /\ f.want \in Nat /\ f.count \in Nat
  /\ f.pc \in {"init", "next", "body"}
  /\ f.pc = "init" => f.count = 0
  /\ f.count <= f.want

FrameOK(f) == (f.kind = "for" => ForOK(f)) /\ (f.kind = "range" => RangeOK(f))
InBody(f) == IsLoop(f) => f.pc = "body"

\* Every loop is as it should be, and one whose body has not come back, or has
\* just done so, is in its body.
LoopInv ==
  /\ \E S : stack \in Seq(S)
  /\ \A i \in 1..Len(stack) : FrameOK(stack[i])
  /\ \A i \in 1..Len(stack) : i < Len(stack) \/ out # Running => InBody(stack[i])

LEMMA LoopInvLeaves ==
  ASSUME LoopInv, stack # <<>>, stack' = Below
  PROVE  LoopInv'
<1>1. PICK S : stack \in Seq(S)
  BY DEF LoopInv
<1>2. /\ Len(stack) \in Nat \ {0} /\ stack' \in Seq(S) /\ Len(stack') = Len(stack) - 1
      /\ \A i \in 1..(Len(stack) - 1) : stack'[i] = stack[i]
  BY <1>1, Popped
<1>3. \A i \in 1..Len(stack') : i \in 1..Len(stack) /\ i < Len(stack) /\ stack'[i] = stack[i]
  BY <1>2
<1> QED BY <1>2, <1>3 DEF LoopInv, FrameOK, ForOK, RangeOK, InBody, IsLoop

LEMMA LoopInvReplaces ==
  ASSUME LoopInv, stack # <<>>, NEW f, Replace(f), FrameOK(f), out' = Running
  PROVE  LoopInv'
<1>1. PICK S : stack \in Seq(S)
  BY DEF LoopInv
<1>2. /\ Len(stack) \in Nat \ {0} /\ stack' \in Seq(S \cup {f}) /\ Len(stack') = Len(stack)
      /\ \A i \in 1..(Len(stack) - 1) : stack'[i] = stack[i]
      /\ stack'[Len(stack)] = f
  BY <1>1, Popped, Replaced DEF Replace
<1>3. \A i \in 1..Len(stack') : /\ i \in 1..Len(stack)
                                /\ i < Len(stack) => i \in 1..(Len(stack) - 1)
                                /\ ~(i < Len(stack)) => i = Len(stack)
  BY <1>2
<1> QED BY <1>2, <1>3 DEF LoopInv, FrameOK, ForOK, RangeOK, InBody, IsLoop

LEMMA LoopInvCalls ==
  ASSUME LoopInv, stack # <<>>, NEW f, NEW g, Call(f, g), FrameOK(f), InBody(f), FrameOK(g), out = Running
  PROVE  LoopInv'
<1>1. PICK S : stack \in Seq(S)
  BY DEF LoopInv
<1>3. /\ stack' \in Seq(S \cup {f, g}) /\ Len(stack') = Len(stack) + 1
      /\ \A i \in 1..(Len(stack) - 1) : stack'[i] = stack[i]
      /\ stack'[Len(stack)] = f /\ stack'[Len(stack) + 1] = g
  <2>0. PICK s : s = stack' /\ s = Below \o <<f, g>>
    BY DEF Call
  <2>1. /\ Len(stack) \in Nat \ {0} /\ Below \in Seq(S) /\ Len(Below) = Len(stack) - 1
        /\ \A i \in 1..(Len(stack) - 1) : Below[i] = stack[i]
    BY <1>1, Popped
  <2>2. PICK two : two = <<f, g>>
    OBVIOUS
  <2>3. Len(two) = 2 /\ two[1] = f /\ two[2] = g /\ two \in Seq(S \cup {f, g})
    BY <2>2
  <2>4. /\ s \in Seq(S \cup {f, g}) /\ Len(s) = Len(Below) + Len(two)
        /\ \A i \in 1..(Len(Below) + Len(two)) :
             s[i] = IF i <= Len(Below) THEN Below[i] ELSE two[i - Len(Below)]
    <3>1. Below \in Seq(S \cup {f, g}) /\ s = Below \o two
      BY <2>0, <2>1, <2>2
    <3> QED BY <2>3, <3>1, ConcatProperties
  <2>5. Len(stack) - 1 \in Nat
    BY <2>1
  <2>6. PICK n \in Nat : n = Len(stack) - 1
    BY <2>5
  <2>7. /\ Len(s) = n + 2
        /\ \A i \in 1..(n + 2) : s[i] = IF i <= n THEN Below[i] ELSE two[i - n]
    BY <2>1, <2>3, <2>4, <2>6
  <2>8. s[n + 1] = f /\ s[n + 2] = g
    <3>1. n + 1 \in 1..(n + 2) /\ n + 2 \in 1..(n + 2) /\ (n + 1) - n = 1 /\ (n + 2) - n = 2
          /\ ~(n + 1 <= n) /\ ~(n + 2 <= n)
      OBVIOUS
    <3> QED BY <2>3, <2>7, <3>1
  <2>9. \A i \in 1..n : s[i] = stack[i]
    BY <2>1, <2>6, <2>7
  <2>10. Len(stack) = n + 1 /\ Len(stack) + 1 = n + 2
    BY <2>1, <2>6
  <2> QED BY <2>0, <2>4, <2>6, <2>7, <2>8, <2>9, <2>10
<1>4. Len(stack) \in Nat \ {0} /\ out' = Running
  BY <1>1 DEF Call
<1>5. \A i \in 1..Len(stack') : \/ i \in 1..(Len(stack) - 1) /\ i \in 1..Len(stack) /\ i < Len(stack)
                                \/ i = Len(stack)
                                \/ i = Len(stack) + 1 /\ ~(i < Len(stack'))
  BY <1>3, <1>4
<1>6. ASSUME NEW i \in 1..Len(stack')
      PROVE  FrameOK(stack'[i]) /\ (i < Len(stack') => InBody(stack'[i]))
  BY <1>3, <1>5, <1>6 DEF LoopInv
<1> QED BY <1>3, <1>4, <1>6 DEF LoopInv, FrameOK, ForOK, RangeOK, InBody, IsLoop

LEMMA LoopInvSame ==
  ASSUME LoopInv, stack' = stack, out' # Running => out # Running \/ (stack # <<>> /\ ~IsLoop(Top))
  PROVE  LoopInv'
<1>1. PICK S : stack \in Seq(S)
  BY DEF LoopInv
<1>2. \A i \in 1..Len(stack) : i < Len(stack) \/ i = Len(stack)
  BY <1>1
<1>3. ASSUME NEW i \in 1..Len(stack'), i < Len(stack') \/ out' # Running
      PROVE  InBody(stack'[i])
  <2>1. CASE i < Len(stack) \/ out # Running
    BY <2>1 DEF LoopInv, InBody
  <2>2. CASE ~(i < Len(stack)) /\ out = Running
    BY <1>2, <1>3, <2>2 DEF InBody, Top, IsLoop
  <2> QED BY <2>1, <2>2
<1> QED BY <1>3 DEF LoopInv, FrameOK, ForOK, RangeOK, InBody, IsLoop

LEMMA LoopInvEmpty ==
  ASSUME stack' = <<>>
  PROVE  LoopInv'
<1>1. stack' \in Seq({}) /\ Len(stack') = 0
  OBVIOUS
<1> QED BY <1>1 DEF LoopInv

\* The frame on top is one of them.
LEMMA TopFrame ==
  ASSUME LoopInv, stack # <<>>
  PROVE  FrameOK(Top) /\ (out # Running => InBody(Top))
<1>1. PICK S : stack \in Seq(S)
  BY DEF LoopInv
<1>2. Len(stack) \in 1..Len(stack)
  BY <1>1
<1> QED BY <1>2 DEF LoopInv, Top

\* Blocks and ifs are no loops, and a loop begins with no round behind it.
LEMMA NewFrames ==
  /\ \A b : FrameOK(BlockFrame(b)) /\ InBody(BlockFrame(b))
  /\ \A st : FrameOK(IfFrame(st)) /\ FrameOK(ForFrame(st)) /\ FrameOK(RangeFrame(st))
<1>1. ASSUME NEW b PROVE FrameOK(BlockFrame(b)) /\ InBody(BlockFrame(b))
  BY DEF BlockFrame, FrameOK, InBody, IsLoop
<1>2. ASSUME NEW st PROVE FrameOK(IfFrame(st)) /\ FrameOK(ForFrame(st)) /\ FrameOK(RangeFrame(st))
  BY DEF IfFrame, ForFrame, RangeFrame, FrameOK, ForOK, RangeOK
<1> QED BY <1>1, <1>2

\* What the steps of a loop do to its frame.
LEMMA ForSteps ==
  ASSUME NEW f, f.kind = "for", ForOK(f)
  PROVE  /\ f.pc = "init" => \A n \in 0..MaxRounds : FrameOK([f EXCEPT !.pc = "test", !.want = n])
         /\ f.pc = "test" /\ Holds(f) =>
              /\ FrameOK([f EXCEPT !.pc = "body", !.count = @ + 1])
              /\ InBody([f EXCEPT !.pc = "body", !.count = @ + 1])
         /\ f.pc = "body" => FrameOK([f EXCEPT !.pc = "post"])
         /\ f.pc = "post" => FrameOK([f EXCEPT !.pc = "test", !.posts = @ + 1])
<1> USE CapAssumption DEF ForOK, FrameOK, InBody
<1>1. ASSUME f.pc = "init", NEW n \in 0..MaxRounds PROVE FrameOK([f EXCEPT !.pc = "test", !.want = n])
  BY <1>1
<1>2. ASSUME f.pc = "test", Holds(f)
      PROVE  /\ FrameOK([f EXCEPT !.pc = "body", !.count = @ + 1])
             /\ InBody([f EXCEPT !.pc = "body", !.count = @ + 1])
  BY <1>2 DEF Holds
<1>3. ASSUME f.pc = "body" PROVE FrameOK([f EXCEPT !.pc = "post"])
  BY <1>3
<1>4. ASSUME f.pc = "post" PROVE FrameOK([f EXCEPT !.pc = "test", !.posts = @ + 1])
  BY <1>4
<1> QED BY <1>1, <1>2, <1>3, <1>4

LEMMA RangeSteps ==
  ASSUME NEW f, f.kind = "range", RangeOK(f)
  PROVE  /\ f.pc = "init" => \A n \in 0..MaxRounds : FrameOK([f EXCEPT !.pc = "next", !.want = n])
         /\ f.pc = "next" /\ f.count < f.want =>
              /\ FrameOK([f EXCEPT !.pc = "body", !.count = @ + 1])
              /\ InBody([f EXCEPT !.pc = "body", !.count = @ + 1])
         /\ f.pc = "body" => FrameOK([f EXCEPT !.pc = "next"])
<1> USE CapAssumption DEF RangeOK, FrameOK, InBody
<1>1. ASSUME f.pc = "init", NEW n \in 0..MaxRounds PROVE FrameOK([f EXCEPT !.pc = "next", !.want = n])
  BY <1>1
<1>2. ASSUME f.pc = "next", f.count < f.want
      PROVE  /\ FrameOK([f EXCEPT !.pc = "body", !.count = @ + 1])
             /\ InBody([f EXCEPT !.pc = "body", !.count = @ + 1])
  BY <1>2
<1>3. ASSUME f.pc = "body" PROVE FrameOK([f EXCEPT !.pc = "next"])
  BY <1>3
<1> QED BY <1>1, <1>2, <1>3

LEMMA InitLoop == Init => LoopInv
<1> SUFFICES ASSUME Init PROVE LoopInv
  OBVIOUS
<1>1. PICK p : stack = <<BlockFrame(p)>> /\ out = Running
  BY DEF Init
<1>2. stack \in Seq({BlockFrame(p)}) /\ Len(stack) = 1 /\ stack[1] = BlockFrame(p)
  BY <1>1
<1>3. \A i \in 1..Len(stack) : stack[i] = BlockFrame(p)
  BY <1>2
<1> QED BY <1>1, <1>2, <1>3, NewFrames DEF LoopInv

LEMMA NextLoop == LoopInv /\ [Next]_vars => LoopInv'
<1> SUFFICES ASSUME LoopInv, [Next]_vars PROVE LoopInv'
  OBVIOUS
<1>1. CASE SimpleStatement
  BY <1>1, LoopInvSame DEF SimpleStatement, TopIs, IsLoop
<1>2. CASE BreakOrContinue
  BY <1>2, LoopInvSame DEF BreakOrContinue, TopIs, IsLoop
<1>3. CASE CompoundStatement
  <2>1. stack # <<>> /\ out = Running /\ Top.kind = "block"
    BY <1>3 DEF CompoundStatement, TopIs
  <2>2. FrameOK(Top) /\ InBody(Top)
    BY <2>1 DEF FrameOK, InBody, IsLoop
  <2>3. \E st : Call(Top, IfFrame(st)) \/ Call(Top, ForFrame(st)) \/ Call(Top, RangeFrame(st))
    BY <1>3 DEF CompoundStatement
  <2> QED BY <2>1, <2>2, <2>3, LoopInvCalls, NewFrames
<1>4. CASE EndOfBlock
  <2>1. stack # <<>> /\ (stack' = Below \/ stack' = <<>>)
    BY <1>4 DEF EndOfBlock, TopIs, Leave, Panics
  <2> QED BY <2>1, LoopInvLeaves, LoopInvEmpty
<1>5. CASE BlockResumes
  <2>1. stack # <<>> /\ Top.kind = "block"
    BY <1>5 DEF BlockResumes, Answered
  <2>2. CASE stack' = Below
    BY <2>1, <2>2, LoopInvLeaves
  <2>3. CASE Replace([Top EXCEPT !.at = @ + 1]) /\ out' = Running
    <3>1. [Top EXCEPT !.at = @ + 1].kind = "block"
      BY <2>1
    <3> QED BY <2>1, <2>3, <3>1, LoopInvReplaces DEF FrameOK
  <2> QED BY <1>5, <2>2, <2>3 DEF BlockResumes, Leave
<1>6. CASE TestBranch
  <2>1. stack # <<>> /\ Top.kind = "if" /\ out = Running
    BY <1>6 DEF TestBranch, TopIs
  <2>2. CASE Replace(BlockFrame(Branch(Top.stmt, Top.at))) /\ UNCHANGED out
    BY <2>1, <2>2, LoopInvReplaces, NewFrames
  <2>3. CASE Replace([Top EXCEPT !.at = @ + 1]) /\ UNCHANGED out
    <3>1. [Top EXCEPT !.at = @ + 1].kind = "if"
      BY <2>1
    <3> QED BY <2>1, <2>3, <3>1, LoopInvReplaces DEF FrameOK
  <2>4. CASE stack' = Below \/ stack' = <<>>
    BY <2>1, <2>4, LoopInvLeaves, LoopInvEmpty
  <2> QED BY <1>6, <2>2, <2>3, <2>4 DEF TestBranch, Leave, Panics
<1>7. CASE ElseBranch
  <2>1. stack # <<>> /\ out = Running
    BY <1>7 DEF ElseBranch, TopIs
  <2> QED BY <1>7, <2>1, LoopInvReplaces, LoopInvLeaves, NewFrames DEF ElseBranch, Leave
<1>8. CASE ForInit
  <2>1. stack # <<>> /\ out = Running /\ Top.kind = "for" /\ Top.pc = "init"
    BY <1>8 DEF ForInit, TopIs
  <2>2. ForOK(Top)
    BY <2>1, TopFrame DEF FrameOK
  <2>3. \/ \E n \in 0..MaxRounds : Replace([Top EXCEPT !.pc = "test", !.want = n]) /\ UNCHANGED out
        \/ stack' = Below
    BY <1>8 DEF ForInit, Leave
  <2> QED BY <2>1, <2>2, <2>3, ForSteps, LoopInvReplaces, LoopInvLeaves
<1>9. CASE ForCap
  BY <1>9, LoopInvLeaves DEF ForCap, TopIs, Leave
<1>10. CASE ForTest
  <2>1. stack # <<>> /\ out = Running /\ Top.kind = "for" /\ Top.pc = "test"
    BY <1>10 DEF ForTest, TopIs
  <2>2. ForOK(Top)
    BY <2>1, TopFrame DEF FrameOK
  <2>3. \/ Holds(Top) /\ Call([Top EXCEPT !.pc = "body", !.count = @ + 1], BlockFrame(Top.body))
        \/ stack' = Below \/ stack' = <<>>
    BY <1>10 DEF ForTest, Leave, Panics
  <2> QED BY <2>1, <2>2, <2>3, ForSteps, NewFrames, LoopInvCalls, LoopInvLeaves, LoopInvEmpty
<1>11. CASE ForResumes
  <2>1. stack # <<>> /\ Top.kind = "for" /\ FrameOK(Top) /\ InBody(Top)
    BY <1>11, TopFrame DEF ForResumes, Answered
  <2>2. ForOK(Top) /\ Top.pc = "body"
    BY <2>1 DEF FrameOK, InBody, IsLoop
  <2>3. \/ stack' = Below
        \/ Replace([Top EXCEPT !.pc = "post"]) /\ out' = Running
    BY <1>11 DEF ForResumes, Leave
  <2> QED BY <2>1, <2>2, <2>3, ForSteps, LoopInvReplaces, LoopInvLeaves
<1>12. CASE ForPost
  <2>1. stack # <<>> /\ out = Running /\ Top.kind = "for" /\ Top.pc = "post"
    BY <1>12 DEF ForPost, TopIs
  <2>2. ForOK(Top)
    BY <2>1, TopFrame DEF FrameOK
  <2>3. \/ stack' = Below
        \/ Replace([Top EXCEPT !.pc = "test", !.posts = @ + 1]) /\ UNCHANGED out
    BY <1>12 DEF ForPost, Leave
  <2> QED BY <2>1, <2>2, <2>3, ForSteps, LoopInvReplaces, LoopInvLeaves
<1>13. CASE RangeInit
  <2>1. stack # <<>> /\ out = Running /\ Top.kind = "range" /\ Top.pc = "init"
    BY <1>13 DEF RangeInit, TopIs
  <2>2. RangeOK(Top)
    BY <2>1, TopFrame DEF FrameOK
  <2>3. \/ \E n \in 0..MaxRounds : Replace([Top EXCEPT !.pc = "next", !.want = n]) /\ UNCHANGED out
        \/ stack' = Below \/ stack' = <<>>
    BY <1>13 DEF RangeInit, Leave, Panics
  <2> QED BY <2>1, <2>2, <2>3, RangeSteps, LoopInvReplaces, LoopInvLeaves, LoopInvEmpty
<1>14. CASE RangeNext
  <2>1. stack # <<>> /\ out = Running /\ Top.kind = "range" /\ Top.pc = "next" /\ Top.count < Top.want
    BY <1>14 DEF RangeNext, TopIs
  <2>2. RangeOK(Top)
    BY <2>1, TopFrame DEF FrameOK
  <2>3. \/ Call([Top EXCEPT !.pc = "body", !.count = @ + 1], BlockFrame(Top.body))
        \/ stack' = Below \/ stack' = <<>>
    BY <1>14 DEF RangeNext, Leave, Panics
  <2> QED BY <2>1, <2>2, <2>3, RangeSteps, NewFrames, LoopInvCalls, LoopInvLeaves, LoopInvEmpty
<1>15. CASE RangeEnd
  BY <1>15, LoopInvLeaves DEF RangeEnd, TopIs, Leave
<1>16. CASE RangeResumes
  <2>1. stack # <<>> /\ Top.kind = "range" /\ FrameOK(Top) /\ InBody(Top)
    BY <1>16, TopFrame DEF RangeResumes, Answered
  <2>2. RangeOK(Top) /\ Top.pc = "body"
    BY <2>1 DEF FrameOK, InBody, IsLoop
  <2>3. \/ stack' = Below
        \/ Replace([Top EXCEPT !.pc = "next"]) /\ out' = Running
    BY <1>16 DEF RangeResumes, Leave
  <2> QED BY <2>1, <2>2, <2>3, RangeSteps, LoopInvReplaces, LoopInvLeaves
<1>17. CASE Finish
  BY <1>17, LoopInvEmpty DEF Finish
<1>18. CASE UNCHANGED vars
  BY <1>18, LoopInvSame DEF vars
<1> QED
  BY <1>1, <1>2, <1>3, <1>4, <1>5, <1>6, <1>7, <1>8, <1>9, <1>10, <1>11, <1>12,
     <1>13, <1>14, <1>15, <1>16, <1>17, <1>18 DEF Next

\* In every rule, at every step: the frames of its loops are as they should be.
THEOREM LoopInvariant == Spec => []LoopInv
<1> QED BY InitLoop, NextLoop, PTL DEF Spec

\* A loop that ends by itself is at its end, one that is stopped has run as
\* often as the cap allows.
LEMMA LoopEnds ==
  ASSUME LoopInv, Next, out = Running, stack # <<>>, IsLoop(Top)
  PROVE  /\ out' = Normal => Top.count = Top.want
         /\ out' = Failure("cap") =>
              Top.want > (IF Top.kind = "for" THEN MaxExecuteNum - 1 ELSE MaxExecuteNum)
<1>0. /\ Running # Normal /\ Panic # Normal /\ Failure("error") # Normal /\ Failure("cap") # Normal
      /\ Running # Failure("cap") /\ Panic # Failure("cap") /\ Failure("error") # Failure("cap")
  BY DEF Running, Normal, Failure, Panic, Outcome
<1> USE <1>0
<1>1. Top.kind = "for" => ForOK(Top)
  BY TopFrame DEF FrameOK
<1>2. Top.kind = "range" => RangeOK(Top)
  BY TopFrame DEF FrameOK
<1>3. CASE ForCap
  <2>1. Top.kind = "for" /\ Top.pc = "test" /\ Top.count + 1 > MaxExecuteNum /\ out' = Failure("cap")
    BY <1>3 DEF ForCap, TopIs, Leave
  <2> QED BY <1>1, <2>1, CapAssumption DEF ForOK
<1>4. CASE ForTest
  <2>1. Top.kind = "for" /\ out' # Failure("cap") /\ (out' = Normal => ~Holds(Top))
    BY <1>4 DEF ForTest, TopIs, Leave, Call, Panics
  <2> QED BY <1>1, <2>1, CapAssumption DEF ForOK, Holds
<1>5. CASE RangeNext
  <2>1. /\ Top.kind = "range" /\ out' # Normal /\ Top.count < Top.want
        /\ out' = Failure("cap") => Top.count + 1 > MaxExecuteNum
    <3>1. [Top EXCEPT !.pc = "body", !.count = @ + 1].count = Top.count + 1
      BY <1>2, <1>5 DEF RangeNext, TopIs, RangeOK
    <3> QED BY <1>5, <3>1 DEF RangeNext, TopIs, Leave, Call, Panics
  <2> QED BY <1>2, <2>1, CapAssumption DEF RangeOK
<1>6. CASE RangeEnd
  <2>1. Top.kind = "range" /\ Top.count >= Top.want /\ out' = Normal
    BY <1>6 DEF RangeEnd, TopIs, Leave
  <2> QED BY <1>2, <2>1 DEF RangeOK
<1>7. CASE ForInit \/ ForPost \/ RangeInit
  <2>1. out' = out \/ out' = Failure("error") \/ out' = Panic
    BY <1>7 DEF ForInit, ForPost, RangeInit, Leave, Panics
  <2> QED BY <2>1
<1>8. ~(SimpleStatement \/ BreakOrContinue \/ CompoundStatement \/ EndOfBlock \/ TestBranch \/ ElseBranch)
  BY DEF SimpleStatement, BreakOrContinue, CompoundStatement, EndOfBlock, TestBranch, ElseBranch,
         TopIs, IsLoop
<1>9. ~(BlockResumes \/ ForResumes \/ RangeResumes \/ Finish)
  BY DEF BlockResumes, ForResumes, RangeResumes, Answered, Finish
<1> QED BY <1>3, <1>4, <1>5, <1>6, <1>7, <1>8, <1>9 DEF Next

\* However many rounds a loop wants and wherever it stands: it runs them all,
\* with one step each, or it is stopped because it wanted more than the cap.
THEOREM LoopsRun == Spec => LoopsRunTheirRounds
<1>1. LoopInv => StepPerRound
  BY DEF LoopInv, StepPerRound, FrameOK, ForOK
<1>2. LoopInv /\ [Next]_vars =>
        [StepPerRound /\ (out = Running /\ stack # <<>> /\ IsLoop(Top) /\ stack' = Below =>
           /\ out' = Normal => Top.count = Top.want
           /\ out' = Failure("cap") =>
                Top.want > (IF Top.kind = "for" THEN MaxExecuteNum - 1 ELSE MaxExecuteNum))]_vars
  BY <1>1, LoopEnds
<1> QED BY <1>2, LoopInvariant, PTL DEF Spec, LoopsRunTheirRounds

-----------------------------------------------------------------------------
\* A step that hands on no sentinel keeps the sentinels in their loops.
LEMMA NoFlag ==
  ASSUME FlagStaysInLoop, inLoop' = inLoop, result' = result, out'.err \notin Flags
  PROVE  FlagStaysInLoop'
BY DEF FlagStaysInLoop

LEMMA NextFlag == LoopInv /\ FlagStaysInLoop /\ [Next]_vars => FlagStaysInLoop'
<1> SUFFICES ASSUME LoopInv, FlagStaysInLoop, [Next]_vars PROVE FlagStaysInLoop'
  OBVIOUS
<1>0. /\ Running.err = "none" /\ Normal.err = "none" /\ Panic.err = "panic"
      /\ \A v, e, b : Outcome(v, e, b).err = e
      /\ \A e : Failure(e).err = e
      /\ \A v : Outcome(v, "none", TRUE).err = "none"
      /\ "none" \notin Flags /\ "error" \notin Flags /\ "cap" \notin Flags /\ "panic" \notin Flags
  BY DEF Running, Normal, Panic, Outcome, Failure, Flags
<1>1. CASE SimpleStatement
  BY <1>0, <1>1, NoFlag DEF SimpleStatement, Quiet, Fails
<1>2. CASE BreakOrContinue
  <2>1. result' = Running /\ stack' = stack /\ inLoop' = (\E i \in 1..Len(stack) : IsLoop(stack[i]))
    BY <1>2 DEF BreakOrContinue, TopIs
  <2> QED BY <1>0, <2>1 DEF FlagStaysInLoop, IsLoop
<1>3. CASE CompoundStatement
  BY <1>0, <1>3, NoFlag DEF CompoundStatement, TopIs, Call, Quiet
<1>4. CASE EndOfBlock
  <2>1. /\ result' = result /\ inLoop' = inLoop
        /\ \/ out' = Normal \/ out' = Panic
           \/ \E v, e, b : out' = Outcome(v, e, b) /\ e \in {"none", "error"}
    BY <1>4 DEF EndOfBlock, Leave, Quiet, Fails, Panics
  <2> QED BY <1>0, <2>1, NoFlag
<1>5. CASE BlockResumes
  <2>1. stack # <<>> /\ Top.kind = "block" /\ result' = result /\ inLoop' = inLoop
    BY <1>5 DEF BlockResumes, Answered, Quiet
  <2>2. CASE out.err # "none" /\ Leave(Failure(out.err))
    <3>1. CASE inLoop /\ out.err \in Flags
      <4>1. PICK S : stack \in Seq(S)
        BY DEF LoopInv
      <4>2. PICK i \in 1..Len(stack) : IsLoop(stack[i])
        BY <3>1 DEF FlagStaysInLoop
      <4>3. Len(stack) \in Nat \ {0} /\ i # Len(stack)
        BY <2>1, <4>1, <4>2 DEF Top, IsLoop
      <4>4. i \in 1..(Len(stack) - 1)
        BY <4>3
      <4>5. i \in 1..Len(stack') /\ stack'[i] = stack[i]
        BY <2>1, <2>2, <4>1, <4>4, Popped DEF Leave
      <4> QED BY <2>1, <4>2, <4>5 DEF FlagStaysInLoop, IsLoop
    <3>2. CASE ~inLoop
      BY <2>1, <3>2 DEF FlagStaysInLoop
    <3>3. CASE out.err \notin Flags
      BY <1>0, <2>1, <2>2, <3>3, NoFlag DEF Leave
    <3> QED BY <3>1, <3>2, <3>3
  <2>3. CASE out' = Running \/ out' = Outcome(out.v, "none", TRUE)
    BY <1>0, <2>1, <2>3, NoFlag
  <2> QED BY <1>5, <2>2, <2>3 DEF BlockResumes, Leave
<1>6. CASE TestBranch \/ ElseBranch \/ ForInit \/ ForCap
  BY <1>0, <1>6, NoFlag
     DEF TestBranch, ElseBranch, ForInit, ForCap, TopIs, Leave, Quiet, Fails, Panics
<1>7. CASE ForTest \/ ForPost
  BY <1>0, <1>7, NoFlag DEF ForTest, ForPost, TopIs, Leave, Call, Quiet, Fails, Panics
<1>8. CASE ForResumes
  <2>1. result' = result /\ inLoop' = inLoop
    BY <1>8 DEF ForResumes, Quiet
  <2>2. out'.err \notin Flags
    BY <1>0, <1>8 DEF ForResumes, Leave
  <2> QED BY <2>1, <2>2, NoFlag
<1>9. CASE RangeInit \/ RangeNext \/ RangeEnd
  BY <1>0, <1>9, NoFlag
     DEF RangeInit, RangeNext, RangeEnd, TopIs, Leave, Call, Quiet, Fails, Panics
<1>10. CASE RangeResumes
  <2>1. result' = result /\ inLoop' = inLoop
    BY <1>10 DEF RangeResumes, Quiet
  <2>2. out'.err \notin Flags
    BY <1>0, <1>10 DEF RangeResumes, Leave
  <2> QED BY <2>1, <2>2, NoFlag
<1>11. CASE Finish
  <2>1. /\ \A i \in 1..Len(stack) : FALSE
        /\ result' = out /\ out' = Running /\ inLoop' = inLoop
    BY <1>11 DEF Finish
  <2> QED BY <1>0, <2>1 DEF FlagStaysInLoop
<1>12. CASE UNCHANGED vars
  BY <1>12 DEF vars, FlagStaysInLoop, IsLoop
<1> QED
  BY <1>1, <1>2, <1>3, <1>4, <1>5, <1>6, <1>7, <1>8, <1>9, <1>10, <1>11, <1>12 DEF Next

\* However deep the loops and branches: a break or continue raised inside a
\* loop is never what the rule reports.
THEOREM FlagsStay == Spec => []FlagStaysInLoop
<1>1. Init => FlagStaysInLoop
  BY DEF Init, FlagStaysInLoop
<1> QED BY <1>1, NextFlag, LoopInvariant, PTL DEF Spec
=============================================================================
