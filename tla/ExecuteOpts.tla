----------------------------- MODULE ExecuteOpts -----------------------------
(***************************************************************************)
(* One run of Gengine.ExecuteOpts (engine/exec_opts.go, concurrency.go):   *)
(* the options are checked and resolved to rules, the mode lays the rules  *)
(* out in phases, and the phases run one after the other, each serially or *)
(* with a goroutine per rule.  Meanwhile the context may be cancelled and  *)
(* the StopTag be set.                                                     *)
(*                                                                         *)
(* What a rule computes is left out; its outcome, as RuleEntity.Execute    *)
(* and the deferred recover report it, is any of Outcomes.  An occurrence  *)
(* <<p, i>> is the i-th rule of phase p: a rule listed twice occurs twice. *)
(***************************************************************************)
EXTENDS Integers, Sequences, FiniteSets

CONSTANTS
  Rules,      \* the rules of the knowledge context
  SortRules,  \* the same rules, as the builder sorted them
  Salience,   \* their saliences
  Options,    \* the ExecOptions callers may pass
  MaxInt      \* the largest int; N + M wraps beyond it

ASSUME SortedRules ==
  /\ SortRules \in Seq(Rules)
  /\ Salience \in [Rules -> Int]
  /\ \A i, j \in DOMAIN SortRules : i < j => Salience[SortRules[i]] >= Salience[SortRules[j]]

VARIABLES
  opts,      \* the ExecOptions of this run
  pc,        \* where the calling goroutine is
  plan,      \* the phases
  ph,        \* the phase it has reached
  next,      \* the rule of that phase it has reached
  launched,  \* occurrences whose goroutine has not yet looked at the context
  running,   \* occurrences whose rule is being executed
  done,      \* occurrences whose rule has ended
  failed,    \* those that ended with an error or a panic
  errs,      \* the errors collected so far: occurrences, or ctxErr
  err,       \* what ExecuteOpts returned: the errors it names; {} is nil
  result,    \* the rules in returnResult
  cancelled, \* ctx.Err() is not nil
  gctx,      \* gctx.Err() is not nil, for the errgroup's context derived from ctx
  sTag       \* StopTag.StopTag

(* The errors that are not a rule's, written like occurrences *)
ctxErr == <<0, 0>>
optsErr == <<0, 1>>

control == <<opts, plan>>
flags == <<cancelled, gctx, sTag>>
vars == <<control, pc, ph, next, launched, running, done, failed, errs, err, result, flags>>

-----------------------------------------------------------------------------
(* Resolving the options *)

Known(names) == SelectSeq(names, LAMBDA n : n \in Rules)

(* Options are ints, flags, and slices of names; what is known of such a    *)
(* slice is a slice of rules.                                              *)
ASSUME OptionsAssumption ==
  /\ MaxInt \in Nat
  /\ \A o \in Options :
       /\ o.N \in -(MaxInt + 1) .. MaxInt /\ o.M \in -(MaxInt + 1) .. MaxInt
       /\ o.ContinueOnError \in BOOLEAN /\ o.StopTag \in BOOLEAN
       /\ Known(o.Selected) \in Seq(Rules)
       /\ Len(o.DAG) \in Nat /\ DOMAIN o.DAG = 1 .. Len(o.DAG)
       /\ \A i \in DOMAIN o.DAG : Known(o.DAG[i]) \in Seq(Rules)

(* sort.SliceStable by descending salience: the position of the i-th rule *)
Rank(s, i) ==
  Cardinality({j \in DOMAIN s : \/ Salience[s[j]] > Salience[s[i]]
                                \/ Salience[s[j]] = Salience[s[i]] /\ j <= i})
StableSort(s) == [k \in DOMAIN s |-> s[CHOOSE i \in DOMAIN s : Rank(s, i) = k]]

(* Mutant: the selected rules are not sorted *)
resolveRulesAsGiven(o) ==
  IF o.Selected = <<>> THEN SortRules ELSE Known(o.Selected)

resolveRules(o) ==
  IF o.Selected = <<>> THEN SortRules
  ELSE IF o.PreserveOrder THEN Known(o.Selected) ELSE StableSort(Known(o.Selected))

NModes == {"NSortMConcurrent", "NConcurrentMSort", "NConcurrentMConcurrent"}
Modes == NModes \cup {"Sort", "Concurrent", "Mix", "InverseMix", "DAG"}

Wrap(i) == ((i + MaxInt + 1) % (2 * (MaxInt + 1))) - (MaxInt + 1)

(* The options ExecuteOpts turns down with an error.  N + M is an int sum. *)
Rejected(o) ==
  /\ o.Mode # "DAG"
  /\ \/ resolveRules(o) = <<>>
     \/ o.Mode \notin Modes
     \/ o.Mode \in NModes /\ (o.N <= 0 \/ o.M <= 0 \/ Wrap(o.N + o.M) > Len(resolveRules(o)))

-----------------------------------------------------------------------------
(* The phases of each mode.                                                *)
(*   failFast: an error of the phase ends the run.                         *)
(*   onCancel: what a serial phase does when it finds the context done:    *)
(*             it breaks off, or ends the run; a concurrent phase looks at *)
(*             the context beforehand only if "return".                    *)
(*   stag:     the StopTag is honoured.                                    *)
(*   join:     the error that ends the run is joined to earlier ones.      *)

Serial(rules, failFast, onCancel, stag, join) ==
  [conc |-> FALSE, rules |-> rules, failFast |-> failFast, onCancel |-> onCancel,
   stag |-> stag, join |-> join]
Concurrent(rules, failFast, onCancel) ==
  [conc |-> TRUE, rules |-> rules, failFast |-> failFast, onCancel |-> onCancel,
   stag |-> FALSE, join |-> FALSE]

execSort(rules, cont, stag) == <<Serial(rules, ~cont, "break", stag, FALSE)>>

execMix(rules, stag) ==
  <<Serial(<<Head(rules)>>, TRUE, "return", stag, FALSE), Concurrent(Tail(rules), FALSE, "none")>>

(* Mutant: the errors of the concurrent rules are not joined *)
execInverseMixNoJoin(rules) ==
  LET n == Len(rules) IN
  IF n <= 2 THEN execSort(rules, TRUE, FALSE)
  ELSE <<Concurrent(SubSeq(rules, 1, n - 1), FALSE, "none"),
         Serial(<<rules[n]>>, TRUE, "return", FALSE, FALSE)>>

execInverseMix(rules) ==
  LET n == Len(rules) IN
  IF n <= 2 THEN execSort(rules, TRUE, FALSE)
  ELSE <<Concurrent(SubSeq(rules, 1, n - 1), FALSE, "none"),
         Serial(<<rules[n]>>, TRUE, "return", FALSE, TRUE)>>

execDAG(dag) == [i \in DOMAIN dag |-> Concurrent(Known(dag[i]), TRUE, "return")]

execNSortM(nRules, mRules, cont) ==
  <<Serial(nRules, ~cont, "break", FALSE, FALSE), Concurrent(mRules, FALSE, "none")>>

execNConcurrentM(nRules, mRules, cont, mConcurrent) ==
  <<Concurrent(nRules, ~cont, "none"),
    IF mConcurrent THEN Concurrent(mRules, FALSE, "none")
                   ELSE Serial(mRules, ~cont, "break", FALSE, FALSE)>>

Plan(o) ==
  LET rules == resolveRules(o)
      nRules == SubSeq(rules, 1, o.N)
      mRules == SubSeq(rules, o.N + 1, o.N + o.M)
  IN  CASE o.Mode = "DAG" -> execDAG(o.DAG)
        [] o.Mode = "Sort" -> execSort(rules, o.ContinueOnError, o.StopTag)
        [] o.Mode = "Concurrent" -> <<Concurrent(rules, FALSE, "none")>>
        [] o.Mode = "Mix" -> execMix(rules, o.StopTag)
        [] o.Mode = "InverseMix" -> execInverseMix(rules)
        [] o.Mode = "NSortMConcurrent" -> execNSortM(nRules, mRules, o.ContinueOnError)
        [] o.Mode = "NConcurrentMSort" -> execNConcurrentM(nRules, mRules, o.ContinueOnError, FALSE)
        [] o.Mode = "NConcurrentMConcurrent" -> execNConcurrentM(nRules, mRules, o.ContinueOnError, TRUE)

(* rules[:N] or rules[N:N+M] panics *)
SliceOutOfRange(o) ==
  o.Mode \in NModes /\ (o.N > Len(resolveRules(o)) \/ Wrap(o.N + o.M) \notin o.N .. Len(resolveRules(o)))

-----------------------------------------------------------------------------
Init ==
  /\ opts \in Options
  /\ pc = "start"
  /\ plan = <<>>
  /\ ph = 1 /\ next = 1
  /\ launched = {} /\ running = {} /\ done = {} /\ failed = {}
  /\ errs = {} /\ err = {} /\ result = {}
  /\ cancelled \in BOOLEAN
  /\ gctx = FALSE
  /\ sTag = FALSE

Return(e) == pc' = "returned" /\ err' = e

position == <<ph, next, launched, running, done, failed, errs, result>>

Reject ==
  /\ pc = "start" /\ Rejected(opts)
  /\ Return({optsErr})
  /\ UNCHANGED <<control, position, flags>>

(* The phases are laid out; rules[:N] or rules[N:N+M] may be out of range. *)
Start ==
  /\ pc = "start" /\ ~Rejected(opts)
  /\ IF SliceOutOfRange(opts) THEN pc' = "panicked" /\ UNCHANGED plan
                              ELSE pc' = "enter" /\ plan' = Plan(opts)
  /\ UNCHANGED <<opts, position, err, flags>>

Phase == plan[ph]
Occurrence == <<ph, next>>
Rule(x) == plan[x[1]].rules[x[2]]

NextPhase == pc' = "enter" /\ ph' = ph + 1 /\ next' = 1

(* A phase begins.  Only a layer of a DAG looks at the context beforehand; *)
(* an empty batch is nothing to do, whatever the context.                  *)
EnterCancelled ==
  /\ pc = "enter" /\ ph <= Len(plan)
  /\ Phase.conc /\ Phase.onCancel = "return" /\ cancelled
  /\ Return(errs \cup {ctxErr})
  /\ UNCHANGED <<control, position, flags>>

EnterEmpty ==
  /\ pc = "enter" /\ ph <= Len(plan)
  /\ Phase.conc /\ ~(Phase.onCancel = "return" /\ cancelled)
  /\ Phase.rules = <<>>
  /\ NextPhase
  /\ UNCHANGED <<control, launched, running, done, failed, errs, err, result, flags>>

EnterConcurrent ==
  /\ pc = "enter" /\ ph <= Len(plan)
  /\ Phase.conc /\ ~(Phase.onCancel = "return" /\ cancelled)
  /\ Phase.rules # <<>>
  /\ pc' = "launch"
  /\ gctx' = cancelled
  /\ UNCHANGED <<control, position, err, cancelled, sTag>>

EnterSerial ==
  /\ pc = "enter" /\ ph <= Len(plan)
  /\ ~Phase.conc
  /\ pc' = "serial"
  /\ UNCHANGED <<control, position, err, flags>>

End ==
  /\ pc = "enter" /\ ph > Len(plan)
  /\ Return(errs)
  /\ UNCHANGED <<control, ph, next, launched, running, done, failed, errs, result, flags>>

-----------------------------------------------------------------------------
(* How a rule ends.  "errorValue" is a return statement whose expression   *)
(* fails: ReturnStatement.Evaluate reports an error and a value.           *)
Outcomes == {"nothing", "value", "error", "errorValue", "panic"}
HasValue(out) == out \in {"value", "errorValue"}
HasError(out) == out \in {"error", "errorValue", "panic"}

(* The occurrence x ends with outcome out. *)
EndRule(x, out) ==
  /\ running' = running \ {x}
  /\ done' = done \cup {x}
  /\ failed' = IF HasError(out) THEN failed \cup {x} ELSE failed
  /\ result' = IF HasValue(out) THEN result \cup {Rule(x)} ELSE result

(* Serial phases *)

SerialStart ==
  /\ pc = "serial" /\ next <= Len(Phase.rules)
  /\ ~cancelled
  /\ pc' = "execute"
  /\ running' = running \cup {Occurrence}
  /\ UNCHANGED <<control, ph, next, launched, done, failed, errs, err, result, flags>>

SerialCancelled ==
  /\ pc = "serial" /\ next <= Len(Phase.rules)
  /\ cancelled
  /\ IF Phase.onCancel = "break"
       THEN NextPhase /\ errs' = errs \cup {ctxErr} /\ UNCHANGED err
       ELSE Return(IF Phase.join THEN errs \cup {ctxErr} ELSE {ctxErr}) /\ UNCHANGED <<ph, next, errs>>
  /\ UNCHANGED <<control, launched, running, done, failed, result, flags>>

(* Mutant: a failure does not end a fail-fast phase *)
SerialEndGoOn(out) ==
  /\ pc = "execute" /\ out # "panic"
  /\ EndRule(Occurrence, out)
  /\ errs' = IF HasError(out) THEN errs \cup {Occurrence} ELSE errs
  /\ CASE Phase.stag /\ sTag -> Return(errs') /\ UNCHANGED <<ph, next>>
       [] ~(Phase.stag /\ sTag) -> pc' = "serial" /\ next' = next + 1 /\ UNCHANGED <<ph, err>>
  /\ UNCHANGED <<control, launched, flags>>

(* Mutant: a failed rule is tried again *)
SerialEndRetry(out) ==
  /\ pc = "execute" /\ out # "panic"
  /\ EndRule(Occurrence, out)
  /\ IF HasError(out) /\ Phase.failFast
       THEN /\ Return(IF Phase.join THEN errs \cup {Occurrence} ELSE {Occurrence})
            /\ UNCHANGED <<ph, next, errs>>
       ELSE /\ errs' = IF HasError(out) THEN errs \cup {Occurrence} ELSE errs
            /\ IF Phase.stag /\ sTag
                 THEN Return(errs') /\ UNCHANGED <<ph, next>>
                 ELSE pc' = "serial" /\ next' = (IF HasError(out) THEN next ELSE next + 1) /\ UNCHANGED <<ph, err>>
  /\ UNCHANGED <<control, launched, flags>>

(* The error is dealt with before the StopTag is looked at. *)
SerialEnd(out) ==
  /\ pc = "execute" /\ out # "panic"
  /\ EndRule(Occurrence, out)
  /\ IF HasError(out) /\ Phase.failFast
       THEN /\ Return(IF Phase.join THEN errs \cup {Occurrence} ELSE {Occurrence})
            /\ UNCHANGED <<ph, next, errs>>
       ELSE /\ errs' = IF HasError(out) THEN errs \cup {Occurrence} ELSE errs
            /\ IF Phase.stag /\ sTag
                 THEN Return(errs') /\ UNCHANGED <<ph, next>>
                 ELSE pc' = "serial" /\ next' = next + 1 /\ UNCHANGED <<ph, err>>
  /\ UNCHANGED <<control, launched, flags>>

(* Nobody recovers the panic of a serial rule: it unwinds ExecuteOpts. *)
SerialPanic ==
  /\ pc = "execute"
  /\ EndRule(Occurrence, "panic")
  /\ pc' = "panicked"
  /\ UNCHANGED <<control, ph, next, launched, errs, err, flags>>

SerialDone ==
  /\ pc = "serial" /\ next > Len(Phase.rules)
  /\ NextPhase
  /\ UNCHANGED <<control, launched, running, done, failed, errs, err, result, flags>>

-----------------------------------------------------------------------------
(* Concurrent phases: runRulesConcurrently.  The batch looks at the       *)
(* context of its errgroup while it runs, and at ctx after the wait.      *)

Launch ==
  /\ pc = "launch" /\ next <= Len(Phase.rules)
  /\ ~gctx
  /\ launched' = launched \cup {Occurrence}
  /\ next' = next + 1
  /\ UNCHANGED <<control, pc, ph, running, done, failed, errs, err, result, flags>>

(* Mutant: the batch is not waited for *)
LaunchDoneNoWait ==
  /\ pc = "launch" /\ (next > Len(Phase.rules) \/ gctx)
  /\ NextPhase
  /\ UNCHANGED <<control, launched, running, done, failed, errs, err, result, flags>>

LaunchDone ==
  /\ pc = "launch" /\ (next > Len(Phase.rules) \/ gctx)
  /\ pc' = "wait"
  /\ UNCHANGED <<control, ph, next, launched, running, done, failed, errs, err, result, flags>>

(* The goroutine looks at gctx once more before it runs the rule. *)
GoStart(x) ==
  /\ x \in launched
  /\ launched' = launched \ {x}
  /\ running' = IF gctx THEN running ELSE running \cup {x}
  /\ UNCHANGED <<control, pc, ph, next, done, failed, errs, err, result, flags>>

GoEnd(x, out) ==
  /\ x \in running /\ plan[x[1]].conc
  /\ EndRule(x, out)
  /\ errs' = IF HasError(out) THEN errs \cup {x} ELSE errs
  /\ UNCHANGED <<control, pc, ph, next, launched, err, flags>>

(* Mutant: the context is not looked at again after the wait *)
WaitNoCtx ==
  /\ pc = "wait"
  /\ launched = {} /\ running = {}
  /\ UNCHANGED errs
  /\ IF Phase.failFast /\ errs # {} THEN Return(errs) /\ UNCHANGED <<ph, next>>
                                    ELSE NextPhase /\ UNCHANGED err
  /\ UNCHANGED <<control, launched, running, done, failed, result, flags>>

(* Mutant: goroutines that have not started are not waited for *)
WaitRunningOnly ==
  /\ pc = "wait"
  /\ running = {}
  /\ errs' = IF cancelled THEN errs \cup {ctxErr} ELSE errs
  /\ IF Phase.failFast /\ errs' # {} THEN Return(errs') /\ UNCHANGED <<ph, next>>
                                     ELSE NextPhase /\ UNCHANGED err
  /\ UNCHANGED <<control, launched, running, done, failed, result, flags>>

Wait ==
  /\ pc = "wait"
  /\ launched = {} /\ running = {}
  /\ errs' = IF cancelled THEN errs \cup {ctxErr} ELSE errs
  /\ IF Phase.failFast /\ errs' # {} THEN Return(errs') /\ UNCHANGED <<ph, next>>
                                     ELSE NextPhase /\ UNCHANGED err
  /\ UNCHANGED <<control, launched, running, done, failed, result, flags>>

-----------------------------------------------------------------------------
Ended == pc \in {"returned", "panicked"}

(* The owner of the context cancels it, at any moment. *)
Cancel ==
  /\ ~Ended /\ ~cancelled
  /\ cancelled' = TRUE
  /\ UNCHANGED <<control, pc, ph, next, launched, running, done, failed, errs, err, result, gctx, sTag>>

(* A derived context learns of it later than those who look at ctx. *)
Propagate ==
  /\ pc \in {"launch", "wait"} /\ cancelled /\ ~gctx
  /\ gctx' = TRUE
  /\ UNCHANGED <<control, pc, ph, next, launched, running, done, failed, errs, err, result, cancelled, sTag>>

(* A rule, or the caller, sets the StopTag. *)
SetStopTag ==
  /\ opts.StopTag /\ ~Ended /\ ~sTag
  /\ sTag' = TRUE
  /\ UNCHANGED <<control, pc, ph, next, launched, running, done, failed, errs, err, result, cancelled, gctx>>

Caller ==
  \/ Reject \/ Start
  \/ EnterCancelled \/ EnterEmpty \/ EnterConcurrent \/ EnterSerial \/ End
  \/ SerialStart \/ SerialCancelled \/ (\E out \in Outcomes : SerialEnd(out)) \/ SerialPanic \/ SerialDone
  \/ Launch \/ LaunchDone \/ Wait

Goroutine ==
  \/ \E x \in launched : GoStart(x)
  \/ \E x \in running : \E out \in Outcomes : GoEnd(x, out)

Next == Caller \/ Goroutine \/ Cancel \/ Propagate \/ SetStopTag

Safety == Init /\ [][Next]_vars

(* The scheduler runs what can run, and rules end. *)
Spec == Safety /\ WF_vars(Caller) /\ WF_vars(Goroutine)

-----------------------------------------------------------------------------
Occurrences == UNION {{<<p, i>> : i \in DOMAIN plan[p].rules} : p \in DOMAIN plan}

(* Nothing runs behind the caller's back: when ExecuteOpts has returned or *)
(* panicked, no goroutine of it is left to touch the DataContext or the    *)
(* result map of an instance the pool is about to hand to somebody else.   *)
NoRuleOutlivesTheCall == Ended => launched = {} /\ running = {}

(* Phases do not overlap ("each layer runs its rule names concurrently     *)
(* before moving to the next layer"), and a serial phase runs one rule.    *)
PhasesDoNotOverlap ==
  /\ \A x, y \in launched \cup running : x[1] = y[1] /\ (plan[x[1]].conc \/ x = y)
  /\ \A x \in launched \cup running, y \in done : y[1] <= x[1]

(* How a run ends tells the caller what happened.  A nil error means that  *)
(* every rule ran to its end and none failed, cancelled or not, unless the *)
(* StopTag cut the run short where it is "honoured (Sort, Mix)".  Whatever *)
(* rule failed is named in the error: "collecting all rule errors so the   *)
(* caller receives the full picture".  And only a rule panics, or batch    *)
(* sizes whose sum wraps and so passes for small enough.                   *)
OutcomeIsHonest ==
  /\ pc = "returned" /\ err = {} =>
       failed = {} /\ (done = Occurrences \/ (sTag /\ opts.Mode \in {"Sort", "Mix"}))
  /\ pc = "returned" => failed \subseteq err
  /\ pc = "panicked" => failed # {} \/ Wrap(opts.N + opts.M) # opts.N + opts.M

(* Rules start in the order of their salience, unless the caller gave an   *)
(* order of its own: while a rule runs, every rule of higher salience has  *)
(* ended, or belongs to the same batch.                                    *)
HigherSalienceFirst ==
  opts.Mode # "DAG" /\ ~opts.PreserveOrder =>
    \A x \in running, y \in Occurrences :
      Salience[Rule(y)] > Salience[Rule(x)] =>
        y \in done \/ (y[1] = x[1] /\ plan[x[1]].conc)

(* After a failure in a fail-fast phase no rule is started any more; the   *)
(* rules of the same concurrent batch are not called off.                  *)
FailFast ==
  [][\A x \in failed, y \in running' \ running :
       plan[x[1]].failFast => plan[x[1]].conc /\ y[1] = x[1]]_vars

(* Every execution ends, cancelled or not. *)
ExecutionEnds == <>Ended
=============================================================================
